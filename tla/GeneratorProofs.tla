-------------------------- MODULE GeneratorProofs --------------------------
(***************************************************************************)
(* Proofs about Generator for all schemas, renderings, edits and           *)
(* directories to start from.  RunInv says what a run in progress has on   *)
(* disk: every file it renders is still to be written, or there, or open.  *)
(*                                                                         *)
(* From there on about Codegen: what a run that reports success left is    *)
(* what its schema renders (Settled, OutputIs), so what the output and the *)
(* clients built from it promise follows from what Adapter and SourceFiles *)
(* make of any schema that is compiled and not refused.                    *)
(***************************************************************************)
EXTENDS Codegen, PermissionTreeProofs

\* What the current run has yet to write, this function's files and later ones'.
Left ==
  Listed(todo)
    \cup (IF phase = "objects" THEN {Rendering[text].schema} ELSE {})
    \cup (IF phase \in {"objects", "schema"} /\ emitOPA THEN OPA(text) ELSE {})

BeingWritten(f) == open /\ f.path = Head(todo).path

TodoIsRendered == phase # "idle" => Listed(todo) \subseteq Ran

NothingSkipped ==
  phase # "idle" => \A f \in Ran : f \in Left \/ Current(f) \/ BeingWritten(f)

RunInv == TypeOK /\ TodoIsRendered /\ NothingSkipped /\ FinishedIsCurrent

-----------------------------------------------------------------------------
(* Renderings.                                                             *)

\* A run renders files of its schema, whatever its flag.
LEMMA RanIsRendered == TypeOK => Ran \subseteq Files(text)
BY DEF TypeOK, Ran, Objects, OPA, Files, FilesIn

\* Rendered files have a path and a text among those of the instance.
LEMMA FilesAreKnown ==
  ASSUME NEW s \in Schemas, NEW f \in Files(s)
  PROVE  f.path \in Paths /\ f.text \in Texts
BY DEF Paths, Texts, AllFiles

\* The objects, schema and OPA sequences consist of rendered files.
LEMMA RenderedSequences ==
  ASSUME NEW s \in Schemas
  PROVE  /\ Rendering[s].objects \in Seq(Files(s)) /\ Listed(Rendering[s].objects) = Objects(s)
         /\ << Rendering[s].schema >> \in Seq(Files(s))
         /\ Listed(<< Rendering[s].schema >>) = {Rendering[s].schema}
         /\ \A q \in Rendering[s].opa : q \in Seq(Files(s)) /\ Listed(q) = OPA(s)
<1>1. Rendering[s].schema \in Files(s)
  BY DEF Files, FilesIn
<1>2. Listed(<< Rendering[s].schema >>) = {Rendering[s].schema}
  BY DEF Listed
<1>3. Rendering[s].objects \in Seq(Files(s)) /\ Listed(Rendering[s].objects) = Objects(s)
  BY RenderingAssumption DEF Listed, Objects, Listed
<1>4. \A q \in Rendering[s].opa : q \in Seq(Files(s)) /\ Listed(q) = OPA(s)
  BY RenderingAssumption DEF Listed
<1> QED
  BY <1>1, <1>2, <1>3, <1>4

\* A sequence that is not empty consists of its head and its tail.
LEMMA HeadAndTail ==
  ASSUME NEW S, NEW q \in Seq(S), q # <<>>
  PROVE  /\ Head(q) \in S /\ Head(q) \in Listed(q) /\ Tail(q) \in Seq(S)
         /\ Listed(q) = {Head(q)} \cup Listed(Tail(q))
<1>1. Len(q) \in Nat /\ Len(q) >= 1 /\ DOMAIN q = 1 .. Len(q)
  OBVIOUS
<1>2. Head(q) = q[1] /\ Head(q) \in S /\ Head(q) \in Listed(q)
  BY <1>1 DEF Listed
<1>3. Tail(q) \in Seq(S) /\ Len(Tail(q)) = Len(q) - 1 /\ DOMAIN Tail(q) = 1 .. Len(q) - 1
  BY <1>1
<1>4. \A i \in 1 .. Len(q) - 1 : Tail(q)[i] = q[i + 1]
  BY <1>1
<1>5. Listed(Tail(q)) \subseteq Listed(q)
  BY <1>1, <1>3, <1>4 DEF Listed
<1>6. ASSUME NEW i \in DOMAIN q, i # 1 PROVE q[i] \in Listed(Tail(q))
  <2>1. i - 1 \in 1 .. Len(q) - 1 /\ (i - 1) + 1 = i
    BY <1>1, <1>6
  <2> QED
    BY <2>1, <1>3, <1>4 DEF Listed
<1> QED
  BY <1>2, <1>3, <1>5, <1>6 DEF Listed

-----------------------------------------------------------------------------
(* Types.                                                                  *)

\* The first run finds a schema and a directory of the instance.
LEMMA InitTyped == Init => TypeOK
<1> SUFFICES ASSUME Init PROVE TypeOK
  OBVIOUS
<1>1. PICK o \in Origins :
        /\ source = o.source /\ live = o.source /\ text = o.source
        /\ disk = [p \in Paths |-> IF p \in DOMAIN o.disk THEN o.disk[p] ELSE Absent]
        /\ emitOPA = FALSE /\ phase = "idle" /\ todo = <<>> /\ open = FALSE
        /\ exit = "none" /\ stops = 0
  BY DEF Init
<1>2. o.source \in Schemas
  BY OriginsAssumption
<1>3. \A p \in DOMAIN o.disk : o.disk[p] \in Texts
  BY DEF Texts
<1>4. disk \in [Paths -> Texts \cup {Absent, Partial}]
  BY <1>1, <1>3
<1>5. todo \in Seq(Files(text)) /\ stops \in 0 .. MaxStops
  BY <1>1, StopsAssumption
<1>6. source \in Schemas /\ live \in Schemas /\ text \in Schemas
  BY <1>1, <1>2
<1> QED
  BY <1>1, <1>4, <1>5, <1>6 DEF TypeOK

\* The schema that is read stays one of the instance, and what a function has
\* still to write consists of files of that schema, in every phase.
THEOREM TypeCorrect == Spec => []TypeOK
<1>1. Init => TypeOK
  BY InitTyped
<1>2. TypeOK /\ [Next]_vars => TypeOK'
  <2> SUFFICES ASSUME TypeOK, [Next]_vars PROVE TypeOK'
    OBVIOUS
  <2> USE DEF TypeOK
  <2>0. \A S : <<>> \in Seq(S)
    OBVIOUS
  <2>1. CASE Edit
    BY <2>1, EditsAssumption DEF Edit
  <2>2. CASE Deploy
    BY <2>2 DEF Deploy
  <2>3. ASSUME NEW flag \in BOOLEAN, Start(flag) PROVE TypeOK'
    <3>1. Rendering[source].objects \in Seq(Files(source))
      BY RenderedSequences
    <3>2. CASE Rendering[source].refused
      BY <2>0, <2>3, <3>2 DEF Start, Exit
    <3>3. CASE ~Rendering[source].refused
      <4>1. todo' \in Seq(Files(text'))
        BY <2>3, <3>1, <3>3 DEF Start
      <4> QED
        BY <2>3, <3>3, <4>1 DEF Start
    <3> QED
      BY <3>2, <3>3
  <2>4. CASE BeginSchema
    BY <2>4, RenderedSequences DEF BeginSchema
  <2>5. CASE BeginOPA
    BY <2>5, RenderedSequences DEF BeginOPA
  <2>6. CASE Finish
    BY <2>0, <2>6 DEF Finish, Exit
  <2>7. CASE Reject
    BY <2>0, <2>7 DEF Reject, Exit
  <2>8. CASE Open
    BY <2>8 DEF Open
  <2>9. CASE Write
    <3>1. todo # <<>> /\ Head(todo) \in Files(text) /\ Tail(todo) \in Seq(Files(text))
      BY <2>9, HeadAndTail DEF Write
    <3>2. Head(todo).text \in Texts
      BY <3>1, FilesAreKnown
    <3> QED
      BY <2>9, <3>1, <3>2 DEF Write
  <2>10. CASE Stop
    <3>1. stops' \in 0 .. MaxStops
      BY <2>10, StopsAssumption DEF Stop
    <3> QED
      BY <2>0, <2>10, <3>1 DEF Stop, Exit
  <2>11. CASE UNCHANGED vars
    BY <2>11 DEF vars
  <2> QED
    BY <2>1, <2>2, <2>3, <2>4, <2>5, <2>6, <2>7, <2>8, <2>9, <2>10, <2>11 DEF Next, Run
<1> QED
  BY <1>1, <1>2, PTL DEF Spec

-----------------------------------------------------------------------------
(* What a run that reports success has done.                               *)

\* A run begins with everything to write, or ends without success.
LEMMA StartKeepsRunInv ==
  ASSUME RunInv, NEW flag \in BOOLEAN, Start(flag)
  PROVE  TodoIsRendered' /\ NothingSkipped' /\ FinishedIsCurrent'
<1> USE DEF RunInv
<1>1. CASE Rendering[source].refused
  BY <1>1 DEF Start, Exit, TodoIsRendered, NothingSkipped, FinishedIsCurrent, Finished
<1>2. CASE ~Rendering[source].refused
  <2>1. phase' = "objects" /\ text' = source /\ source \in Schemas /\ todo' = Rendering[source].objects
    BY <1>2 DEF Start, TypeOK
  <2>2. Listed(todo)' = Objects(source)
    BY <2>1, RenderedSequences DEF Listed
  <2>3. Ran' \subseteq Left' /\ Listed(todo)' \subseteq Ran'
    BY <2>1, <2>2 DEF Ran, Left
  <2> QED
    BY <2>1, <2>3 DEF TodoIsRendered, NothingSkipped, FinishedIsCurrent, Finished
<1> QED
  BY <1>1, <1>2

\* Between two functions nothing is left that the next one does not take up.
LEMMA BeginKeepsRunInv ==
  ASSUME RunInv, BeginSchema \/ BeginOPA
  PROVE  TodoIsRendered' /\ NothingSkipped' /\ FinishedIsCurrent'
<1> USE DEF RunInv
<1>1. Listed(<<>>) = {} /\ Ran' = Ran /\ text \in Schemas
  BY DEF Listed, Ran, BeginSchema, BeginOPA, TypeOK
<1>2. \A f : Current(f)' = Current(f)
  BY <1>1 DEF Current, BeginSchema, BeginOPA
<1>3. ~open /\ ~open' /\ phase # "idle" /\ phase' # "idle"
  BY DEF BeginSchema, BeginOPA, TypeOK
<1>4. Left' = Left
  <2>1. CASE BeginSchema
    <3>1. Listed(todo)' = {Rendering[text].schema}
      BY <2>1, <1>1, RenderedSequences DEF BeginSchema, Listed
    <3> QED
      BY <2>1, <3>1, <1>1 DEF Left, BeginSchema
  <2>2. CASE BeginOPA
    <3>1. Listed(todo)' = OPA(text)
      BY <2>2, <1>1, RenderedSequences DEF BeginOPA, Listed
    <3> QED
      BY <2>2, <3>1, <1>1 DEF Left, BeginOPA
  <2> QED
    BY <2>1, <2>2
<1>5. NothingSkipped'
  BY <1>1, <1>2, <1>3, <1>4 DEF NothingSkipped, BeingWritten
<1>6. TodoIsRendered'
  BY <1>1, <1>4 DEF TodoIsRendered, Left, Ran, BeginSchema, BeginOPA, Listed
<1> QED
  BY <1>3, <1>5, <1>6 DEF FinishedIsCurrent, Finished

\* When nothing is left to write and no file is open, all of it is there.
LEMMA FinishKeepsRunInv ==
  ASSUME RunInv, Finish
  PROVE  TodoIsRendered' /\ NothingSkipped' /\ FinishedIsCurrent'
<1> USE DEF RunInv
<1>1. Left = {} /\ ~open /\ phase # "idle"
  BY DEF Finish, Left, Listed, TypeOK
<1>2. \A f \in Ran : Current(f)
  BY <1>1 DEF NothingSkipped, BeingWritten
<1>3. Ran' = Ran /\ \A f : Current(f)' = Current(f)
  BY DEF Finish, Ran, Current
<1>4. phase' = "idle"
  BY DEF Finish, Exit
<1> QED
  BY <1>2, <1>3, <1>4 DEF TodoIsRendered, NothingSkipped, FinishedIsCurrent

\* The file that is truncated is the next one, and is marked as open.
LEMMA OpenKeepsRunInv ==
  ASSUME RunInv, Open
  PROVE  TodoIsRendered' /\ NothingSkipped' /\ FinishedIsCurrent'
<1> USE DEF RunInv
<1>1. phase # "idle" /\ phase' = phase /\ todo' = todo /\ Ran' = Ran /\ Left' = Left
  BY DEF Open, TypeOK, Ran, Left, Listed
<1>2. ASSUME NEW f \in Ran, f \notin Left PROVE Current(f)' \/ BeingWritten(f)'
  <2>1. Current(f)
    BY <1>1, <1>2 DEF NothingSkipped, BeingWritten, Open
  <2>2. CASE f.path = Head(todo).path
    BY <2>2, <1>1 DEF BeingWritten, Open
  <2>3. CASE f.path # Head(todo).path
    <3>1. f.path \in Paths
      BY RanIsRendered, FilesAreKnown DEF TypeOK
    <3>2. disk'[f.path] = disk[f.path]
      BY <2>3, <3>1 DEF Open, TypeOK
    <3> QED
      BY <2>1, <3>2, <1>1 DEF Current
  <2> QED
    BY <2>2, <2>3
<1>3. Listed(todo)' = Listed(todo)
  BY <1>1 DEF Listed
<1> QED
  BY <1>1, <1>2, <1>3 DEF TodoIsRendered, NothingSkipped, FinishedIsCurrent, Finished

\* A file that is written is one of the run's; it leaves the others alone.
LEMMA WriteKeepsRunInv ==
  ASSUME RunInv, Write
  PROVE  TodoIsRendered' /\ NothingSkipped' /\ FinishedIsCurrent'
<1> USE DEF RunInv
<1> DEFINE h == Head(todo)
<1>1. phase # "idle" /\ phase' = phase /\ todo' = Tail(todo) /\ Ran' = Ran /\ todo # <<>>
  BY DEF Write, TypeOK, Ran
<1>2. h \in Listed(todo) /\ Listed(todo) = {h} \cup Listed(todo)'
  <2>1. Listed(todo)' = Listed(Tail(todo))
    BY <1>1 DEF Listed
  <2>2. todo \in Seq(Files(text))
    BY DEF TypeOK
  <2>3. h \in Listed(todo) /\ Listed(todo) = {h} \cup Listed(Tail(todo))
    BY <1>1, <2>2, HeadAndTail
  <2> QED
    BY <2>1, <2>3
<1>3. h \in Ran /\ h.path \in Paths
  BY <1>1, <1>2, RanIsRendered, FilesAreKnown DEF TodoIsRendered, TypeOK
<1>4. disk'[h.path] = h.text
  BY <1>3 DEF Write, TypeOK
<1>5. ASSUME NEW f \in Ran PROVE f \in Left' \/ Current(f)'
  <2>1. CASE f.path = h.path
    BY <2>1, <1>1, <1>3, <1>4 DEF Current
  <2>2. CASE f.path # h.path
    <3>1. f \in Left \/ Current(f)
      BY <2>2, <1>1 DEF NothingSkipped, BeingWritten
    <3>2. f \in Left => f \in Left'
      BY <2>2, <1>1, <1>2 DEF Left, Write
    <3>3. disk'[f.path] = disk[f.path]
      BY <2>2, RanIsRendered, FilesAreKnown DEF Write, TypeOK
    <3> QED
      BY <3>1, <3>2, <3>3, <1>1 DEF Current
  <2> QED
    BY <2>1, <2>2
<1> QED
  BY <1>1, <1>2, <1>5 DEF TodoIsRendered, NothingSkipped, FinishedIsCurrent, Finished

\* A run that reports success has left every file of its schema as it rendered
\* it, over whatever was there.
THEOREM SuccessIsCurrent == Spec => []FinishedIsCurrent
<1>1. Init => RunInv
  <2>1. Init => TypeOK
    BY InitTyped
  <2> QED
    BY <2>1 DEF Init, RunInv, TodoIsRendered, NothingSkipped, FinishedIsCurrent, Finished
<1>2. RunInv /\ TypeOK' /\ [Next]_vars => RunInv'
  <2> SUFFICES ASSUME RunInv, TypeOK', [Next]_vars
               PROVE  TodoIsRendered' /\ NothingSkipped' /\ FinishedIsCurrent'
    BY DEF RunInv
  <2>1. ASSUME UNCHANGED <<disk, text, emitOPA, phase, todo, open, exit>>
        PROVE  TodoIsRendered' /\ NothingSkipped' /\ FinishedIsCurrent'
    BY <2>1 DEF RunInv, TodoIsRendered, NothingSkipped, FinishedIsCurrent, Finished,
                Ran, Left, Listed, Current, BeingWritten
  <2>2. CASE Edit \/ Deploy \/ UNCHANGED vars
    BY <2>1, <2>2 DEF Edit, Deploy, vars
  <2>3. CASE Reject \/ Stop
    BY <2>3 DEF Reject, Stop, Exit, TodoIsRendered, NothingSkipped, FinishedIsCurrent, Finished
  <2> QED
    BY <2>2, <2>3, StartKeepsRunInv, BeginKeepsRunInv, FinishKeepsRunInv, OpenKeepsRunInv,
       WriteKeepsRunInv DEF Next, Run
<1>3. RunInv => FinishedIsCurrent
  BY DEF RunInv
<1> QED
  BY <1>1, <1>2, <1>3, TypeCorrect, PTL DEF Spec

-----------------------------------------------------------------------------
(* Names, and lists of them in order.                                      *)

\* The alphabet as a list.
LEMMA AlphabetIs ==
  /\ Len(Alphabet) \in Nat /\ DOMAIN Alphabet = 1 .. Len(Alphabet)
  /\ LocalNames = {Alphabet[i] : i \in 1 .. Len(Alphabet)}
<1>1. Len(Alphabet) \in Nat /\ DOMAIN Alphabet = 1 .. Len(Alphabet)
  BY WordsAssumption, LenProperties
<1> QED BY <1>1 DEF LocalNames, ToSet

\* sort.Strings lists each of the names once.
LEMMA SortedIs ==
  ASSUME NEW names \in SUBSET LocalNames
  PROVE  /\ Sorted(names) \in Seq(LocalNames) /\ ToSet(Sorted(names)) = names
         /\ IsInjective(Sorted(names))
<1> DEFINE N == Len(Alphabet)
           v == Alphabet
           P == {i \in 1 .. N : Alphabet[i] \in names}
<1>1. N \in Nat /\ DOMAIN v = 1 .. N /\ LocalNames = {v[i] : i \in 1 .. N}
  BY AlphabetIs
<1>2. Kept(v, P, N) = names
  BY <1>1 DEF Kept
<1>3. KeptOnce(v, P, N)
  BY <1>1, WordsAssumption DEF KeptOnce, IsInjective
<1> DEFINE Out(f) == f = [i \in 0 .. N |-> IF i = 0 THEN <<>>
                            ELSE IF Alphabet[i] \in names THEN Append(f[i - 1], Alphabet[i]) ELSE f[i - 1]]
<1>5. \A f : Out(f) <=> Keeping(f, N, v, P)
  <2>1. \A i \in 1 .. N : i \in P <=> Alphabet[i] \in names
    OBVIOUS
  <2>2. \A i \in 0 .. N : i # 0 => i \in 1 .. N
    BY <1>1
  <2> HIDE DEF P, N
  <2> QED BY <2>1, <2>2 DEF Keeping
<1> DEFINE out == CHOOSE f : Out(f)
<1>6. Sorted(names) = out[N]
  BY DEF Sorted
<1> HIDE DEF Out, v, P, N
<1>7. \E f : Out(f)
  BY <1>1, <1>5, KeepingExists
<1>8. Keeping(out, N, v, P)
  BY <1>5, <1>7
<1> HIDE DEF out
<1>9. /\ out[N] \in Seq(LocalNames) /\ ToSet(out[N]) = Kept(v, P, N)
      /\ KeptOnce(v, P, N) => IsInjective(out[N])
  BY <1>1, <1>2, <1>8, KeptAre
<1> QED BY <1>2, <1>3, <1>6, <1>9

\* FlattenSeq of N lists has their elements, each once if it occurs once in them.
LEMMA FlattenIs ==
  ASSUME NEW X, NEW N \in Nat, NEW s, s = [k \in 1 .. N |-> s[k]], \A k \in 1 .. N : s[k] \in Seq(X)
  PROVE  /\ FlattenSeq(s) \in Seq(X) /\ ToSet(FlattenSeq(s)) = UNION {ToSet(s[k]) : k \in 1 .. N}
         /\ /\ \A k \in 1 .. N : IsInjective(s[k])
            /\ \A k, l \in 1 .. N : k # l => ToSet(s[k]) \cap ToSet(s[l]) = {}
            => IsInjective(FlattenSeq(s))
<1>1. s \in [1 .. N -> Seq(X)]
  OBVIOUS
<1>2. s \in Seq(Seq(X)) /\ Len(s) = N
  BY <1>1, SeqDef, LenProperties
<1>3. Flat(FlattenSeq(s), s, N, X)
  BY <1>2, FlattenProperties
<1> QED BY <1>2, <1>3, FlattenOnce DEF Flat

\* The pairs that begin with f.
First(f, pairs) == {x \in pairs : x[1] = f}

\* PairsFrom lists them, each once.
LEMMA PairsFromAre ==
  ASSUME NEW S, NEW f \in S, NEW pairs \in SUBSET (S \X LocalNames)
  PROVE  /\ PairsFrom(f, pairs) \in Seq(S \X LocalNames) /\ IsInjective(PairsFrom(f, pairs))
         /\ ToSet(PairsFrom(f, pairs)) = First(f, pairs)
<1> DEFINE names   == {x[2] : x \in {y \in pairs : y[1] = f}}
           seconds == Sorted(names)
           q       == [j \in DOMAIN seconds |-> <<f, seconds[j]>>]
<1>1. names \in SUBSET LocalNames
  OBVIOUS
<1>2. PairsFrom(f, pairs) = q
  BY DEF PairsFrom
<1>3. \A x \in {y \in pairs : y[1] = f} : x[2] \in names /\ x = <<f, x[2]>>
  OBVIOUS
<1>4. \A n \in names : <<f, n>> \in pairs
  OBVIOUS
<1> HIDE DEF names
<1>5. seconds \in Seq(LocalNames) /\ ToSet(seconds) = names /\ IsInjective(seconds)
  BY <1>1, SortedIs
<1> HIDE DEF seconds
<1>6. /\ Len(seconds) \in Nat /\ DOMAIN seconds = 1 .. Len(seconds)
      /\ \A j \in DOMAIN seconds : seconds[j] \in LocalNames
  BY <1>5, LenProperties
<1>7. /\ q = [j \in 1 .. Len(seconds) |-> q[j]]
      /\ \A j \in 1 .. Len(seconds) : q[j] = <<f, seconds[j]>> /\ q[j] \in S \X LocalNames
  BY <1>6
<1> HIDE DEF q
<1>8. q \in Seq(S \X LocalNames) /\ DOMAIN q = 1 .. Len(seconds)
  BY <1>6, <1>7, SeqDef
<1>9. IsInjective(q)
  BY <1>5, <1>6, <1>7, <1>8 DEF IsInjective
<1>10. ToSet(q) = {x \in pairs : x[1] = f}
  <2>1. names = {seconds[j] : j \in 1 .. Len(seconds)}
    BY <1>5, <1>6 DEF ToSet
  <2>2. ToSet(q) = {<<f, seconds[j]>> : j \in 1 .. Len(seconds)}
    BY <1>7, <1>8 DEF ToSet
  <2> QED BY <2>1, <2>2, <1>3, <1>4
<1> QED BY <1>2, <1>8, <1>9, <1>10 DEF First

\* SortedPairs lists each pair once.
LEMMA SortedPairsAre ==
  ASSUME NEW S, NEW pairs \in SUBSET (S \X LocalNames), NEW firsts \in Seq(S), IsInjective(firsts),
         ToSet(firsts) = {x[1] : x \in pairs}
  PROVE  /\ SortedPairs(pairs, firsts) \in Seq(S \X LocalNames)
         /\ ToSet(SortedPairs(pairs, firsts)) = pairs
         /\ IsInjective(SortedPairs(pairs, firsts))
<1> DEFINE N == Len(firsts)
           s == [i \in DOMAIN firsts |-> PairsFrom(firsts[i], pairs)]
<1>1. N \in Nat /\ DOMAIN firsts = 1 .. N /\ \A i \in 1 .. N : firsts[i] \in S
  BY LenProperties
<1>2. /\ s = [i \in 1 .. N |-> s[i]]
      /\ \A i \in 1 .. N : s[i] = PairsFrom(firsts[i], pairs)
  BY <1>1
<1>3. SortedPairs(pairs, firsts) = FlattenSeq(s)
  BY DEF SortedPairs
<1> HIDE DEF N, s
<1>4. \A i \in 1 .. N : /\ s[i] \in Seq(S \X LocalNames) /\ IsInjective(s[i])
                        /\ ToSet(s[i]) = First(firsts[i], pairs)
  <2>1. \A f \in S : /\ PairsFrom(f, pairs) \in Seq(S \X LocalNames) /\ IsInjective(PairsFrom(f, pairs))
                      /\ ToSet(PairsFrom(f, pairs)) = First(f, pairs)
    <3> TAKE f \in S
    <3> QED BY PairsFromAre
  <2>2. \A i \in 1 .. N : firsts[i] \in S /\ s[i] = PairsFrom(firsts[i], pairs)
    BY <1>1, <1>2
  <2> QED BY <2>1, <2>2, Zenon
<1>5. \A k, l \in 1 .. N : k # l => ToSet(s[k]) \cap ToSet(s[l]) = {}
  <2>1. \A k, l \in 1 .. N : k # l => firsts[k] # firsts[l]
    BY <1>1 DEF IsInjective
  <2>2. \A k \in 1 .. N : \A x \in ToSet(s[k]) : x[1] = firsts[k]
    BY <1>4 DEF First
  <2>3. ASSUME NEW k \in 1 .. N, NEW l \in 1 .. N, k # l
        PROVE  ToSet(s[k]) \cap ToSet(s[l]) = {}
    <3>1. firsts[k] # firsts[l]
      BY <2>1, <2>3
    <3> QED BY <2>2, <3>1
  <2> QED BY <2>3
<1>6. \A x \in pairs : \E i \in 1 .. N : x[1] = firsts[i]
  BY <1>1 DEF ToSet
<1>7. UNION {ToSet(s[k]) : k \in 1 .. N} = pairs
  BY <1>4, <1>6 DEF First
<1> DEFINE X == S \X LocalNames
<1>8. s = [k \in 1 .. N |-> s[k]] /\ \A k \in 1 .. N : s[k] \in Seq(X)
  BY <1>2, <1>4
<1> HIDE DEF X
<1>9. /\ FlattenSeq(s) \in Seq(X) /\ ToSet(FlattenSeq(s)) = UNION {ToSet(s[k]) : k \in 1 .. N}
      /\ IsInjective(FlattenSeq(s))
  <2>1. N \in Nat /\ \A k \in 1 .. N : IsInjective(s[k])
    BY <1>1, <1>4
  <2>2. /\ FlattenSeq(s) \in Seq(X) /\ ToSet(FlattenSeq(s)) = UNION {ToSet(s[k]) : k \in 1 .. N}
        /\ /\ \A k \in 1 .. N : IsInjective(s[k])
           /\ \A k, l \in 1 .. N : k # l => ToSet(s[k]) \cap ToSet(s[l]) = {}
           => IsInjective(FlattenSeq(s))
    BY <2>1, <1>8, FlattenIs
  <2> QED BY <1>5, <2>1, <2>2
<1> QED BY <1>3, <1>7, <1>9 DEF X

\* Nor has a sorted list of full names a name twice.
LEMMA SortedNamesAre ==
  ASSUME NEW names \in SUBSET FullNames
  PROVE  /\ SortedNames(names) \in Seq(FullNames) /\ ToSet(SortedNames(names)) = names
         /\ IsInjective(SortedNames(names))
<1> DEFINE firsts == Sorted({x[1] : x \in names})
<1>1. {x[1] : x \in names} \in SUBSET LocalNames
  BY DEF FullNames
<1>2. /\ firsts \in Seq(LocalNames) /\ IsInjective(firsts) /\ ToSet(firsts) = {x[1] : x \in names}
  BY <1>1, SortedIs
<1>3. SortedNames(names) = SortedPairs(names, firsts)
  BY DEF SortedNames
<1> HIDE DEF firsts
<1>4. names \in SUBSET (LocalNames \X LocalNames) /\ FullNames = LocalNames \X LocalNames
  BY DEF FullNames
<1>5. /\ SortedPairs(names, firsts) \in Seq(LocalNames \X LocalNames)
      /\ ToSet(SortedPairs(names, firsts)) = names /\ IsInjective(SortedPairs(names, firsts))
  BY <1>2, <1>4, SortedPairsAre
<1> QED BY <1>3, <1>4, <1>5

\* Named finds the element of a name.
LEMMA NamedIs ==
  ASSUME NEW list, UniqueNames(list), NEW x \in ToSet(list)
  PROVE  Named(list, x.name) = x
<1>1. PICK i \in DOMAIN list : list[i] = x
  BY DEF ToSet
<1>2. \A j \in DOMAIN list : list[j].name = x.name => j = i
  BY <1>1 DEF UniqueNames
<1> QED BY <1>1, <1>2 DEF Named

-----------------------------------------------------------------------------
(* What is rendered from a schema.                                         *)

\* Names lead back to definitions, relations and permissions.
LEMMA DefinitionsAre ==
  ASSUME NEW s, Compiled(s), NEW d \in ToSet(s.defs)
  PROVE  /\ d.name \in FullNames /\ d.name \in NamesOf(s.defs) /\ Named(s.defs, d.name) = d
         /\ \A r \in ToSet(d.rels) : r.name \in NamesOf(d.rels) /\ Named(d.rels, r.name) = r
         /\ \A p \in ToSet(d.perms) : p.name \in NamesOf(d.perms) /\ Named(d.perms, p.name) = p
         /\ NamesOf(d.perms) \subseteq LocalNames
         /\ \A a \in AllowedIn(d) : IsAllowed(a)
<1>1. UniqueNames(s.defs) /\ NamesOf(s.defs) \subseteq FullNames
  BY DEF Compiled
<1>2. /\ UniqueNames(d.rels) /\ UniqueNames(d.perms) /\ NamesOf(d.perms) \subseteq LocalNames
      /\ \A r \in ToSet(d.rels) : \A a \in ToSet(r.types) : IsAllowed(a)
  BY DEF Compiled
<1>3. \A r \in ToSet(d.rels) : r.name \in NamesOf(d.rels) /\ Named(d.rels, r.name) = r
  BY <1>2, NamedIs DEF NamesOf
<1>4. \A p \in ToSet(d.perms) : p.name \in NamesOf(d.perms) /\ Named(d.perms, p.name) = p
  BY <1>2, NamedIs DEF NamesOf
<1>5. d.name \in NamesOf(s.defs) /\ Named(s.defs, d.name) = d
  BY <1>1, NamedIs DEF NamesOf
<1> QED BY <1>1, <1>2, <1>3, <1>4, <1>5 DEF AllowedIn

\* The relations and permissions that Views knows.
LEMMA ViewsAre ==
  ASSUME NEW s, Compiled(s), NEW d \in ToSet(s.defs)
  PROVE  /\ Defs(Views(s)) = NamesOf(s.defs)
         /\ DOMAIN Views(s).rel[d.name] = NamesOf(d.rels)
         /\ \A r \in ToSet(d.rels) : Views(s).rel[d.name][r.name] = r.types
         /\ DOMAIN Views(s).perm[d.name] = NamesOf(d.perms)
<1>1. d.name \in NamesOf(s.defs) /\ Named(s.defs, d.name) = d
  BY DefinitionsAre
<1>2. Views(s).rel[d.name] = [r \in NamesOf(d.rels) |-> Named(d.rels, r).types]
  BY <1>1 DEF Views, TypesOf
<1>3. /\ Defs(Views(s)) = NamesOf(s.defs)
      /\ DOMAIN Views(s).perm[d.name] = NamesOf(d.perms)
  BY <1>1 DEF Views, Defs
<1>4. \A r \in ToSet(d.rels) : r.name \in NamesOf(d.rels) /\ Named(d.rels, r.name) = r
  BY DefinitionsAre
<1> QED BY <1>2, <1>3, <1>4

\* The walks over a permission meet allowed types of its definition only.
LEMMA WalkedIn ==
  ASSUME NEW s, Compiled(s), NEW d \in ToSet(s.defs), NEW p
  PROVE  WalkedTypes(Views(s), d.name, p) \subseteq AllowedIn(d)
<1>1. \A e : e.left \in DOMAIN Views(s).rel[d.name] =>
               ToSet(Views(s).rel[d.name][e.left]) \subseteq AllowedIn(d)
  <2> SUFFICES ASSUME NEW n \in DOMAIN Views(s).rel[d.name]
               PROVE  ToSet(Views(s).rel[d.name][n]) \subseteq AllowedIn(d)
    OBVIOUS
  <2>1. n \in NamesOf(d.rels)
    BY ViewsAre
  <2>2. PICK r \in ToSet(d.rels) : r.name = n
    BY <2>1 DEF NamesOf
  <2>3. Views(s).rel[d.name][n] = r.types
    BY <2>2, ViewsAre
  <2> QED BY <2>3 DEF AllowedIn
<1> QED BY <1>1 DEF WalkedTypes

\* PermCaveats lists caveats of the definition, each once.
LEMMA PermCaveatsAre ==
  ASSUME NEW s, Compiled(s), NEW d \in ToSet(s.defs), NEW p
  PROVE  /\ PermCaveats(Views(s), d.name, p) \in Seq(FullNames)
         /\ IsInjective(PermCaveats(Views(s), d.name, p))
         /\ ToSet(PermCaveats(Views(s), d.name, p)) \subseteq CaveatsIn(d)
<1> DEFINE walked  == WalkedTypes(Views(s), d.name, p)
           caveats == {a.caveat : a \in walked} \ {NoCaveat}
<1>1. walked \subseteq AllowedIn(d) /\ \A a \in AllowedIn(d) : a.caveat \in FullNames \cup {NoCaveat}
  BY WalkedIn, DefinitionsAre DEF IsAllowed
<1> HIDE DEF walked
<1>2. caveats \in SUBSET FullNames /\ caveats \subseteq CaveatsIn(d)
  BY <1>1 DEF CaveatsIn
<1>3. PermCaveats(Views(s), d.name, p) = SortedNames(caveats)
  BY DEF PermCaveats, walked
<1> HIDE DEF caveats
<1> QED BY <1>2, <1>3, SortedNamesAre

\* PermUsersets lists pairs of a type and a sub-relation that are allowed together.
LEMMA PermUsersetsAre ==
  ASSUME NEW s, Compiled(s), NEW d \in ToSet(s.defs), NEW p
  PROVE  /\ PermUsersets(Views(s), d.name, p) \in Seq(FullNames \X LocalNames)
         /\ IsInjective(PermUsersets(Views(s), d.name, p))
         /\ \A u \in ToSet(PermUsersets(Views(s), d.name, p)) :
              \E a \in AllowedIn(d) : u = <<a.type, a.sub>>
<1> DEFINE usersets == {a \in WalkedTypes(Views(s), d.name, p) : a.sub # ""}
           pairs  == {<<a.type, a.sub>> : a \in usersets}
           types  == {a.type : a \in usersets}
           firsts == SortedNames(types)
<1>1. \A a \in usersets : a \in AllowedIn(d) /\ a.type \in FullNames /\ a.sub \in LocalNames
  BY WalkedIn, DefinitionsAre DEF IsAllowed
<1>2. PermUsersets(Views(s), d.name, p) = SortedPairs(pairs, firsts)
  BY DEF PermUsersets
<1> HIDE DEF usersets
<1>3. /\ pairs \in SUBSET (FullNames \X LocalNames) /\ types \in SUBSET FullNames
      /\ types = {x[1] : x \in pairs}
  <2>1. \A a \in usersets : <<a.type, a.sub>> \in pairs /\ <<a.type, a.sub>>[1] = a.type /\ a.type \in types
    OBVIOUS
  <2>2. \A x \in pairs : \E a \in usersets : x = <<a.type, a.sub>>
    OBVIOUS
  <2>3. \A x \in types : \E a \in usersets : x = a.type
    OBVIOUS
  <2>4. types \in SUBSET FullNames
    BY <1>1, <2>3
  <2>5. pairs \in SUBSET (FullNames \X LocalNames)
    BY <1>1, <2>2
  <2> HIDE DEF pairs, types
  <2> QED BY <2>1, <2>2, <2>3, <2>4, <2>5
<1>4. \A u \in pairs : \E a \in AllowedIn(d) : u = <<a.type, a.sub>>
  BY <1>1
<1> HIDE DEF pairs, types
<1>5. firsts \in Seq(FullNames) /\ ToSet(firsts) = {x[1] : x \in pairs} /\ IsInjective(firsts)
  BY <1>3, SortedNamesAre
<1> HIDE DEF firsts
<1>6. /\ SortedPairs(pairs, firsts) \in Seq(FullNames \X LocalNames)
      /\ ToSet(SortedPairs(pairs, firsts)) = pairs /\ IsInjective(SortedPairs(pairs, firsts))
  BY <1>3, <1>5, SortedPairsAre
<1> QED BY <1>2, <1>4, <1>6

\* Definitions that allow t, as a type, a wildcard or a userset.
Allowing(s, t) == {x \in ToSet(s.defs) : \E a \in AllowedIn(x) : a.type = t}

\* referencingDefinitions lists the definitions that allow t.
LEMMA ReferencingIs ==
  ASSUME NEW s, Compiled(s), NEW t
  PROVE  /\ Referencing(s, t) \in Seq(FullNames)
         /\ ToSet(Referencing(s, t)) = {d.name : d \in Allowing(s, t)}
<1> DEFINE names == {d.name : d \in Allowing(s, t)}
<1>1. names \in SUBSET FullNames
  BY DefinitionsAre DEF Allowing
<1>2. Referencing(s, t) = SortedNames(names)
  BY DEF Referencing, Allowing
<1> HIDE DEF names
<1>3. Referencing(s, t) \in Seq(FullNames) /\ ToSet(Referencing(s, t)) = names
  BY <1>1, <1>2, SortedNamesAre
<1> QED BY <1>3 DEF names

\* Caveats of a definition, as definitionCaveats lists them.
LEMMA CaveatsAre ==
  ASSUME NEW s, Compiled(s), NEW d \in ToSet(s.defs)
  PROVE  /\ CaveatsIn(d) \in SUBSET FullNames
         /\ SortedNames(CaveatsIn(d)) \in Seq(FullNames)
         /\ ToSet(SortedNames(CaveatsIn(d))) = CaveatsIn(d) /\ IsInjective(SortedNames(CaveatsIn(d)))
<1>1. CaveatsIn(d) \in SUBSET FullNames
  BY DefinitionsAre DEF CaveatsIn, IsAllowed
<1> QED BY <1>1, SortedNamesAre

\* The words of a name are its own.
LEMMA WordsAre ==
  /\ \A m \in LocalNames : WordsOf(m) \in Seq(STRING) /\ WordsOf(m) # <<>>
  /\ \A m, n \in LocalNames : WordsOf(m) = WordsOf(n) => m = n
BY WordsAssumption DEF LocalNames, WordsOf, IsInjective

-----------------------------------------------------------------------------
(* What is in the output directory after a run that reports success.       *)

\* A run that writes, or has reported success, has a schema that is not refused.
NothingRefused == phase # "idle" \/ exit = "ok" => ~Rendering[text].refused

\* A run that gets to write, or reports success, has not been refused.
LEMMA RefusedIsReported == Spec => []NothingRefused
<1>1. Init => NothingRefused
  BY DEF Init, NothingRefused
<1>2. NothingRefused /\ [Next]_vars => NothingRefused'
  <2> SUFFICES ASSUME NothingRefused, [Next]_vars PROVE NothingRefused'
    OBVIOUS
  <2>1. ASSUME NEW flag \in BOOLEAN, Start(flag) PROVE NothingRefused'
    BY <2>1 DEF Start, Exit, NothingRefused
  <2>2. CASE Run
    BY <2>2 DEF Run, BeginSchema, BeginOPA, Finish, Reject, Open, Write, Exit, NothingRefused
  <2>3. CASE Stop
    BY <2>3 DEF Stop, Exit, NothingRefused
  <2>4. CASE Edit \/ Deploy \/ UNCHANGED vars
    BY <2>4 DEF Edit, Deploy, vars, NothingRefused
  <2> QED BY <2>1, <2>2, <2>3, <2>4 DEF Next
<1> QED BY <1>1, <1>2, PTL DEF Spec

\* The parts of a label.
LEMMA LabelIs ==
  ASSUME NEW s, NEW p, NEW k
  PROVE  /\ Label(s, p, k).path = p /\ Label(s, p, k).text.of = s
         /\ Label(s, p, k).text.path = p /\ Label(s, p, k).text.kind = k
BY DEF Label

\* The labels of a rendering.
LEMMA LabelsAre ==
  ASSUME NEW s \in Schemas
  PROVE  /\ s \in DOMAIN Catalog /\ Compiled(Catalog[s])
         /\ Rendering[s].refused = Refused(Catalog[s])
         /\ Objects(s) = {Label(s, ObjectPath(d.name), "object") : d \in ToSet(Catalog[s].defs)}
         /\ Rendering[s].schema = Label(s, SchemaPath, "schema")
         /\ OPA(s) = {Label(s, OPAPath(pkg), "opa") : pkg \in Packages(Catalog[s])}
<1> DEFINE c    == Catalog[s]
           opas == {Label(s, OPAPath(pkg), "opa") : pkg \in Packages(c)}
           objs == [i \in DOMAIN c.defs |-> Label(s, ObjectPath(c.defs[i].name), "object")]
<1>1. s \in DOMAIN Catalog /\ Compiled(c) /\ Rendering[s] = Labels(s, c)
  BY CodegenAssumption DEF Renderings
<1>2. /\ Rendering[s].refused = Refused(c) /\ Rendering[s].schema = Label(s, SchemaPath, "schema")
      /\ Rendering[s].objects = objs /\ Rendering[s].opa = Orders(opas)
  BY <1>1 DEF Labels
<1>3. Objects(s) = {Label(s, ObjectPath(d.name), "object") : d \in ToSet(c.defs)}
  <2>1. Objects(s) = {Label(s, ObjectPath(c.defs[i].name), "object") : i \in DOMAIN c.defs}
    BY <1>2 DEF Objects, Listed
  <2> QED BY <2>1 DEF ToSet
<1> HIDE DEF opas
<1>4. OPA(s) = opas
  <2>1. Orders(opas) # {}
    BY <1>2, RenderingAssumption
  <2>2. \A q \in Orders(opas) : Listed(q) = opas
    BY DEF Orders, Listed, ToSet
  <2>3. OPA(s) = UNION {Listed(q) : q \in Orders(opas)}
    BY <1>2 DEF OPA, ListedInAny
  <2> QED BY <2>1, <2>2, <2>3
<1> QED BY <1>1, <1>2, <1>3, <1>4 DEF opas

\* Definitions of a fitting package go by one word.
LEMMA LocalNameIs ==
  ASSUME NEW s, Compiled(s), NEW pkg, Fitting(s, pkg), NEW d \in DefsOf(s, pkg)
  PROVE  /\ d \in ToSet(s.defs) /\ d.name \in FullNames /\ d.name[2] \in LocalNames
         /\ PackageName(d.name[1]) = pkg
         /\ WordsOf(d.name[2]) = << PackageName(d.name[2]) >> /\ TypeName(d.name) = WordsOf(d.name[2])
         /\ UpperFirst(d.name[2]) = WordsOf(d.name[2])
<1>1. d \in ToSet(s.defs) /\ PackageName(d.name[1]) = pkg
  BY DEF DefsOf
<1>2. d.name \in FullNames /\ d.name[2] \in LocalNames
  BY <1>1, DefinitionsAre DEF FullNames
<1>3. Len(WordsOf(d.name[2])) = 1 /\ WordsOf(d.name[2]) \in Seq(STRING)
  BY <1>2, WordsAre DEF Fitting
<1>4. TypeName(d.name) = WordsOf(d.name[2]) /\ UpperFirst(d.name[2]) = WordsOf(d.name[2])
  BY <1>3 DEF TypeName, UpperFirst
<1>5. PackageName(d.name[2]) = WordsOf(d.name[2])[1]
  BY <1>3 DEF PackageName, TypeName
<1>6. WordsOf(d.name[2]) = << WordsOf(d.name[2])[1] >>
  BY <1>3
<1> QED BY <1>1, <1>2, <1>4, <1>5, <1>6

\* No two of them have one file.
LEMMA PathsDiffer ==
  ASSUME NEW s, Compiled(s), NEW pkg, Fitting(s, pkg), NEW d \in DefsOf(s, pkg), NEW e \in DefsOf(s, pkg),
         PackageName(d.name[2]) = PackageName(e.name[2])
  PROVE  d = e
<1>1. WordsOf(d.name[2]) = WordsOf(e.name[2]) /\ d.name[2] \in LocalNames /\ e.name[2] \in LocalNames
  BY LocalNameIs
<1>2. d.name[2] = e.name[2]
  BY <1>1, WordsAre
<1>3. d.name[1] = e.name[1]
  BY DEF Fitting
<1>4. d.name = e.name
  BY <1>2, <1>3, LocalNameIs DEF FullNames
<1> QED BY <1>4, LocalNameIs, DefinitionsAre

\* A text of the current schema says what is rendered from it.
LEMMA LibraryIs ==
  ASSUME NEW s \in Schemas, ~Refused(Catalog[s]), NEW f
  PROVE  f \in Library[s] <=>
           \/ \E d \in ToSet(Catalog[s].defs) :
                f = [path |-> ObjectPath(d.name), text |-> ObjectSource(Catalog[s], Views(Catalog[s]), d)]
           \/ f = SchemaFile(Catalog[s])
           \/ \E pkg \in Packages(Catalog[s]) :
                f = [path |-> OPAPath(pkg), text |-> OPASource(Catalog[s], pkg)]
<1> DEFINE c == Catalog[s]
           objects == ObjectFiles(c)
<1>1. s \in DOMAIN Catalog /\ s # "checked in"
  BY CodegenAssumption
<1>2. Library[s] = Rendered(c)
  BY <1>1 DEF Library, Contents
<1>3. Rendered(c) = {objects[i] : i \in DOMAIN objects} \cup {SchemaFile(c)} \cup OPAFiles(c)
  BY DEF Rendered
<1>4. DOMAIN objects = DOMAIN c.defs /\
      \A i \in DOMAIN c.defs : objects[i] = [path |-> ObjectPath(c.defs[i].name),
                                             text |-> ObjectSource(c, Views(c), c.defs[i])]
  BY DEF ObjectFiles
<1>5. \A d : d \in ToSet(c.defs) <=> \E i \in DOMAIN c.defs : d = c.defs[i]
  BY DEF ToSet
<1> DEFINE Obj(d) == [path |-> ObjectPath(d.name), text |-> ObjectSource(c, Views(c), d)]
           Opa(q) == [path |-> OPAPath(q), text |-> OPASource(c, q)]
<1>6. OPAFiles(c) = {Opa(q) : q \in Packages(c)}
  BY DEF OPAFiles
<1>7. \A i \in DOMAIN c.defs : objects[i] = Obj(c.defs[i])
  BY <1>4
<1> SUFFICES f \in Library[s] <=> \/ \E d \in ToSet(c.defs) : f = Obj(d)
                                 \/ f = SchemaFile(c)
                                 \/ \E q \in Packages(c) : f = Opa(q)
  OBVIOUS
<1> HIDE DEF c, objects, Obj, Opa
<1>8. f \in {objects[i] : i \in DOMAIN objects} <=> \E d \in ToSet(c.defs) : f = Obj(d)
  BY <1>4, <1>5, <1>7
<1> QED BY <1>2, <1>3, <1>6, <1>8

\* The kinds of the files.
LEMMA SourceKinds ==
  ASSUME NEW s, NEW v, NEW d, NEW pkg
  PROVE  ObjectSource(s, v, d).kind = "object" /\ OPASource(s, pkg).kind = "opa"
BY DEF ObjectSource, OPASource

\* The file of a definition has its client.
LEMMA ObjectSays ==
  ASSUME NEW s \in Schemas, ~Refused(Catalog[s]), Compiled(Catalog[s]), NEW pkg, Fitting(Catalog[s], pkg),
         NEW d \in DefsOf(Catalog[s], pkg)
  PROVE  Says(Label(s, ObjectPath(d.name), "object").text) = ObjectSource(Catalog[s], Views(Catalog[s]), d)
<1> DEFINE c == Catalog[s]
           p == ObjectPath(d.name)
           file == [path |-> p, text |-> ObjectSource(c, Views(c), d)]
           l == Label(s, p, "object").text
           Fits(f) == f.path = l.path /\ f.text.kind = l.kind
<1>1. l.of = s /\ l.path = p /\ l.kind = "object"
  BY LabelIs
<1>2. file \in Library[s] /\ Fits(file)
  <2>1. file.path = p /\ file.text.kind = "object"
    BY SourceKinds
  <2>2. d \in ToSet(c.defs)
    BY DEF DefsOf
  <2>3. file \in Library[s]
    BY <2>2, LibraryIs
  <2> QED BY <1>1, <2>1, <2>3
<1>3. ASSUME NEW f \in Library[s], Fits(f) PROVE f = file
  <2>1. f.path = p /\ f.text.kind = "object"
    BY <1>1, <1>3
  <2>2. f # SchemaFile(c)
    BY <2>1 DEF SchemaFile, SchemaSource
  <2>3. \A q : f # [path |-> OPAPath(q), text |-> OPASource(c, q)]
    BY <2>1, SourceKinds
  <2>4. PICK e \in ToSet(c.defs) : f = [path |-> ObjectPath(e.name), text |-> ObjectSource(c, Views(c), e)]
    BY <2>2, <2>3, LibraryIs
  <2>5. ObjectPath(e.name) = ObjectPath(d.name)
    BY <2>1, <2>4
  <2>6. PackageName(e.name[1]) = PackageName(d.name[1]) /\ PackageName(e.name[2]) = PackageName(d.name[2])
    BY <2>5 DEF ObjectPath
  <2>7. e \in DefsOf(c, pkg)
    BY <2>6 DEF DefsOf
  <2>8. e = d
    BY <2>6, <2>7, PathsDiffer
  <2> QED BY <2>4, <2>8
<1>4. Says(l) = (CHOOSE f \in Library[s] : Fits(f)).text
  BY <1>1 DEF Says
<1> HIDE DEF l, Fits
<1>5. (CHOOSE f \in Library[s] : Fits(f)) = file
  <2> HIDE DEF file
  <2> QED BY <1>2, <1>3
<1>6. Says(l) = file.text
  BY <1>4, <1>5
<1> QED BY <1>6 DEF l

\* The builtins file of a package has its builtins.
LEMMA OPASays ==
  ASSUME NEW s \in Schemas, ~Refused(Catalog[s]), NEW pkg \in Packages(Catalog[s])
  PROVE  Says(Label(s, OPAPath(pkg), "opa").text) = OPASource(Catalog[s], pkg)
<1> DEFINE c == Catalog[s]
           p == OPAPath(pkg)
           file == [path |-> p, text |-> OPASource(c, pkg)]
           l == Label(s, p, "opa").text
           Fits(f) == f.path = l.path /\ f.text.kind = l.kind
<1>1. l.of = s /\ l.path = p /\ l.kind = "opa"
  BY LabelIs
<1>2. file \in Library[s] /\ Fits(file)
  <2>1. file.path = p /\ file.text.kind = "opa"
    BY SourceKinds
  <2>2. file \in Library[s]
    BY LibraryIs
  <2> QED BY <1>1, <2>1, <2>2
<1>3. ASSUME NEW f \in Library[s], Fits(f) PROVE f = file
  <2>1. f.path = p /\ f.text.kind = "opa"
    BY <1>1, <1>3
  <2>2. f # SchemaFile(c)
    BY <2>1 DEF SchemaFile, SchemaSource
  <2>3. \A e : f # [path |-> ObjectPath(e.name), text |-> ObjectSource(c, Views(c), e)]
    BY <2>1, SourceKinds
  <2>4. PICK q \in Packages(c) : f = [path |-> OPAPath(q), text |-> OPASource(c, q)]
    BY <2>2, <2>3, LibraryIs
  <2>5. q = pkg
    BY <2>1, <2>4 DEF OPAPath
  <2> QED BY <2>4, <2>5
<1>4. Says(l) = (CHOOSE f \in Library[s] : Fits(f)).text
  BY <1>1 DEF Says
<1> HIDE DEF l, Fits
<1>5. (CHOOSE f \in Library[s] : Fits(f)) = file
  <2> HIDE DEF file
  <2> QED BY <1>2, <1>3
<1>6. Says(l) = file.text
  BY <1>4, <1>5
<1> QED BY <1>6 DEF l

\* What the proofs below start from.
Settled == TypeOK /\ FinishedIsCurrent /\ NothingRefused /\ Finished

\* The schema of the run.
Now == Catalog[text]

\* That schema has compiled and is not refused.
LEMMA NowIs ==
  ASSUME Settled
  PROVE  text \in Schemas /\ Compiled(Now) /\ ~Refused(Now)
<1>1. text \in Schemas /\ ~Rendering[text].refused
  BY DEF Settled, TypeOK, Finished, NothingRefused
<1> QED BY <1>1, LabelsAre DEF Now

\* An orderly package is one of that schema, and in order.
LEMMA OrderlyIs ==
  ASSUME Settled, NEW pkg \in Orderly
  PROVE  pkg \in Packages(Now) /\ Fitting(Now, pkg) /\ Plain(Now, pkg) /\ Tidy(pkg)
BY NowIs, CodegenAssumption DEF Orderly, SoundPackages, Sound, Now

\* A file of an orderly package is a definition's, or it has the builtins.
LEMMA FileIs ==
  ASSUME Settled, NEW pkg \in Orderly, NEW g \in Ran, Len(g.path) = 2, g.path[1] = pkg
  PROVE  \/ \E d \in DefsOf(Now, pkg) :
              /\ g = Label(text, ObjectPath(d.name), "object")
              /\ g.text.kind = "object" /\ g.path[2] # "opa"
              /\ Says(g.text) = ObjectSource(Now, Views(Now), d)
         \/ emitOPA /\ g = Label(text, OPAPath(pkg), "opa") /\ g.text.kind = "opa" /\ g.path[2] = "opa"
              /\ Says(g.text) = OPASource(Now, pkg)
<1>1. text \in Schemas /\ Compiled(Now) /\ ~Refused(Now) /\ Fitting(Now, pkg) /\ pkg \in Packages(Now)
  BY NowIs, OrderlyIs
<1>2. CASE g \in Objects(text)
  <2>1. PICK d \in ToSet(Now.defs) : g = Label(text, ObjectPath(d.name), "object")
    BY <1>1, <1>2, LabelsAre DEF Now
  <2>2. g.path = ObjectPath(d.name) /\ g.text.kind = "object"
    BY <2>1, LabelIs
  <2>3. PackageName(d.name[1]) = pkg /\ g.path[2] = PackageName(d.name[2])
    BY <2>2 DEF ObjectPath
  <2>4. d \in DefsOf(Now, pkg)
    BY <2>3 DEF DefsOf
  <2>5. PackageName(d.name[2]) # "opa"
    BY <1>1, <2>4 DEF Fitting
  <2>6. Says(g.text) = ObjectSource(Now, Views(Now), d)
    BY <1>1, <2>1, <2>4, ObjectSays DEF Now
  <2> QED BY <2>1, <2>2, <2>3, <2>4, <2>5, <2>6
<1>3. CASE g = Rendering[text].schema
  <2>1. g.path = <<"schema">>
    BY <1>1, <1>3, LabelsAre, LabelIs DEF SchemaPath
  <2> QED BY <2>1
<1>4. CASE emitOPA /\ g \in OPA(text)
  <2>1. PICK q \in Packages(Now) : g = Label(text, OPAPath(q), "opa")
    BY <1>1, <1>4, LabelsAre DEF Now
  <2>2. g.path = OPAPath(q) /\ g.text.kind = "opa"
    BY <2>1, LabelIs
  <2>3. q = pkg /\ g.path[2] = "opa"
    BY <2>2 DEF OPAPath
  <2>4. Says(g.text) = OPASource(Now, pkg)
    BY <1>1, <2>1, <2>3, OPASays DEF Now
  <2> QED BY <1>4, <2>1, <2>2, <2>3, <2>4
<1> QED BY <1>2, <1>3, <1>4 DEF Ran

\* At the path of a file of the run is a file of the run.
LEMMA DiskIs ==
  ASSUME Settled, NEW f \in Ran
  PROVE  /\ \E g \in Ran : g.path = f.path /\ disk[f.path] = g.text
         /\ f.path \in Paths /\ f.text.of = text
<1>1. \E g \in Ran : g.path = f.path /\ disk[f.path] = g.text
  BY DEF Settled, FinishedIsCurrent, Current
<1>2. text \in Schemas /\ f \in Files(text)
  BY NowIs, RanIsRendered DEF Settled
<1>3. f.text.of = text
  BY <1>2, LabelsAre, LabelIs DEF Ran
<1> QED BY <1>1, <1>2, <1>3, FilesAreKnown

\* schema.gen.go has the schema of the run.
LEMMA BaselineIs ==
  ASSUME Settled
  PROVE  Catalog[disk[SchemaPath].of] = Now
<1>1. Rendering[text].schema \in Ran /\ Rendering[text].schema.path = SchemaPath
  BY NowIs, LabelsAre, LabelIs DEF Ran
<1> QED BY <1>1, DiskIs DEF Now

\* The directory of an orderly package has the files of its definitions, and with
\* --emit-opa the one with the builtins, as they are rendered from the schema.
LEMMA OutputIs ==
  ASSUME Settled, NEW pkg \in Orderly
  PROVE  FilesOf(pkg) = {ObjectSource(Now, Views(Now), d) : d \in DefsOf(Now, pkg)}
                          \cup (IF emitOPA THEN {OPASource(Now, pkg)} ELSE {})
<1> DEFINE Objs == {ObjectSource(Now, Views(Now), d) : d \in DefsOf(Now, pkg)}
           Opas == IF emitOPA THEN {OPASource(Now, pkg)} ELSE {}
           At(p) == IF disk[p] = Partial THEN Partial ELSE Says(disk[p])
<1>1. text \in Schemas /\ Compiled(Now) /\ Fitting(Now, pkg) /\ pkg \in Packages(Now) /\ Tidy(pkg)
  BY NowIs, OrderlyIs
<1>2. \A x : (x.kind = "object" \/ x.kind = "opa") => x # Partial /\ x # Absent
  BY DEF Partial, Absent
<1>3. ASSUME NEW p \in InPackage(pkg) PROVE At(p) \in Objs \cup Opas
  <2>1. Len(p) = 2 /\ p[1] = pkg
    BY DEF InPackage
  <2>2. PICK f \in Ran : f.path = p
    BY <1>1 DEF Tidy
  <2>3. PICK g \in Ran : g.path = p /\ disk[p] = g.text
    BY <2>2, DiskIs
  <2>4. CASE \E d \in DefsOf(Now, pkg) : g.text.kind = "object" /\ Says(g.text) = ObjectSource(Now, Views(Now), d)
    <3>1. At(p) = Says(g.text)
      BY <1>2, <2>3, <2>4
    <3> HIDE DEF At
    <3> QED BY <2>4, <3>1
  <2>5. CASE emitOPA /\ g.text.kind = "opa" /\ Says(g.text) = OPASource(Now, pkg)
    <3>1. At(p) = Says(g.text)
      BY <1>2, <2>3, <2>5
    <3> HIDE DEF At
    <3> QED BY <2>5, <3>1
  <2> HIDE DEF At, Objs, Opas
  <2> QED BY <2>1, <2>3, <2>4, <2>5, FileIs
<1>4. ASSUME NEW d \in DefsOf(Now, pkg)
      PROVE  \E p \in InPackage(pkg) : At(p) = ObjectSource(Now, Views(Now), d)
  <2> DEFINE p == ObjectPath(d.name)
             f == Label(text, p, "object")
  <2>1. d \in ToSet(Now.defs) /\ PackageName(d.name[1]) = pkg /\ PackageName(d.name[2]) # "opa"
    BY <1>1 DEF DefsOf, Fitting
  <2>2. p = << pkg, PackageName(d.name[2]) >> /\ f.path = p
    BY <2>1, LabelIs DEF ObjectPath
  <2>3. f \in Ran
    BY <1>1, <2>1, LabelsAre DEF Ran, Now
  <2> HIDE DEF f, p
  <2>4. PICK g \in Ran : g.path = p /\ disk[p] = g.text /\ p \in Paths
    BY <2>2, <2>3, DiskIs
  <2>5. Len(g.path) = 2 /\ g.path[1] = pkg /\ g.path[2] = PackageName(d.name[2])
    BY <2>2, <2>4
  <2>6. PICK e \in DefsOf(Now, pkg) :
          /\ g = Label(text, ObjectPath(e.name), "object") /\ g.text.kind = "object"
          /\ Says(g.text) = ObjectSource(Now, Views(Now), e)
    BY <2>1, <2>5, FileIs
  <2>7. e = d
    <3>1. g.path = ObjectPath(e.name)
      BY <2>6, LabelIs
    <3>2. PackageName(e.name[2]) = PackageName(d.name[2])
      BY <2>5, <3>1 DEF ObjectPath
    <3> QED BY <1>1, <3>2, PathsDiffer
  <2>8. p \in InPackage(pkg)
    BY <1>2, <2>2, <2>4, <2>6 DEF InPackage
  <2>9. At(p) = ObjectSource(Now, Views(Now), d)
    BY <1>2, <2>4, <2>6, <2>7
  <2> HIDE DEF At
  <2> QED BY <2>8, <2>9
<1>5. ASSUME emitOPA
      PROVE  \E p \in InPackage(pkg) : At(p) = OPASource(Now, pkg)
  <2> DEFINE p == OPAPath(pkg)
             f == Label(text, p, "opa")
  <2>1. p = << pkg, "opa" >> /\ f.path = p
    BY LabelIs DEF OPAPath
  <2>2. f \in Ran
    BY <1>1, <1>5, LabelsAre DEF Ran, Now
  <2> HIDE DEF f, p
  <2>3. PICK g \in Ran : g.path = p /\ disk[p] = g.text /\ p \in Paths
    BY <2>1, <2>2, DiskIs
  <2>4. Len(g.path) = 2 /\ g.path[1] = pkg /\ g.path[2] = "opa"
    BY <2>1, <2>3
  <2>5. g.text.kind = "opa" /\ Says(g.text) = OPASource(Now, pkg)
    BY <2>4, FileIs
  <2>6. p \in InPackage(pkg)
    BY <1>2, <2>1, <2>3, <2>5 DEF InPackage
  <2>7. At(p) = OPASource(Now, pkg)
    BY <1>2, <2>3, <2>5
  <2> HIDE DEF At
  <2> QED BY <2>6, <2>7
<1>6. FilesOf(pkg) = {At(p) : p \in InPackage(pkg)}
  BY DEF FilesOf
<1> HIDE DEF At
<1> QED BY <1>3, <1>4, <1>5, <1>6

\* A client is of a definition of an orderly package.
LEMMA ClientIs ==
  ASSUME Settled, NEW f \in Clients
  PROVE  \E pkg \in Orderly : \E d \in DefsOf(Now, pkg) : f = ObjectSource(Now, Views(Now), d)
<1>1. PICK pkg \in Orderly : f \in FilesOf(pkg) /\ f.kind = "object"
  BY DEF Clients
<1>2. f # OPASource(Now, pkg)
  BY <1>1, SourceKinds
<1> QED BY <1>1, <1>2, OutputIs

-----------------------------------------------------------------------------
(* The client and the live schema.                                         *)

\* The parts of a client.
LEMMA FieldsOfSource ==
  ASSUME NEW s, NEW d
  PROVE  /\ ObjectSource(s, Views(s), d).name = d.name
         /\ ObjectSource(s, Views(s), d).purges = Referencing(s, d.name)
         /\ ObjectSource(s, Views(s), d).type = UpperFirst(d.name[2])
         /\ ObjectSource(s, Views(s), d).args = ArgsSource(s, d)
         /\ ObjectSource(s, Views(s), d).rels = [i \in DOMAIN d.rels |-> RelationSource(d.rels[i])]
         /\ ObjectSource(s, Views(s), d).checks =
              [i \in DOMAIN d.perms |-> CheckSource(Views(s), d.name, d.perms[i].name)]
BY DEF ObjectSource

\* x is a relation in rels with a type it allows.
SubjectOf(s, rels, x) ==
  \E d \in ToSet(s.defs) : \E r \in ToSet(d.rels) : \E a \in ToSet(r.types) :
    <<d.name, r.name>> \in rels /\ x = << <<d.name, r.name>>, a >>

\* A subject type of a relation, as VerifySchema looks it up.
LEMMA SubjectTypesAre ==
  ASSUME NEW s, Compiled(s), NEW rels \in SUBSET Relations(s), NEW x
  PROVE  x \in SubjectTypes(s, rels) <=> SubjectOf(s, rels, x)
<1>1. \A d \in ToSet(s.defs) : \A r \in ToSet(d.rels) : AllowedTypes(s, <<d.name, r.name>>) = ToSet(r.types)
  BY DefinitionsAre DEF AllowedTypes, TypesOf
<1>2. \A k \in rels : \E d \in ToSet(s.defs) : \E r \in ToSet(d.rels) : k = <<d.name, r.name>>
  BY DEF Relations, NamesOf
<1>3. x \in SubjectTypes(s, rels) <=> \E k \in rels : \E a \in AllowedTypes(s, k) : x = <<k, a>>
  BY DEF SubjectTypes
<1>4. ASSUME x \in SubjectTypes(s, rels)
      PROVE  \E d \in ToSet(s.defs) : \E r \in ToSet(d.rels) : \E a \in ToSet(r.types) :
               <<d.name, r.name>> \in rels /\ x = << <<d.name, r.name>>, a >>
  <2>1. PICK k \in rels : \E a \in AllowedTypes(s, k) : x = <<k, a>>
    BY <1>3, <1>4
  <2>2. PICK a \in AllowedTypes(s, k) : x = <<k, a>>
    BY <2>1
  <2>3. PICK d \in ToSet(s.defs) : \E r \in ToSet(d.rels) : k = <<d.name, r.name>>
    BY <1>2
  <2>4. PICK r \in ToSet(d.rels) : k = <<d.name, r.name>>
    BY <2>3
  <2>5. a \in ToSet(r.types)
    BY <1>1, <2>2, <2>4
  <2> QED BY <2>2, <2>4, <2>5
<1>5. ASSUME NEW d \in ToSet(s.defs), NEW r \in ToSet(d.rels), NEW a \in ToSet(r.types),
             <<d.name, r.name>> \in rels, x = << <<d.name, r.name>>, a >>
      PROVE  x \in SubjectTypes(s, rels)
  <2>1. a \in AllowedTypes(s, <<d.name, r.name>>)
    BY <1>1
  <2> QED BY <1>3, <1>5, <2>1
<1> QED BY <1>4, <1>5 DEF SubjectOf

\* The relations of a schema, by definition and name.
LEMMA RelationsAre ==
  ASSUME NEW s, NEW k
  PROVE  k \in Relations(s) <=> \E d \in ToSet(s.defs) : \E r \in ToSet(d.rels) : k = <<d.name, r.name>>
BY DEF Relations, NamesOf

\* Nothing that the live schema lacks is left unnoticed.
LEMMA NothingAdded ==
  ASSUME NEW s, NEW base, ~IsBreaking(VerifySchema(s, base))
  PROVE  /\ Types(base) \subseteq Types(s)
         /\ Relations(base) \subseteq Relations(s)
         /\ SubjectTypes(base, Relations(base)) \subseteq SubjectTypes(s, Relations(base))
<1> DEFINE types == Types(s) \cap Types(base)
           rels  == OfTypes(Relations(s), types) \cap Relations(base)
<1>1. \A d \in Diffs(s, base) : d.change # "Added"
  BY DEF IsBreaking, VerifySchema, BucketDrift, Bucket
<1>2. \A kind, x, bs, l : x \in bs \ l => /\ Entry(kind, "Added", x) \in Changes(kind, bs, l)
                                         /\ Entry(kind, "Added", x).change = "Added"
  BY DEF Changes, Entry
<1>3. /\ Changes("Definition", Types(base), Types(s)) \subseteq Diffs(s, base)
      /\ Changes("Relation", OfTypes(Relations(base), types), OfTypes(Relations(s), types)) \subseteq Diffs(s, base)
      /\ Changes("RelationSubjectType", SubjectTypes(base, rels), SubjectTypes(s, rels)) \subseteq Diffs(s, base)
  BY DEF Diffs
<1> HIDE DEF types, rels
<1>4. Types(base) \subseteq Types(s)
  BY <1>1, <1>2, <1>3
<1>5. OfTypes(Relations(base), types) \subseteq OfTypes(Relations(s), types)
  BY <1>1, <1>2, <1>3
<1>6. SubjectTypes(base, rels) \subseteq SubjectTypes(s, rels)
  BY <1>1, <1>2, <1>3
<1>7. types = Types(base)
  BY <1>4 DEF types
<1>8. OfTypes(Relations(base), types) = Relations(base)
  BY <1>7, RelationsAre DEF OfTypes, Types, NamesOf
<1>9. Relations(base) \subseteq Relations(s) /\ rels = Relations(base)
  BY <1>5, <1>8 DEF OfTypes, rels
<1> QED BY <1>4, <1>6, <1>9

\* Without any drift the two schemas allow the same.
LEMMA NothingRemoved ==
  ASSUME NEW s, NEW base, IsClean(VerifySchema(s, base))
  PROVE  /\ ~IsBreaking(VerifySchema(s, base))
         /\ Relations(base) = Relations(s)
         /\ SubjectTypes(base, Relations(base)) = SubjectTypes(s, Relations(base))
<1> DEFINE types == Types(s) \cap Types(base)
           rels  == OfTypes(Relations(s), types) \cap Relations(base)
<1>1. ~IsBreaking(VerifySchema(s, base))
  BY DEF IsClean, IsBreaking, VerifySchema, BucketDrift
<1>2. \A d \in Diffs(s, base) : d.change # "Removed"
  <2>1. VerifySchema(s, base)["Added"] = {}
    BY DEF IsClean, VerifySchema, BucketDrift
  <2>2. VerifySchema(s, base)["Added"] = {d \in Diffs(s, base) : Bucket[d.change] = "Added"}
    BY DEF VerifySchema, BucketDrift
  <2>3. Bucket["Removed"] = "Added"
    BY DEF Bucket
  <2> QED BY <2>1, <2>2, <2>3
<1>3. \A kind, x, bs, l : x \in l \ bs => /\ Entry(kind, "Removed", x) \in Changes(kind, bs, l)
                                         /\ Entry(kind, "Removed", x).change = "Removed"
  BY DEF Changes, Entry
<1>4. /\ Changes("Definition", Types(base), Types(s)) \subseteq Diffs(s, base)
      /\ Changes("Relation", OfTypes(Relations(base), types), OfTypes(Relations(s), types)) \subseteq Diffs(s, base)
      /\ Changes("RelationSubjectType", SubjectTypes(base, rels), SubjectTypes(s, rels)) \subseteq Diffs(s, base)
  BY DEF Diffs
<1> HIDE DEF types, rels
<1>5. /\ Types(base) \subseteq Types(s)
      /\ Relations(base) \subseteq Relations(s)
      /\ SubjectTypes(base, Relations(base)) \subseteq SubjectTypes(s, Relations(base))
  BY <1>1, NothingAdded
<1>6. Types(s) \subseteq Types(base)
  BY <1>2, <1>3, <1>4
<1>7. OfTypes(Relations(s), types) \subseteq OfTypes(Relations(base), types)
  BY <1>2, <1>3, <1>4
<1>8. SubjectTypes(s, rels) \subseteq SubjectTypes(base, rels)
  BY <1>2, <1>3, <1>4
<1>9. types = Types(s)
  BY <1>6 DEF types
<1>10. OfTypes(Relations(s), types) = Relations(s)
  BY <1>9, RelationsAre DEF OfTypes, Types, NamesOf
<1>11. Relations(s) \subseteq Relations(base)
  BY <1>7, <1>10 DEF OfTypes
<1>12. rels = Relations(base)
  BY <1>5, <1>10, <1>11 DEF rels
<1> QED BY <1>1, <1>5, <1>8, <1>11, <1>12

\* Definitions that allow t, by the subject types.
NamesAllowing(s, t) == {d.name : d \in Allowing(s, t)}

\* A definition allows t if a subject type of one of its relations is t.
LEMMA AllowingIs ==
  ASSUME NEW s, Compiled(s), NEW t, NEW n
  PROVE  n \in NamesAllowing(s, t) <=>
           \E x \in SubjectTypes(s, Relations(s)) : x[1][1] = n /\ x[2].type = t
<1>1. ASSUME NEW d \in Allowing(s, t), n = d.name
      PROVE  \E x \in SubjectTypes(s, Relations(s)) : x[1][1] = n /\ x[2].type = t
  <2>1. d \in ToSet(s.defs) /\ \E a \in AllowedIn(d) : a.type = t
    BY DEF Allowing
  <2>2. PICK r \in ToSet(d.rels) : \E a \in ToSet(r.types) : a.type = t
    BY <2>1 DEF AllowedIn
  <2>3. PICK a \in ToSet(r.types) : a.type = t
    BY <2>2
  <2>4. <<d.name, r.name>> \in Relations(s)
    BY <2>1, RelationsAre
  <2>5. << <<d.name, r.name>>, a >> \in SubjectTypes(s, Relations(s))
    <3>1. PICK x : x = << <<d.name, r.name>>, a >>
      OBVIOUS
    <3>2. SubjectOf(s, Relations(s), x)
      BY <2>1, <2>4, <3>1 DEF SubjectOf
    <3> QED BY <3>1, <3>2, SubjectTypesAre
  <2> QED BY <1>1, <2>3, <2>5
<1>2. ASSUME NEW x \in SubjectTypes(s, Relations(s)), x[1][1] = n, x[2].type = t
      PROVE  \E d \in Allowing(s, t) : n = d.name
  <2>1. PICK d \in ToSet(s.defs) : \E r \in ToSet(d.rels) : \E a \in ToSet(r.types) :
               x = << <<d.name, r.name>>, a >>
    <3>1. PICK rels : rels = Relations(s)
      OBVIOUS
    <3>2. rels \in SUBSET Relations(s) /\ x \in SubjectTypes(s, rels)
      BY <3>1
    <3>3. SubjectOf(s, rels, x)
      BY <3>2, SubjectTypesAre
    <3> QED BY <3>3 DEF SubjectOf
  <2>2. PICK r \in ToSet(d.rels) : \E a \in ToSet(r.types) : x = << <<d.name, r.name>>, a >>
    BY <2>1
  <2>3. PICK a \in ToSet(r.types) : x = << <<d.name, r.name>>, a >>
    BY <2>2
  <2>4. a \in AllowedIn(d) /\ a.type = t /\ d.name = n
    BY <1>2, <2>3 DEF AllowedIn
  <2> QED BY <2>4 DEF Allowing
<1> QED BY <1>1, <1>2 DEF NamesAllowing

\* What is live has been accepted too.
LEMMA DriftIs ==
  ASSUME Settled
  PROVE  Compiled(Live) /\ Drift = VerifySchema(Live, Now)
<1>1. live \in DOMAIN Catalog
  BY CodegenAssumption DEF Settled, TypeOK
<1> QED BY <1>1, BaselineIs, CodegenAssumption DEF Live, Drift

\* CleanPurges of the definitions that allow a type.
LEMMA PurgesAgree ==
  ASSUME Settled, IsClean(Drift), NEW t
  PROVE  ToSet(Referencing(Now, t)) = {d.name : d \in Allowing(Live, t)}
<1>1. Compiled(Now) /\ Compiled(Live) /\ Drift = VerifySchema(Live, Now)
  BY NowIs, DriftIs
<1>2. SubjectTypes(Now, Relations(Now)) = SubjectTypes(Live, Relations(Live))
  BY <1>1, NothingRemoved
<1>3. ToSet(Referencing(Now, t)) = {d.name : d \in Allowing(Now, t)}
  BY <1>1, ReferencingIs
<1>4. \A n : n \in NamesAllowing(Now, t) <=> n \in NamesAllowing(Live, t)
  <2> TAKE n
  <2>3. PICK a, b : a = Now /\ b = Live
    OBVIOUS
  <2>4. Compiled(a) /\ Compiled(b)
    BY <1>1, <2>3
  <2>1. n \in NamesAllowing(a, t) <=>
           \E x \in SubjectTypes(a, Relations(a)) : x[1][1] = n /\ x[2].type = t
    BY <2>4, AllowingIs
  <2>2. n \in NamesAllowing(b, t) <=>
           \E x \in SubjectTypes(b, Relations(b)) : x[1][1] = n /\ x[2].type = t
    BY <2>4, AllowingIs
  <2> QED BY <1>2, <2>1, <2>2, <2>3
<1>5. NamesAllowing(Now, t) = NamesAllowing(Live, t)
  BY <1>4 DEF NamesAllowing
<1> QED BY <1>3, <1>5 DEF NamesAllowing

\* PurgeRelationsAsSubject after a run that ended well.
LEMMA PurgesSettled ==
  ASSUME Settled
  PROVE  CleanPurges
<1> SUFFICES ASSUME IsClean(Drift), NEW f \in Clients
             PROVE  ToSet(f.purges) = {d.name : d \in Allowing(Live, f.name)}
  BY DEF CleanPurges, Allowing
<1>1. PICK pkg \in Orderly : \E d \in DefsOf(Now, pkg) : f = ObjectSource(Now, Views(Now), d)
  BY ClientIs
<1>2. PICK d \in DefsOf(Now, pkg) : f = ObjectSource(Now, Views(Now), d)
  BY <1>1
<1>3. f.purges = Referencing(Now, d.name) /\ f.name = d.name
  BY <1>2 DEF ObjectSource
<1> QED BY <1>3, PurgesAgree

-----------------------------------------------------------------------------
(* Create<Rel>Relations.                                                   *)

\* The branches of the i-th allowed type.
Branches(types, i) ==
  << Branch(types, i, FALSE) >> \o IF types[i].star THEN << Branch(types, i, TRUE) >> ELSE <<>>

\* The parts of a branch.
LEMMA BranchIs ==
  ASSUME NEW types, NEW i, NEW star
  PROVE  /\ Branch(types, i, star).star = star /\ Branch(types, i, star).from = IDFieldName(types, i)
         /\ Branch(types, i, star).type = TypeName(types[i].type)
         /\ Branch(types, i, star).sub = types[i].sub
         /\ Branch(types, i, star).caveat = types[i].caveat
         /\ Branch(types, i, star).expires = types[i].expiring
         /\ Branch(types, i, star).method = Method(types[i])
BY DEF Branch

\* b is a branch of the i-th allowed type.
IsBranch(b, types, i) ==
  \/ b = Branch(types, i, FALSE)
  \/ types[i].star /\ b = Branch(types, i, TRUE)

\* The one or two branches of an allowed type.
LEMMA BranchesAre ==
  ASSUME NEW types, NEW i, NEW X, \A star \in BOOLEAN : Branch(types, i, star) \in X
  PROVE  /\ Branches(types, i) \in Seq(X) /\ IsInjective(Branches(types, i))
         /\ \A b : b \in ToSet(Branches(types, i)) <=> IsBranch(b, types, i)
<1> DEFINE no  == Branch(types, i, FALSE)
           yes == Branch(types, i, TRUE)
           more == IF types[i].star THEN << yes >> ELSE <<>>
<1>1. no \in X /\ yes \in X
  OBVIOUS
<1>2. no # yes
  <2>1. no.star = FALSE /\ yes.star = TRUE
    BY DEF Branch
  <2> QED BY <2>1
<1>3. Branches(types, i) = << no >> \o more
  BY DEF Branches
<1>4. \A b : IsBranch(b, types, i) <=> (b = no \/ (types[i].star /\ b = yes))
  BY DEF IsBranch
<1> HIDE DEF no, yes
<1>5. << no >> \in Seq(X) /\ ToSet(<< no >>) = {no} /\ IsInjective(<< no >>)
  BY <1>1, SingleIs
<1>6. /\ more \in Seq(X) /\ IsInjective(more)
      /\ ToSet(more) = IF types[i].star THEN {yes} ELSE {}
  <2>1. CASE types[i].star
    BY <1>1, <2>1, SingleIs
  <2>2. CASE ~types[i].star
    BY <2>2, NoneIs
  <2> QED BY <2>1, <2>2
<1> HIDE DEF more
<1>7. ToSet(<< no >>) \cap ToSet(more) = {}
  BY <1>2, <1>5, <1>6
<1>8. IsInjective(<< no >> \o more) /\ ToSet(<< no >> \o more) = ToSet(<< no >>) \cup ToSet(more)
  BY <1>5, <1>6, <1>7, ConcatOnce, ConcatElements
<1>9. << no >> \o more \in Seq(X)
  BY <1>5, <1>6, ConcatProperties
<1>10. \A b : b \in ToSet(Branches(types, i)) <=> IsBranch(b, types, i)
  BY <1>3, <1>4, <1>5, <1>6, <1>8
<1> QED BY <1>3, <1>8, <1>9, <1>10

\* The branches that the allowed types can have.
AllBranches(types) == {Branch(types, i, star) : i \in DOMAIN types, star \in BOOLEAN}

\* The branches of Create<Rel>Relations, one or two for each allowed type.
LEMMA CreatesAre ==
  ASSUME NEW types, IsList(types)
  PROVE  /\ Creates(types) \in Seq(AllBranches(types))
         /\ \A b : b \in ToSet(Creates(types)) <=> \E i \in DOMAIN types : IsBranch(b, types, i)
         /\ (\A i, j \in DOMAIN types : IDFieldName(types, i) = IDFieldName(types, j) => i = j)
              => IsInjective(Creates(types))
<1> DEFINE N == Len(types)
           X == AllBranches(types)
           s == [i \in DOMAIN types |-> Branches(types, i)]
<1>1. N \in Nat /\ DOMAIN types = 1 .. N
  BY DEF IsList
<1>2. Creates(types) = FlattenSeq(s)
  BY DEF Creates, Branches
<1>3. \A k \in 1 .. N : s[k] = Branches(types, k)
  BY <1>1
<1>4. s = [k \in 1 .. N |-> s[k]]
  BY <1>1
<1>5. \A i \in DOMAIN types : \A star \in BOOLEAN : Branch(types, i, star) \in X
  BY DEF AllBranches
<1> HIDE DEF X, N, s
<1>6. \A k \in DOMAIN types :
         /\ Branches(types, k) \in Seq(X) /\ IsInjective(Branches(types, k))
         /\ \A b : b \in ToSet(Branches(types, k)) <=> IsBranch(b, types, k)
  BY <1>5, BranchesAre
<1>7. \A k \in 1 .. N : s[k] \in Seq(X) /\ IsInjective(s[k])
  BY <1>1, <1>3, <1>6
<1>8. /\ FlattenSeq(s) \in Seq(X) /\ ToSet(FlattenSeq(s)) = UNION {ToSet(s[k]) : k \in 1 .. N}
      /\ (\A k, l \in 1 .. N : k # l => ToSet(s[k]) \cap ToSet(s[l]) = {}) => IsInjective(FlattenSeq(s))
  BY <1>1, <1>4, <1>7, FlattenIs
<1>9. \A b : b \in ToSet(Creates(types)) <=> \E k \in 1 .. N : b \in ToSet(Branches(types, k))
  BY <1>2, <1>3, <1>8
<1>10. ASSUME \A i, j \in DOMAIN types : IDFieldName(types, i) = IDFieldName(types, j) => i = j,
              NEW k \in 1 .. N, NEW l \in 1 .. N, k # l
       PROVE  ToSet(s[k]) \cap ToSet(s[l]) = {}
  <2>0. \A i : \A b : IsBranch(b, types, i) => b.from = IDFieldName(types, i)
    BY DEF IsBranch, Branch
  <2>1. \A b \in ToSet(s[k]) : b.from = IDFieldName(types, k)
    BY <1>1, <1>3, <1>6, <2>0
  <2>2. \A b \in ToSet(s[l]) : b.from = IDFieldName(types, l)
    BY <1>1, <1>3, <1>6, <2>0
  <2> QED BY <1>1, <1>10, <2>1, <2>2
<1> QED BY <1>1, <1>2, <1>6, <1>8, <1>9, <1>10 DEF X

\* An allowed type, as Taken has it.
Form(a) ==
  [type |-> TypeName(a.type), star |-> a.star, sub |-> a.sub, caveat |-> a.caveat, expiring |-> a.expiring]

\* What a branch sends is the allowed type it was made for, or that is a wildcard.
LEMMA SentIs ==
  ASSUME NEW types, NEW i, IsAllowed(types[i]), NEW b, IsBranch(b, types, i)
  PROVE  \E star \in {b.star, TRUE} : Sent(b, star) = Form(types[i])
<1>1. PICK a : a = types[i]
  OBVIOUS
<1>2. a.star \in BOOLEAN /\ a.expiring \in BOOLEAN
  BY <1>1 DEF IsAllowed
<1>3. PICK star \in BOOLEAN : b = Branch(types, i, star) /\ (star => a.star)
  BY <1>1 DEF IsBranch
<1>4. /\ b.star = star /\ b.type = TypeName(a.type) /\ b.sub = a.sub
      /\ b.caveat = a.caveat /\ b.expires = a.expiring /\ b.method = Method(a)
  BY <1>1, <1>3 DEF Branch
<1>5. (IF b.method = "CreateRelations" THEN NoCaveat ELSE b.caveat) = a.caveat
  BY <1>4 DEF Method
<1>6. (b.method \in {"CreateRelationsWithExpiration", "CreateRelationsToUserset"} /\ b.expires) = a.expiring
  BY <1>2, <1>4 DEF Method
<1>7. \A p : Sent(b, p) = [type |-> TypeName(a.type), star |-> p, sub |-> a.sub, caveat |-> a.caveat,
                           expiring |-> a.expiring]
  BY <1>4, <1>5, <1>6 DEF Sent
<1>8. Sent(b, a.star) = Form(a)
  BY <1>7 DEF Form
<1>9. a.star \in {b.star, TRUE}
  BY <1>2, <1>3, <1>4
<1> QED BY <1>1, <1>8, <1>9

\* What the live schema takes of what the current one allows, if nothing breaks.
LEMMA TakenIs ==
  ASSUME Settled, ~IsBreaking(Drift), NEW d \in ToSet(Now.defs), NEW r \in ToSet(d.rels),
         NEW a \in ToSet(r.types), a.type[1] = d.name[1]
  PROVE  Form(a) \in Taken(d.name, r.name)
<1>1. PICK s, base : s = Live /\ base = Now
  OBVIOUS
<1>2. Compiled(base) /\ ~IsBreaking(VerifySchema(s, base)) /\ d \in ToSet(base.defs)
  BY <1>1, NowIs, DriftIs
<1>3. PICK rels : rels = Relations(base)
  OBVIOUS
<1>4. rels \subseteq Relations(s) /\ SubjectTypes(base, rels) \subseteq SubjectTypes(s, rels)
  BY <1>2, <1>3, NothingAdded
<1>5. <<d.name, r.name>> \in rels
  BY <1>2, <1>3, RelationsAre
<1>6. rels \in SUBSET Relations(base)
  BY <1>3
<1>7. << <<d.name, r.name>>, a >> \in SubjectTypes(base, rels)
  <2>1. PICK x : x = << <<d.name, r.name>>, a >>
    OBVIOUS
  <2>2. SubjectOf(base, rels, x)
    BY <1>2, <1>5, <1>6, <2>1 DEF SubjectOf
  <2> QED BY <1>2, <1>5, <1>6, <2>1, <2>2, SubjectTypesAre
<1>8. << <<d.name, r.name>>, a >> \in SubjectTypes(s, rels)
  BY <1>4, <1>7
<1>9. a \in AllowedTypes(s, <<d.name, r.name>>)
  BY <1>8 DEF SubjectTypes
<1>10. <<d.name, r.name>> \in Relations(s)
  BY <1>4, <1>5
<1> QED BY <1>1, <1>9, <1>10 DEF Taken, Form

\* A package keeps to its prefix.
LEMMA PrefixIs ==
  ASSUME NEW s, NEW pkg, Fitting(s, pkg), NEW d \in DefsOf(s, pkg), NEW a \in AllowedIn(d)
  PROVE  a.type[1] = d.name[1]
<1>1. a.type \in {e.name : e \in DefsOf(s, pkg)}
  BY DEF Fitting
<1>2. \A e \in DefsOf(s, pkg) : e.name[1] = d.name[1]
  BY DEF Fitting
<1> QED BY <1>1, <1>2

\* Create<Rel>Relations after a run that ended well.
LEMMA WritesSettled ==
  ASSUME Settled
  PROVE  WritesAccepted
<1> SUFFICES ASSUME ~IsBreaking(Drift), NEW f \in Clients, NEW i \in DOMAIN f.rels,
                    NEW b \in ToSet(f.rels[i].creates)
             PROVE  \E star \in {b.star, TRUE} : Sent(b, star) \in Taken(f.name, f.rels[i].name)
  BY DEF WritesAccepted
<1>1. PICK pkg \in Orderly : \E d \in DefsOf(Now, pkg) : f = ObjectSource(Now, Views(Now), d)
  BY ClientIs
<1>2. PICK d \in DefsOf(Now, pkg) : f = ObjectSource(Now, Views(Now), d)
  BY <1>1
<1>3. f.name = d.name /\ f.rels = [j \in DOMAIN d.rels |-> RelationSource(d.rels[j])]
  BY <1>2 DEF ObjectSource
<1>4. PICK r : r = d.rels[i]
  OBVIOUS
<1>5. r \in ToSet(d.rels) /\ f.rels[i] = RelationSource(r)
  BY <1>3, <1>4 DEF ToSet
<1>6. f.rels[i].name = r.name /\ f.rels[i].creates = Creates(r.types)
  BY <1>5 DEF RelationSource
<1>7. d \in ToSet(Now.defs) /\ Compiled(Now) /\ Fitting(Now, pkg)
  BY NowIs, OrderlyIs DEF DefsOf
<1>8. IsList(r.types) /\ \A a \in ToSet(r.types) : IsAllowed(a) /\ a.type[1] = d.name[1]
  <2>1. IsList(r.types) /\ \A a \in ToSet(r.types) : IsAllowed(a)
    BY <1>5, <1>7 DEF Compiled
  <2>2. \A a \in ToSet(r.types) : a \in AllowedIn(d)
    BY <1>5 DEF AllowedIn
  <2>3. \A a \in AllowedIn(d) : a.type[1] = d.name[1]
    BY <1>7, PrefixIs
  <2> QED BY <2>1, <2>2, <2>3
<1>9. PICK j \in DOMAIN r.types : IsBranch(b, r.types, j)
  BY <1>6, <1>8, CreatesAre
<1>10. PICK a : a = r.types[j]
  OBVIOUS
<1>11. a \in ToSet(r.types)
  BY <1>9, <1>10 DEF ToSet
<1>12. Form(a) \in Taken(d.name, r.name)
  BY <1>5, <1>7, <1>8, <1>11, TakenIs
<1>13. PICK types : types = r.types
  OBVIOUS
<1>14. \E star \in {b.star, TRUE} : Sent(b, star) = Form(types[j])
  BY <1>8, <1>9, <1>10, <1>11, <1>13, SentIs
<1> QED BY <1>3, <1>6, <1>10, <1>12, <1>13, <1>14

-----------------------------------------------------------------------------
(* Args structs and the contexts of the checks.                            *)

\* What the generator has seen to in a schema it did not refuse.
LEMMA NotRefused ==
  ASSUME NEW s, Compiled(s), ~Refused(s), NEW d \in ToSet(s.defs)
  PROVE  /\ \A r \in ToSet(d.rels) : ~Ambiguous(r.types)
         /\ \A a \in AllowedIn(d) : a.caveat \in DOMAIN s.caveats \cup {NoCaveat}
         /\ \A p \in ToSet(d.perms) : /\ <<d.name, p.name>> \in Keys(Views(s))
                                      /\ ~Collides(s, Views(s), d.name, p.name)
<1> DEFINE v == Views(s)
<1>1. /\ Defs(v) = NamesOf(s.defs) /\ d.name \in Defs(v)
      /\ DOMAIN v.rel[d.name] = NamesOf(d.rels) /\ DOMAIN v.perm[d.name] = NamesOf(d.perms)
      /\ \A r \in ToSet(d.rels) : v.rel[d.name][r.name] = r.types
  BY ViewsAre, DefinitionsAre
<1>2. \A t \in Defs(v) : \A r \in DOMAIN v.rel[t] :
        /\ ~Ambiguous(v.rel[t][r])
        /\ \A a \in ToSet(v.rel[t][r]) : a.caveat \in DOMAIN s.caveats \cup {NoCaveat}
  BY DEF Refused
<1>3. \A k \in Keys(v) : ~Collides(s, v, k[1], k[2])
  BY DEF Refused
<1> HIDE DEF v
<1>4. ASSUME NEW r \in ToSet(d.rels)
      PROVE  ~Ambiguous(r.types) /\ \A a \in ToSet(r.types) : a.caveat \in DOMAIN s.caveats \cup {NoCaveat}
  <2>1. r.name \in DOMAIN v.rel[d.name] /\ v.rel[d.name][r.name] = r.types
    BY <1>1 DEF NamesOf
  <2> QED BY <1>1, <1>2, <2>1
<1>5. \A a \in AllowedIn(d) : a.caveat \in DOMAIN s.caveats \cup {NoCaveat}
  BY <1>4 DEF AllowedIn
<1>6. ASSUME NEW p \in ToSet(d.perms)
      PROVE  <<d.name, p.name>> \in Keys(v) /\ ~Collides(s, v, d.name, p.name)
  <2>1. p.name \in DOMAIN v.perm[d.name]
    BY <1>1 DEF NamesOf
  <2>2. <<d.name, p.name>> \in Keys(v)
    BY <1>1, <2>1 DEF Keys
  <2>3. \A k \in Keys(v) : k = <<d.name, p.name>> => ~Collides(s, v, d.name, p.name)
    BY <1>3
  <2> QED BY <2>2, <2>3
<1> QED BY <1>4, <1>5, <1>6 DEF v

\* Caveats of an orderly package are told apart by their names in Go.
LEMMA CaveatNames ==
  ASSUME NEW s, Compiled(s), NEW pkg, Fitting(s, pkg), NEW d \in DefsOf(s, pkg), NEW e \in DefsOf(s, pkg),
         NEW c \in CaveatsIn(d), NEW k \in CaveatsIn(e), PascalCaveatName(c) = PascalCaveatName(k)
  PROVE  c = k /\ d = e
<1>1. d \in ToSet(s.defs) /\ e \in ToSet(s.defs)
  BY DEF DefsOf
<1>2. c \in FullNames /\ k \in FullNames
  BY <1>1, CaveatsAre
<1>3. c[2] \in LocalNames /\ k[2] \in LocalNames
  BY <1>2 DEF FullNames
<1>4. c[2] = k[2]
  BY <1>3, WordsAre DEF PascalCaveatName, SnakeToPascal
<1> QED BY <1>4 DEF Fitting

\* There is one Args struct for each caveat of the definition.
LEMMA ArgsAre ==
  ASSUME NEW s, Compiled(s), NEW pkg, Fitting(s, pkg), NEW d \in DefsOf(s, pkg)
  PROVE  /\ UniqueNames(ArgsSource(s, d))
         /\ NamesOf(ArgsSource(s, d)) = {PascalCaveatName(c) : c \in CaveatsIn(d)}
         /\ \A c \in CaveatsIn(d) :
              Named(ArgsSource(s, d), PascalCaveatName(c)).params = CaveatParams(s, c)
<1> DEFINE used == SortedNames(CaveatsIn(d))
           args == ArgsSource(s, d)
           N    == Len(used)
<1>1. d \in ToSet(s.defs)
  BY DEF DefsOf
<1>2. used \in Seq(FullNames) /\ ToSet(used) = CaveatsIn(d) /\ IsInjective(used)
  BY <1>1, CaveatsAre
<1>3. args = [i \in DOMAIN used |-> [name |-> PascalCaveatName(used[i]), params |-> CaveatParams(s, used[i])]]
  BY DEF ArgsSource
<1> HIDE DEF used, args, N
<1>4. N \in Nat /\ DOMAIN used = 1 .. N
  BY <1>2, LenProperties DEF N
<1>5. /\ DOMAIN args = 1 .. N
      /\ \A i \in 1 .. N : args[i].name = PascalCaveatName(used[i]) /\ args[i].params = CaveatParams(s, used[i])
  BY <1>3, <1>4
<1>6. \A i \in 1 .. N : used[i] \in CaveatsIn(d)
  BY <1>2, <1>4 DEF ToSet
<1>7. \A c \in CaveatsIn(d) : \E i \in 1 .. N : used[i] = c
  BY <1>2, <1>4 DEF ToSet
<1>8. IsList(args)
  <2>1. args \in [1 .. N -> ToSet(args)]
    BY <1>3, <1>4, <1>5 DEF ToSet
  <2> QED BY <1>4, <2>1, SeqDef DEF IsList
<1>9. ASSUME NEW i \in 1 .. N, NEW j \in 1 .. N, args[i].name = args[j].name
      PROVE  i = j
  <2>1. PICK c, k : c = used[i] /\ k = used[j]
    OBVIOUS
  <2>2. c \in CaveatsIn(d) /\ k \in CaveatsIn(d) /\ PascalCaveatName(c) = PascalCaveatName(k)
    BY <1>5, <1>6, <1>9, <2>1
  <2>3. c = k
    BY <2>2, CaveatNames
  <2> QED BY <1>2, <1>4, <2>1, <2>3 DEF IsInjective
<1>10. UniqueNames(args)
  BY <1>5, <1>8, <1>9 DEF UniqueNames
<1>11. NamesOf(args) = {PascalCaveatName(c) : c \in CaveatsIn(d)}
  <2>1. NamesOf(args) = {args[i].name : i \in 1 .. N}
    BY <1>5 DEF NamesOf, ToSet
  <2> QED BY <1>5, <1>6, <1>7, <2>1
<1>12. ASSUME NEW c \in CaveatsIn(d)
       PROVE  Named(args, PascalCaveatName(c)).params = CaveatParams(s, c)
  <2>1. PICK i \in 1 .. N : used[i] = c
    BY <1>7
  <2>2. PICK x : x = args[i]
    OBVIOUS
  <2>3. x \in ToSet(args) /\ x.name = PascalCaveatName(c) /\ x.params = CaveatParams(s, c)
    BY <1>5, <2>1, <2>2 DEF ToSet
  <2>4. Named(args, x.name) = x
    BY <1>10, <2>3, NamedIs
  <2> QED BY <2>3, <2>4
<1> QED BY <1>10, <1>11, <1>12 DEF args

\* Parameters come by the names the caveat gives them.
LEMMA ParamsAre ==
  ASSUME NEW s, Compiled(s), NEW c \in DOMAIN s.caveats
  PROVE  {CaveatParams(s, c)[j][1] : j \in DOMAIN CaveatParams(s, c)} = NamesOf(s.caveats[c])
<1> DEFINE names == Sorted(NamesOf(s.caveats[c]))
           q     == CaveatParams(s, c)
<1>1. NamesOf(s.caveats[c]) \subseteq LocalNames
  BY DEF Compiled
<1>2. ToSet(names) = NamesOf(s.caveats[c])
  BY <1>1, SortedIs
<1>3. q = [i \in DOMAIN names |-> <<names[i], GoType(Named(s.caveats[c], names[i]).type)>>]
  BY DEF CaveatParams
<1> HIDE DEF names, q
<1>4. DOMAIN q = DOMAIN names /\ \A i \in DOMAIN names : q[i][1] = names[i]
  BY <1>3
<1>5. {q[j][1] : j \in DOMAIN q} = ToSet(names)
  BY <1>4 DEF ToSet
<1> QED BY <1>2, <1>5 DEF q

\* The caveats of a check, by their names in Go.
LEMMA CheckCaveatsAre ==
  ASSUME NEW s, Compiled(s), NEW d \in ToSet(s.defs), NEW p
  PROVE  ToSet(CheckSource(Views(s), d.name, p).caveats) =
           {PascalCaveatName(c) : c \in ToSet(PermCaveats(Views(s), d.name, p))}
<1> DEFINE q == PermCaveats(Views(s), d.name, p)
           m == CheckSource(Views(s), d.name, p).caveats
<1>1. m = [i \in DOMAIN q |-> PascalCaveatName(q[i])]
  BY DEF CheckSource
<1> HIDE DEF q, m
<1>2. ToSet(m) = {PascalCaveatName(c) : c \in ToSet(q)}
  BY <1>1 DEF ToSet
<1> QED BY <1>2 DEF q, m

\* The contexts of the checks after a run that ended well.
LEMMA KeysSettled ==
  ASSUME Settled
  PROVE  KeysArePrivate
<1> DEFINE Key(f, c) == {Named(f.args, c).params[j][1] : j \in DOMAIN Named(f.args, c).params}
<1> SUFFICES ASSUME NEW f \in Clients, NEW i \in DOMAIN f.checks,
                    NEW c \in ToSet(f.checks[i].caveats), NEW k \in ToSet(f.checks[i].caveats), c # k
             PROVE  Key(f, c) \cap Key(f, k) = {}
  BY DEF KeysArePrivate
<1>1. PICK pkg \in Orderly : \E d \in DefsOf(Now, pkg) : f = ObjectSource(Now, Views(Now), d)
  BY ClientIs
<1>2. PICK d \in DefsOf(Now, pkg) : f = ObjectSource(Now, Views(Now), d)
  BY <1>1
<1>3. PICK s : s = Now
  OBVIOUS
<1>4. /\ d \in ToSet(s.defs) /\ Compiled(s) /\ ~Refused(s) /\ Fitting(s, pkg) /\ d \in DefsOf(s, pkg)
  BY <1>3, NowIs, OrderlyIs DEF DefsOf
<1>5. /\ f.args = ArgsSource(s, d) /\ DOMAIN f.checks = DOMAIN d.perms
      /\ f.checks[i] = CheckSource(Views(s), d.name, d.perms[i].name)
  BY <1>2, <1>3 DEF ObjectSource
<1>6. PICK p : p = d.perms[i]
  OBVIOUS
<1>7. p \in ToSet(d.perms)
  BY <1>5, <1>6 DEF ToSet
<1>8. PICK q : q = PermCaveats(Views(s), d.name, p.name)
  OBVIOUS
<1>9. ToSet(f.checks[i].caveats) = {PascalCaveatName(x) : x \in ToSet(q)}
  BY <1>4, <1>5, <1>6, <1>8, CheckCaveatsAre
<1>10. PICK x \in ToSet(q) : c = PascalCaveatName(x)
  BY <1>9
<1>11. PICK y \in ToSet(q) : k = PascalCaveatName(y)
  BY <1>9
<1>12. ToSet(q) \subseteq CaveatsIn(d)
  BY <1>4, <1>8, PermCaveatsAre
<1>13. \A z \in CaveatsIn(d) : z \in DOMAIN s.caveats
  BY <1>4, NotRefused DEF CaveatsIn
<1>14. \A z \in CaveatsIn(d) : Key(f, PascalCaveatName(z)) = NamesOf(s.caveats[z])
  <2> TAKE z \in CaveatsIn(d)
  <2>1. Named(f.args, PascalCaveatName(z)).params = CaveatParams(s, z)
    BY <1>4, <1>5, ArgsAre
  <2>2. {CaveatParams(s, z)[j][1] : j \in DOMAIN CaveatParams(s, z)} = NamesOf(s.caveats[z])
    BY <1>4, <1>13, ParamsAre
  <2> QED BY <2>1, <2>2
<1>15. x # y /\ NamesOf(s.caveats[x]) \cap NamesOf(s.caveats[y]) = {}
  <2>1. ~Collides(s, Views(s), d.name, p.name)
    BY <1>4, <1>7, NotRefused
  <2>2. x # y
    BY <1>10, <1>11
  <2> QED BY <1>8, <2>1, <2>2 DEF Collides
<1> HIDE DEF Key
<1> QED BY <1>10, <1>11, <1>12, <1>14, <1>15

-----------------------------------------------------------------------------
(* The builtins.                                                           *)

\* The builtins of one definition.
LEMMA BuiltinsOfAre ==
  ASSUME NEW s, Compiled(s), NEW d \in ToSet(s.defs)
  PROVE  /\ BuiltinsOf(d) \in Seq(FullNames \X LocalNames) /\ IsInjective(BuiltinsOf(d))
         /\ ToSet(BuiltinsOf(d)) = {<<d.name, p>> : p \in NamesOf(d.perms)}
<1> DEFINE perms == Sorted(NamesOf(d.perms))
           Y     == FullNames \X LocalNames
           g     == [p \in LocalNames |-> <<d.name, p>>]
<1>1. NamesOf(d.perms) \in SUBSET LocalNames /\ d.name \in FullNames
  BY DefinitionsAre
<1>2. perms \in Seq(LocalNames) /\ ToSet(perms) = NamesOf(d.perms) /\ IsInjective(perms)
  BY <1>1, SortedIs
<1>3. BuiltinsOf(d) = [i \in DOMAIN perms |-> <<d.name, perms[i]>>]
  BY DEF BuiltinsOf
<1>4. g \in [LocalNames -> Y]
  BY <1>1
<1>5. \A p \in LocalNames : g[p] = <<d.name, p>>
  OBVIOUS
<1> HIDE DEF perms, Y, g
<1>6. BuiltinsOf(d) = Mapped(perms, g)
  <2>1. \A i \in DOMAIN perms : perms[i] \in LocalNames
    BY <1>2, ElementOfSeq, LenProperties
  <2> QED BY <1>3, <1>5, <2>1 DEF Mapped
<1>7. \A x, y \in ToSet(perms) : g[x] = g[y] => x = y
  BY <1>1, <1>2, <1>5
<1>8. /\ BuiltinsOf(d) \in Seq(Y) /\ ToSet(BuiltinsOf(d)) = {g[x] : x \in ToSet(perms)}
      /\ IsInjective(BuiltinsOf(d))
  <2>1. BuiltinsOf(d) \in Seq(Y) /\ IsInjective(BuiltinsOf(d))
    BY <1>2, <1>4, <1>6, <1>7, MappedOnce
  <2>2. ToSet(BuiltinsOf(d)) = {g[x] : x \in ToSet(perms)}
    BY <1>6 DEF Mapped, ToSet
  <2> QED BY <2>1, <2>2
<1>9. {g[x] : x \in ToSet(perms)} = {<<d.name, p>> : p \in NamesOf(d.perms)}
  BY <1>1, <1>2, <1>5
<1> QED BY <1>8, <1>9 DEF Y

\* Within a package a local name is one definition's.
LEMMA LocalIs ==
  ASSUME NEW s, Compiled(s), NEW pkg, Fitting(s, pkg), NEW d \in DefsOf(s, pkg), NEW e \in DefsOf(s, pkg),
         d.name[2] = e.name[2]
  PROVE  d = e
<1>1. d \in ToSet(s.defs) /\ e \in ToSet(s.defs)
  BY DEF DefsOf
<1>2. d.name \in FullNames /\ e.name \in FullNames /\ Named(s.defs, d.name) = d /\ Named(s.defs, e.name) = e
  BY <1>1, DefinitionsAre
<1>3. d.name[1] = e.name[1]
  BY DEF Fitting
<1>4. d.name = e.name
  BY <1>2, <1>3 DEF FullNames
<1> QED BY <1>2, <1>4

\* What is checked in a package: the permissions of its definitions.
Checked(s, pkg) == UNION {{<<d.name, p>> : p \in NamesOf(d.perms)} : d \in DefsOf(s, pkg)}

\* opa.gen.go has every permission of the package once.
LEMMA BuiltinsAre ==
  ASSUME NEW s, Compiled(s), NEW pkg, Fitting(s, pkg)
  PROVE  ToSet(Builtins(s, pkg)) = Checked(s, pkg) /\ IsInjective(Builtins(s, pkg))
<1> DEFINE names     == {d.name[2] : d \in DefsOf(s, pkg)}
           locals    == Sorted(names)
           ofName(n) == CHOOSE d \in DefsOf(s, pkg) : d.name[2] = n
           q         == [i \in DOMAIN locals |-> BuiltinsOf(ofName(locals[i]))]
           N         == Len(locals)
           Y         == FullNames \X LocalNames
<1>1. Builtins(s, pkg) = FlattenSeq(q)
  BY DEF Builtins
<1>2. \A d \in DefsOf(s, pkg) : d \in ToSet(s.defs) /\ d.name \in FullNames
  BY DefinitionsAre DEF DefsOf
<1>3. names \in SUBSET LocalNames
  BY <1>2 DEF FullNames
<1>4. \A n \in names : ofName(n) \in DefsOf(s, pkg) /\ ofName(n).name[2] = n
  OBVIOUS
<1>5. \A d \in DefsOf(s, pkg) : d.name[2] \in names /\ ofName(d.name[2]) = d
  <2> TAKE d \in DefsOf(s, pkg)
  <2>1. d.name[2] \in names
    OBVIOUS
  <2>2. ofName(d.name[2]) \in DefsOf(s, pkg) /\ ofName(d.name[2]).name[2] = d.name[2]
    BY <1>4, <2>1
  <2> HIDE DEF ofName
  <2> QED BY <2>1, <2>2, LocalIs
<1> HIDE DEF names, ofName
<1>6. locals \in Seq(LocalNames) /\ ToSet(locals) = names /\ IsInjective(locals)
  BY <1>3, SortedIs
<1> HIDE DEF locals
<1>7. N \in Nat /\ DOMAIN locals = 1 .. N
  BY <1>6, LenProperties
<1> HIDE DEF N
<1>8. \A k \in 1 .. N : q[k] = BuiltinsOf(ofName(locals[k])) /\ locals[k] \in names
  BY <1>6, <1>7 DEF ToSet
<1>9. q = [k \in 1 .. N |-> q[k]]
  BY <1>7
<1> HIDE DEF q
<1>10. \A d \in DefsOf(s, pkg) :
         /\ BuiltinsOf(d) \in Seq(Y) /\ IsInjective(BuiltinsOf(d))
         /\ ToSet(BuiltinsOf(d)) = {<<d.name, p>> : p \in NamesOf(d.perms)}
  BY <1>2, BuiltinsOfAre
<1> HIDE DEF Y
<1>11. \A k \in 1 .. N : ofName(locals[k]) \in DefsOf(s, pkg) /\ ofName(locals[k]).name[2] = locals[k]
  BY <1>4, <1>8
<1>12. \A k \in 1 .. N : q[k] \in Seq(Y) /\ IsInjective(q[k])
  BY <1>8, <1>10, <1>11
<1>13. ASSUME NEW k \in 1 .. N, NEW l \in 1 .. N, k # l
       PROVE  ToSet(q[k]) \cap ToSet(q[l]) = {}
  <2>1. PICK d, e : d = ofName(locals[k]) /\ e = ofName(locals[l])
    OBVIOUS
  <2>2. d.name[2] = locals[k] /\ e.name[2] = locals[l]
    BY <1>11, <2>1
  <2>3. locals[k] # locals[l]
    BY <1>6, <1>7, <1>13 DEF IsInjective
  <2>4. d.name # e.name
    BY <2>2, <2>3
  <2>5. \A x \in ToSet(q[k]) : x[1] = d.name
    BY <1>8, <1>10, <1>11, <2>1
  <2>6. \A x \in ToSet(q[l]) : x[1] = e.name
    BY <1>8, <1>10, <1>11, <2>1
  <2> QED BY <2>4, <2>5, <2>6
<1>14. /\ ToSet(FlattenSeq(q)) = UNION {ToSet(q[k]) : k \in 1 .. N}
       /\ IsInjective(FlattenSeq(q))
  <2>1. (\A k \in 1 .. N : q[k] \in Seq(Y)) /\ \A k \in 1 .. N : IsInjective(q[k])
    BY <1>12
  <2>2. /\ FlattenSeq(q) \in Seq(Y) /\ ToSet(FlattenSeq(q)) = UNION {ToSet(q[k]) : k \in 1 .. N}
        /\ /\ \A k \in 1 .. N : IsInjective(q[k])
           /\ \A k, l \in 1 .. N : k # l => ToSet(q[k]) \cap ToSet(q[l]) = {}
           => IsInjective(FlattenSeq(q))
    BY <1>7, <1>9, <2>1, FlattenIs
  <2>3. \A k, l \in 1 .. N : k # l => ToSet(q[k]) \cap ToSet(q[l]) = {}
    BY <1>13
  <2> QED BY <2>1, <2>2, <2>3
<1>15. \A d \in DefsOf(s, pkg) : \E k \in 1 .. N : ofName(locals[k]) = d
  <2> TAKE d \in DefsOf(s, pkg)
  <2>1. PICK k \in 1 .. N : locals[k] = d.name[2]
    BY <1>5, <1>6, <1>7 DEF ToSet
  <2> QED BY <1>5, <2>1
<1>16. UNION {ToSet(q[k]) : k \in 1 .. N} = Checked(s, pkg)
  <2>1. \A k \in 1 .. N : ToSet(q[k]) = ToSet(BuiltinsOf(ofName(locals[k])))
    BY <1>8
  <2>2. UNION {ToSet(q[k]) : k \in 1 .. N} = UNION {ToSet(BuiltinsOf(d)) : d \in DefsOf(s, pkg)}
    BY <1>11, <1>15, <2>1
  <2>3. UNION {ToSet(BuiltinsOf(d)) : d \in DefsOf(s, pkg)} = Checked(s, pkg)
    BY <1>10 DEF Checked
  <2> QED BY <2>2, <2>3
<1> QED BY <1>1, <1>14, <1>16

\* The files of an orderly package, by what they are.
LEMMA ObjectsIn ==
  ASSUME Settled, NEW pkg \in Orderly
  PROVE  /\ {f \in FilesOf(pkg) : f.kind = "object"} = {ObjectSource(Now, Views(Now), d) : d \in DefsOf(Now, pkg)}
         /\ emitOPA => OPAFilesOf(pkg) = {OPASource(Now, pkg)}
<1> DEFINE Objs == {ObjectSource(Now, Views(Now), d) : d \in DefsOf(Now, pkg)}
           Opas == IF emitOPA THEN {OPASource(Now, pkg)} ELSE {}
<1>1. FilesOf(pkg) = Objs \cup Opas
  BY OutputIs
<1>2. \A f \in Objs : f.kind = "object"
  BY SourceKinds
<1>3. \A f \in Opas : f.kind = "opa"
  BY SourceKinds
<1> HIDE DEF Objs
<1>4. {f \in FilesOf(pkg) : f.kind = "object"} = Objs
  BY <1>1, <1>2, <1>3
<1>5. emitOPA => {f \in FilesOf(pkg) : f.kind = "opa"} = {OPASource(Now, pkg)}
  BY <1>1, <1>2, <1>3
<1> QED BY <1>4, <1>5 DEF Objs, OPAFilesOf

\* The checks of the clients of a package.
LEMMA ChecksAre ==
  ASSUME Settled, NEW pkg \in Orderly
  PROVE  ChecksOf(pkg) = Checked(Now, pkg)
<1> DEFINE Names(f) == {<<f.name, f.checks[i].name>> : i \in DOMAIN f.checks}
           Of(d)    == {<<d.name, p>> : p \in NamesOf(d.perms)}
           Src(d)   == ObjectSource(Now, Views(Now), d)
<1>1. ChecksOf(pkg) = UNION {Names(f) : f \in {Src(d) : d \in DefsOf(Now, pkg)}}
  BY ObjectsIn DEF ChecksOf
<1>2. \A d \in DefsOf(Now, pkg) : Names(Src(d)) = Of(d)
  <2> TAKE d \in DefsOf(Now, pkg)
  <2>1. /\ Src(d).name = d.name /\ DOMAIN Src(d).checks = DOMAIN d.perms
        /\ \A i \in DOMAIN d.perms : Src(d).checks[i].name = d.perms[i].name
    BY DEF ObjectSource, CheckSource
  <2> HIDE DEF Src
  <2>2. Names(Src(d)) = {<<d.name, d.perms[i].name>> : i \in DOMAIN d.perms}
    BY <2>1
  <2>3. NamesOf(d.perms) = {d.perms[i].name : i \in DOMAIN d.perms}
    BY DEF NamesOf, ToSet
  <2> QED BY <2>2, <2>3
<1>3. Checked(Now, pkg) = UNION {Of(d) : d \in DefsOf(Now, pkg)}
  BY DEF Checked
<1> HIDE DEF Names, Of, Src
<1> QED BY <1>1, <1>2, <1>3

\* No two permissions of a package have one name in OPA.
LEMMA BuiltinNames ==
  ASSUME NEW s, Compiled(s), NEW pkg, Fitting(s, pkg), NEW b \in Checked(s, pkg), NEW c \in Checked(s, pkg),
         BuiltinName(b) = BuiltinName(c)
  PROVE  b = c
<1>1. PICK d \in DefsOf(s, pkg) : \E p \in NamesOf(d.perms) : b = <<d.name, p>>
  BY DEF Checked
<1>2. PICK p \in NamesOf(d.perms) : b = <<d.name, p>>
  BY <1>1
<1>3. PICK e \in DefsOf(s, pkg) : \E q \in NamesOf(e.perms) : c = <<e.name, q>>
  BY DEF Checked
<1>4. PICK q \in NamesOf(e.perms) : c = <<e.name, q>>
  BY <1>3
<1>5. d \in ToSet(s.defs) /\ e \in ToSet(s.defs)
  BY DEF DefsOf
<1>6. /\ d.name \in FullNames /\ e.name \in FullNames /\ p \in LocalNames /\ q \in LocalNames
  BY <1>2, <1>4, <1>5, DefinitionsAre
<1>7. d.name[2] \in LocalNames /\ e.name[2] \in LocalNames
  BY <1>6 DEF FullNames
<1>8. Len(WordsOf(d.name[2])) = 1 /\ Len(WordsOf(e.name[2])) = 1
  BY DEF Fitting
<1>9. WordsOf(d.name[2]) \o WordsOf(p) = WordsOf(e.name[2]) \o WordsOf(q)
  BY <1>2, <1>4 DEF BuiltinName
<1>10. /\ WordsOf(d.name[2]) \in Seq(STRING) /\ WordsOf(e.name[2]) \in Seq(STRING)
       /\ WordsOf(p) \in Seq(STRING) /\ WordsOf(q) \in Seq(STRING)
  BY <1>6, <1>7, WordsAre
<1>11. WordsOf(d.name[2]) = WordsOf(e.name[2]) /\ WordsOf(p) = WordsOf(q)
  <2>1. PICK m, n, u, v : /\ m = WordsOf(d.name[2]) /\ n = WordsOf(e.name[2])
                          /\ u = WordsOf(p) /\ v = WordsOf(q)
    OBVIOUS
  <2>2. /\ m \in Seq(STRING) /\ n \in Seq(STRING) /\ u \in Seq(STRING) /\ v \in Seq(STRING)
        /\ Len(m) = 1 /\ Len(n) = 1 /\ m \o u = n \o v
    BY <1>8, <1>9, <1>10, <2>1
  <2>3. m = n /\ u = v
    BY <2>2, OneThenRest
  <2> QED BY <2>1, <2>3
<1>12. d.name[2] = e.name[2] /\ p = q
  BY <1>6, <1>7, <1>11, WordsAre
<1>13. d = e
  BY <1>12, LocalIs
<1> QED BY <1>2, <1>4, <1>12, <1>13

\* opa.gen.go after a run that ended well.
LEMMA BuiltinsSettled ==
  ASSUME Settled
  PROVE  BuiltinsMatchChecks
<1> SUFFICES ASSUME emitOPA, NEW pkg \in Orderly
             PROVE  Register(OPAFilesOf(pkg), ChecksOf(pkg))
  BY DEF BuiltinsMatchChecks
<1>1. PICK s : s = Now
  OBVIOUS
<1>2. Compiled(s) /\ Fitting(s, pkg)
  BY <1>1, NowIs, OrderlyIs
<1>3. PICK opa : opa = OPASource(s, pkg)
  OBVIOUS
<1>4. OPAFilesOf(pkg) = {opa} /\ ChecksOf(pkg) = Checked(s, pkg)
  BY <1>1, <1>3, ObjectsIn, ChecksAre
<1>5. opa.options = Builtins(s, pkg) /\ opa.globals = opa.options
  BY <1>3 DEF OPASource
<1>6. ToSet(opa.options) = Checked(s, pkg) /\ IsInjective(opa.options)
  BY <1>2, <1>5, BuiltinsAre
<1>7. \A b, c \in Checked(s, pkg) : BuiltinName(b) = BuiltinName(c) => b = c
  BY <1>2, BuiltinNames
<1> QED BY <1>4, <1>5, <1>6, <1>7 DEF Register

-----------------------------------------------------------------------------
(* The fields of <Rel>Objects.                                             *)

\* The name of a type of an orderly package is one word, its own.
LEMMA TypeIs ==
  ASSUME NEW s, Compiled(s), NEW pkg, Fitting(s, pkg), NEW d \in DefsOf(s, pkg)
  PROVE  /\ d.name \in FullNames /\ d.name[2] \in LocalNames
         /\ TypeName(d.name) = WordsOf(d.name[2]) /\ UpperFirst(d.name[2]) = WordsOf(d.name[2])
         /\ WordsOf(d.name[2]) \in Seq(STRING) /\ Len(WordsOf(d.name[2])) = 1
         /\ WordsOf(d.name[2])[1] \notin {"opa", "wildcards", "caveats", "expirations"}
<1>1. d \in ToSet(s.defs)
  BY DEF DefsOf
<1>2. d.name \in FullNames
  BY <1>1, DefinitionsAre
<1>3. d.name[2] \in LocalNames
  BY <1>2 DEF FullNames
<1>4. Len(WordsOf(d.name[2])) = 1 /\ PackageName(d.name[2]) \notin {"opa", "wildcards", "caveats", "expirations"}
  BY DEF Fitting
<1>5. PackageName(d.name[2]) = WordsOf(d.name[2])[1]
  BY <1>4 DEF PackageName, TypeName
<1>6. TypeName(d.name) = WordsOf(d.name[2]) /\ UpperFirst(d.name[2]) = WordsOf(d.name[2])
  BY <1>4 DEF TypeName, UpperFirst
<1>7. WordsOf(d.name[2]) \in Seq(STRING)
  BY <1>3, WordsAre
<1> QED BY <1>2, <1>3, <1>4, <1>5, <1>6, <1>7

\* No two definitions of a package have one name in Go.
LEMMA TypesDiffer ==
  ASSUME NEW s, Compiled(s), NEW pkg, Fitting(s, pkg), NEW d \in DefsOf(s, pkg), NEW e \in DefsOf(s, pkg),
         WordsOf(d.name[2]) = WordsOf(e.name[2])
  PROVE  d = e
<1>1. d.name[2] \in LocalNames /\ e.name[2] \in LocalNames
  BY TypeIs
<1>2. d.name[2] = e.name[2]
  BY <1>1, WordsAre
<1> QED BY <1>2, LocalIs

\* What an allowed type adds to the name of its type in a field.
SubWords(a) == IF a.sub = "" THEN <<>> ELSE SnakeToPascal(a.sub)

\* What its caveat adds to a field.
CaveatWords(types, i) == IF Group(types, i) = {i} THEN <<>> ELSE PascalCaveatName(types[i].caveat)

\* What can be added is words.
LEMMA AddedWords ==
  ASSUME NEW a, IsAllowed(a)
  PROVE  /\ SubWords(a) \in Seq(STRING)
         /\ a.caveat # NoCaveat => a.caveat \in FullNames /\ PascalCaveatName(a.caveat) \in Seq(STRING)
<1>1. SubWords(a) \in Seq(STRING)
  BY WordsAre, EmptySeq DEF SubWords, IsAllowed, SnakeToPascal
<1>2. ASSUME a.caveat # NoCaveat
      PROVE  a.caveat \in FullNames /\ PascalCaveatName(a.caveat) \in Seq(STRING)
  <2>1. a.caveat \in FullNames
    BY <1>2 DEF IsAllowed
  <2>2. a.caveat[2] \in LocalNames
    BY <2>1 DEF FullNames
  <2> QED BY <2>1, <2>2, WordsAre DEF PascalCaveatName, SnakeToPascal
<1> QED BY <1>1, <1>2

\* In a list that is not ambiguous the members of a group have caveats of their own.
LEMMA GroupsAre ==
  ASSUME NEW types, IsList(types), ~Ambiguous(types), NEW i \in DOMAIN types, Group(types, i) # {i}
  PROVE  /\ types[i].caveat # NoCaveat
         /\ \A j, k \in Group(types, i) : types[j].caveat = types[k].caveat => j = k
<1> DEFINE G == Group(types, i)
           caveats == {types[j].caveat : j \in G}
           f == [j \in G |-> types[j].caveat]
<1>1. Len(types) \in Nat /\ DOMAIN types = 1 .. Len(types)
  BY DEF IsList
<1>2. G \in SUBSET (1 .. Len(types)) /\ i \in G
  BY <1>1 DEF Group
<1>3. IsFiniteSet(G)
  <2>1. PICK I : I = 1 .. Len(types)
    OBVIOUS
  <2>2. IsFiniteSet(I)
    BY <1>1, <2>1, FS_Interval
  <2> QED BY <1>2, <2>1, <2>2, FS_Subset
<1> HIDE DEF G
<1>4. Cardinality(G) \in Nat /\ Cardinality(G) # 0
  BY <1>2, <1>3, FS_CardinalityType, FS_EmptySet
<1>5. Cardinality(G) # 1
  <2>1. SUFFICES ASSUME Cardinality(G) = 1 PROVE FALSE
    OBVIOUS
  <2>2. PICK x : G = {x}
    BY <1>3, <2>1, FS_Singleton
  <2>3. G = {i}
    BY <1>2, <2>2
  <2> QED BY <2>3 DEF G
<1>6. Cardinality(G) > 1
  BY <1>4, <1>5
<1>7. NoCaveat \notin caveats /\ Cardinality(caveats) = Cardinality(G)
  BY <1>6 DEF Ambiguous, G
<1>8. types[i].caveat # NoCaveat
  BY <1>2, <1>7
<1>9. f \in Surjection(G, caveats)
  BY DEF Surjection
<1> HIDE DEF caveats, f
<1>10. f \in Injection(G, caveats)
  BY <1>3, <1>7, <1>9, FS_Surjection
<1>11. \A j, k \in G : f[j] = f[k] => j = k
  BY <1>10 DEF Injection, IsInjective
<1> QED BY <1>8, <1>11 DEF f, G

\* A field has the name of its type and one of the endings.
LEMMA FieldIs ==
  ASSUME NEW types, IsList(types), ~Ambiguous(types), NEW i \in DOMAIN types, IsAllowed(types[i]),
         TypeName(types[i].type) \in Seq(STRING)
  PROVE  \E e \in Endings(types[i]) :
           /\ e \in Seq(STRING) /\ IDFieldName(types, i) = TypeName(types[i].type) \o e
           /\ e = SubWords(types[i]) \o CaveatWords(types, i)
<1> DEFINE a == types[i]
           w == TypeName(a.type)
           sub == SubWords(a)
           cav == CaveatWords(types, i)
<1>1. IDFieldName(types, i) = (w \o sub) \o cav
  BY DEF IDFieldName, SubWords, CaveatWords
<1>2. sub \in Seq(STRING) /\ (a.caveat # NoCaveat => PascalCaveatName(a.caveat) \in Seq(STRING))
  BY AddedWords
<1>3. \/ cav = <<>>
      \/ a.caveat # NoCaveat /\ cav = PascalCaveatName(a.caveat)
  BY GroupsAre DEF CaveatWords
<1>4. <<>> \in Seq(STRING)
  BY EmptySeq
<1>5. Endings(a) = {sub} \cup IF a.caveat = NoCaveat THEN {} ELSE {sub \o PascalCaveatName(a.caveat)}
  BY DEF Endings, SubWords
<1> HIDE DEF a, w, sub, cav
<1>6. cav \in Seq(STRING)
  BY <1>2, <1>3, <1>4
<1>7. w \in Seq(STRING)
  BY DEF w, a
<1>8. sub \o cav \in Seq(STRING) /\ (w \o sub) \o cav = w \o (sub \o cav)
  BY <1>2, <1>6, <1>7, ConcatProperties, ConcatAssociative
<1>9. sub \o cav \in Endings(a)
  <2>1. CASE cav = <<>>
    BY <1>2, <1>5, <2>1, ConcatEmptySeq
  <2>2. CASE a.caveat # NoCaveat /\ cav = PascalCaveatName(a.caveat)
    BY <1>5, <2>2
  <2> QED BY <1>3, <2>1, <2>2
<1> QED BY <1>1, <1>8, <1>9 DEF a, w, sub, cav

\* The allowed types of a relation give their fields different names.
LEMMA FieldsDiffer ==
  ASSUME NEW s, Compiled(s), ~Refused(s), NEW pkg, Fitting(s, pkg), Plain(s, pkg),
         NEW d \in DefsOf(s, pkg), NEW r \in ToSet(d.rels),
         NEW i \in DOMAIN r.types, NEW j \in DOMAIN r.types,
         IDFieldName(r.types, i) = IDFieldName(r.types, j)
  PROVE  i = j
<1>1. PICK types : types = r.types
  OBVIOUS
<1>2. d \in ToSet(s.defs)
  BY DEF DefsOf
<1>3. IsList(types) /\ ~Ambiguous(types) /\ \A x \in ToSet(types) : IsAllowed(x) /\ x \in AllowedIn(d)
  BY <1>1, <1>2, NotRefused DEF Compiled, AllowedIn
<1>4. PICK a, b : a = types[i] /\ b = types[j]
  OBVIOUS
<1>5. a \in ToSet(types) /\ b \in ToSet(types)
  BY <1>1, <1>4 DEF ToSet
<1>6. a \in AllowedIn(d) /\ b \in AllowedIn(d) /\ IsAllowed(a) /\ IsAllowed(b)
  BY <1>3, <1>5
<1>7. \A x \in AllowedIn(d) : \E e \in DefsOf(s, pkg) : x.type = e.name
  BY DEF Fitting
<1>8. PICK t \in DefsOf(s, pkg) : a.type = t.name
  BY <1>6, <1>7
<1>9. PICK u \in DefsOf(s, pkg) : b.type = u.name
  BY <1>6, <1>7
<1>10. PICK m, n : m = WordsOf(t.name[2]) /\ n = WordsOf(u.name[2])
  OBVIOUS
<1>11. /\ m \in Seq(STRING) /\ n \in Seq(STRING) /\ Len(m) = 1 /\ Len(n) = 1
       /\ TypeName(a.type) = m /\ TypeName(b.type) = n
  BY <1>8, <1>9, <1>10, TypeIs
<1>12. PICK e \in Endings(a) :
         /\ e \in Seq(STRING) /\ IDFieldName(types, i) = m \o e
         /\ e = SubWords(a) \o CaveatWords(types, i)
  BY <1>1, <1>3, <1>4, <1>6, <1>11, FieldIs
<1>13. PICK f \in Endings(b) :
         /\ f \in Seq(STRING) /\ IDFieldName(types, j) = n \o f
         /\ f = SubWords(b) \o CaveatWords(types, j)
  BY <1>1, <1>3, <1>4, <1>6, <1>11, FieldIs
<1>14. m \o e = n \o f
  BY <1>1, <1>12, <1>13
<1>15. m = n /\ e = f
  <2>1. m \in Seq(STRING) /\ n \in Seq(STRING) /\ Len(m) = 1 /\ Len(n) = 1
    BY <1>11
  <2>2. e \in Seq(STRING) /\ f \in Seq(STRING)
    BY <1>12, <1>13
  <2> QED BY <1>14, <2>1, <2>2, OneThenRest
<1>16. a.type = b.type
  BY <1>8, <1>9, <1>10, <1>15, TypesDiffer
<1>17. a.sub = b.sub
  <2>1. a.sub # b.sub => Endings(a) \cap Endings(b) = {}
    BY <1>1, <1>5, <1>16 DEF Fitting
  <2> QED BY <1>12, <1>13, <1>15, <2>1
<1>18. a.star = b.star
  BY <1>1, <1>5, <1>16, <1>17 DEF Plain
<1>19. j \in Group(types, i) /\ i \in Group(types, i) /\ Group(types, i) = Group(types, j)
  BY <1>1, <1>4, <1>16, <1>17, <1>18 DEF Group
<1>20. CASE Group(types, i) = {i}
  BY <1>19, <1>20
<1>21. CASE Group(types, i) # {i}
  <2>1. Group(types, j) # {j}
    BY <1>19, <1>21
  <2>2. /\ a.caveat # NoCaveat /\ b.caveat # NoCaveat
        /\ \A k, l \in Group(types, i) : types[k].caveat = types[l].caveat => k = l
    BY <1>1, <1>3, <1>4, <1>21, <2>1, GroupsAre
  <2>3. CaveatWords(types, i) = PascalCaveatName(a.caveat) /\ CaveatWords(types, j) = PascalCaveatName(b.caveat)
    BY <1>4, <1>21, <2>1 DEF CaveatWords
  <2>4. SubWords(a) = SubWords(b)
    BY <1>17 DEF SubWords
  <2>5. /\ SubWords(a) \in Seq(STRING) /\ PascalCaveatName(a.caveat) \in Seq(STRING)
        /\ PascalCaveatName(b.caveat) \in Seq(STRING)
    BY <1>6, <2>2, AddedWords
  <2>6. SubWords(a) \o PascalCaveatName(a.caveat) = SubWords(a) \o PascalCaveatName(b.caveat)
    BY <1>12, <1>13, <1>15, <2>3, <2>4
  <2>7. PascalCaveatName(a.caveat) = PascalCaveatName(b.caveat)
    <3>1. PICK x, y, z : x = SubWords(a) /\ y = PascalCaveatName(a.caveat) /\ z = PascalCaveatName(b.caveat)
      OBVIOUS
    <3>2. y = z
      BY <2>5, <2>6, <3>1, ConcatSimplifications
    <3> QED BY <3>1, <3>2
  <2>8. a.caveat \in CaveatsIn(d) /\ b.caveat \in CaveatsIn(d)
    BY <1>6, <2>2 DEF CaveatsIn
  <2>9. a.caveat = b.caveat
    BY <2>7, <2>8, CaveatNames
  <2> QED BY <1>4, <1>19, <2>2, <2>9
<1> QED BY <1>20, <1>21

\* IDFields has a field for each branch that is not the wildcard's.
LEMMA IDFieldsAre ==
  ASSUME NEW X, NEW q, IsList(q), \A b \in ToSet(q) : b.from \in X
  PROVE  /\ IDFields(q) \in Seq(X) /\ \A x \in ToSet(IDFields(q)) : \E b \in ToSet(q) : x = b.from
         /\ IsInjective(q) /\ (\A b, c \in ToSet(q) : ~b.star /\ ~c.star /\ b.from = c.from => b = c)
              => IsInjective(IDFields(q))
<1> DEFINE N == Len(q)
           v == [i \in 1 .. N |-> q[i].from]
           P == {i \in 1 .. N : ~q[i].star}
<1>1. N \in Nat /\ DOMAIN q = 1 .. N /\ \A i \in 1 .. N : q[i] \in ToSet(q)
  BY DEF IsList, ToSet
<1>2. Kept(v, P, N) \subseteq X /\ \A x \in Kept(v, P, N) : \E b \in ToSet(q) : x = b.from
  BY <1>1 DEF Kept
<1>3. ASSUME IsInjective(q), \A b, c \in ToSet(q) : ~b.star /\ ~c.star /\ b.from = c.from => b = c
      PROVE  KeptOnce(v, P, N)
  <2>1. SUFFICES ASSUME NEW i \in P, NEW j \in P, v[i] = v[j] PROVE i = j
    BY DEF KeptOnce
  <2>2. q[i] \in ToSet(q) /\ q[j] \in ToSet(q) /\ ~q[i].star /\ ~q[j].star /\ q[i].from = q[j].from
    BY <1>1, <2>1
  <2>3. q[i] = q[j]
    BY <1>3, <2>2
  <2> QED BY <1>1, <1>3, <2>1, <2>3 DEF IsInjective
<1> DEFINE Out(f) == f = [i \in 0 .. N |-> IF i = 0 THEN <<>>
                            ELSE IF ~q[i].star THEN Append(f[i - 1], q[i].from) ELSE f[i - 1]]
<1>4. \A f : Out(f) <=> Keeping(f, N, v, P)
  <2>1. \A i \in 1 .. N : (i \in P <=> ~q[i].star) /\ v[i] = q[i].from
    OBVIOUS
  <2>2. \A i \in 0 .. N : i # 0 => i \in 1 .. N
    BY <1>1
  <2> HIDE DEF P, N, v
  <2> QED BY <2>1, <2>2 DEF Keeping
<1> DEFINE out == CHOOSE f : Out(f)
<1>5. IDFields(q) = out[N]
  BY DEF IDFields
<1> HIDE DEF Out, v, P, N
<1>6. \E f : Out(f)
  BY <1>1, <1>4, KeepingExists
<1>7. Keeping(out, N, v, P)
  BY <1>4, <1>6
<1> HIDE DEF out
<1>8. /\ out[N] \in Seq(X) /\ ToSet(out[N]) = Kept(v, P, N)
      /\ KeptOnce(v, P, N) => IsInjective(out[N])
  BY <1>1, <1>2, <1>7, KeptAre
<1> QED BY <1>2, <1>3, <1>5, <1>8

\* The fields of <Rel>Objects are different.
LEMMA ObjectsFieldsDiffer ==
  ASSUME NEW s, Compiled(s), ~Refused(s), NEW pkg, Fitting(s, pkg), Plain(s, pkg),
         NEW d \in DefsOf(s, pkg), NEW r \in ToSet(d.rels)
  PROVE  IsInjective(ObjectsFields(RelationSource(r)))
<1> DEFINE q == Creates(r.types)
           ids == IDFields(q)
           X == {IDFieldName(r.types, i) : i \in DOMAIN r.types}
                  \cup {<<"wildcards">>, <<"caveats">>, <<"expirations">>}
           wild == IF \E b \in ToSet(q) : b.star THEN << <<"wildcards">> >> ELSE <<>>
           cavs == IF \E b \in ToSet(q) : b.caveat # NoCaveat THEN << <<"caveats">> >> ELSE <<>>
           exps == IF \E b \in ToSet(q) : b.expires THEN << <<"expirations">> >> ELSE <<>>
<1>1. ObjectsFields(RelationSource(r)) = ((ids \o wild) \o cavs) \o exps
  BY DEF ObjectsFields, RelationSource
<1>2. PICK types : types = r.types
  OBVIOUS
<1>3. d \in ToSet(s.defs)
  BY DEF DefsOf
<1>4. IsList(types) /\ ~Ambiguous(types) /\ \A x \in ToSet(types) : IsAllowed(x) /\ x \in AllowedIn(d)
  BY <1>2, <1>3, NotRefused DEF Compiled, AllowedIn
<1>5. \A i, j \in DOMAIN types : IDFieldName(types, i) = IDFieldName(types, j) => i = j
  BY <1>2, FieldsDiffer
<1>6. /\ q \in Seq(AllBranches(types)) /\ IsInjective(q)
      /\ \A b : b \in ToSet(q) <=> \E i \in DOMAIN types : IsBranch(b, types, i)
  BY <1>2, <1>4, <1>5, CreatesAre
<1> HIDE DEF q
<1>7. IsList(q)
  <2>1. Len(q) \in Nat /\ q \in [1 .. Len(q) -> ToSet(q)]
    BY <1>6, LenProperties DEF ToSet
  <2> QED BY <2>1, SeqDef DEF IsList
<1>8. \A i \in DOMAIN types : \E w, e \in Seq(STRING) :
        /\ Len(w) = 1 /\ w[1] \notin {"wildcards", "caveats", "expirations"}
        /\ IDFieldName(types, i) = w \o e
  <2> TAKE i \in DOMAIN types
  <2>1. PICK a : a = types[i]
    OBVIOUS
  <2>2. IsAllowed(a) /\ a \in AllowedIn(d)
    BY <1>4, <2>1 DEF ToSet
  <2>3. PICK t \in DefsOf(s, pkg) : a.type = t.name
    BY <2>2 DEF Fitting
  <2>4. PICK w : w = WordsOf(t.name[2])
    OBVIOUS
  <2>5. /\ TypeName(a.type) = w /\ w \in Seq(STRING) /\ Len(w) = 1
        /\ w[1] \notin {"wildcards", "caveats", "expirations"}
    BY <2>3, <2>4, TypeIs
  <2>6. \E e : e \in Seq(STRING) /\ IDFieldName(types, i) = w \o e
    BY <1>4, <2>1, <2>2, <2>5, FieldIs
  <2> QED BY <2>5, <2>6
<1>9. \A i \in DOMAIN types : /\ IDFieldName(types, i) \in X
                              /\ IDFieldName(types, i)[1] \notin {"wildcards", "caveats", "expirations"}
  <2> TAKE i \in DOMAIN types
  <2>1. PICK w, e \in Seq(STRING) :
          /\ Len(w) = 1 /\ w[1] \notin {"wildcards", "caveats", "expirations"}
          /\ IDFieldName(types, i) = w \o e
    BY <1>8
  <2>2. PICK c : c = w \o e
    OBVIOUS
  <2>3. /\ c \in Seq(STRING)
        /\ \A j \in 1 .. Len(w) + Len(e) : c[j] = IF j <= Len(w) THEN w[j] ELSE e[j - Len(w)]
    BY <2>2, ConcatProperties
  <2>4. c[1] = w[1]
    BY <2>1, <2>3, LenProperties
  <2>5. IDFieldName(types, i) \in X
    BY <1>2
  <2> QED BY <2>1, <2>2, <2>4, <2>5
<1>10. \A b \in ToSet(q) : \E i \in DOMAIN types : b.from = IDFieldName(types, i)
  BY <1>6 DEF IsBranch, Branch
<1>11. \A b \in ToSet(q) : b.from \in X /\ b.from[1] \notin {"wildcards", "caveats", "expirations"}
  BY <1>9, <1>10
<1>12. ASSUME NEW b \in ToSet(q), NEW c \in ToSet(q), ~b.star, ~c.star, b.from = c.from
       PROVE  b = c
  <2>1. PICK i \in DOMAIN types : IsBranch(b, types, i)
    BY <1>6
  <2>2. PICK j \in DOMAIN types : IsBranch(c, types, j)
    BY <1>6
  <2>3. b = Branch(types, i, FALSE) /\ c = Branch(types, j, FALSE)
    BY <1>12, <2>1, <2>2 DEF IsBranch, Branch
  <2>4. b.from = IDFieldName(types, i) /\ c.from = IDFieldName(types, j)
    BY <2>3 DEF Branch
  <2> QED BY <1>5, <1>12, <2>3, <2>4
<1>13. ids \in Seq(X) /\ IsInjective(ids) /\ \A x \in ToSet(ids) : \E b \in ToSet(q) : x = b.from
  BY <1>6, <1>7, <1>11, <1>12, IDFieldsAre
<1>14. \A x \in ToSet(ids) : x[1] \notin {"wildcards", "caveats", "expirations"}
  BY <1>11, <1>13
<1>15. <<"wildcards">> \in X /\ <<"caveats">> \in X /\ <<"expirations">> \in X
  BY DEF X
<1>16. /\ wild \in Seq(X) /\ IsInjective(wild) /\ \A x \in ToSet(wild) : x[1] = "wildcards"
       /\ cavs \in Seq(X) /\ IsInjective(cavs) /\ \A x \in ToSet(cavs) : x[1] = "caveats"
       /\ exps \in Seq(X) /\ IsInjective(exps) /\ \A x \in ToSet(exps) : x[1] = "expirations"
  <2>1. wild \in {<<>>, << <<"wildcards">> >>} /\ cavs \in {<<>>, << <<"caveats">> >>}
        /\ exps \in {<<>>, << <<"expirations">> >>}
    OBVIOUS
  <2> HIDE DEF wild, cavs, exps, X
  <2>2. \A w : <<w>> \in X => \A m \in {<<>>, << <<w>> >>} :
                 m \in Seq(X) /\ IsInjective(m) /\ \A x \in ToSet(m) : x[1] = w
    BY MaybeIs
  <2> QED BY <1>15, <2>1, <2>2
<1> HIDE DEF ids, X, wild, cavs, exps
<1>17. /\ ids \o wild \in Seq(X) /\ IsInjective(ids \o wild)
       /\ ToSet(ids \o wild) = ToSet(ids) \cup ToSet(wild)
  <2>1. ToSet(ids) \cap ToSet(wild) = {}
    BY <1>14, <1>16
  <2> QED BY <1>13, <1>16, <2>1, ConcatProperties, ConcatOnce, ConcatElements
<1>18. PICK u : u = ids \o wild
  OBVIOUS
<1>19. /\ u \in Seq(X) /\ IsInjective(u)
       /\ \A x \in ToSet(u) : x[1] \notin {"caveats", "expirations"}
  BY <1>14, <1>16, <1>17, <1>18
<1>20. /\ u \o cavs \in Seq(X) /\ IsInjective(u \o cavs)
       /\ ToSet(u \o cavs) = ToSet(u) \cup ToSet(cavs)
  <2>1. ToSet(u) \cap ToSet(cavs) = {}
    BY <1>16, <1>19
  <2> QED BY <1>16, <1>19, <2>1, ConcatProperties, ConcatOnce, ConcatElements
<1>21. PICK v : v = u \o cavs
  OBVIOUS
<1>22. /\ v \in Seq(X) /\ IsInjective(v)
       /\ \A x \in ToSet(v) : x[1] # "expirations"
  BY <1>16, <1>19, <1>20, <1>21
<1>23. IsInjective(v \o exps)
  <2>1. ToSet(v) \cap ToSet(exps) = {}
    BY <1>16, <1>22
  <2> QED BY <1>16, <1>22, <2>1, ConcatOnce
<1> QED BY <1>1, <1>18, <1>21, <1>23

-----------------------------------------------------------------------------
(* The fields of <Perm>Inputs.                                             *)

\* The types of a package.
TypesIn(s, pkg) == {d.name : d \in DefsOf(s, pkg)}

\* The types an orderly package allows are its own.
LEMMA DirectInside ==
  ASSUME NEW s, Compiled(s), NEW pkg, Fitting(s, pkg), NEW d \in DefsOf(s, pkg),
         NEW n \in DOMAIN Views(s).rel[d.name]
  PROVE  Direct(Views(s), d.name, n) \subseteq TypesIn(s, pkg)
<1>1. d \in ToSet(s.defs)
  BY DEF DefsOf
<1>2. DOMAIN Views(s).rel[d.name] = NamesOf(d.rels)
  BY <1>1, ViewsAre
<1>3. PICK r \in ToSet(d.rels) : n = r.name
  BY <1>2 DEF NamesOf
<1>4. Views(s).rel[d.name][n] = r.types
  BY <1>1, <1>3, ViewsAre
<1>5. \A a \in ToSet(r.types) : a \in AllowedIn(d)
  BY DEF AllowedIn
<1>6. \A a \in AllowedIn(d) : a.type \in TypesIn(s, pkg)
  BY DEF Fitting, TypesIn
<1> QED BY <1>4, <1>5, <1>6 DEF Direct

\* So no permission there has a leg out of the package.
LEMMA PackageInside ==
  ASSUME NEW s, Compiled(s), Accepted(Views(s)), NEW pkg, Fitting(s, pkg),
         NEW n \in Keys(Views(s)), n[1] \in TypesIn(s, pkg)
  PROVE  Inside(Views(s), n, TypesIn(s, pkg))
<1>1. PICK v, P : v = Views(s) /\ P = TypesIn(s, pkg)
  OBVIOUS
<1>2. Accepted(v) /\ n \in Keys(v) /\ n[1] \in P
  BY <1>1
<1>3. PICK d \in DefsOf(s, pkg) : n[1] = d.name
  BY DEF TypesIn
<1>4. PICK t : t = n[1]
  OBVIOUS
<1>5. \A r \in DOMAIN v.rel[t] : Direct(v, t, r) \subseteq P
  BY <1>1, <1>3, <1>4, DirectInside
<1>6. ToSet(Legs(v, n)) = UNION {LegsOf(v, t, e) : e \in Exprs(v, n)}
  BY <1>2, <1>4, LegsAre
<1>7. t \in P /\ t \in Defs(v)
  BY <1>2, <1>4, KeysAre
<1>8. ASSUME NEW e \in Exprs(v, n), NEW l \in LegsOf(v, t, e)
      PROVE  /\ l.kind = "types" => ToSet(l.types) \subseteq P
             /\ l.kind = "permission" => l.key \in Keys(v) /\ l.key[1] \in P
  <2>1. \/ e.kind \in {"ident", "self"}
        \/ e.kind = "arrow" /\ e.left \in DOMAIN v.rel[t]
    BY <1>2, <1>4 DEF Accepted
  <2>2. CASE \E m \in Refers(v, t, e) \cap Keys(v) : l = PermissionLeg(m[1], m[2])
    <3>1. PICK m \in Refers(v, t, e) \cap Keys(v) : l = PermissionLeg(m[1], m[2])
      BY <2>2
    <3>2. l.kind = "permission" /\ l.key = m
      BY <3>1, KeysAre DEF PermissionLeg
    <3>3. m[1] \in P
      <4>1. CASE e.kind = "ident"
        BY <1>7, <3>1, <4>1 DEF Refers
      <4>2. CASE e.kind = "self"
        BY <3>1, <4>2 DEF Refers
      <4>3. CASE e.kind = "arrow" /\ e.left \in DOMAIN v.rel[t]
        BY <1>5, <3>1, <4>3 DEF Refers
      <4> QED BY <2>1, <4>1, <4>2, <4>3
    <3> QED BY <3>1, <3>2, <3>3
  <2>3. CASE e.kind = "self" /\ l = TypesLeg(<<t>>)
    <3>1. l.kind = "types" /\ l.types = <<t>>
      BY <2>3 DEF TypesLeg
    <3>2. ToSet(<<t>>) = {t}
      BY DEF ToSet
    <3> QED BY <1>7, <3>1, <3>2
  <2>4. CASE e.left \in DOMAIN v.rel[t] /\ l = TypesLeg(RelationTypes(v, t, e.left))
    <3>1. l.kind = "types" /\ l.types = RelationTypes(v, t, e.left)
      BY <2>4 DEF TypesLeg
    <3>2. ToSet(RelationTypes(v, t, e.left)) = Direct(v, t, e.left)
      BY <1>2, <1>7, <2>4, RelationTypesAre
    <3> QED BY <1>5, <2>4, <3>1, <3>2
  <2> QED BY <2>2, <2>3, <2>4 DEF LegsOf
<1> QED BY <1>1, <1>6, <1>8 DEF Inside

\* The input types of a check are types of the package, each once.
LEMMA InputsAre ==
  ASSUME NEW s, Compiled(s), ~Refused(s), NEW pkg, Fitting(s, pkg), NEW d \in DefsOf(s, pkg),
         NEW p \in ToSet(d.perms)
  PROVE  /\ IsInjective(InputList(Views(s), <<d.name, p.name>>))
         /\ ToSet(InputList(Views(s), <<d.name, p.name>>)) \subseteq TypesIn(s, pkg)
         /\ InputList(Views(s), <<d.name, p.name>>) \in Seq(TypesIn(s, pkg))
<1>1. PICK v, P, k : v = Views(s) /\ P = TypesIn(s, pkg) /\ k = <<d.name, p.name>>
  OBVIOUS
<1>2. d \in ToSet(s.defs) /\ d.name \in P
  BY <1>1 DEF DefsOf, TypesIn
<1>3. k \in Keys(v) /\ k[1] \in P
  BY <1>1, <1>2, NotRefused
<1>4. Accepted(v)
  BY <1>1 DEF Compiled
<1>5. \A n \in Keys(v) : n[1] \in P => Inside(v, n, P)
  BY <1>1, <1>4, PackageInside
<1>6. PICK q : q = InputList(v, k)
  OBVIOUS
<1>7. q \in Seq(Defs(v)) /\ ToSet(q) \subseteq P /\ IsInjective(q)
  BY <1>3, <1>4, <1>5, <1>6, InputListInside
<1>8. q \in Seq(P)
  <2>1. Len(q) \in Nat /\ q \in [1 .. Len(q) -> P]
    BY <1>7, LenProperties DEF ToSet
  <2> QED BY <2>1, SeqDef
<1> QED BY <1>1, <1>6, <1>7, <1>8

\* And by their names in Go.
TypeWords(s, pkg) == {TypeName(t) : t \in TypesIn(s, pkg)}

\* The types of a package by their names in Go.
LEMMA TypeWordsAre ==
  ASSUME NEW s, Compiled(s), NEW pkg, Fitting(s, pkg)
  PROVE  /\ \A t \in TypesIn(s, pkg) :
              /\ TypeName(t) \in Seq(STRING) /\ Len(TypeName(t)) = 1
              /\ TypeName(t)[1] \notin {"wildcards", "caveats", "expirations"}
         /\ \A t, u \in TypesIn(s, pkg) : TypeName(t) = TypeName(u) => t = u
<1>1. ASSUME NEW t \in TypesIn(s, pkg)
      PROVE  /\ TypeName(t) \in Seq(STRING) /\ Len(TypeName(t)) = 1
             /\ TypeName(t)[1] \notin {"wildcards", "caveats", "expirations"}
  <2>1. PICK d \in DefsOf(s, pkg) : t = d.name
    BY DEF TypesIn
  <2> QED BY <2>1, TypeIs
<1>2. ASSUME NEW t \in TypesIn(s, pkg), NEW u \in TypesIn(s, pkg), TypeName(t) = TypeName(u)
      PROVE  t = u
  <2>1. PICK d \in DefsOf(s, pkg) : t = d.name
    BY DEF TypesIn
  <2>2. PICK e \in DefsOf(s, pkg) : u = e.name
    BY DEF TypesIn
  <2>3. WordsOf(d.name[2]) = WordsOf(e.name[2])
    BY <1>2, <2>1, <2>2, TypeIs
  <2> QED BY <2>1, <2>2, <2>3, TypesDiffer
<1> QED BY <1>1, <1>2

\* The inputs of a check.
LEMMA CheckInputsAre ==
  ASSUME NEW s, Compiled(s), ~Refused(s), NEW pkg, Fitting(s, pkg), NEW d \in DefsOf(s, pkg),
         NEW p \in ToSet(d.perms), NEW c, c = CheckSource(Views(s), d.name, p.name)
  PROVE  /\ c.inputs \in Seq(TypeWords(s, pkg)) /\ IsInjective(c.inputs)
         /\ ToSet(c.inputs) \subseteq TypeWords(s, pkg)
<1> DEFINE T == TypesIn(s, pkg)
           W == TypeWords(s, pkg)
           g == [t \in T |-> TypeName(t)]
           q == InputList(Views(s), <<d.name, p.name>>)
<1>1. q \in Seq(T) /\ IsInjective(q) /\ ToSet(q) \subseteq T
  BY InputsAre
<1>2. c.inputs = [i \in DOMAIN q |-> TypeName(q[i])]
  BY DEF CheckSource
<1>3. g \in [T -> W] /\ \A t \in T : g[t] = TypeName(t)
  BY DEF TypeWords
<1>4. \A x, y \in T : g[x] = g[y] => x = y
  BY TypeWordsAre
<1> HIDE DEF q, g, T, W
<1>5. c.inputs = [i \in DOMAIN q |-> g[q[i]]]
  <2>1. \A i \in DOMAIN q : q[i] \in T
    BY <1>1 DEF ToSet
  <2> QED BY <1>2, <1>3, <2>1
<1>6. \A x, y \in ToSet(q) : g[x] = g[y] => x = y
  BY <1>1, <1>4
<1>7. PICK m, k, h, X, Y : m = c.inputs /\ k = q /\ h = g /\ X = T /\ Y = W
  OBVIOUS
<1>8. m \in Seq(W) /\ IsInjective(m)
  <2>1. /\ m = Mapped(k, h) /\ k \in Seq(X) /\ h \in [X -> Y]
        /\ IsInjective(k) /\ \A x, y \in ToSet(k) : h[x] = h[y] => x = y
    BY <1>1, <1>3, <1>5, <1>6, <1>7 DEF Mapped
  <2>2. m \in Seq(Y) /\ IsInjective(m)
    BY <2>1, MappedOnce
  <2> QED BY <1>7, <2>2
<1>9. ToSet(m) \subseteq W
  BY <1>8, ElementsOfSeq
<1> QED BY <1>7, <1>8, <1>9 DEF W

\* The usersets of a check; the field of one goes on after the type.
UsersetFields(c) ==
  [i \in DOMAIN c.usersets |-> c.usersets[i][1] \o SnakeToPascal(c.usersets[i][2])]

\* They are distinct, and none begins like the field for the caveats.
LEMMA CheckUsersetsAre ==
  ASSUME NEW s, Compiled(s), ~Refused(s), NEW pkg, Fitting(s, pkg), NEW d \in DefsOf(s, pkg),
         NEW p, NEW c, c = CheckSource(Views(s), d.name, p)
  PROVE  /\ \A u \in ToSet(c.usersets) : u[1] \in TypeWords(s, pkg)
         /\ UsersetFields(c) \in Seq(Seq(STRING)) /\ IsInjective(UsersetFields(c))
         /\ \A x \in ToSet(UsersetFields(c)) : Len(x) > 1 /\ x[1] # "caveats"
<1> DEFINE T == TypesIn(s, pkg)
           U == T \X LocalNames
           Y == {x \in Seq(STRING) : Len(x) > 1 /\ x[1] # "caveats"}
           g == [u \in U |-> TypeName(u[1]) \o WordsOf(u[2])]
           q == PermUsersets(Views(s), d.name, p)
<1>1. d \in ToSet(s.defs)
  BY DEF DefsOf
<1>2. /\ q \in Seq(FullNames \X LocalNames) /\ IsInjective(q)
      /\ \A u \in ToSet(q) : \E a \in AllowedIn(d) : u = <<a.type, a.sub>>
  <2>1. PermUsersets(Views(s), d.name, p) \in Seq(FullNames \X LocalNames)
    BY <1>1, PermUsersetsAre
  <2>2. IsInjective(PermUsersets(Views(s), d.name, p))
    BY <1>1, PermUsersetsAre
  <2>3. \A u \in ToSet(PermUsersets(Views(s), d.name, p)) : \E a \in AllowedIn(d) : u = <<a.type, a.sub>>
    BY <1>1, PermUsersetsAre
  <2> QED BY <2>1, <2>2, <2>3
<1>3. \A a \in AllowedIn(d) : a.type \in T
  BY DEF Fitting, TypesIn
<1>4. c.usersets = [i \in DOMAIN q |-> <<TypeName(q[i][1]), q[i][2]>>]
  BY DEF CheckSource
<1>5. \A t \in T : /\ TypeName(t) \in Seq(STRING) /\ Len(TypeName(t)) = 1
                   /\ TypeName(t)[1] # "caveats"
  BY TypeWordsAre
<1>6. \A n \in LocalNames : WordsOf(n) \in Seq(STRING) /\ WordsOf(n) # <<>> /\ SnakeToPascal(n) = WordsOf(n)
  BY WordsAre DEF SnakeToPascal
<1>7. \A u \in U : /\ u[1] \in T /\ u[2] \in LocalNames /\ u = <<u[1], u[2]>>
                   /\ g[u] = TypeName(u[1]) \o WordsOf(u[2])
  OBVIOUS
<1> HIDE DEF q, g, Y
<1>8. \A u \in U : g[u] \in Y
  <2> TAKE u \in U
  <2>1. PICK m, w, x : m = TypeName(u[1]) /\ w = WordsOf(u[2]) /\ x = g[u]
    OBVIOUS
  <2>2. /\ m \in Seq(STRING) /\ w \in Seq(STRING) /\ Len(m) = 1 /\ w # <<>> /\ m[1] # "caveats"
        /\ x = m \o w
    BY <1>5, <1>6, <1>7, <2>1
  <2>3. /\ x \in Seq(STRING) /\ Len(x) = Len(m) + Len(w)
        /\ \A i \in 1 .. Len(m) + Len(w) : x[i] = IF i <= Len(m) THEN m[i] ELSE w[i - Len(m)]
    BY <2>2, ConcatProperties
  <2>4. Len(w) \in Nat /\ Len(w) # 0
    BY <2>2, EmptySeq, LenProperties
  <2>5. Len(x) > 1 /\ x[1] = m[1]
    BY <2>2, <2>3, <2>4
  <2> QED BY <2>1, <2>2, <2>3, <2>5 DEF Y
<1>9. \A x, y \in U : g[x] = g[y] => x = y
  <2> SUFFICES ASSUME NEW x \in U, NEW y \in U, g[x] = g[y] PROVE x = y
    OBVIOUS
  <2>1. PICK m, n, u, v : m = TypeName(x[1]) /\ n = TypeName(y[1]) /\ u = WordsOf(x[2]) /\ v = WordsOf(y[2])
    OBVIOUS
  <2>2. /\ m \in Seq(STRING) /\ n \in Seq(STRING) /\ u \in Seq(STRING) /\ v \in Seq(STRING)
        /\ Len(m) = 1 /\ Len(n) = 1 /\ m \o u = n \o v
    BY <1>5, <1>6, <1>7, <2>1
  <2>3. m = n /\ u = v
    BY <2>2, OneThenRest
  <2>4. x[1] = y[1]
    BY <1>7, <2>1, <2>3, TypeWordsAre
  <2>5. x[2] = y[2]
    BY <1>7, <2>1, <2>3, WordsAre
  <2> QED BY <1>7, <2>4, <2>5
<1>10. \A i \in DOMAIN q : q[i] \in U
  <2> TAKE i \in DOMAIN q
  <2>1. PICK u : u = q[i]
    OBVIOUS
  <2>2. u \in ToSet(q) /\ u \in FullNames \X LocalNames
    BY <1>2, <2>1, LenProperties, ElementOfSeq DEF ToSet
  <2>3. PICK a \in AllowedIn(d) : u = <<a.type, a.sub>>
    BY <1>2, <2>2
  <2>4. a.type \in T /\ a.sub \in LocalNames
    BY <1>3, <2>2, <2>3
  <2> QED BY <2>1, <2>3, <2>4
<1> HIDE DEF U, T
<1>11. q \in Seq(U)
  <2>1. Len(q) \in Nat /\ DOMAIN q = 1 .. Len(q) /\ q = [i \in DOMAIN q |-> q[i]]
    BY <1>2, LenProperties
  <2> QED BY <1>10, <2>1, SeqDef
<1>12. UsersetFields(c) = [i \in DOMAIN q |-> g[q[i]]]
  <2>1. DOMAIN c.usersets = DOMAIN q
    BY <1>4
  <2>2. \A i \in DOMAIN q : c.usersets[i][1] \o SnakeToPascal(c.usersets[i][2]) = g[q[i]]
    <3> TAKE i \in DOMAIN q
    <3>1. PICK u, v : u = q[i] /\ v = c.usersets[i]
      OBVIOUS
    <3>2. u \in U /\ v = <<TypeName(u[1]), u[2]>>
      BY <1>4, <1>10, <3>1
    <3>3. g[u] = TypeName(u[1]) \o WordsOf(u[2]) /\ SnakeToPascal(u[2]) = WordsOf(u[2])
      BY <1>6, <1>7, <3>2
    <3> QED BY <3>1, <3>2, <3>3
  <2> QED BY <2>1, <2>2 DEF UsersetFields
<1>13. g \in [U -> Y]
  <2>1. g = [u \in U |-> g[u]]
    BY DEF g
  <2> QED BY <1>8, <2>1
<1>14. PICK m, k, h, X, Z : m = UsersetFields(c) /\ k = q /\ h = g /\ X = U /\ Z = Y
  OBVIOUS
<1>15. \A x \in ToSet(q) : x \in U
  BY <1>10 DEF ToSet
<1>16. m \in Seq(Y) /\ IsInjective(m) /\ ToSet(m) \subseteq Y
  <2>1. /\ m = Mapped(k, h) /\ k \in Seq(X) /\ h \in [X -> Z]
        /\ IsInjective(k) /\ \A x, y \in ToSet(k) : h[x] = h[y] => x = y
    BY <1>2, <1>9, <1>11, <1>12, <1>13, <1>14, <1>15 DEF Mapped
  <2>2. m \in Seq(Z) /\ IsInjective(m)
    BY <2>1, MappedOnce
  <2>3. ToSet(m) \subseteq Z
    BY <2>2, ElementsOfSeq
  <2> QED BY <1>14, <2>2, <2>3
<1>17. \A u \in ToSet(c.usersets) : u[1] \in TypeWords(s, pkg)
  <2>1. \A i \in DOMAIN q : c.usersets[i][1] \in TypeWords(s, pkg)
    BY <1>4, <1>7, <1>10 DEF TypeWords, T
  <2> QED BY <1>4, <2>1 DEF ToSet
<1>18. Seq(Y) \subseteq Seq(Seq(STRING))
  BY SeqDef DEF Y
<1> QED BY <1>14, <1>16, <1>17, <1>18 DEF Y

\* The fields of <Perm>Inputs are different: a type's, a userset's, and "caveats".
LEMMA InputsFieldsDiffer ==
  ASSUME NEW s, Compiled(s), ~Refused(s), NEW pkg, Fitting(s, pkg), NEW d \in DefsOf(s, pkg),
         NEW p \in ToSet(d.perms)
  PROVE  IsInjective(InputsFields(CheckSource(Views(s), d.name, p.name)))
<1> DEFINE X == Seq(STRING) \cup {<<"caveats">>}
<1>1. PICK c : c = CheckSource(Views(s), d.name, p.name)
  OBVIOUS
<1>2. PICK ins, users, cavs :
        /\ ins = c.inputs /\ users = UsersetFields(c)
        /\ cavs = IF c.caveats = <<>> THEN <<>> ELSE << <<"caveats">> >>
  OBVIOUS
<1>3. InputsFields(c) = (ins \o users) \o cavs
  BY <1>2 DEF InputsFields, UsersetFields
<1>4. /\ ins \in Seq(TypeWords(s, pkg)) /\ IsInjective(ins) /\ ToSet(ins) \subseteq TypeWords(s, pkg)
  BY <1>1, <1>2, CheckInputsAre
<1>5. /\ users \in Seq(Seq(STRING)) /\ IsInjective(users)
      /\ \A x \in ToSet(users) : Len(x) > 1 /\ x[1] # "caveats"
  BY <1>1, <1>2, CheckUsersetsAre
<1>6. \A w \in TypeWords(s, pkg) : w \in Seq(STRING) /\ Len(w) = 1 /\ w[1] # "caveats"
  BY TypeWordsAre DEF TypeWords
<1>7. cavs = <<>> \/ cavs = << <<"caveats">> >>
  BY <1>2
<1>8. <<"caveats">> \in X
  OBVIOUS
<1>9. Seq(Seq(STRING)) \subseteq Seq(X) /\ Seq(TypeWords(s, pkg)) \subseteq Seq(X)
  BY <1>6, SeqDef
<1> HIDE DEF X
<1>10. /\ ins \in Seq(X) /\ IsInjective(ins)
       /\ \A x \in ToSet(ins) : Len(x) = 1 /\ x[1] # "caveats"
  BY <1>4, <1>6, <1>9
<1>11. /\ users \in Seq(X) /\ IsInjective(users)
       /\ \A x \in ToSet(users) : Len(x) > 1 /\ x[1] # "caveats"
  BY <1>5, <1>9
<1>12. cavs \in Seq(X) /\ IsInjective(cavs) /\ \A x \in ToSet(cavs) : x[1] = "caveats"
  <2>1. \A w : <<w>> \in X => \A m \in {<<>>, << <<w>> >>} :
                 m \in Seq(X) /\ IsInjective(m) /\ \A x \in ToSet(m) : x[1] = w
    BY MaybeIs
  <2> QED BY <1>7, <1>8, <2>1
<1>13. PICK u : u = ins \o users
  OBVIOUS
<1>14. ToSet(ins) \cap ToSet(users) = {}
  <2>1. ASSUME NEW x, x \in ToSet(ins), x \in ToSet(users)
        PROVE  FALSE
    <3>1. Len(x) = 1 /\ Len(x) > 1
      BY <1>10, <1>11, <2>1
    <3> QED BY <3>1
  <2> QED BY <2>1
<1>15. u \in Seq(X) /\ IsInjective(u) /\ ToSet(u) = ToSet(ins) \cup ToSet(users)
  BY <1>10, <1>11, <1>13, <1>14, ConcatProperties, ConcatOnce, ConcatElements
<1>16. \A x \in ToSet(u) : x[1] # "caveats"
  BY <1>10, <1>11, <1>15
<1>17. IsInjective(u \o cavs)
  <2>1. ToSet(u) \cap ToSet(cavs) = {}
    BY <1>12, <1>16
  <2> QED BY <1>12, <1>15, <2>1, ConcatOnce
<1> QED BY <1>1, <1>3, <1>13, <1>17

-----------------------------------------------------------------------------
(* Declarations and their uses.                                            *)

\* The name of a caveat's Args struct.
LEMMA ArgsName ==
  ASSUME NEW c \in Seq(STRING), c # <<>>
  PROVE  Len(Args(c)) > 1 /\ \A k \in Seq(STRING) : Args(c) = Args(k) => c = k
<1> DEFINE S == STRING \cup {"args"}
<1>1. PICK l : l = <<"args">>
  OBVIOUS
<1>2. l \in Seq(S) /\ Len(l) = 1
  BY <1>1
<1>3. Seq(STRING) \subseteq Seq(S)
  BY SeqDef
<1>4. \A k \in Seq(STRING) : Args(k) = k \o l
  BY <1>1 DEF Args
<1> HIDE DEF S
<1>5. Len(c) \in Nat /\ Len(c) # 0
  BY EmptySeq, LenProperties
<1>6. Len(c \o l) = Len(c) + Len(l)
  BY <1>2, <1>3, ConcatProperties
<1>7. Len(Args(c)) > 1
  BY <1>2, <1>4, <1>5, <1>6
<1>8. ASSUME NEW k \in Seq(STRING), Args(c) = Args(k)
      PROVE  c = k
  <2>1. c \o l = k \o l
    BY <1>4, <1>8
  <2>2. c \in Seq(S) /\ k \in Seq(S)
    BY <1>3
  <2> QED BY <1>2, <2>1, <2>2, ConcatSimplifications
<1> QED BY <1>7, <1>8

\* The caveats of a package by their names in Go.
LEMMA CaveatWordsIn ==
  ASSUME NEW s, Compiled(s), NEW pkg, NEW d \in DefsOf(s, pkg), NEW c \in CaveatsIn(d)
  PROVE  PascalCaveatName(c) \in Seq(STRING) /\ PascalCaveatName(c) # <<>>
<1>1. d \in ToSet(s.defs)
  BY DEF DefsOf
<1>2. PICK a \in AllowedIn(d) : c = a.caveat /\ c # NoCaveat
  BY DEF CaveatsIn
<1>3. IsAllowed(a)
  BY <1>1 DEF Compiled, AllowedIn
<1>4. c \in LocalNames \X LocalNames
  BY <1>2, <1>3 DEF IsAllowed, FullNames
<1>5. c[2] \in LocalNames
  BY <1>4
<1> QED BY <1>5, WordsAre DEF PascalCaveatName, SnakeToPascal

\* What an object file declares: its type, and the Args struct of each of its caveats.
LEMMA DeclaresAre ==
  ASSUME NEW s, Compiled(s), NEW pkg, Fitting(s, pkg), NEW d \in DefsOf(s, pkg),
         NEW f, f = ObjectSource(s, Views(s), d)
  PROVE  /\ IsInjective(Declares(f))
         /\ \A x : x \in ToSet(Declares(f)) <=>
                     \/ x = WordsOf(d.name[2])
                     \/ \E c \in CaveatsIn(d) : x = Args(PascalCaveatName(c))
         /\ \A c \in CaveatsIn(d) : Len(Args(PascalCaveatName(c))) > 1
<1> DEFINE X == {WordsOf(d.name[2])} \cup {Args(PascalCaveatName(c)) : c \in CaveatsIn(d)}
<1>1. PICK args, w, m : /\ args = ArgsSource(s, d) /\ w = WordsOf(d.name[2])
                        /\ m = [i \in DOMAIN args |-> Args(args[i].name)]
  OBVIOUS
<1>2. f.type = w /\ f.args = args /\ Declares(f) = <<w>> \o m
  <2>1. f.type = w /\ f.args = args
    BY <1>1, TypeIs DEF ObjectSource
  <2> QED BY <1>1, <2>1 DEF Declares
<1>3. /\ UniqueNames(args) /\ NamesOf(args) = {PascalCaveatName(c) : c \in CaveatsIn(d)}
      /\ w \in Seq(STRING) /\ Len(w) = 1
  BY <1>1, ArgsAre, TypeIs
<1>4. \A c \in CaveatsIn(d) : PascalCaveatName(c) \in Seq(STRING) /\ PascalCaveatName(c) # <<>>
  BY CaveatWordsIn
<1>5. \A c \in CaveatsIn(d) : Len(Args(PascalCaveatName(c))) > 1
  BY <1>4, ArgsName
<1>6. Len(args) \in Nat /\ DOMAIN args = 1 .. Len(args)
  BY <1>3 DEF UniqueNames, IsList
<1>7. \A i \in DOMAIN args : \E c \in CaveatsIn(d) : args[i].name = PascalCaveatName(c)
  BY <1>3 DEF NamesOf, ToSet
<1>8. \A c \in CaveatsIn(d) : \E i \in DOMAIN args : args[i].name = PascalCaveatName(c)
  <2> TAKE c \in CaveatsIn(d)
  <2>1. PascalCaveatName(c) \in NamesOf(args)
    BY <1>3
  <2> QED BY <2>1 DEF NamesOf, ToSet
<1>9. \A x : x \in ToSet(m) <=> \E c \in CaveatsIn(d) : x = Args(PascalCaveatName(c))
  BY <1>1, <1>7, <1>8 DEF ToSet
<1>10. IsInjective(m)
  <2>1. ASSUME NEW i \in DOMAIN args, NEW j \in DOMAIN args, Args(args[i].name) = Args(args[j].name)
        PROVE  i = j
    <3>1. args[i].name = args[j].name
      BY <1>4, <1>7, <2>1, ArgsName
    <3> QED BY <1>3, <3>1 DEF UniqueNames
  <2> QED BY <1>1, <2>1 DEF IsInjective
<1>11. \A x \in ToSet(m) : x \in X
  BY <1>9
<1>12. w \in X
  BY <1>1
<1> HIDE DEF X
<1>13. m \in Seq(X)
  <2>1. m \in [1 .. Len(args) -> X]
    BY <1>1, <1>6, <1>11 DEF ToSet
  <2> QED BY <1>6, <2>1, SeqDef
<1>14. <<w>> \in Seq(X) /\ ToSet(<<w>>) = {w} /\ IsInjective(<<w>>)
  BY <1>12, SingleIs
<1>15. ToSet(<<w>>) \cap ToSet(m) = {}
  <2>1. ASSUME w \in ToSet(m) PROVE FALSE
    <3>1. PICK c \in CaveatsIn(d) : w = Args(PascalCaveatName(c))
      BY <1>9, <2>1
    <3>2. Len(w) = 1 /\ Len(w) > 1
      BY <1>3, <1>5, <3>1
    <3> QED BY <3>2
  <2> QED BY <1>14, <2>1
<1>16. IsInjective(<<w>> \o m) /\ ToSet(<<w>> \o m) = {w} \cup ToSet(m)
  <2>1. PICK l : l = <<w>>
    OBVIOUS
  <2>2. /\ l \in Seq(X) /\ ToSet(l) = {w} /\ IsInjective(l) /\ ToSet(l) \cap ToSet(m) = {}
        /\ m \in Seq(X) /\ IsInjective(m)
    BY <1>10, <1>13, <1>14, <1>15, <2>1
  <2>3. IsInjective(l \o m) /\ ToSet(l \o m) = ToSet(l) \cup ToSet(m)
    BY <2>2, ConcatOnce, ConcatElements
  <2> QED BY <2>1, <2>2, <2>3
<1> QED BY <1>1, <1>2, <1>5, <1>9, <1>16

\* No two files of a package declare a name.
LEMMA DeclaresDiffer ==
  ASSUME NEW s, Compiled(s), NEW pkg, Fitting(s, pkg), NEW d \in DefsOf(s, pkg), NEW e \in DefsOf(s, pkg),
         NEW x, x \in ToSet(Declares(ObjectSource(s, Views(s), d))),
         x \in ToSet(Declares(ObjectSource(s, Views(s), e)))
  PROVE  d = e
<1>1. /\ x = WordsOf(d.name[2]) \/ \E c \in CaveatsIn(d) : x = Args(PascalCaveatName(c))
      /\ \A c \in CaveatsIn(d) : Len(Args(PascalCaveatName(c))) > 1
  BY DeclaresAre
<1>2. /\ x = WordsOf(e.name[2]) \/ \E k \in CaveatsIn(e) : x = Args(PascalCaveatName(k))
      /\ \A k \in CaveatsIn(e) : Len(Args(PascalCaveatName(k))) > 1
  BY DeclaresAre
<1>3. Len(WordsOf(d.name[2])) = 1 /\ Len(WordsOf(e.name[2])) = 1
  BY TypeIs
<1>4. CASE x = WordsOf(d.name[2]) /\ x = WordsOf(e.name[2])
  BY <1>4, TypesDiffer
<1>5. CASE \E c \in CaveatsIn(d), k \in CaveatsIn(e) :
             x = Args(PascalCaveatName(c)) /\ x = Args(PascalCaveatName(k))
  <2>1. PICK c \in CaveatsIn(d), k \in CaveatsIn(e) :
          x = Args(PascalCaveatName(c)) /\ x = Args(PascalCaveatName(k))
    BY <1>5
  <2>2. PascalCaveatName(c) = PascalCaveatName(k)
    <3>1. PICK a, b : a = PascalCaveatName(c) /\ b = PascalCaveatName(k)
      OBVIOUS
    <3>2. a \in Seq(STRING) /\ a # <<>> /\ b \in Seq(STRING)
      BY <3>1, CaveatWordsIn
    <3>3. Args(a) = Args(b)
      BY <2>1, <3>1
    <3> QED BY <3>1, <3>2, <3>3, ArgsName
  <2> QED BY <2>2, CaveatNames
<1>6. CASE x = WordsOf(d.name[2]) /\ x # WordsOf(e.name[2])
  <2>1. PICK k \in CaveatsIn(e) : x = Args(PascalCaveatName(k))
    BY <1>2, <1>6
  <2>2. Len(x) = 1 /\ Len(x) > 1
    BY <1>2, <1>3, <1>6, <2>1
  <2> QED BY <2>2
<1>7. CASE x # WordsOf(d.name[2]) /\ x = WordsOf(e.name[2])
  <2>1. PICK c \in CaveatsIn(d) : x = Args(PascalCaveatName(c))
    BY <1>1, <1>7
  <2>2. Len(x) = 1 /\ Len(x) > 1
    BY <1>1, <1>3, <1>7, <2>1
  <2> QED BY <2>2
<1>8. CASE x # WordsOf(d.name[2]) /\ x # WordsOf(e.name[2])
  BY <1>1, <1>2, <1>5, <1>8
<1> QED BY <1>4, <1>6, <1>7, <1>8

\* The relations and the checks of an object file.
LEMMA PartsAre ==
  ASSUME NEW s, NEW d, NEW f, f = ObjectSource(s, Views(s), d)
  PROVE  /\ \A r \in ToSet(f.rels) : \E q \in ToSet(d.rels) : r = RelationSource(q)
         /\ \A c \in ToSet(f.checks) : \E p \in ToSet(d.perms) : c = CheckSource(Views(s), d.name, p.name)
         /\ f.rels = <<>> <=> DOMAIN d.rels = {}
         /\ f.checks = <<>> <=> DOMAIN d.perms = {}
         /\ f.purges = Referencing(s, d.name)
<1>1. PICK rels, checks : rels = f.rels /\ checks = f.checks
  OBVIOUS
<1>2. /\ rels = [i \in DOMAIN d.rels |-> RelationSource(d.rels[i])]
      /\ checks = [i \in DOMAIN d.perms |-> CheckSource(Views(s), d.name, d.perms[i].name)]
      /\ f.purges = Referencing(s, d.name)
  BY <1>1 DEF ObjectSource
<1>3. \A r \in ToSet(rels) : \E q \in ToSet(d.rels) : r = RelationSource(q)
  BY <1>2 DEF ToSet
<1>4. \A c \in ToSet(checks) : \E p \in ToSet(d.perms) : c = CheckSource(Views(s), d.name, p.name)
  BY <1>2 DEF ToSet
<1>5. rels = <<>> <=> DOMAIN d.rels = {}
  BY <1>2
<1>6. checks = <<>> <=> DOMAIN d.perms = {}
  BY <1>2
<1> QED BY <1>1, <1>2, <1>3, <1>4, <1>5, <1>6

\* What an object file uses: types of its package, and Args structs of its own.
LEMMA UsesAre ==
  ASSUME NEW s, Compiled(s), ~Refused(s), NEW pkg, Fitting(s, pkg), NEW d \in DefsOf(s, pkg),
         NEW x \in Uses(ObjectSource(s, Views(s), d))
  PROVE  x \in TypeWords(s, pkg) \/ \E c \in CaveatsIn(d) : x = Args(PascalCaveatName(c))
<1> DEFINE Goal == x \in TypeWords(s, pkg) \/ \E c \in CaveatsIn(d) : x = Args(PascalCaveatName(c))
<1>1. PICK f : f = ObjectSource(s, Views(s), d)
  OBVIOUS
<1>2. /\ d \in ToSet(s.defs)
      /\ \A r \in ToSet(f.rels) : \E q \in ToSet(d.rels) : r = RelationSource(q)
      /\ \A c \in ToSet(f.checks) : \E p \in ToSet(d.perms) : c = CheckSource(Views(s), d.name, p.name)
  <2>1. d \in ToSet(s.defs)
    BY DEF DefsOf
  <2>2. \A r \in ToSet(f.rels) : \E q \in ToSet(d.rels) : r = RelationSource(q)
    BY <1>1, PartsAre, SMTT(30)
  <2>3. \A c \in ToSet(f.checks) : \E p \in ToSet(d.perms) : c = CheckSource(Views(s), d.name, p.name)
    BY <1>1, PartsAre, SMTT(30)
  <2> QED BY <2>1, <2>2, <2>3
<1>3. \/ \E r \in ToSet(f.rels) : \E b \in ToSet(r.creates) :
           x = b.type \/ (b.caveat # NoCaveat /\ x = Args(PascalCaveatName(b.caveat)))
      \/ \E c \in ToSet(f.checks) :
           \/ x \in ToSet(c.inputs)
           \/ \E u \in ToSet(c.usersets) : x = u[1]
           \/ \E k \in ToSet(c.caveats) : x = Args(k)
  BY <1>1 DEF Uses
<1>4. ASSUME NEW r \in ToSet(f.rels), NEW b \in ToSet(r.creates),
             x = b.type \/ (b.caveat # NoCaveat /\ x = Args(PascalCaveatName(b.caveat)))
      PROVE  Goal
  <2>1. PICK q \in ToSet(d.rels) : r = RelationSource(q)
    BY <1>2
  <2>2. PICK types : types = q.types
    OBVIOUS
  <2>3. r.creates = Creates(types)
    BY <2>1, <2>2 DEF RelationSource
  <2>4. IsList(types)
    BY <1>2, <2>2 DEF Compiled
  <2>5. PICK i \in DOMAIN types : IsBranch(b, types, i)
    BY <2>3, <2>4, CreatesAre
  <2>6. PICK a : a = types[i]
    OBVIOUS
  <2>7. b.type = TypeName(a.type) /\ b.caveat = a.caveat
    <3>1. PICK star \in BOOLEAN : b = Branch(types, i, star)
      BY <2>5 DEF IsBranch
    <3> QED BY <2>6, <3>1, BranchIs
  <2>8. a \in AllowedIn(d)
    BY <2>2, <2>6 DEF AllowedIn, ToSet
  <2>9. a.type \in TypesIn(s, pkg)
    BY <2>8 DEF Fitting, TypesIn
  <2>10. a.caveat # NoCaveat => a.caveat \in CaveatsIn(d)
    BY <2>8 DEF CaveatsIn
  <2> QED BY <1>4, <2>7, <2>9, <2>10 DEF TypeWords
<1>5. ASSUME NEW c \in ToSet(f.checks),
             \/ x \in ToSet(c.inputs)
             \/ \E u \in ToSet(c.usersets) : x = u[1]
             \/ \E k \in ToSet(c.caveats) : x = Args(k)
      PROVE  Goal
  <2>1. PICK p \in ToSet(d.perms) : c = CheckSource(Views(s), d.name, p.name)
    BY <1>2
  <2>2. ToSet(c.inputs) \subseteq TypeWords(s, pkg)
    BY <2>1, CheckInputsAre
  <2>3. PICK n : n = p.name
    OBVIOUS
  <2>4. c = CheckSource(Views(s), d.name, n)
    BY <2>1, <2>3
  <2>5. \A u \in ToSet(c.usersets) : u[1] \in TypeWords(s, pkg)
    BY <2>4, CheckUsersetsAre
  <2>6. ToSet(c.caveats) = {PascalCaveatName(k) : k \in ToSet(PermCaveats(Views(s), d.name, n))}
    BY <1>2, <2>4, CheckCaveatsAre
  <2>7. ToSet(PermCaveats(Views(s), d.name, n)) \subseteq CaveatsIn(d)
    BY <1>2, PermCaveatsAre
  <2> QED BY <1>5, <2>2, <2>5, <2>6, <2>7
<1> QED BY <1>3, <1>4, <1>5

\* What a file uses, a file of its package declares.
LEMMA UsesDeclared ==
  ASSUME NEW s, Compiled(s), ~Refused(s), NEW pkg, Fitting(s, pkg), NEW d \in DefsOf(s, pkg),
         NEW x \in Uses(ObjectSource(s, Views(s), d))
  PROVE  \E e \in DefsOf(s, pkg) : x \in ToSet(Declares(ObjectSource(s, Views(s), e)))
<1>1. x \in TypeWords(s, pkg) \/ \E c \in CaveatsIn(d) : x = Args(PascalCaveatName(c))
  BY UsesAre
<1>2. CASE x \in TypeWords(s, pkg)
  <2>1. PICK e \in DefsOf(s, pkg) : x = TypeName(e.name)
    BY <1>2 DEF TypeWords, TypesIn
  <2>2. x = WordsOf(e.name[2])
    BY <2>1, TypeIs
  <2> QED BY <2>2, DeclaresAre
<1>3. CASE \E c \in CaveatsIn(d) : x = Args(PascalCaveatName(c))
  BY <1>3, DeclaresAre
<1> QED BY <1>1, <1>2, <1>3

\* An object file by itself.
LEMMA ObjectCompiles ==
  ASSUME NEW s, Compiled(s), ~Refused(s), NEW pkg, Fitting(s, pkg), Plain(s, pkg), NEW d \in DefsOf(s, pkg),
         NEW f, f = ObjectSource(s, Views(s), d)
  PROVE  /\ f.checks # <<>> => ImportsContext(f)
         /\ \A r \in ToSet(f.rels) : IsInjective(ObjectsFields(r))
         /\ \A c \in ToSet(f.checks) : IsInjective(InputsFields(c))
<1>1. \A r \in ToSet(f.rels) : \E q \in ToSet(d.rels) : r = RelationSource(q)
  BY PartsAre
<1>2. \A c \in ToSet(f.checks) : \E p \in ToSet(d.perms) : c = CheckSource(Views(s), d.name, p.name)
  BY PartsAre
<1>3. f.rels = <<>> <=> DOMAIN d.rels = {}
  BY PartsAre
<1>4. f.checks = <<>> <=> DOMAIN d.perms = {}
  BY PartsAre
<1>5. f.purges = Referencing(s, d.name)
  BY PartsAre
<1>6. ASSUME f.checks # <<>> PROVE ImportsContext(f)
  <2>1. PICK rels, perms : rels = d.rels /\ perms = d.perms
    OBVIOUS
  <2>2. perms # <<>>
    BY <1>4, <1>6, <2>1
  <2>3. rels # <<>> \/ Referencing(s, d.name) # <<>>
    BY <2>1, <2>2 DEF Fitting
  <2>4. IsList(rels)
    <3>1. d \in ToSet(s.defs)
      BY DEF DefsOf
    <3> QED BY <2>1, <3>1 DEF Compiled, UniqueNames
  <2>5. rels # <<>> => DOMAIN rels # {}
    <3>1. rels \in Seq(ToSet(rels))
      <4>1. Len(rels) \in Nat /\ rels \in [1 .. Len(rels) -> ToSet(rels)]
        BY <2>4 DEF IsList, ToSet
      <4> QED BY <4>1, SeqDef
    <3>2. Len(rels) \in Nat /\ DOMAIN rels = 1 .. Len(rels) /\ (Len(rels) = 0 => rels = <<>>)
      BY <3>1, LenProperties, EmptySeq
    <3> QED BY <3>2
  <2> QED BY <1>3, <1>5, <2>1, <2>3, <2>5 DEF ImportsContext
<1>7. ASSUME NEW r \in ToSet(f.rels) PROVE IsInjective(ObjectsFields(r))
  BY <1>1, ObjectsFieldsDiffer
<1>8. ASSUME NEW c \in ToSet(f.checks) PROVE IsInjective(InputsFields(c))
  BY <1>2, InputsFieldsDiffer
<1> QED BY <1>6, <1>7, <1>8

\* The packages after a run that ended well.
LEMMA CompilesSettled ==
  ASSUME Settled
  PROVE  FinishedCompiles
<1> SUFFICES ASSUME NEW pkg \in Orderly
             PROVE  Compiles(FilesOf(pkg))
  BY DEF FinishedCompiles
<1>1. PICK s : s = Now
  OBVIOUS
<1>2. Compiled(s) /\ ~Refused(s) /\ Fitting(s, pkg) /\ Plain(s, pkg)
  BY <1>1, NowIs, OrderlyIs
<1>3. PICK files, objects : files = FilesOf(pkg) /\ objects = {f \in FilesOf(pkg) : f.kind = "object"}
  OBVIOUS
<1>4. \A f \in objects : \E d \in DefsOf(s, pkg) : f = ObjectSource(s, Views(s), d)
  BY <1>1, <1>3, ObjectsIn
<1>5. \A d \in DefsOf(s, pkg) : ObjectSource(s, Views(s), d) \in objects
  BY <1>1, <1>3, ObjectsIn
<1>6. \A f \in files : f.kind # "partial"
  <2>1. files \subseteq {ObjectSource(s, Views(s), d) : d \in DefsOf(s, pkg)} \cup {OPASource(s, pkg)}
    BY <1>1, <1>3, OutputIs
  <2>2. ASSUME NEW f \in files PROVE f.kind \in {"object", "opa"}
    <3>1. (\E d \in DefsOf(s, pkg) : f = ObjectSource(s, Views(s), d)) \/ f = OPASource(s, pkg)
      BY <2>1
    <3> QED BY <3>1, SourceKinds
  <2> QED BY <2>2
<1>7. ASSUME NEW f \in objects
      PROVE  /\ f.checks # <<>> => ImportsContext(f)
             /\ IsInjective(Declares(f)) /\ \A x \in Uses(f) : \E g \in objects : x \in ToSet(Declares(g))
             /\ \A r \in ToSet(f.rels) : IsInjective(ObjectsFields(r))
             /\ \A c \in ToSet(f.checks) : IsInjective(InputsFields(c))
  <2>1. PICK d \in DefsOf(s, pkg) : f = ObjectSource(s, Views(s), d)
    BY <1>4
  <2>2. /\ f.checks # <<>> => ImportsContext(f)
        /\ \A r \in ToSet(f.rels) : IsInjective(ObjectsFields(r))
        /\ \A c \in ToSet(f.checks) : IsInjective(InputsFields(c))
    BY <1>2, <2>1, ObjectCompiles
  <2>3. IsInjective(Declares(f))
    BY <1>2, <2>1, DeclaresAre
  <2>4. \A x \in Uses(f) : \E e \in DefsOf(s, pkg) : x \in ToSet(Declares(ObjectSource(s, Views(s), e)))
    BY <1>2, <2>1, UsesDeclared
  <2>5. \A x \in Uses(f) : \E g \in objects : x \in ToSet(Declares(g))
    BY <1>5, <2>4
  <2> QED BY <2>2, <2>3, <2>5
<1>8. ASSUME NEW f \in objects, NEW g \in objects, f # g
      PROVE  ToSet(Declares(f)) \cap ToSet(Declares(g)) = {}
  <2>1. PICK d \in DefsOf(s, pkg) : f = ObjectSource(s, Views(s), d)
    BY <1>4
  <2>2. PICK e \in DefsOf(s, pkg) : g = ObjectSource(s, Views(s), e)
    BY <1>4
  <2>3. d # e
    BY <1>8, <2>1, <2>2
  <2>4. ASSUME NEW x, x \in ToSet(Declares(f)), x \in ToSet(Declares(g)) PROVE FALSE
    <3>1. /\ x \in ToSet(Declares(ObjectSource(s, Views(s), d)))
          /\ x \in ToSet(Declares(ObjectSource(s, Views(s), e)))
      BY <2>1, <2>2, <2>4
    <3>2. d = e
      BY <1>2, <3>1, DeclaresDiffer
    <3> QED BY <2>3, <3>2
  <2> QED BY <2>4
<1>9. objects = {f \in files : f.kind = "object"}
  BY <1>3
<1>10. \A f \in objects : Uses(f) \subseteq UNION {ToSet(Declares(g)) : g \in objects}
  BY <1>7
<1>11. Compiles(files)
  BY <1>6, <1>7, <1>8, <1>9, <1>10 DEF Compiles
<1> QED BY <1>3, <1>11

-----------------------------------------------------------------------------

\* A property of runs that have reported success follows from what holds then.
LEMMA SettledHolds == Spec => [](TypeOK /\ FinishedIsCurrent /\ NothingRefused)
BY TypeCorrect, SuccessIsCurrent, RefusedIsReported, PTL

\* main: what a run reports success for compiles.  The files of a
\* package declare no name twice, use what they declare, and the structs of their
\* methods have no field twice.
THEOREM OutputCompiles == Spec => []FinishedCompiles
<1>1. TypeOK /\ FinishedIsCurrent /\ NothingRefused => FinishedCompiles
  BY CompilesSettled DEF Settled, FinishedCompiles
<1> QED BY <1>1, SettledHolds, PTL

\* GenerateOPASource: with --emit-opa a package has one file of builtins, for
\* exactly the permissions that have a check, each under a name of its own.
THEOREM BuiltinsMatch == Spec => []BuiltinsMatchChecks
<1>1. TypeOK /\ FinishedIsCurrent /\ NothingRefused => BuiltinsMatchChecks
  BY BuiltinsSettled DEF Settled, BuiltinsMatchChecks
<1> QED BY <1>1, SettledHolds, PTL

\* Create<Rel>Relations: while VerifySchema finds nothing breaking, SpiceDB takes
\* what the client writes.
THEOREM WritesAreAccepted == Spec => []WritesAccepted
<1>1. TypeOK /\ FinishedIsCurrent /\ NothingRefused => WritesAccepted
  BY WritesSettled DEF Settled, WritesAccepted
<1> QED BY <1>1, SettledHolds, PTL

\* PurgeRelationsAsSubject: while VerifySchema finds no drift, it goes through
\* every type that can hold the object.
THEOREM PurgesAreClean == Spec => []CleanPurges
<1>1. TypeOK /\ FinishedIsCurrent /\ NothingRefused => CleanPurges
  BY PurgesSettled DEF Settled, CleanPurges
<1> QED BY <1>1, SettledHolds, PTL

\* Check<Perm>: the parameters of the caveats that it merges into one context
\* have different names.
THEOREM CaveatKeysArePrivate == Spec => []KeysArePrivate
<1>1. TypeOK /\ FinishedIsCurrent /\ NothingRefused => KeysArePrivate
  BY KeysSettled DEF Settled, KeysArePrivate
<1> QED BY <1>1, SettledHolds, PTL
=============================================================================
