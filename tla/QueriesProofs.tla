--------------------------- MODULE QueriesProofs ---------------------------
(***************************************************************************)
(* Proofs about Queries for all permissions, stores and calls.             *)
(***************************************************************************)
EXTENDS Queries, SequenceLemmas

AStore == [Slots -> [IDs -> [Resources -> Perms]]]

-----------------------------------------------------------------------------
(* What a call still has to ask for, and at which consistency.             *)

Current == Head(queue)
Working == pc \in {"snapshot", "ask", "stream"}

\* The caller gave IDs, possibly none, for every slot still to be asked for.
QueueIsGiven ==
  Working => \A k \in 1 .. Len(queue) :
               /\ queue[k] \in DOMAIN call.input
               /\ call.op \in Lookups => queue[k] \in TypeSlots

IDsAreGiven == pc \in {"ask", "stream"} => ids \subseteq call.input[Current]

\* Every engine call honours the override; a pinned one is at a known revision.
Consistent ==
  pc \in {"ask", "stream"} =>
    \/ mode = "full"
    \/ mode = "exact" /\ ~call.full /\ pin \in 0 .. head
    \/ mode = "minlat" /\ ~call.full

ResultsOf(op) ==
  CASE op = "Check"    -> {"noinput", "granted", "denied", "conditional", "failed"}
    [] op = "OPACheck" -> {"granted", "denied", "failed"}
    [] op \in {"WildcardSubjects", "ReadWildcard"} -> {"granted", "denied", "failed"}
    [] OTHER -> {"listed", "failed"}

\* Lists are empty until a stream fills them.
NothingCollected ==
  pc \in {"idle", "snapshot"} \/ (pc = "ask" /\ call.op \notin Lookups) =>
    definite = {} /\ conditional = {}

Shape ==
  /\ QueueIsGiven /\ IDsAreGiven /\ Consistent /\ NothingCollected
  /\ pc = "done" => result \in ResultsOf(call.op)
  /\ call.op \in Checks => pc # "stream"

-----------------------------------------------------------------------------
(* What the answers so far amount to.                                      *)

\* A check has yet to ask for this ID, in this slot or a later one.
Pending(s, i) ==
  \E k \in 1 .. Len(queue) :
    queue[k] = s /\ (k > 1 \/ pc = "snapshot" \/ (pc = "ask" /\ i \in ids))

CheckInv ==
  call.op \in Checks =>
    /\ Working \/ (pc = "done" /\ result = "granted") =>
         /\ DOMAIN call.input # {}
         /\ \A s \in DOMAIN call.input : \A i \in call.input[s] :
              Pending(s, i) \/ Gives("has", s, i, call.on)
    /\ pc = "done" /\ result = "granted" => queue = <<>>
    /\ DeniedIsTrue

\* A lookup lists what it received, and received what its IDs have.
LookupInv ==
  call.op \in Lookups =>
    /\ definite \subseteq Resources
    /\ Working => \A d \in definite : \E s \in DOMAIN call.input :
                    \E i \in call.input[s] : Gives("has", s, i, d)
    /\ pc = "stream" =>
         \A x \in rows : x[1] \in Resources /\
           \E i \in call.input[Current] : Gives(x[2], Current, i, x[1])
    /\ pc \in {"ask", "stream"} =>
         \A i \in call.input[Current] \ ids : \A d \in Resources :
           Keeps("has", Current, i, d) => d \in definite \/ <<d, "has">> \in rows
    /\ LookupIsExact

\* SpiceDB's answer about subject i at revision r.
AnswerAt(r, s, i) == Answer(call, r, s, i, call.on)

\* While its stream is open: what a lookup of subjects of slot s knows of the one
\* revision the stream is from.
SubjectsOf(r, s) ==
  /\ \A x \in rows : x[2] = AnswerAt(r, s, x[1])
  /\ \A i \in definite : AnswerAt(r, s, i) = "has"
  /\ \A i \in conditional : AnswerAt(r, s, i) = "cond"
  /\ \A i \in IDs :
       i = Star \/ Rank(AnswerAt(r, s, i)) > Rank(AnswerAt(r, s, Star)) =>
         /\ AnswerAt(r, s, i) = "has"  => i \in definite    \/ <<i, "has">>  \in rows
         /\ AnswerAt(r, s, i) = "cond" => i \in conditional \/ <<i, "cond">> \in rows

\* A lookup of subjects misses only what the wildcard covers.
SubjectInv ==
  call.op \in Subjects =>
    /\ pc = "stream" => \E r \in Fresh : SubjectsOf(r, Current)
    /\ SubjectsAreCovered

\* The rows of the relation with a subject of the type of slot s.
RowsAt(r, s) ==
  {x \in Slots \X IDs : TypeOf[x[1]] = TypeOf[s] /\ history[r + 1][x[1]][x[2]][call.on] # "no"}

\* A read has received, or has yet to, the rows of one revision.
ReadInv ==
  call.op \in Reads =>
    /\ pc = "stream" =>
         \E r \in Fresh : definite \cup {x[1] : x \in rows} = RowsAt(r, Current)
    /\ ReadsAreWhole

-----------------------------------------------------------------------------
\* The elements of Select are those of the list that are in S.
LEMMA SelectIs ==
  ASSUME NEW Y, NEW order \in Seq(Y), NEW S
  PROVE  Select(order, S) \in Seq(Y) /\ ToSet(Select(order, S)) = ToSet(order) \cap S
<1> DEFINE s == [k \in DOMAIN order |-> IF order[k] \in S THEN <<order[k]>> ELSE <<>>]
           N == Len(order)
<1>1. N \in Nat /\ DOMAIN order = 1 .. N /\ \A k \in 1 .. N : order[k] \in Y
  BY LenProperties
<1>2. \A k \in 1 .. N : s[k] = IF order[k] \in S THEN <<order[k]>> ELSE <<>>
  BY <1>1
<1>3. \A k \in 1 .. N : s[k] \in Seq(Y)
  <2>1. \A y \in Y : <<y>> \in Seq(Y)
    OBVIOUS
  <2>2. <<>> \in Seq(Y)
    BY EmptySeq
  <2> HIDE DEF s, N
  <2> QED BY <1>1, <1>2, <2>1, <2>2
<1>4. s \in [1 .. N -> Seq(Y)]
  <2>1. s = [k \in 1 .. N |-> s[k]]
    BY <1>1
  <2> HIDE DEF s, N
  <2> QED BY <1>3, <2>1
<1>5. s \in Seq(Seq(Y)) /\ Len(s) = N
  <2> HIDE DEF s, N
  <2> QED BY <1>1, <1>4, SeqDef, LenProperties
<1>6. Flat(Select(order, S), s, N, Y)
  <2>1. Select(order, S) = FlattenSeq(s)
    BY DEF Select
  <2> HIDE DEF s, N
  <2> QED BY <1>5, <2>1, FlattenProperties
<1>7. ToSet(Select(order, S)) = UNION {ToSet(s[k]) : k \in 1 .. N}
  BY <1>6 DEF Flat
<1>8. \A k \in 1 .. N : ToSet(s[k]) = {order[k]} \cap S
  <2> TAKE k \in 1 .. N
  <2>1. ToSet(<<order[k]>>) = {order[k]} /\ ToSet(<<>>) = {}
    BY DEF ToSet
  <2> HIDE DEF s, N
  <2> QED BY <1>2, <2>1
<1>9. ToSet(order) = {order[k] : k \in 1 .. N}
  BY <1>1 DEF ToSet
<1> HIDE DEF s, N
<1> QED BY <1>6, <1>7, <1>8, <1>9 DEF Flat

\* The slots in the order of the schema, and sorted, are all the slots.
LEMMA SlotOrders ==
  /\ Types \in Seq(Slots) /\ Sorted \in Seq(Slots)
  /\ ToSet(Types) = TypeSlots /\ ToSet(Sorted) = TypeSlots
  /\ Types \o Usersets \in Seq(Slots) /\ ToSet(Types \o Usersets) = Slots
<1>1. /\ Types \in Seq(TypeSlots) /\ Sorted \in Seq(TypeSlots) /\ Usersets \in Seq(Slots)
      /\ TypeSlots = {Sorted[k] : k \in DOMAIN Sorted}
  BY QueriesAssumption DEF QueriesAssumption
<1>2. TypeSlots \subseteq Slots
  BY DEF Slots
<1>3. Types \in Seq(Slots) /\ Sorted \in Seq(Slots)
  BY <1>1, <1>2, SeqMonotonic
<1>4. ToSet(Types) = TypeSlots /\ ToSet(Sorted) = TypeSlots
  BY <1>1 DEF ToSet, TypeSlots
<1>5. ToSet(Usersets) = {Usersets[k] : k \in DOMAIN Usersets}
  BY DEF ToSet
<1>6. Types \o Usersets \in Seq(Slots)
  BY <1>1, <1>3, ConcatProperties
<1>7. ToSet(Types \o Usersets) = Slots
  BY <1>1, <1>3, <1>4, <1>5, ConcatElements DEF Slots
<1> QED BY <1>3, <1>4, <1>6, <1>7

\* First is the head of a list, if it has one.
LEMMA FirstIs ==
  ASSUME NEW Y, NEW q \in Seq(Y)
  PROVE  First(q) \in Seq(Y) /\ ToSet(First(q)) \subseteq ToSet(q) /\ (First(q) = <<>> => q = <<>>)
<1>1. CASE q = <<>>
  BY <1>1 DEF First
<1>2. CASE q # <<>>
  <2>1. Head(q) \in Y /\ Head(q) = q[1] /\ 1 \in 1 .. Len(q)
    BY <1>2, HeadTailProperties, EmptySeq
  <2>2. First(q) = <<Head(q)>> /\ <<Head(q)>> \in Seq(Y) /\ <<Head(q)>> # <<>>
    BY <1>2, <2>1 DEF First
  <2>3. ToSet(<<Head(q)>>) = {Head(q)}
    BY DEF ToSet
  <2> QED BY <2>1, <2>2, <2>3, ElementsOfSeq
<1> QED BY <1>1, <1>2

\* len(input.<Type>) > 0 keeps the slots with IDs, subjectEntries every type given.
LEMMA FilledAre ==
  ASSUME NEW c \in Calls
  PROVE  LET full == {s \in DOMAIN c.input : c.input[s] # {}} IN
         /\ Filled(c.input, Types \o Usersets) \in Seq(Slots)
         /\ ToSet(Filled(c.input, Types \o Usersets)) = full
         /\ Filled(c.input, Types) \in Seq(Slots)
         /\ ToSet(Filled(c.input, Types)) = full \cap TypeSlots
         /\ Present(c.input) \in Seq(Slots)
         /\ ToSet(Present(c.input)) = DOMAIN c.input \cap TypeSlots
         /\ Select(Types \o Usersets, DOMAIN c.input) \in Seq(Slots)
         /\ ToSet(Select(Types \o Usersets, DOMAIN c.input)) = DOMAIN c.input
<1> DEFINE full == {s \in DOMAIN c.input : c.input[s] # {}}
<1>1. IsCall(c)
  BY QueriesAssumption DEF QueriesAssumption
<1>2. c.op \in Ops /\ DOMAIN c.input \subseteq Slots
      /\ (c.op \in {"OPACheck", "OPALookup"} => DOMAIN c.input \subseteq TypeSlots)
  BY <1>1 DEF IsCall
<1>3. /\ Filled(c.input, Types \o Usersets) \in Seq(Slots)
      /\ ToSet(Filled(c.input, Types \o Usersets)) = full
  <2>1. Filled(c.input, Types \o Usersets) = Select(Types \o Usersets, full)
    BY DEF Filled
  <2>2. Types \o Usersets \in Seq(Slots) /\ ToSet(Types \o Usersets) = Slots
    BY SlotOrders
  <2>3. full \subseteq Slots
    BY <1>2
  <2> HIDE DEF full
  <2>4. /\ Select(Types \o Usersets, full) \in Seq(Slots)
        /\ ToSet(Select(Types \o Usersets, full)) = ToSet(Types \o Usersets) \cap full
    BY <2>2, SelectIs
  <2> QED BY <2>1, <2>2, <2>3, <2>4
<1>4. /\ Filled(c.input, Types) \in Seq(Slots)
      /\ ToSet(Filled(c.input, Types)) = full \cap TypeSlots
  BY <1>2, SlotOrders, SelectIs DEF Filled
<1>5. /\ Present(c.input) \in Seq(Slots)
      /\ ToSet(Present(c.input)) = DOMAIN c.input \cap TypeSlots
  BY <1>2, SlotOrders, SelectIs DEF Present
<1>6. /\ Select(Types \o Usersets, DOMAIN c.input) \in Seq(Slots)
      /\ ToSet(Select(Types \o Usersets, DOMAIN c.input)) = DOMAIN c.input
  <2>1. Types \o Usersets \in Seq(Slots) /\ ToSet(Types \o Usersets) = Slots
    BY SlotOrders
  <2>2. Slots \cap DOMAIN c.input = DOMAIN c.input
    BY <1>2
  <2> QED BY <2>1, <2>2, SelectIs
<1> QED BY <1>3, <1>4, <1>5, <1>6

\* A plan asks only for slots the caller gave; a check and the methods for one
\* type ask for all of them, a lookup for one if there is one.
LEMMA PlanIs ==
  ASSUME NEW c \in Calls
  PROVE  /\ Plan(c) \in Seq(Slots) /\ ToSet(Plan(c)) \subseteq DOMAIN c.input
         /\ c.op \in Lookups => ToSet(Plan(c)) \subseteq TypeSlots
         /\ c.op = "Check" => \A s \in DOMAIN c.input : c.input[s] # {} => s \in ToSet(Plan(c))
         /\ c.op \in {"OPACheck"} \cup Subjects \cup Reads => ToSet(Plan(c)) = DOMAIN c.input
         /\ c.op \in Lookups /\ Plan(c) = <<>> =>
              \A s \in DOMAIN c.input \cap TypeSlots : c.op = "Lookup" /\ c.input[s] = {}
<1> DEFINE full == {s \in DOMAIN c.input : c.input[s] # {}}
<1>1. IsCall(c)
  BY QueriesAssumption DEF QueriesAssumption
<1>2. c.op \in Ops /\ DOMAIN c.input \subseteq Slots
      /\ (c.op \in {"OPACheck", "OPALookup"} => DOMAIN c.input \subseteq TypeSlots)
  BY <1>1 DEF IsCall
<1>3. /\ Filled(c.input, Types \o Usersets) \in Seq(Slots)
      /\ ToSet(Filled(c.input, Types \o Usersets)) = full
  BY FilledAre
<1>4. /\ Filled(c.input, Types) \in Seq(Slots)
      /\ ToSet(Filled(c.input, Types)) = full \cap TypeSlots
  BY FilledAre
<1>5. /\ Present(c.input) \in Seq(Slots)
      /\ ToSet(Present(c.input)) = DOMAIN c.input \cap TypeSlots
  BY FilledAre
<1>6. CASE c.op = "Check"
  <2>1. Plan(c) = Filled(c.input, Types \o Usersets)
    BY <1>6 DEF Plan
  <2> QED BY <2>1, <1>3, <1>6 DEF Lookups, Subjects, Reads
<1>7. CASE c.op = "Lookup"
  <2>1. Plan(c) = First(Filled(c.input, Types))
    BY <1>7 DEF Plan
  <2>2. Plan(c) \in Seq(Slots) /\ ToSet(Plan(c)) \subseteq full \cap TypeSlots
    BY <2>1, <1>4, FirstIs
  <2>3. Plan(c) = <<>> => full \cap TypeSlots = {}
    <3>1. Plan(c) = <<>> => Filled(c.input, Types) = <<>>
      BY <2>1, <1>4, FirstIs
    <3>2. Filled(c.input, Types) = <<>> => ToSet(Filled(c.input, Types)) = {}
      BY <1>4, ElementsOfSeq
    <3> QED BY <3>1, <3>2, <1>4
  <2> QED BY <2>2, <2>3, <1>7 DEF Lookups, Subjects, Reads
<1>8. CASE c.op = "OPALookup"
  <2>1. Plan(c) = First(Present(c.input))
    BY <1>8 DEF Plan
  <2>2. Plan(c) \in Seq(Slots) /\ ToSet(Plan(c)) \subseteq DOMAIN c.input \cap TypeSlots
    BY <2>1, <1>5, FirstIs
  <2>3. Plan(c) = <<>> => DOMAIN c.input \cap TypeSlots = {}
    BY <2>1, <1>5, FirstIs, ElementsOfSeq
  <2> QED BY <2>2, <2>3, <1>8 DEF Lookups, Subjects, Reads
<1>9. CASE c.op = "OPACheck"
  <2>1. Plan(c) = Present(c.input)
    BY <1>9 DEF Plan
  <2>2. DOMAIN c.input \cap TypeSlots = DOMAIN c.input
    BY <1>2, <1>9
  <2> QED BY <2>1, <2>2, <1>5, <1>9 DEF Lookups, Subjects, Reads
<1>10. CASE c.op \in Subjects \cup Reads
  <2>1. Plan(c) = Select(Types \o Usersets, DOMAIN c.input)
    BY <1>10 DEF Plan, Subjects, Reads
  <2>2. Plan(c) \in Seq(Slots) /\ ToSet(Plan(c)) = DOMAIN c.input
    BY <2>1, FilledAre
  <2> QED BY <2>2, <1>10 DEF Lookups, Subjects, Reads
<1> QED BY <1>2, <1>6, <1>7, <1>8, <1>9, <1>10 DEF Ops, Checks, Lookups

-----------------------------------------------------------------------------
(* Calls, revisions and answers.                                           *)

\* No method is of two families.
LEMMA OpsAreApart ==
  /\ \A op \in Checks : op \notin Lookups \cup Subjects \cup Reads
  /\ \A op \in Lookups : op \notin Subjects \cup Reads
  /\ \A op \in Subjects : op \notin Reads
  /\ NoCall.op \notin Ops
BY DEF Checks, Lookups, Subjects, Reads, NoCall, Ops

\* What is being executed is a call some client can make.
LEMMA CallIs ==
  ASSUME TypeOK, pc # "idle"
  PROVE  call \in Calls /\ IsCall(call) /\ call.op \in Ops
BY QueriesAssumption DEF TypeOK, QueriesAssumption, IsCall

\* Every revision up to the head has a store.
LEMMA HistoryIs ==
  ASSUME TypeOK
  PROVE  /\ head \in Nat /\ start \in Nat /\ start <= head /\ history \in Seq(AStore)
         /\ \A r \in 0 .. head : history[r + 1] \in AStore
<1>1. history \in Seq(AStore) /\ head \in Revs /\ start \in 0 .. head
  BY DEF TypeOK, AStore
<1>2. Len(history) \in Nat /\ \A k \in 1 .. Len(history) : history[k] \in AStore
  BY <1>1, LenProperties
<1>3. \A r \in 0 .. head : r + 1 \in 1 .. Len(history)
  BY <1>2 DEF head
<1> QED BY <1>1, <1>2, <1>3, QueriesAssumption DEF QueriesAssumption, Revs

\* SpiceDB answers no, cond or has.
LEMMA AnswersArePerms ==
  ASSUME TypeOK, NEW r \in 0 .. head, NEW s \in Slots, NEW i \in IDs, NEW d \in Resources
  PROVE  Answer(call, r, s, i, d) \in Perms
<1>1. history[r + 1][s][i][d] \in Perms
  BY HistoryIs DEF AStore
<1> QED BY <1>1 DEF Answer, Perms

\* While a call works there is a slot in hand, the first of its queue.
LEMMA QueueIs ==
  ASSUME TypeOK, Working
  PROVE  /\ queue \in Seq(Slots) /\ queue # <<>> /\ Current = queue[1] /\ Current \in Slots
         /\ Len(queue) \in Nat /\ 1 \in 1 .. Len(queue)
         /\ Tail(queue) \in Seq(Slots) /\ Len(Tail(queue)) = Len(queue) - 1
         /\ \A k \in 1 .. Len(queue) - 1 : Tail(queue)[k] = queue[k + 1]
<1>1. queue \in Seq(Slots) /\ queue # <<>>
  BY DEF TypeOK, Working
<1>2. Len(queue) \in Nat /\ 1 \in 1 .. Len(queue)
  BY <1>1, LenProperties, EmptySeq
<1> QED BY <1>1, <1>2, HeadTailProperties DEF Current

\* An engine call evaluates at revisions the caller's override allows.
LEMMA CallsAreFresh ==
  ASSUME TypeOK, Shape, pc \in {"ask", "stream"}
  PROVE  EvalRevs \subseteq Fresh /\ EvalRevs \subseteq 0 .. head /\ Fresh \subseteq 0 .. head
BY HistoryIs DEF Shape, Consistent, EvalRevs, Fresh

-----------------------------------------------------------------------------
(* Types and shape.                                                        *)

\* Accepting a call preserves the types.
LEMMA BeginTypes == ASSUME TypeOK, Shape, NEW c \in Calls, Begin(c) PROVE TypeOK'
<1>1. Plan(c) \in Seq(Slots)
  BY PlanIs
<1>2. c # NoCall
  BY QueriesAssumption, OpsAreApart DEF QueriesAssumption, IsCall
<1>3. NothingGiven(c.op) \in Results \ {"none"}
  BY DEF NothingGiven, Results
<1>4. head' = head /\ head \in 0 .. head
  BY HistoryIs DEF Begin, server, head
<1>5. rows = {} /\ definite = {} /\ conditional = {}
  BY DEF TypeOK, Begin, Shape, NothingCollected
<1> QED BY <1>1, <1>2, <1>3, <1>4, <1>5 DEF TypeOK, Begin, server

\* A step that commits nothing leaves the head alone.
LEMMA StartIs == ASSUME TypeOK, history' = history PROVE head' = head /\ head \in Nat
BY HistoryIs DEF head

\* Asking for one ID, or going to the next slot, preserves the types.
LEMMA AskTypes ==
  ASSUME TypeOK, Shape, Snapshot \/ CheckID \/ NextSlot PROVE TypeOK'
<1>1. head' = head
  BY DEF Snapshot, CheckID, NextSlot, server, head
<1>2. CASE Snapshot
  <2>1. Given(call.input, Head(queue)) \subseteq IDs
    <3>1. IsCall(call)
      BY <1>2, CallIs DEF Snapshot
    <3> QED BY <3>1 DEF IsCall, Given
  <2>2. mode' \in {"full", "exact", "minlat"} /\ pin' \in {-1} \cup Revs
    <3>1. MaxRev \in Nat /\ head \in 0 .. MaxRev /\ token \in {-1} \cup 0 .. head
      BY QueriesAssumption DEF QueriesAssumption, TypeOK, Revs
    <3>2. token \in {-1} \cup Revs
      BY <3>1 DEF Revs
    <3>3. \/ mode' = "full" /\ pin' = -1
          \/ mode' = "minlat" /\ pin' = -1
          \/ mode' = "exact" /\ pin' = token
      BY <1>2 DEF Snapshot
    <3> QED BY <3>2, <3>3
  <2> QED BY <1>1, <1>2, <2>1, <2>2 DEF TypeOK, Snapshot, server
<1>3. CASE CheckID
  <2>1. Verdict(call.op, "cond") \in Results \ {"none"} /\ Verdict(call.op, "no") \in Results \ {"none"}
    BY DEF Verdict, Results
  <2>2. \/ ids' \subseteq ids /\ pc' = pc /\ result' = result
        \/ pc' = "done" /\ result' \in Results \ {"none"} /\ ids' = ids
    BY <1>3, <2>1 DEF CheckID, Finish, Verdict, Results
  <2>3. pc = "ask" /\ UNCHANGED <<server, call, start, queue, mode, pin, rows, definite, conditional>>
    BY <1>3 DEF CheckID
  <2> QED BY <1>1, <2>2, <2>3 DEF TypeOK, server
<1>4. CASE NextSlot
  <2>1. Tail(queue) \in Seq(Slots)
    BY <1>4, QueueIs DEF NextSlot, Working
  <2> QED BY <1>1, <1>4, <2>1 DEF TypeOK, NextSlot, Finish, server, Results
<1> QED BY <1>2, <1>3, <1>4

\* Opening a stream preserves the types.
LEMMA OpenTypes ==
  ASSUME TypeOK, Shape, OpenResources \/ OpenSubjects \/ OpenRows PROVE TypeOK'
<1>1. head' = head /\ pc = "ask"
  BY DEF OpenResources, OpenSubjects, OpenRows, server, head
<1>2. IsCall(call) /\ Current \in Slots
  BY <1>1, CallIs, QueueIs DEF Working
<1>3. call.on \in Resources
  BY <1>2 DEF IsCall
<1>4. \A r \in EvalRevs, i \in IDs, d \in Resources : Answer(call, r, Current, i, d) \in Perms
  BY <1>1, <1>2, CallsAreFresh, AnswersArePerms
<1>5. rows' \subseteq Found(call.op) \X {"has", "cond"}
  <2>1. CASE OpenResources
    <3>1. Found(call.op) = Resources /\ ids \subseteq IDs
      <4>1. Found(call.op) = Resources
        BY <2>1, OpsAreApart DEF OpenResources, Found
      <4>2. ids \subseteq IDs
        BY DEF TypeOK
      <4> QED BY <4>1, <4>2
    <3> QED BY <2>1, <1>4, <3>1 DEF OpenResources, Current, Perms
  <2>2. CASE OpenSubjects
    <3>1. call.op \in Subjects
      BY <2>2 DEF OpenSubjects
    <3>2. Found(call.op) = IDs
      BY <3>1, OpsAreApart DEF Found
    <3> QED BY <2>2, <1>3, <1>4, <3>2 DEF OpenSubjects, Current, Perms
  <2>3. CASE OpenRows
    <3>1. Found(call.op) = Slots \X IDs
      BY <2>3, OpsAreApart DEF OpenRows, Found
    <3>2. \A r \in EvalRevs, t \in Slots, i \in IDs : history[r + 1][t][i][call.on] \in Perms
      BY <1>1, <1>3, CallsAreFresh, HistoryIs DEF AStore
    <3>3. PICK r \in EvalRevs :
            LET Row(x)  == history[r + 1][x[1]][x[2]][call.on]
                OfType  == {t \in Slots : TypeOf[t] = TypeOf[Head(queue)]}
                Matches == {x \in OfType \X IDs : Row(x) # "no"}
            IN  rows' = {<<x, Row(x)>> : x \in Matches}
      BY <2>3 DEF OpenRows
    <3>4. ASSUME NEW y \in rows' PROVE y \in (Slots \X IDs) \X {"has", "cond"}
      <4>1. PICK x \in Slots \X IDs :
              y = <<x, history[r + 1][x[1]][x[2]][call.on]>> /\ y[2] # "no"
        BY <3>3, <3>4
      <4> QED BY <4>1, <3>2 DEF Perms
    <3> QED BY <3>1, <3>4
  <2> QED BY <2>1, <2>2, <2>3
<1>6. ids' \subseteq ids /\ pc' = "stream"
      /\ UNCHANGED <<server, call, start, queue, mode, pin, definite, conditional, result>>
  BY DEF OpenResources, OpenSubjects, OpenRows
<1> QED BY <1>1, <1>5, <1>6 DEF TypeOK, server

\* What a stream delivers is typed.
LEMMA StreamTypes ==
  ASSUME TypeOK, (\E x \in rows : Recv(x) \/ RecvRow(x)) \/ EndOfStream \/ Listed PROVE TypeOK'
<1>1. head' = head
  BY DEF Recv, RecvRow, EndOfStream, Listed, server, head
<1>2. ASSUME NEW x \in rows, Recv(x) \/ RecvRow(x) PROVE TypeOK'
  <2>1. x[1] \in Found(call.op)
    BY <1>2 DEF TypeOK
  <2>2. /\ rows' \subseteq rows /\ definite' \subseteq definite \cup {x[1]}
        /\ conditional' \subseteq conditional \cup {x[1]} /\ pc = "stream"
        /\ UNCHANGED <<server, pc, call, start, queue, mode, pin, ids, result>>
    BY <1>2 DEF Recv, RecvRow
  <2> QED BY <1>1, <2>1, <2>2 DEF TypeOK, server
<1>3. ASSUME NEW op, Project(op)
      PROVE  /\ pc' = "done" /\ result' \in Results \ {"none"}
             /\ definite' \subseteq definite /\ conditional' \subseteq conditional
  BY <1>3 DEF Project, StarFound, Concrete, DefiniteOnly, Finish, Results
<1>4. CASE EndOfStream
  <2>1. pc = "stream" /\ rows = {} /\ UNCHANGED <<server, call, start, queue, mode, pin, ids, rows>>
    BY <1>4 DEF EndOfStream
  <2>2. \/ pc' = "ask" /\ UNCHANGED <<definite, conditional, result>>
        \/ /\ pc' = "done" /\ result' \in Results \ {"none"}
           /\ definite' \subseteq definite /\ conditional' \subseteq conditional
    BY <1>4, <1>3 DEF EndOfStream
  <2> QED BY <1>1, <2>1, <2>2 DEF TypeOK, server
<1>5. CASE Listed
  <2>1. pc = "ask" /\ UNCHANGED <<server, call, start, queue, mode, pin, ids, rows>>
    BY <1>5 DEF Listed
  <2>2. /\ pc' = "done" /\ result' \in Results \ {"none"}
        /\ definite' \subseteq definite /\ conditional' \subseteq conditional
    BY <1>5, <1>3 DEF Listed
  <2> QED BY <1>1, <2>1, <2>2 DEF TypeOK, server
<1> QED BY <1>2, <1>4, <1>5

\* Giving up and returning preserve the types.
LEMMA EndTypes == ASSUME TypeOK, Fails \/ Return PROVE TypeOK'
<1>1. head' = head /\ head \in Nat
  BY HistoryIs DEF Fails, Return, server, head
<1>2. CASE Fails
  BY <1>1, <1>2 DEF TypeOK, Fails, Finish, server, Results
<1>3. CASE Return
  <2>1. rows = {} /\ rows' = rows
    BY <1>3 DEF TypeOK, Return
  <2> QED BY <1>1, <1>3, <2>1, EmptySeq DEF TypeOK, Return, server, Results
<1> QED BY <1>2, <1>3

\* A commit keeps every earlier revision.
LEMMA CommitIs ==
  ASSUME TypeOK, NEW st \in Stores, Commit(st)
  PROVE  /\ head' = head + 1 /\ head' \in Revs /\ history' \in Seq(AStore)
         /\ \A r \in 0 .. head : history'[r + 1] = history[r + 1]
<1>1. st \in AStore /\ MaxRev \in Nat
  BY QueriesAssumption DEF QueriesAssumption, AStore
<1>2. history \in Seq(AStore) /\ Len(history) \in Nat /\ head \in Nat /\ head < MaxRev
  BY HistoryIs, LenProperties DEF Commit
<1>3. history' = Append(history, st)
  BY DEF Commit
<1>4. history' \in Seq(AStore) /\ Len(history') = Len(history) + 1
      /\ \A k \in 1 .. Len(history) : history'[k] = history[k]
  BY <1>1, <1>2, <1>3, AppendProperties
<1> QED BY <1>1, <1>2, <1>4 DEF head, Revs

\* Commits and tokens of others preserve the types.
LEMMA ServerTypes ==
  ASSUME TypeOK, (\E st \in Stores : Commit(st)) \/ (\E r \in 1 .. head : SetToken(r)) PROVE TypeOK'
<1>1. ASSUME NEW st \in Stores, Commit(st) PROVE TypeOK'
  <2>1. head \in Nat
    BY HistoryIs
  <2>2. token' \in {-1} \cup 0 .. head' /\ start' \in 0 .. head'
    BY <1>1, <2>1, CommitIs DEF TypeOK, Commit
  <2> QED BY <1>1, <2>2, CommitIs DEF TypeOK, Commit, AStore
<1>2. ASSUME NEW r \in 1 .. head, SetToken(r) PROVE TypeOK'
  BY <1>2, HistoryIs DEF TypeOK, SetToken, head
<1> QED BY <1>1, <1>2

\* Every step preserves the types of a well-shaped call.
LEMMA TypeStep == ASSUME TypeOK, Shape, [Next]_vars PROVE TypeOK'
<1>1. CASE UNCHANGED vars
  BY <1>1 DEF TypeOK, vars, server, head
<1>2. CASE Next
  BY <1>2, BeginTypes, AskTypes, OpenTypes, StreamTypes, EndTypes, ServerTypes DEF Next
<1> QED BY <1>1, <1>2

\* The first state is typed and shaped.
LEMMA ShapeInit == Init => TypeOK /\ Shape
<1> SUFFICES ASSUME Init PROVE TypeOK /\ Shape
  OBVIOUS
<1>1. PICK st \in Stores : history = <<st>>
  BY DEF Init
<1>2. st \in AStore /\ MaxRev \in Nat
  BY QueriesAssumption DEF QueriesAssumption, AStore
<1>3. history \in Seq(AStore) /\ head = 0
  BY <1>1, <1>2 DEF head
<1>4. TypeOK
  BY <1>2, <1>3, EmptySeq DEF Init, TypeOK, AStore, Revs, Results
<1>5. Shape
  BY OpsAreApart
     DEF Init, Shape, QueueIsGiven, Working, IDsAreGiven, Consistent, NothingCollected
<1> QED BY <1>4, <1>5

\* An accepted call has the shape its method gives it.
LEMMA BeginShape == ASSUME TypeOK, Shape, NEW c \in Calls, Begin(c) PROVE Shape'
<1>1. IsCall(c) /\ c.op \in Ops
  BY QueriesAssumption DEF QueriesAssumption, IsCall
<1>2. /\ pc = "idle" /\ call' = c /\ queue' = Plan(c)
      /\ IF Plan(c) = <<>> THEN pc' = "done" /\ result' = NothingGiven(c.op)
         ELSE pc' = "snapshot" /\ result' = result
      /\ definite' = {} /\ conditional' = {}
  BY DEF Begin, Shape, NothingCollected
<1>3. Plan(c) \in Seq(Slots) /\ \A k \in 1 .. Len(Plan(c)) : Plan(c)[k] \in ToSet(Plan(c))
  BY PlanIs, ElementsOfSeq
<1>4. QueueIsGiven'
  BY <1>2, <1>3, PlanIs DEF QueueIsGiven
<1>5. c.op \in Subjects \cup Reads => Plan(c) # <<>>
  <2>1. c.op \in Subjects \cup Reads => DOMAIN c.input # {} /\ ToSet(Plan(c)) = DOMAIN c.input
    BY <1>1, PlanIs DEF IsCall
  <2> QED BY <2>1, <1>3, ElementsOfSeq
<1>6. pc' = "done" => result' \in ResultsOf(c.op)
  BY <1>2, <1>5 DEF NothingGiven, ResultsOf, Subjects, Reads
<1> QED BY <1>2, <1>4, <1>6 DEF Shape, IDsAreGiven, Consistent, NothingCollected

\* Asking for one ID, or going to the next slot, keeps the shape.
LEMMA AskShape ==
  ASSUME TypeOK, Shape, Snapshot \/ CheckID \/ NextSlot PROVE Shape'
<1>1. head' = head /\ call' = call
  BY DEF Snapshot, CheckID, NextSlot, server, head
<1>2. Working /\ call.op \in Ops
  BY CallIs DEF Snapshot, CheckID, NextSlot, Working
<1>3. CASE Snapshot
  <2>1. ids' = call.input[Current]
    BY <1>2, <1>3, QueueIs DEF Shape, QueueIsGiven, Snapshot, Given, Current
  <2>2. QueueIsGiven' /\ IDsAreGiven'
    BY <1>1, <1>2, <1>3, <2>1 DEF Shape, QueueIsGiven, IDsAreGiven, Snapshot, Current
  <2>3. Consistent'
    <3>1. \/ mode' = "full"
          \/ mode' = "minlat" /\ ~call.full
          \/ mode' = "exact" /\ pin' = token /\ ~call.full /\ token # -1
      BY <1>3 DEF Snapshot
    <3>2. token \in {-1} \cup 0 .. head
      BY DEF TypeOK
    <3> QED BY <1>1, <3>1, <3>2 DEF Consistent
  <2>4. NothingCollected' /\ pc' = "ask"
    BY <1>3 DEF Shape, NothingCollected, Snapshot
  <2> QED BY <2>2, <2>3, <2>4 DEF Shape
<1>4. CASE CheckID
  <2>1. /\ pc = "ask" /\ UNCHANGED <<queue, mode, pin, definite, conditional>>
        /\ ids' \subseteq ids /\ call.op \in Checks
        /\ \/ pc' = "ask"
           \/ pc' = "done" /\ result' \in {Verdict(call.op, "no"), Verdict(call.op, "cond")}
    BY <1>4 DEF CheckID, Finish, Verdict
  <2>2. {Verdict(call.op, "no"), Verdict(call.op, "cond")} \subseteq ResultsOf(call.op)
    BY <2>1 DEF Verdict, ResultsOf, Checks
  <2> QED BY <1>1, <1>2, <2>1, <2>2
        DEF Shape, QueueIsGiven, IDsAreGiven, Consistent, NothingCollected, Working, Current
<1>5. CASE NextSlot
  <2>1. /\ pc = "ask" /\ queue' = Tail(queue) /\ UNCHANGED <<definite, conditional>>
        /\ call.op \in Checks
        /\ pc' = "snapshot" \/ (pc' = "done" /\ result' = "granted")
    BY <1>5 DEF NextSlot, Finish
  <2>2. QueueIsGiven'
    <3>1. \A k \in 1 .. Len(queue') : k + 1 \in 1 .. Len(queue) /\ queue'[k] = queue[k + 1]
      BY <1>2, <2>1, QueueIs
    <3> QED BY <1>1, <1>2, <3>1 DEF Shape, QueueIsGiven
  <2>3. "granted" \in ResultsOf(call.op)
    BY <2>1 DEF ResultsOf, Checks
  <2>4. definite = {} /\ conditional = {}
    BY <2>1, OpsAreApart DEF Shape, NothingCollected
  <2> QED BY <1>1, <2>1, <2>2, <2>3, <2>4 DEF Shape, IDsAreGiven, Consistent, NothingCollected
<1> QED BY <1>3, <1>4, <1>5

\* Opening a stream keeps the shape.
LEMMA OpenShape ==
  ASSUME TypeOK, Shape, OpenResources \/ OpenSubjects \/ OpenRows PROVE Shape'
<1>1. /\ pc = "ask" /\ pc' = "stream" /\ ids' \subseteq ids /\ history' = history
      /\ UNCHANGED <<call, queue, mode, pin, definite, conditional>>
      /\ call.op \notin Checks
  BY OpsAreApart DEF OpenResources, OpenSubjects, OpenRows, server
<1> QED BY <1>1, CallIs, OpsAreApart
      DEF Shape, QueueIsGiven, Working, IDsAreGiven, Current, Consistent, NothingCollected, head

\* How a stream turns into a result of its method.
LEMMA ProjectIs ==
  ASSUME call.op \in Ops \ Checks, Project(call.op)
  PROVE  pc' = "done" /\ result' \in ResultsOf(call.op) \ {"failed"}
BY DEF Project, StarFound, Concrete, DefiniteOnly, Finish, ResultsOf, Ops, Checks, Lookups, Subjects, Reads

\* Receiving keeps the shape.
LEMMA StreamShape ==
  ASSUME TypeOK, Shape, (\E x \in rows : Recv(x) \/ RecvRow(x)) \/ EndOfStream \/ Listed PROVE Shape'
<1>1. /\ history' = history /\ UNCHANGED <<call, queue, mode, pin, ids>> /\ call.op \in Ops \ Checks
      /\ pc \in {"ask", "stream"}
  BY CallIs, OpsAreApart DEF Recv, RecvRow, EndOfStream, Listed, server, Shape
<1>2. \/ pc' = pc /\ pc = "stream"
      \/ pc' = "ask" /\ call.op \in Lookups
      \/ pc' = "done" /\ result' \in ResultsOf(call.op)
  BY <1>1, ProjectIs DEF Recv, RecvRow, EndOfStream, Listed
<1> QED BY <1>1, <1>2
      DEF Shape, QueueIsGiven, Working, IDsAreGiven, Current, Consistent, NothingCollected, head

\* Giving up and returning keep the shape.
LEMMA EndShape == ASSUME TypeOK, Shape, Fails \/ Return PROVE Shape'
<1>1. CASE Fails
  <2>1. pc' = "done" /\ result' = "failed" /\ call' = call /\ call.op \in Ops
        /\ definite' = {} /\ conditional' = {}
    BY <1>1, CallIs DEF Fails, Finish
  <2>2. "failed" \in ResultsOf(call.op)
    BY DEF ResultsOf
  <2> QED BY <2>1, <2>2
        DEF Shape, QueueIsGiven, Working, IDsAreGiven, Consistent, NothingCollected
<1>2. CASE Return
  <2>1. pc' = "idle" /\ call' = NoCall /\ definite' = {} /\ conditional' = {}
    BY <1>2 DEF Return
  <2> QED BY <2>1, OpsAreApart
        DEF Shape, QueueIsGiven, Working, IDsAreGiven, Consistent, NothingCollected
<1> QED BY <1>1, <1>2

\* Commits and tokens of others keep the shape.
LEMMA ServerShape ==
  ASSUME TypeOK, Shape, (\E st \in Stores : Commit(st)) \/ (\E r \in 1 .. head : SetToken(r)) PROVE Shape'
<1>1. head \in Nat /\ head' \in Nat /\ head <= head'
  <2>1. \A st \in Stores : Commit(st) => head' = head + 1
    BY CommitIs
  <2>2. \A r \in 1 .. head : SetToken(r) => head' = head
    BY DEF SetToken, head
  <2> QED BY <2>1, <2>2, HistoryIs
<1>2. UNCHANGED <<pc, call, start, queue, mode, pin, ids, rows, definite, conditional, result>>
  BY DEF Commit, SetToken
<1> QED BY <1>1, <1>2
      DEF Shape, QueueIsGiven, Working, IDsAreGiven, Current, Consistent, NothingCollected

\* Every step keeps the shape.
LEMMA ShapeStep == ASSUME TypeOK, Shape, [Next]_vars PROVE Shape'
<1>1. CASE UNCHANGED vars
  BY <1>1 DEF vars, server, head, Shape, QueueIsGiven, Working, IDsAreGiven, Current, Consistent,
              NothingCollected
<1>2. CASE Next
  BY <1>2, BeginShape, AskShape, OpenShape, StreamShape, EndShape, ServerShape DEF Next
<1> QED BY <1>1, <1>2

\* The variables keep their types: a call is at work only while it has a slot
\* to ask for, its rows come from one open stream, and its result from its end.
THEOREM QueriesTypeCorrect == Spec => []TypeOK
<1>1. TypeOK /\ Shape /\ [Next]_vars => TypeOK' /\ Shape'
  BY TypeStep, ShapeStep
<1> QED BY <1>1, ShapeInit, PTL DEF Spec

\* Every engine call of a method asks for a slot and for IDs the caller gave,
\* and honours the consistency override.
THEOREM CallsKeepTheirShape == Spec => []Shape
<1>1. TypeOK /\ Shape /\ [Next]_vars => TypeOK' /\ Shape'
  BY TypeStep, ShapeStep
<1> QED BY <1>1, ShapeInit, PTL DEF Spec

-----------------------------------------------------------------------------
(* A call at work keeps what it knows while others write.                  *)

Waits ==
  /\ UNCHANGED <<pc, call, start, queue, mode, pin, ids, rows, definite, conditional, result>>
  /\ history' = history \/ \E st \in Stores : Commit(st)

\* A commit adds a revision answers may be from, and takes none away.
LEMMA Grows ==
  ASSUME TypeOK, call' = call, start' = start,
         history' = history \/ \E st \in Stores : Commit(st)
  PROVE  /\ \A p, s, i, d : Gives(p, s, i, d) => Gives(p, s, i, d)'
         /\ \A p, s, i, d : Keeps(p, s, i, d)' => Keeps(p, s, i, d)
         /\ Fresh \subseteq Fresh' /\ Fresh \subseteq 0 .. head
         /\ \A r \in Fresh : history'[r + 1] = history[r + 1]
         /\ \A r \in Fresh : \A s, i, d : Answer(call, r, s, i, d)' = Answer(call, r, s, i, d)
<1>1. /\ head \in Nat /\ head' \in Nat /\ head <= head' /\ start \in Nat
      /\ \A r \in 0 .. head : history'[r + 1] = history[r + 1]
  <2>1. history' = history => head' = head
    BY DEF head
  <2> QED BY <2>1, HistoryIs, CommitIs
<1>2. Fresh \subseteq Fresh' /\ Fresh \subseteq 0 .. head
  BY <1>1 DEF Fresh
<1>3. ASSUME NEW r \in Fresh, NEW s, NEW i, NEW d
      PROVE  Answer(call, r, s, i, d)' = Answer(call, r, s, i, d)
  BY <1>1, <1>2 DEF Answer
<1>4. ASSUME NEW p, NEW s, NEW i, NEW d, Gives(p, s, i, d) PROVE Gives(p, s, i, d)'
  BY <1>2, <1>3, <1>4 DEF Gives
<1>5. ASSUME NEW p, NEW s, NEW i, NEW d, Keeps(p, s, i, d)' PROVE Keeps(p, s, i, d)
  BY <1>2, <1>3, <1>5 DEF Keeps
<1> QED BY <1>1, <1>2, <1>3, <1>4, <1>5

\* The steps of a call, by what it asks for.
LEMMA Steps ==
  ASSUME TypeOK, Shape, [Next]_vars
  PROVE  \/ Waits
         \/ \E c \in Calls : Begin(c)
         \/ Return
         \/ /\ UNCHANGED <<history, call, start>>
            /\ \/ Fails
               \/ call.op \in Checks /\ (Snapshot \/ CheckID \/ NextSlot)
               \/ call.op \in Lookups /\ (\/ Snapshot \/ OpenResources \/ EndOfStream \/ Listed
                                          \/ \E x \in rows : Recv(x))
               \/ call.op \in Subjects /\ (\/ Snapshot \/ OpenSubjects \/ EndOfStream
                                           \/ \E x \in rows : Recv(x))
               \/ call.op \in Reads /\ (\/ Snapshot \/ OpenRows \/ EndOfStream
                                        \/ \E x \in rows : RecvRow(x))
<1>1. UNCHANGED vars \/ (\E st \in Stores : Commit(st)) \/ (\E r \in 1 .. head : SetToken(r)) => Waits
  BY DEF Waits, vars, server, Commit, SetToken
<1>2. CASE Snapshot
  BY <1>2, CallIs DEF Snapshot, server, Ops
<1>3. CASE CheckID \/ NextSlot
  BY <1>3 DEF CheckID, NextSlot, server
<1>4. CASE OpenResources \/ OpenSubjects \/ OpenRows
  BY <1>4 DEF OpenResources, OpenSubjects, OpenRows, server
<1>5. CASE \E x \in rows : Recv(x) \/ RecvRow(x)
  <2>1. pc = "stream" /\ call.op \in Ops \ Checks
    BY <1>5, CallIs DEF Recv, RecvRow, Shape
  <2> QED BY <1>5, <2>1 DEF Recv, RecvRow, server, Ops
<1>6. CASE EndOfStream \/ Listed
  <2>1. call.op \in Ops \ Checks /\ UNCHANGED <<history, call, start>>
    BY <1>6, CallIs, OpsAreApart DEF EndOfStream, Listed, Shape, server
  <2> QED BY <1>6, <2>1 DEF Listed, Ops
<1>7. CASE Fails
  BY <1>7 DEF Fails, server
<1> QED BY <1>1, <1>2, <1>3, <1>4, <1>5, <1>6, <1>7 DEF Next

-----------------------------------------------------------------------------
(* Checks.                                                                 *)

\* A check that was just accepted has all its IDs still to ask for.
LEMMA CheckBegins == ASSUME TypeOK, Shape, NEW c \in Calls, Begin(c) PROVE CheckInv'
<1> SUFFICES ASSUME c.op \in Checks PROVE CheckInv'
  BY DEF Begin, CheckInv
<1>1. /\ call' = c /\ queue' = Plan(c)
      /\ IF Plan(c) = <<>> THEN pc' = "done" /\ result' = NothingGiven(c.op)
         ELSE pc' = "snapshot" /\ result' = result
  BY DEF Begin
<1>2. /\ Plan(c) \in Seq(Slots) /\ ToSet(Plan(c)) = {Plan(c)[k] : k \in 1 .. Len(Plan(c))}
      /\ ToSet(Plan(c)) \subseteq DOMAIN c.input /\ (Plan(c) = <<>> <=> ToSet(Plan(c)) = {})
  BY PlanIs, ElementsOfSeq
<1>3. \A s \in DOMAIN c.input : c.input[s] # {} => s \in ToSet(Plan(c))
  BY PlanIs DEF Checks
<1>4. CASE Plan(c) # <<>>
  <2>1. DOMAIN c.input # {}
    BY <1>2, <1>4
  <2>2. ASSUME NEW s \in DOMAIN c.input, NEW i \in c.input[s] PROVE Pending(s, i)'
    BY <1>1, <1>2, <1>3, <1>4 DEF Pending
  <2> QED BY <1>1, <1>4, <2>1, <2>2 DEF CheckInv, DeniedIsTrue, Done
<1>5. CASE Plan(c) = <<>>
  <2>1. result' = "noinput" \/ (result' = "denied" /\ c.op = "OPACheck")
    BY <1>1, <1>5 DEF NothingGiven, Checks
  <2>2. c.op = "OPACheck" => DOMAIN c.input = {}
    BY <1>2, <1>5, PlanIs
  <2> QED BY <1>1, <1>5, <2>1, <2>2 DEF CheckInv, DeniedIsTrue, Done, Working
<1> QED BY <1>4, <1>5

\* What is known of a check's IDs, granted so far or still to be asked for.
LEMMA CheckAsks ==
  ASSUME TypeOK, Shape, CheckInv, call.op \in Checks, UNCHANGED <<history, call, start>>,
         Snapshot \/ CheckID \/ NextSlot
  PROVE  CheckInv'
<1>1. /\ Working /\ DOMAIN call.input # {}
      /\ \A s \in DOMAIN call.input : \A i \in call.input[s] :
           Pending(s, i) \/ Gives("has", s, i, call.on)
  BY DEF CheckInv, Working, Snapshot, CheckID, NextSlot
<1>2. \A s, i : Gives("has", s, i, call.on) => Gives("has", s, i, call.on)'
  BY Grows
<1>3. /\ Current = queue[1] /\ Len(queue) \in Nat /\ 1 \in 1 .. Len(queue)
      /\ Current \in DOMAIN call.input
  BY <1>1, QueueIs DEF Shape, QueueIsGiven
<1>4. CASE Snapshot
  <2>1. pc' = "ask" /\ ids' = call.input[Current] /\ queue' = queue
    BY <1>3, <1>4 DEF Snapshot, Given, Current
  <2>2. ASSUME NEW s, NEW i \in call.input[s], Pending(s, i) PROVE Pending(s, i)'
    BY <1>3, <2>1, <2>2 DEF Pending
  <2> QED BY <1>1, <1>2, <2>1, <2>2 DEF CheckInv, DeniedIsTrue, Done
<1>5. CASE CheckID
  <2>1. PICK i \in ids, r \in EvalRevs :
          LET p == Answer(call, r, Head(queue), i, call.on) IN
          IF p = "has" THEN ids' = ids \ {i} /\ UNCHANGED <<pc, result>>
          ELSE Finish(Verdict(call.op, p)) /\ UNCHANGED ids
    BY <1>5 DEF CheckID
  <2>2. PICK p : p = Answer(call, r, Current, i, call.on)
    OBVIOUS
  <2>3. pc = "ask" /\ queue' = queue
    BY <1>5 DEF CheckID
  <2>4. r \in Fresh /\ i \in call.input[Current] /\ p \in Perms
    <3>1. IsCall(call) /\ r \in Fresh /\ r \in 0 .. head
      BY <2>3, CallIs, CallsAreFresh
    <3>2. i \in IDs /\ Current \in Slots /\ call.on \in Resources
      BY <1>1, <3>1, QueueIs DEF TypeOK, IsCall
    <3> QED BY <2>2, <2>3, <3>1, <3>2, AnswersArePerms DEF Shape, IDsAreGiven
  <2>5. Gives(p, Current, i, call.on)
    BY <2>2, <2>4 DEF Gives
  <2>6. CASE p = "has"
    <3>1. ids' = ids \ {i} /\ pc' = pc /\ result' = result
      BY <2>1, <2>2, <2>6 DEF Current
    <3>2. ASSUME NEW s, NEW j, Pending(s, j) PROVE Pending(s, j)' \/ Gives("has", s, j, call.on)
      BY <1>3, <2>3, <2>5, <2>6, <3>1, <3>2 DEF Pending
    <3> QED BY <1>1, <1>2, <2>3, <3>1, <3>2 DEF CheckInv, DeniedIsTrue, Done
  <2>7. CASE p # "has"
    <3>1. pc' = "done" /\ result' = Verdict(call.op, p)
      BY <2>1, <2>2, <2>7 DEF Finish, Current
    <3>2. PICK s : s = Current
      OBVIOUS
    <3>a. Gives(p, s, i, call.on)' /\ s \in DOMAIN call.input /\ i \in call.input[s]
      <4>1. \A q, t, j : Gives(q, t, j, call.on) => Gives(q, t, j, call.on)'
        BY Grows
      <4>2. Gives(p, s, i, call.on)
        BY <2>5, <3>2
      <4> QED BY <1>3, <2>4, <3>2, <4>1, <4>2
    <3>3. p \in {"no", "cond"}
      BY <2>4, <2>7 DEF Perms
    <3>4. DeniedIsTrue'
      <4>1. \/ result' = "conditional" /\ p = "cond"
            \/ result' = "denied" /\ (p = "no" \/ (p = "cond" /\ call.op = "OPACheck"))
        BY <3>1, <3>3 DEF Verdict, Checks
      <4>2. call' = call
        OBVIOUS
      <4> QED BY <3>a, <4>1, <4>2 DEF DeniedIsTrue
    <3>5. result' # "granted"
      BY <3>1 DEF Verdict
    <3> QED BY <3>1, <3>4, <3>5 DEF CheckInv, Working
  <2> QED BY <2>6, <2>7
<1>6. CASE NextSlot
  <2>1. /\ pc = "ask" /\ ids = {} /\ queue' = Tail(queue)
        /\ \/ queue' = <<>> /\ pc' = "done" /\ result' = "granted"
           \/ queue' # <<>> /\ pc' = "snapshot" /\ result' = result
    BY <1>6 DEF NextSlot, Finish
  <2>2. ASSUME NEW s, NEW i, Pending(s, i) PROVE Pending(s, i)'
    <3>1. PICK k \in 1 .. Len(queue) : queue[k] = s /\ k > 1
      BY <2>1, <2>2 DEF Pending
    <3>2. k - 1 \in 1 .. Len(queue) - 1 /\ (k - 1) + 1 = k
      BY <1>3, <3>1
    <3>3. Len(queue') = Len(queue) - 1 /\ queue'[k - 1] = s
      BY <1>1, <2>1, <3>1, <3>2, QueueIs
    <3>4. pc' = "snapshot"
      <4>1. queue' # <<>>
        BY <3>2, <3>3, <1>3
      <4> QED BY <2>1, <4>1
    <3> QED BY <3>2, <3>3, <3>4 DEF Pending
  <2> QED BY <1>1, <1>2, <2>1, <2>2 DEF CheckInv, DeniedIsTrue, Done, Working
<1> QED BY <1>4, <1>5, <1>6

\* A commit takes nothing back of what a check has learned.
LEMMA CheckWaits == ASSUME TypeOK, CheckInv, Waits PROVE CheckInv'
<1>1. \A p, s, i, d : Gives(p, s, i, d) => Gives(p, s, i, d)'
  BY Grows DEF Waits
<1>2. UNCHANGED <<pc, call, queue, ids, result>>
  BY DEF Waits
<1>3. \A s, i : Pending(s, i)' <=> Pending(s, i)
  BY <1>2 DEF Pending
<1> QED BY <1>1, <1>2, <1>3 DEF CheckInv, DeniedIsTrue, Done, Working

\* Every step preserves what a check knows.
LEMMA CheckStep == ASSUME TypeOK, Shape, CheckInv, [Next]_vars PROVE CheckInv'
<1>1. CASE Waits
  BY <1>1, CheckWaits
<1>2. CASE \E c \in Calls : Begin(c)
  BY <1>2, CheckBegins
<1>3. CASE Return
  BY <1>3, OpsAreApart DEF Return, CheckInv, Ops
<1>4. CASE Fails
  BY <1>4 DEF Fails, Finish, CheckInv, DeniedIsTrue, Working
<1>5. CASE UNCHANGED <<history, call, start>> /\ call.op \in Checks /\ (Snapshot \/ CheckID \/ NextSlot)
  BY <1>5, CheckAsks
<1>6. CASE call' = call /\ call.op \notin Checks
  BY <1>6 DEF CheckInv
<1> QED BY <1>1, <1>2, <1>3, <1>4, <1>5, <1>6, Steps, OpsAreApart

CheckKnown == Spec => [](TypeOK /\ Shape /\ CheckInv)

\* CheckInv holds in every reachable state.
LEMMA CheckInvariant == CheckKnown
<1>1. Init => TypeOK /\ Shape /\ CheckInv
  BY ShapeInit, OpsAreApart DEF Init, CheckInv, Ops
<1>2. TypeOK /\ Shape /\ CheckInv /\ [Next]_vars => TypeOK' /\ Shape' /\ CheckInv'
  BY TypeStep, ShapeStep, CheckStep
<1> QED BY <1>1, <1>2, PTL DEF Spec, CheckKnown

\* A check that says yes has really been granted every ID of every slot.
THEOREM GrantsAreTrue == Spec => []GrantedIsTrue
<1>1. CheckInv => GrantedIsTrue
  <2> SUFFICES ASSUME CheckInv, Done(Checks), result = "granted",
                      NEW s \in DOMAIN call.input, NEW i \in call.input[s]
               PROVE  Gives("has", s, i, call.on)
    BY DEF GrantedIsTrue
  <2>1. queue = <<>> /\ (Pending(s, i) \/ Gives("has", s, i, call.on))
    BY DEF CheckInv, Done
  <2> QED BY <2>1 DEF Pending
<1> QED BY <1>1, CheckInvariant, PTL DEF CheckKnown

\* A check says no, or "conditional", only of an ID it was given.
THEOREM DenialsAreTrue == Spec => []DeniedIsTrue
<1>1. CheckInv => DeniedIsTrue
  BY DEF CheckInv, DeniedIsTrue, Done
<1> QED BY <1>1, CheckInvariant, PTL DEF CheckKnown

-----------------------------------------------------------------------------
(* Lookups of resources.                                                   *)

\* A lookup that was just accepted has collected nothing.
LEMMA LookupBegins == ASSUME TypeOK, Shape, NEW c \in Calls, Begin(c) PROVE LookupInv'
<1> SUFFICES ASSUME c.op \in Lookups PROVE LookupInv'
  BY DEF Begin, LookupInv
<1>1. /\ call' = c /\ definite' = {}
      /\ IF Plan(c) = <<>> THEN pc' = "done" ELSE pc' = "snapshot"
  BY DEF Begin, Shape, NothingCollected
<1>2. Plan(c) = <<>> => \A s \in DOMAIN c.input \cap TypeSlots : c.input[s] = {}
  BY PlanIs
<1> QED BY <1>1, <1>2 DEF LookupInv, LookupIsExact, Done, NoEmptyList, Working

\* Each resource a stream is going to list was held at a fresh revision.
LEMMA LookupOpens ==
  ASSUME TypeOK, Shape, LookupInv, call.op \in Lookups, UNCHANGED <<history, call, start>>,
         OpenResources
  PROVE  LookupInv'
<1>1. PICK i \in ids, r \in EvalRevs :
        /\ ids' = ids \ {i}
        /\ rows' = {<<d, Answer(call, r, Current, i, d)>> :
                      d \in {e \in Resources : Answer(call, r, Current, i, e) # "no"}}
  BY DEF OpenResources, Current
<1>2. PICK s : s = Current
  OBVIOUS
<1>3. /\ pc = "ask" /\ pc' = "stream" /\ UNCHANGED <<queue, definite>>
  BY DEF OpenResources
<1>4. r \in Fresh /\ i \in call.input[s] /\ s \in DOMAIN call.input
  BY <1>2, <1>3, CallsAreFresh, QueueIs DEF Shape, IDsAreGiven, QueueIsGiven, Working
<1>5. rows = {} /\ Current' = s /\ Working /\ Working'
  BY <1>2, <1>3 DEF TypeOK, Current, Working
<1>6. ASSUME NEW x \in rows' PROVE x[1] \in Resources /\ Gives(x[2], s, i, x[1])
  <2>1. PICK d \in Resources : x = <<d, Answer(call, r, s, i, d)>>
    BY <1>1, <1>2, <1>6
  <2> QED BY <2>1, <1>4 DEF Gives
<1>7. ASSUME NEW d \in Resources, Keeps("has", s, i, d) PROVE <<d, "has">> \in rows'
  <2>1. Answer(call, r, s, i, d) = "has"
    BY <1>4, <1>7 DEF Keeps
  <2> QED BY <1>1, <1>2, <2>1
<1>8. /\ \A p, t, j, d : Gives(p, t, j, d) => Gives(p, t, j, d)'
      /\ \A p, t, j, d : Keeps(p, t, j, d)' => Keeps(p, t, j, d)
  BY Grows
<1>9. /\ definite \subseteq Resources
      /\ \A d \in definite : \E t \in DOMAIN call.input :
           \E j \in call.input[t] : Gives("has", t, j, d)
      /\ \A j \in call.input[s] \ ids : \A d \in Resources :
           Keeps("has", s, j, d) => d \in definite
  BY <1>2, <1>3, <1>5 DEF LookupInv
<1>10. ASSUME NEW x \in rows' PROVE Gives(x[2], s, i, x[1])'
  <2>1. PICK p, d : p = x[2] /\ d = x[1]
    OBVIOUS
  <2> QED BY <2>1, <1>6, <1>8
<1> HIDE DEF Current
<1>11. LookupIsExact'
  BY <1>3 DEF LookupIsExact, Done
<1>a. call' = call
  OBVIOUS
<1> QED BY <1>1, <1>3, <1>4, <1>5, <1>6, <1>7, <1>8, <1>9, <1>10, <1>11, <1>a DEF LookupInv

\* A resource that is received moves from the stream to the list.
LEMMA LookupReceives ==
  ASSUME TypeOK, Shape, LookupInv, call.op \in Lookups, UNCHANGED <<history, call, start>>,
         NEW x \in rows, Recv(x)
  PROVE  LookupInv'
<1>1. /\ pc = "stream" /\ pc' = pc /\ UNCHANGED <<queue, ids>> /\ rows' = rows \ {x}
      /\ IF x[2] = "has" THEN definite' = definite \cup {x[1]} ELSE definite' = definite
  BY DEF Recv
<1>2. PICK s : s = Current
  OBVIOUS
<1>3. Current' = s /\ s \in DOMAIN call.input /\ Working
  BY <1>1, <1>2, QueueIs DEF Current, Shape, QueueIsGiven, Working
<1>4. /\ \A p, t, j, d : Gives(p, t, j, d) => Gives(p, t, j, d)'
      /\ \A p, t, j, d : Keeps(p, t, j, d)' => Keeps(p, t, j, d)
  BY Grows
<1>5. /\ definite \subseteq Resources
      /\ \A d \in definite : \E t \in DOMAIN call.input :
           \E j \in call.input[t] : Gives("has", t, j, d)
      /\ \A y \in rows : y[1] \in Resources /\ \E j \in call.input[s] : Gives(y[2], s, j, y[1])
      /\ \A j \in call.input[s] \ ids : \A d \in Resources :
           Keeps("has", s, j, d) => d \in definite \/ <<d, "has">> \in rows
  BY <1>1, <1>2, <1>3 DEF LookupInv
<1>6. \A d \in definite' : d \in Resources /\ \E t \in DOMAIN call.input :
           \E j \in call.input[t] : Gives("has", t, j, d)
  BY <1>1, <1>3, <1>5
<1>7. ASSUME NEW y \in rows PROVE \E j \in call.input[s] : Gives(y[2], s, j, y[1])'
  <2>1. PICK p, d : p = y[2] /\ d = y[1]
    OBVIOUS
  <2> QED BY <2>1, <1>4, <1>5
<1>8. \A j \in call.input[s] \ ids : \A d \in Resources :
        Keeps("has", s, j, d) => d \in definite' \/ <<d, "has">> \in rows'
  BY <1>1, <1>5
<1>9. LookupIsExact'
  BY <1>1 DEF LookupIsExact, Done
<1>a. call' = call
  OBVIOUS
<1> QED BY <1>1, <1>3, <1>4, <1>5, <1>6, <1>7, <1>8, <1>9, <1>a DEF LookupInv, Working

\* Nothing is left of a stream that has ended but what the list has.
LEMMA LookupEnds ==
  ASSUME TypeOK, Shape, LookupInv, call.op \in Lookups, UNCHANGED <<history, call, start>>,
         Snapshot \/ EndOfStream \/ Listed
  PROVE  LookupInv'
<1>1. /\ \A p, t, j, d : Gives(p, t, j, d) => Gives(p, t, j, d)'
      /\ \A p, t, j, d : Keeps(p, t, j, d)' => Keeps(p, t, j, d)
  BY Grows
<1>2. Working /\ queue' = queue /\ definite' = definite
  BY OpsAreApart
     DEF Snapshot, EndOfStream, Listed, Working, Project, StarFound, Concrete, DefiniteOnly, Finish,
         Lookups
<1>3. PICK s : s = Current
  OBVIOUS
<1>4. Current' = s /\ s \in DOMAIN call.input /\ s \in TypeSlots
  BY <1>2, <1>3, QueueIs DEF Current, Shape, QueueIsGiven
<1>5. /\ definite \subseteq Resources
      /\ \A d \in definite : \E t \in DOMAIN call.input :
           \E j \in call.input[t] : Gives("has", t, j, d)
      /\ pc \in {"ask", "stream"} =>
           \A j \in call.input[s] \ ids : \A d \in Resources :
              Keeps("has", s, j, d) => d \in definite \/ <<d, "has">> \in rows
  BY <1>2, <1>3 DEF LookupInv
<1>6. call' = call
  OBVIOUS
<1>7. CASE Snapshot
  <2>1. pc' = "ask" /\ ids' = call.input[s]
    BY <1>3, <1>4, <1>7 DEF Snapshot, Given, Current
  <2> QED BY <1>1, <1>2, <1>4, <1>5, <1>6, <2>1 DEF LookupInv, LookupIsExact, Done
<1>8. CASE EndOfStream
  <2>1. pc = "stream" /\ pc' = "ask" /\ ids' = ids /\ rows = {}
    BY <1>8 DEF EndOfStream
  <2> QED BY <1>1, <1>2, <1>4, <1>5, <1>6, <2>1 DEF LookupInv, LookupIsExact, Done
<1>9. CASE Listed
  <2>1. pc = "ask" /\ pc' = "done" /\ ids = {} /\ rows = {}
    BY <1>9, ProjectIs, OpsAreApart DEF Listed, TypeOK, Ops
  <2>2. \A i \in call.input[s], d \in Resources : Keeps("has", s, i, d) => d \in definite
    BY <1>5, <2>1
  <2>3. LookupIsExact'
    BY <1>1, <1>2, <1>4, <1>5, <1>6, <2>2 DEF LookupIsExact
  <2> QED BY <1>2, <1>5, <2>1, <2>3 DEF LookupInv, Working
<1> QED BY <1>7, <1>8, <1>9

\* A commit takes nothing back of what a lookup has listed.
LEMMA LookupWaits == ASSUME TypeOK, LookupInv, Waits PROVE LookupInv'
<1>1. /\ \A p, t, j, d : Gives(p, t, j, d) => Gives(p, t, j, d)'
      /\ \A p, t, j, d : Keeps(p, t, j, d)' => Keeps(p, t, j, d)
  BY Grows DEF Waits
<1>2. UNCHANGED <<pc, call, queue, ids, rows, definite, result>>
  BY DEF Waits
<1> SUFFICES ASSUME call.op \in Lookups PROVE LookupInv'
  BY <1>2 DEF LookupInv
<1>3. PICK s : s = Current
  OBVIOUS
<1>4. Current' = s
  BY <1>2, <1>3 DEF Current
<1>5. pc = "stream" => \A x \in rows : x[1] \in Resources /\ \E j \in call.input[s] : Gives(x[2], s, j, x[1])'
  <2>1. ASSUME pc = "stream", NEW x \in rows
        PROVE  x[1] \in Resources /\ \E j \in call.input[s] : Gives(x[2], s, j, x[1])'
    <3>1. PICK p, d : p = x[2] /\ d = x[1]
      OBVIOUS
    <3> QED BY <1>1, <1>3, <2>1, <3>1 DEF LookupInv
  <2> QED BY <2>1
<1>6. LookupIsExact'
  <2>1. LookupIsExact
    BY DEF LookupInv
  <2> QED BY <1>1, <1>2, <2>1 DEF LookupIsExact, Done, NoEmptyList
<1>7. pc \in {"ask", "stream"} =>
        \A i \in call.input[s] \ ids : \A d \in Resources :
           Keeps("has", s, i, d)' => d \in definite \/ <<d, "has">> \in rows
  BY <1>1, <1>3 DEF LookupInv
<1>8. /\ definite \subseteq Resources
      /\ Working => \A d \in definite : \E t \in DOMAIN call.input :
                      \E i \in call.input[t] : Gives("has", t, i, d)'
  BY <1>1 DEF LookupInv
<1> QED BY <1>2, <1>4, <1>5, <1>6, <1>7, <1>8 DEF LookupInv, Working

\* Every step preserves what a lookup knows.
LEMMA LookupStep == ASSUME TypeOK, Shape, LookupInv, [Next]_vars PROVE LookupInv'
<1>1. CASE Waits
  BY <1>1, LookupWaits
<1>2. CASE \E c \in Calls : Begin(c)
  BY <1>2, LookupBegins
<1>3. CASE Return
  BY <1>3, OpsAreApart DEF Return, LookupInv, Ops
<1>4. CASE Fails
  BY <1>4 DEF Fails, Finish, LookupInv, LookupIsExact, Done, Working
<1>5. CASE UNCHANGED <<history, call, start>> /\ call.op \in Lookups
           /\ (\/ Snapshot \/ OpenResources \/ EndOfStream \/ Listed \/ \E x \in rows : Recv(x))
  BY <1>5, LookupOpens, LookupReceives, LookupEnds
<1>6. CASE call' = call /\ call.op \notin Lookups
  BY <1>6 DEF LookupInv
<1> QED BY <1>1, <1>2, <1>3, <1>4, <1>5, <1>6, Steps, OpsAreApart

LookupKnown == Spec => [](TypeOK /\ Shape /\ LookupInv)

\* LookupInv holds in every reachable state.
LEMMA LookupInvariant == LookupKnown
<1>1. Init => TypeOK /\ Shape /\ LookupInv
  BY ShapeInit, OpsAreApart DEF Init, LookupInv, Ops
<1>2. TypeOK /\ Shape /\ LookupInv /\ [Next]_vars => TypeOK' /\ Shape' /\ LookupInv'
  BY TypeStep, ShapeStep, LookupStep
<1> QED BY <1>1, <1>2, PTL DEF Spec, LookupKnown

\* A lookup lists only resources a given ID has, and for one given type all
\* that its IDs have throughout.
THEOREM LookupsAreExact == Spec => []LookupIsExact
<1>1. LookupInv => LookupIsExact
  BY DEF LookupInv, LookupIsExact, Done
<1> QED BY <1>1, LookupInvariant, PTL DEF LookupKnown

-----------------------------------------------------------------------------
(* Lookups of subjects.                                                    *)

\* The methods for one type are given one slot, and have something to ask for.
LEMMA OneSlot ==
  ASSUME NEW c \in Calls, c.op \in Subjects \cup Reads
  PROVE  Plan(c) # <<>> /\ \E s \in Slots : DOMAIN c.input = {s}
<1>1. \E s \in Slots : DOMAIN c.input = {s}
  BY QueriesAssumption DEF QueriesAssumption, IsCall, Slots
<1>2. Plan(c) \in Seq(Slots) /\ ToSet(Plan(c)) = DOMAIN c.input
  BY PlanIs
<1> QED BY <1>1, <1>2, ElementsOfSeq

\* The slot in hand is the one that was given.
LEMMA CurrentIsIt ==
  ASSUME TypeOK, Shape, Working, call.op \in Subjects \cup Reads
  PROVE  DOMAIN call.input = {Current}
<1>1. Current \in DOMAIN call.input
  BY QueueIs DEF Shape, QueueIsGiven
<1>2. call \in Calls
  BY CallIs DEF Working
<1> QED BY <1>1, <1>2, OneSlot

\* Answers about the slot in hand are permissions.
LEMMA AnswersAt ==
  ASSUME TypeOK, Shape, Working, NEW r \in Fresh
  PROVE  Star \in IDs /\ \A i \in IDs : AnswerAt(r, Current, i) \in Perms
<1>1. call.on \in Resources /\ Current \in Slots /\ r \in 0 .. head
  BY CallIs, QueueIs, HistoryIs DEF Working, IsCall, Fresh
<1> QED BY <1>1, AnswersArePerms, QueriesAssumption DEF QueriesAssumption, AnswerAt

\* What a stream of subjects is going to list covers those that have the permission.
LEMMA SubjectsOpen ==
  ASSUME TypeOK, Shape, call.op \in Subjects, UNCHANGED <<history, call, start>>,
         OpenSubjects, NEW s, s = Current
  PROVE  \E r \in Fresh : SubjectsOf(r, s)'
<1>1. PICK r \in EvalRevs :
        LET Has(i) == Answer(call, r, Current, i, call.on)
            Some   == {i \in IDs : Has(i) # "no"}
            Needed == {i \in Some : i = Star \/ Rank(Has(i)) > Rank(Has(Star))}
        IN  \E extra \in SUBSET (Some \ Needed) :
              rows' = {<<i, Has(i)>> : i \in Needed \cup extra}
  BY DEF OpenSubjects, Current
<1> DEFINE Has(i) == AnswerAt(r, s, i)
           Some   == {i \in IDs : Has(i) # "no"}
           Needed == {i \in Some : i = Star \/ Rank(Has(i)) > Rank(Has(Star))}
<1>2. PICK extra \in SUBSET (Some \ Needed) : rows' = {<<i, Has(i)>> : i \in Needed \cup extra}
  BY <1>1, s = Current DEF AnswerAt
<1>3. definite' = {} /\ conditional' = {} /\ call' = call /\ r \in Fresh
  BY OpsAreApart, CallsAreFresh DEF OpenSubjects, Shape, NothingCollected
<1>4. \A i : AnswerAt(r, s, i)' = Has(i)
  BY DEF AnswerAt, Answer
<1> HIDE DEF Has
<1>5. \A x \in rows' : x[2] = Has(x[1])
  BY <1>2
<1>6. ASSUME NEW i \in IDs, i = Star \/ Rank(Has(i)) > Rank(Has(Star)), Has(i) \in {"has", "cond"}
      PROVE  <<i, Has(i)>> \in rows'
  <2>1. i \in Needed
    BY <1>6
  <2> QED BY <1>2, <2>1
<1>7. SubjectsOf(r, s)'
  BY <1>3, <1>4, <1>5, <1>6 DEF SubjectsOf
<1> QED BY <1>3, <1>7

\* A subject that is received moves from the stream to its list.
LEMMA SubjectsReceive ==
  ASSUME TypeOK, UNCHANGED <<history, call, start>>,
         NEW x \in rows, Recv(x), NEW r, NEW s, SubjectsOf(r, s)
  PROVE  SubjectsOf(r, s)'
<1>1. /\ rows' = rows \ {x}
      /\ \/ x[2] = "has" /\ definite' = definite \cup {x[1]} /\ conditional' = conditional
         \/ x[2] = "cond" /\ conditional' = conditional \cup {x[1]} /\ definite' = definite
  BY DEF Recv, TypeOK
<1>2. \A i : AnswerAt(r, s, i)' = AnswerAt(r, s, i)
  BY DEF AnswerAt, Answer
<1>3. ASSUME NEW i
      PROVE  /\ i \in definite \/ <<i, "has">> \in rows => i \in definite' \/ <<i, "has">> \in rows'
             /\ i \in conditional \/ <<i, "cond">> \in rows
                  => i \in conditional' \/ <<i, "cond">> \in rows'
  BY <1>1
<1>4. /\ \A y \in rows' : y[2] = AnswerAt(r, s, y[1])
      /\ \A i \in definite' : AnswerAt(r, s, i) = "has"
      /\ \A i \in conditional' : AnswerAt(r, s, i) = "cond"
  BY <1>1 DEF SubjectsOf
<1>5. \A i \in IDs :
        i = Star \/ Rank(AnswerAt(r, s, i)) > Rank(AnswerAt(r, s, Star)) =>
          /\ AnswerAt(r, s, i) = "has"  => i \in definite'    \/ <<i, "has">>  \in rows'
          /\ AnswerAt(r, s, i) = "cond" => i \in conditional' \/ <<i, "cond">> \in rows'
  <2> TAKE i \in IDs
  <2>1. i = Star \/ Rank(AnswerAt(r, s, i)) > Rank(AnswerAt(r, s, Star)) =>
          /\ AnswerAt(r, s, i) = "has"  => i \in definite    \/ <<i, "has">>  \in rows
          /\ AnswerAt(r, s, i) = "cond" => i \in conditional \/ <<i, "cond">> \in rows
    BY ZenonT(30) DEF SubjectsOf
  <2>2. /\ i \in definite \/ <<i, "has">> \in rows => i \in definite' \/ <<i, "has">> \in rows'
        /\ i \in conditional \/ <<i, "cond">> \in rows
             => i \in conditional' \/ <<i, "cond">> \in rows'
    BY <1>3
  <2> QED BY ONLY <2>1, <2>2
<1> QED BY <1>2, <1>4, <1>5 DEF SubjectsOf

\* The end of the stream: the list without the wildcard, or the wildcard alone.
LEMMA SubjectsEnd ==
  ASSUME TypeOK, Shape, call.op \in Subjects, UNCHANGED <<history, call, start>>,
         EndOfStream, NEW r \in Fresh, SubjectsOf(r, Current)
  PROVE  SubjectsAreCovered' /\ pc' = "done"
<1>1. PICK s : s = Current
  OBVIOUS
<1>2. Working /\ rows = {} /\ pc = "stream"
  BY DEF EndOfStream, Working
<1>3. /\ pc' = "done"
      /\ \/ /\ call.op = "LookupSubjects"
            /\ definite' = definite \ {Star} /\ conditional' = conditional
         \/ /\ call.op = "WildcardSubjects"
            /\ result' = IF Star \in definite THEN "granted" ELSE "denied"
  BY OpsAreApart DEF EndOfStream, Project, Concrete, StarFound, Stars, Finish, Subjects
<1>4. DOMAIN call.input = {s} /\ (call.op = "WildcardSubjects" => call.ctx = "none")
  BY <1>1, <1>2, CurrentIsIt, CallIs DEF IsCall
<1> DEFINE Has(i)  == AnswerAt(r, s, i)
           With(p) == {i \in IDs : Has(i) = p}
<1>5. Star \in IDs /\ \A i \in IDs : Has(i) \in Perms
  BY <1>1, <1>2, AnswersAt
<1>6. /\ Has(Star) = "has" => Public(r, s) \/ Hidden(r, s)
      /\ call.ctx = "none" => (Has(Star) = "has" <=> Public(r, s))
  BY DEF AnswerAt, Answer, Public, Hidden
<1> HIDE DEF Has
<1>7. /\ \A i \in definite : Has(i) = "has"
      /\ \A i \in conditional : Has(i) = "cond"
      /\ \A i \in IDs : i = Star \/ Rank(Has(i)) > Rank(Has(Star)) =>
           (Has(i) = "has" => i \in definite) /\ (Has(i) = "cond" => i \in conditional)
  BY <1>1, <1>2 DEF SubjectsOf, Has
<1>8. definite \subseteq IDs /\ conditional \subseteq IDs
  BY OpsAreApart DEF TypeOK, Found
<1>9. ASSUME Has(Star) # "has"
      PROVE  /\ With("has") \subseteq definite \ {Star}
             /\ With("cond") \subseteq conditional \/ Star \in conditional
  <2>1. Has(Star) \in {"no", "cond"}
    BY <1>5, <1>9 DEF Perms
  <2>2. \A i \in With("has") : i # Star /\ Rank(Has(i)) > Rank(Has(Star))
    BY <1>9, <2>1 DEF Rank
  <2>3. Has(Star) = "no" => \A i \in With("cond") : Rank(Has(i)) > Rank(Has(Star))
    BY DEF Rank
  <2> QED BY <1>5, <1>7, <2>1, <2>2, <2>3
<1>10. Star \in definite <=> Has(Star) = "has"
  BY <1>5, <1>7
<1>11. r \in Fresh' /\ call' = call /\ \A i : Answer(call, r, s, i, call.on)' = Has(i)
  BY DEF Fresh, head, Has, AnswerAt, Answer
<1>12. Public(r, s)' = Public(r, s) /\ Hidden(r, s)' = Hidden(r, s)
  BY DEF Public, Hidden
<1>13. CASE call.op = "LookupSubjects"
  <2>1. definite' = definite \ {Star} /\ conditional' = conditional
    BY <1>3, <1>13
  <2>2. definite' \subseteq With("has") \ {Star} /\ conditional' \subseteq With("cond")
    BY <1>7, <1>8, <2>1
  <2>3. Public(r, s) \/ Hidden(r, s) \/
          /\ With("has") \subseteq definite'
          /\ With("cond") \subseteq conditional' \/ Star \in conditional'
    BY <1>6, <1>9, <2>1
  <2> QED BY <1>3, <1>4, <1>11, <1>12, <1>13, <2>2, <2>3 DEF SubjectsAreCovered
<1>14. CASE call.op = "WildcardSubjects"
  <2>1. result' = "granted" <=> Public(r, s)
    BY <1>3, <1>4, <1>6, <1>10, <1>14
  <2> QED BY <1>3, <1>4, <1>11, <1>12, <1>14, <2>1 DEF SubjectsAreCovered
<1> QED BY <1>3, <1>13, <1>14

\* A commit leaves the revision a lookup of subjects is from as it was.
LEMMA SubjectWaits == ASSUME TypeOK, SubjectInv, Waits PROVE SubjectInv'
<1>1. /\ Fresh \subseteq Fresh'
      /\ \A r \in Fresh : history'[r + 1] = history[r + 1]
      /\ \A r \in Fresh : \A s, i, d : Answer(call, r, s, i, d)' = Answer(call, r, s, i, d)
  BY Grows DEF Waits
<1>2. UNCHANGED <<pc, call, queue, rows, definite, conditional, result>>
  BY DEF Waits
<1>3. PICK s : s = Current
  OBVIOUS
<1>4. Current' = s
  BY <1>2, <1>3 DEF Current
<1>5. ASSUME NEW r \in Fresh, SubjectsOf(r, s) PROVE SubjectsOf(r, s)'
  <2>1. \A i : AnswerAt(r, s, i)' = AnswerAt(r, s, i)
    BY <1>1, <1>2 DEF AnswerAt
  <2> QED BY <1>2, <1>5, <2>1 DEF SubjectsOf
<1>6. SubjectsAreCovered => SubjectsAreCovered'
  <2> SUFFICES ASSUME SubjectsAreCovered, Done(Subjects), result # "failed",
                      NEW t \in DOMAIN call.input
               PROVE  \E r \in Fresh' :
                        LET With(p) == {i \in IDs : Answer(call, r, t, i, call.on)' = p} IN
                        IF call.op = "WildcardSubjects" THEN result = "granted" <=> Public(r, t)'
                        ELSE /\ definite \subseteq With("has") \ {Star}
                             /\ conditional \subseteq With("cond")
                             /\ Public(r, t)' \/ Hidden(r, t)' \/
                                  /\ With("has") \subseteq definite
                                  /\ With("cond") \subseteq conditional \/ Star \in conditional
    BY <1>2 DEF SubjectsAreCovered, Done
  <2>1. PICK r \in Fresh :
          LET With(p) == {i \in IDs : Answer(call, r, t, i, call.on) = p} IN
          IF call.op = "WildcardSubjects" THEN result = "granted" <=> Public(r, t)
          ELSE /\ definite \subseteq With("has") \ {Star} /\ conditional \subseteq With("cond")
               /\ Public(r, t) \/ Hidden(r, t) \/
                    /\ With("has") \subseteq definite
                    /\ With("cond") \subseteq conditional \/ Star \in conditional
    BY DEF SubjectsAreCovered
  <2>2. \A i : Answer(call, r, t, i, call.on)' = Answer(call, r, t, i, call.on)
    BY <1>1, <1>2
  <2>3. Public(r, t)' = Public(r, t) /\ Hidden(r, t)' = Hidden(r, t)
    BY <1>1, <1>2 DEF Public, Hidden
  <2> QED BY <1>1, <2>1, <2>2, <2>3
<1>7. (pc = "stream" => \E r \in Fresh : SubjectsOf(r, Current))'
      \/ ~(pc = "stream" => \E r \in Fresh : SubjectsOf(r, Current))
  BY <1>1, <1>2, <1>3, <1>4, <1>5
<1> QED BY <1>2, <1>6, <1>7 DEF SubjectInv

\* Every step preserves what a lookup of subjects knows.
LEMMA SubjectStep == ASSUME TypeOK, Shape, SubjectInv, [Next]_vars PROVE SubjectInv'
<1>1. CASE Waits
  BY <1>1, SubjectWaits
<1>2. CASE \E c \in Calls : Begin(c)
  <2>1. PICK c \in Calls : Begin(c)
    BY <1>2
  <2>2. c.op \in Subjects => pc' = "snapshot"
    BY <2>1, OneSlot DEF Begin
  <2> QED BY <2>1, <2>2 DEF Begin, SubjectInv, SubjectsAreCovered, Done
<1>3. CASE Return
  BY <1>3, OpsAreApart DEF Return, SubjectInv, Ops
<1>4. CASE Fails
  BY <1>4 DEF Fails, Finish, SubjectInv, SubjectsAreCovered, Done
<1>5. CASE UNCHANGED <<history, call, start>> /\ call.op \in Subjects
           /\ (\/ Snapshot \/ OpenSubjects \/ EndOfStream \/ \E x \in rows : Recv(x))
  <2>1. PICK s : s = Current
    OBVIOUS
  <2>2. CASE Snapshot
    BY <2>2 DEF Snapshot, SubjectInv, SubjectsAreCovered, Done
  <2>a. Fresh' = Fresh
    BY <1>5 DEF Fresh, head
  <2>3. CASE OpenSubjects
    <3>1. PICK r \in Fresh : SubjectsOf(r, s)'
      BY <1>5, <2>1, <2>3, SubjectsOpen
    <3>2. Current' = s /\ pc' = "stream"
      BY <2>1, <2>3 DEF OpenSubjects, Current
    <3> QED BY <2>a, <3>1, <3>2 DEF SubjectInv, SubjectsAreCovered, Done
  <2>4. CASE EndOfStream
    <3>1. PICK r \in Fresh : SubjectsOf(r, Current)
      BY <1>5, <2>4 DEF EndOfStream, SubjectInv
    <3>2. SubjectsAreCovered' /\ pc' = "done"
      BY <1>5, <2>4, <3>1, SubjectsEnd
    <3> QED BY <3>2 DEF SubjectInv
  <2>5. CASE \E x \in rows : Recv(x)
    <3>1. PICK x \in rows : Recv(x)
      BY <2>5
    <3>2. PICK r \in Fresh : SubjectsOf(r, s)
      BY <1>5, <2>1, <3>1 DEF Recv, SubjectInv
    <3>3. SubjectsOf(r, s)'
      BY <1>5, <3>1, <3>2, SubjectsReceive
    <3>4. Current' = s /\ pc' = "stream"
      BY <2>1, <3>1 DEF Recv, Current
    <3> QED BY <2>a, <3>3, <3>4 DEF SubjectInv, SubjectsAreCovered, Done
  <2> QED BY <1>5, <2>2, <2>3, <2>4, <2>5
<1>6. CASE call' = call /\ call.op \notin Subjects
  BY <1>6 DEF SubjectInv
<1> QED BY <1>1, <1>2, <1>3, <1>4, <1>5, <1>6, Steps, OpsAreApart

SubjectsKnown == Spec => [](TypeOK /\ Shape /\ SubjectInv)

\* SubjectInv holds in every reachable state.
LEMMA SubjectInvariant == SubjectsKnown
<1>1. Init => TypeOK /\ Shape /\ SubjectInv
  BY ShapeInit, OpsAreApart DEF Init, SubjectInv, Ops
<1>2. TypeOK /\ Shape /\ SubjectInv /\ [Next]_vars => TypeOK' /\ Shape' /\ SubjectInv'
  BY TypeStep, ShapeStep, SubjectStep
<1> QED BY <1>1, <1>2, PTL DEF Spec, SubjectsKnown

\* The list of subjects and the answer about the wildcard are both of one revision:
\* a holder the list leaves out is one the wildcard stands for, and the wildcard
\* method says yes then, unless the wildcard's caveat needs the call's context.
THEOREM SubjectsAreTold == Spec => []SubjectsAreCovered
<1>1. SubjectInv => SubjectsAreCovered
  BY DEF SubjectInv, SubjectsAreCovered, Done
<1> QED BY <1>1, SubjectInvariant, PTL DEF SubjectsKnown

-----------------------------------------------------------------------------
(* Reads.                                                                  *)

\* The rows of a stream are the rows of one store of the call.
LEMMA ReadOpens ==
  ASSUME TypeOK, Shape, call.op \in Reads, UNCHANGED <<history, call, start>>,
         OpenRows, NEW s, s = Current
  PROVE  \E r \in Fresh : (definite \cup {x[1] : x \in rows} = RowsAt(r, s))'
<1>1. PICK r \in EvalRevs :
        LET Row(x)  == history[r + 1][x[1]][x[2]][call.on]
            OfType  == {t \in Slots : TypeOf[t] = TypeOf[s]}
            Matches == {x \in OfType \X IDs : Row(x) # "no"}
        IN  rows' = {<<x, Row(x)>> : x \in Matches}
  BY s = Current DEF OpenRows, Current
<1> DEFINE Row(x) == history[r + 1][x[1]][x[2]][call.on]
           S      == RowsAt(r, s)
<1>2. r \in Fresh /\ definite' = {}
  BY CallsAreFresh, OpsAreApart DEF OpenRows, Shape, NothingCollected
<1>3. rows' = {<<x, Row(x)>> : x \in S}
  BY <1>1 DEF RowsAt
<1>4. {y[1] : y \in rows'} = S
  <2> HIDE DEF S, Row
  <2>1. ASSUME NEW x \in S PROVE x \in {y[1] : y \in rows'}
    <3>1. PICK y : y = <<x, Row(x)>>
      OBVIOUS
    <3>2. y \in rows' /\ y[1] = x
      BY <1>3, <3>1
    <3> QED BY <3>2
  <2>2. ASSUME NEW y \in rows' PROVE y[1] \in S
    BY <1>3
  <2> QED BY <2>1, <2>2
<1>5. RowsAt(r, s)' = S
  BY DEF RowsAt
<1>6. (definite \cup {x[1] : x \in rows} = RowsAt(r, s))'
  BY <1>2, <1>4, <1>5
<1> QED BY <1>2, <1>6

\* A commit changes none of the stores a read may have seen.
LEMMA ReadWaits == ASSUME TypeOK, ReadInv, Waits PROVE ReadInv'
<1>1. /\ Fresh \subseteq Fresh'
      /\ \A r \in Fresh : history'[r + 1] = history[r + 1]
  BY Grows DEF Waits
<1>2. UNCHANGED <<pc, call, queue, rows, definite, conditional, result>>
  BY DEF Waits
<1>3. Current' = Current /\ \A s : \A r \in Fresh : RowsAt(r, s)' = RowsAt(r, s)
  BY <1>1, <1>2 DEF Current, RowsAt
<1> SUFFICES ASSUME call.op \in Reads PROVE ReadInv'
  BY <1>2 DEF ReadInv
<1>4. pc = "stream" => \E r \in Fresh' : definite \cup {x[1] : x \in rows} = RowsAt(r, Current)'
  <2> SUFFICES ASSUME pc = "stream"
               PROVE \E r \in Fresh' : definite \cup {x[1] : x \in rows} = RowsAt(r, Current)'
    OBVIOUS
  <2>1. PICK r \in Fresh : definite \cup {x[1] : x \in rows} = RowsAt(r, Current)
    BY DEF ReadInv
  <2>2. RowsAt(r, Current)' = RowsAt(r, Current)
    BY <1>1, <1>2 DEF Current, RowsAt
  <2> QED BY <1>1, <2>1, <2>2
<1>5. ReadsAreWhole'
  <2> SUFFICES ASSUME Done(Reads), result # "failed" PROVE ReadsAreWhole'
    BY <1>2 DEF ReadsAreWhole, Done
  <2> SUFFICES ASSUME NEW s \in DOMAIN call.input
               PROVE  \E r \in Fresh' :
                        LET Row(t, i) == /\ TypeOf[t] = TypeOf[s]
                                         /\ history'[r + 1][t][i][call.on] # "no" IN
                        IF call.op = "Read"
                        THEN definite = {x \in Slots \X (IDs \ {Star}) : Row(x[1], x[2])}
                        ELSE result = "granted" <=> \E t \in Slots : Row(t, Star)
    BY <1>2 DEF ReadsAreWhole
  <2>1. PICK r \in Fresh :
          LET Row(t, i) == TypeOf[t] = TypeOf[s] /\ history[r + 1][t][i][call.on] # "no" IN
          IF call.op = "Read"
          THEN definite = {x \in Slots \X (IDs \ {Star}) : Row(x[1], x[2])}
          ELSE result = "granted" <=> \E t \in Slots : Row(t, Star)
    BY DEF ReadInv, ReadsAreWhole
  <2>2. r \in Fresh' /\ history'[r + 1] = history[r + 1]
    BY <1>1
  <2> QED BY <2>1, <2>2
<1> QED BY <1>2, <1>4, <1>5 DEF ReadInv

\* Every step preserves what a read knows.
LEMMA ReadStep == ASSUME TypeOK, Shape, ReadInv, [Next]_vars PROVE ReadInv'
<1>1. CASE Waits
  BY <1>1, ReadWaits
<1>2. CASE \E c \in Calls : Begin(c)
  <2>1. PICK c \in Calls : Begin(c)
    BY <1>2
  <2>2. c.op \in Reads => pc' = "snapshot"
    BY <2>1, OneSlot DEF Begin
  <2> QED BY <2>1, <2>2 DEF Begin, ReadInv, ReadsAreWhole, Done
<1>3. CASE Return
  BY <1>3, OpsAreApart DEF Return, ReadInv, Ops
<1>4. CASE Fails
  BY <1>4 DEF Fails, Finish, ReadInv, ReadsAreWhole, Done
<1>5. CASE UNCHANGED <<history, call, start>> /\ call.op \in Reads
           /\ (\/ Snapshot \/ OpenRows \/ EndOfStream \/ \E x \in rows : RecvRow(x))
  <2>1. PICK s : s = Current
    OBVIOUS
  <2>2. CASE Snapshot
    BY <2>2 DEF Snapshot, ReadInv, ReadsAreWhole, Done
  <2>3. CASE OpenRows
    <3>1. \E r \in Fresh : (definite \cup {x[1] : x \in rows} = RowsAt(r, s))'
      BY <1>5, <2>1, <2>3, ReadOpens
    <3>2. Current' = s /\ pc' = "stream" /\ Fresh' = Fresh
      BY <1>5, <2>1, <2>3 DEF OpenRows, Current, Fresh, head
    <3> QED BY <3>1, <3>2 DEF ReadInv, ReadsAreWhole, Done
  <2>4. CASE EndOfStream
    <3>1. PICK r \in Fresh : definite \cup {x[1] : x \in rows} = RowsAt(r, s)
      BY <1>5, <2>1, <2>4 DEF EndOfStream, ReadInv
    <3>2. definite = RowsAt(r, s)
      BY <2>4, <3>1 DEF EndOfStream
    <3>3. DOMAIN call.input = {s}
      BY <1>5, <2>1, <2>4, CurrentIsIt DEF EndOfStream, Working
    <3>4. /\ pc' = "done"
          /\ \/ call.op = "Read" /\ definite' = definite \ (Slots \X {Star})
             \/ /\ call.op = "ReadWildcard"
                /\ result' = IF definite \cap (Slots \X {Star}) # {} THEN "granted" ELSE "denied"
      BY <1>5, <2>4, OpsAreApart
         DEF EndOfStream, Project, Concrete, StarFound, Stars, Finish, Reads, Subjects
    <3>5. r \in Fresh' /\ history' = history /\ call' = call
      BY <1>5 DEF Fresh, head
    <3> DEFINE Row(t, i) == TypeOf[t] = TypeOf[s] /\ history[r + 1][t][i][call.on] # "no"
    <3>6. RowsAt(r, s) = {x \in Slots \X IDs : Row(x[1], x[2])}
      BY DEF RowsAt
    <3>7. Star \in IDs
      BY QueriesAssumption DEF QueriesAssumption
    <3>8. ReadsAreWhole'
      <4>1. CASE call.op = "Read"
        <5>1. definite' = {x \in Slots \X (IDs \ {Star}) : Row(x[1], x[2])}
          <6> HIDE DEF Row
          <6> QED BY <3>2, <3>4, <3>6, <4>1
        <5> QED BY <3>3, <3>5, <4>1, <5>1 DEF ReadsAreWhole
      <4>2. CASE call.op = "ReadWildcard"
        <5>1. result' = "granted" <=> \E t \in Slots : Row(t, Star)
          <6>1. ASSUME NEW t \in Slots, Row(t, Star) PROVE definite \cap (Slots \X {Star}) # {}
            <7>1. <<t, Star>> \in RowsAt(r, s) /\ <<t, Star>> \in Slots \X {Star}
              BY <3>7, <6>1 DEF RowsAt
            <7> QED BY <3>2, <7>1
          <6>2. ASSUME definite \cap (Slots \X {Star}) # {} PROVE \E t \in Slots : Row(t, Star)
            <7>1. PICK x \in Slots \X {Star} : x \in definite
              BY <6>2
            <7>2. x[1] \in Slots /\ x[2] = Star /\ Row(x[1], x[2])
              BY <3>2, <3>6, <7>1
            <7> QED BY <7>2
          <6> HIDE DEF Row
          <6> QED BY <3>4, <4>2, <6>1, <6>2
        <5> QED BY <3>3, <3>5, <4>2, <5>1 DEF ReadsAreWhole
      <4> QED BY <1>5, <4>1, <4>2 DEF Reads
    <3> QED BY <3>4, <3>8 DEF ReadInv
  <2>5. CASE \E x \in rows : RecvRow(x)
    <3>1. PICK x \in rows : RecvRow(x)
      BY <2>5
    <3>2. /\ pc = "stream" /\ pc' = "stream" /\ Current' = Current
          /\ definite' \cup {y[1] : y \in rows'} = definite \cup {y[1] : y \in rows}
      BY <3>1 DEF RecvRow, Current
    <3>3. Fresh' = Fresh /\ \A r : RowsAt(r, s)' = RowsAt(r, s)
      BY <1>5 DEF Fresh, head, RowsAt
    <3> QED BY <1>5, <2>1, <3>2, <3>3 DEF ReadInv, ReadsAreWhole, Done
  <2> QED BY <1>5, <2>2, <2>3, <2>4, <2>5
<1>6. CASE call' = call /\ call.op \notin Reads
  BY <1>6 DEF ReadInv
<1> QED BY <1>1, <1>2, <1>3, <1>4, <1>5, <1>6, Steps, OpsAreApart

ReadsKnown == Spec => [](TypeOK /\ Shape /\ ReadInv)

\* ReadInv holds in every reachable state.
LEMMA ReadInvariant == ReadsKnown
<1>1. Init => TypeOK /\ Shape /\ ReadInv
  BY ShapeInit, OpsAreApart DEF Init, ReadInv, Ops
<1>2. TypeOK /\ Shape /\ ReadInv /\ [Next]_vars => TypeOK' /\ Shape' /\ ReadInv'
  BY TypeStep, ShapeStep, ReadStep
<1> QED BY <1>1, <1>2, PTL DEF Spec, ReadsKnown

\* A read returns the rows of one revision with a subject of its type: all but the
\* wildcard's from the one method, usersets among them, and from the other, where
\* there is one, whether the wildcard has a row.
THEOREM ReadsShareTheRows == Spec => []ReadsAreWhole
<1>1. ReadInv => ReadsAreWhole
  BY DEF ReadInv, ReadsAreWhole, Done
<1> QED BY <1>1, ReadInvariant, PTL DEF ReadsKnown

-----------------------------------------------------------------------------
(* The OPA builtins against the typed methods.                             *)

\* On a store nobody has written to every answer is from revision 0.
LEMMA OneRevision ==
  ASSUME TypeOK, head = 0
  PROVE  /\ Fresh = {0}
         /\ \A p, s, i, d : Gives(p, s, i, d) <=> Answer(call, 0, s, i, d) = p
         /\ \A p, s, i, d : Keeps(p, s, i, d) <=> Answer(call, 0, s, i, d) = p
<1>1. Fresh = {0}
  BY HistoryIs DEF Fresh
<1> QED BY <1>1 DEF Gives, Keeps

\* A builtin that checks answers as the Go method given the same IDs.
LEMMA OPAChecksAgree ==
  ASSUME TypeOK, Shape, CheckInv, Done({"OPACheck"}), head = 0, result # "failed", NoEmptyList
  PROVE  result = "granted" <=> TypedGrants
<1> DEFINE asked == Filled(call.input, Types \o Usersets)
<1>1. call \in Calls /\ call.op = "OPACheck" /\ pc = "done"
  BY CallIs DEF Done
<1>2. asked \in Seq(Slots) /\ ToSet(asked) = DOMAIN call.input
  BY <1>1, FilledAre DEF NoEmptyList
<1> HIDE DEF asked
<1>3. /\ DOMAIN asked = 1 .. Len(asked) /\ (asked = <<>> <=> DOMAIN call.input = {})
      /\ \A k \in DOMAIN asked : asked[k] \in DOMAIN call.input
      /\ \A s \in DOMAIN call.input : \E k \in DOMAIN asked : asked[k] = s
  BY <1>2, ElementsOfSeq, LenProperties
<1>4. TypedGrants <=>
        /\ DOMAIN call.input # {}
        /\ \A s \in DOMAIN call.input : \A i \in call.input[s] : Answer(call, 0, s, i, call.on) = "has"
  BY <1>3 DEF TypedGrants, asked
<1>5. ASSUME result = "granted" PROVE TypedGrants
  <2>1. queue = <<>> /\ DOMAIN call.input # {}
        /\ \A s \in DOMAIN call.input : \A i \in call.input[s] :
             Pending(s, i) \/ Gives("has", s, i, call.on)
    BY <1>1, <1>5 DEF CheckInv, Checks
  <2>2. \A s, i : ~Pending(s, i)
    BY <2>1 DEF Pending
  <2> QED BY <1>4, <2>1, <2>2, OneRevision
<1>6. ASSUME TypedGrants, result # "granted" PROVE FALSE
  <2>1. result = "denied"
    BY <1>1, <1>6 DEF Shape, ResultsOf
  <2>2. DeniedIsTrue /\ call.op \in Checks
    BY <1>1 DEF CheckInv, Checks
  <2>3. \E s \in DOMAIN call.input : \E i \in call.input[s] :
          Gives("no", s, i, call.on) \/ Gives("cond", s, i, call.on)
    BY <1>1, <1>4, <1>6, <2>1, <2>2 DEF DeniedIsTrue, Done
  <2> QED BY <1>4, <1>6, <2>3, OneRevision
<1> QED BY <1>5, <1>6

\* A builtin that looks up answers as the Go method given the same IDs.
LEMMA OPALookupsAgree ==
  ASSUME TypeOK, Shape, LookupInv, Done({"OPALookup"}), head = 0, result # "failed", NoEmptyList,
         \A s, t \in DOMAIN call.input : s = t
  PROVE  definite = TypedList
<1> DEFINE filled == Filled(call.input, Types)
           asked  == First(filled)
<1>1. call \in Calls /\ call.op = "OPALookup" /\ call.op \in Lookups /\ result = "listed"
  BY CallIs DEF Done, Lookups, Shape, ResultsOf
<1>2. DOMAIN call.input \subseteq TypeSlots
  BY <1>1, CallIs DEF IsCall, Done
<1>3. filled \in Seq(Slots) /\ ToSet(filled) = DOMAIN call.input
  BY <1>1, <1>2, FilledAre DEF NoEmptyList
<1>4. /\ definite \subseteq Resources
      /\ \A d \in definite : \E s \in DOMAIN call.input : \E i \in call.input[s] : Gives("has", s, i, d)
      /\ DOMAIN call.input # {} =>
           \E s \in DOMAIN call.input :
             \A i \in call.input[s], d \in Resources : Keeps("has", s, i, d) => d \in definite
  BY <1>1, <1>2 DEF LookupInv, LookupIsExact, Done
<1>5. TypedList = {d \in Resources : \E k \in DOMAIN asked : \E i \in call.input[asked[k]] :
                                       Answer(call, 0, asked[k], i, d) = "has"}
  BY DEF TypedList
<1> HIDE DEF filled
<1>6. CASE DOMAIN call.input = {}
  <2>1. asked = <<>>
    BY <1>3, <1>6, ElementsOfSeq DEF First
  <2> QED BY <1>4, <1>5, <1>6, <2>1
<1>7. CASE DOMAIN call.input # {}
  <2>1. PICK s : s \in DOMAIN call.input
    BY <1>7
  <2>2. asked \in Seq(Slots) /\ ToSet(asked) \subseteq DOMAIN call.input /\ asked # <<>>
    BY <1>3, <1>7, FirstIs, ElementsOfSeq
  <2> HIDE DEF asked
  <2>3. \A k \in DOMAIN asked : asked[k] = s
    BY <2>1, <2>2 DEF ToSet
  <2>4. DOMAIN asked # {}
    BY <2>2, ElementsOfSeq, LenProperties DEF ToSet
  <2>5. TypedList = {d \in Resources : \E i \in call.input[s] : Answer(call, 0, s, i, d) = "has"}
    BY <1>5, <2>3, <2>4
  <2>6. ASSUME NEW d \in definite PROVE d \in TypedList
    BY <1>4, <2>1, <2>5, OneRevision
  <2>7. ASSUME NEW d \in TypedList PROVE d \in definite
    BY <1>4, <1>7, <2>1, <2>5, OneRevision
  <2> QED BY <2>6, <2>7
<1> QED BY <1>6, <1>7

\* The OPA check builtin says what the typed Check says, and the OPA lookup
\* builtin lists what the typed lookup lists, whatever the order of the types.
THEOREM BuiltinsAgree == Spec => []OPAAgrees
<1>1. TypeOK /\ Shape /\ CheckInv /\ LookupInv => OPAAgrees
  <2> SUFFICES ASSUME TypeOK, Shape, CheckInv, LookupInv, Done({"OPACheck", "OPALookup"}),
                      head = 0, result # "failed", NoEmptyList
               PROVE  IF call.op = "OPACheck" THEN result = "granted" <=> TypedGrants
                      ELSE (\A s, t \in DOMAIN call.input : s = t) => definite = TypedList
    BY DEF OPAAgrees
  <2>1. CASE call.op = "OPACheck"
    BY <2>1, OPAChecksAgree DEF Done
  <2>2. CASE call.op = "OPALookup"
    BY <2>2, OPALookupsAgree DEF Done
  <2> QED BY <2>1, <2>2 DEF Done
<1> QED BY <1>1, CheckInvariant, LookupInvariant, PTL DEF CheckKnown, LookupKnown
=============================================================================
