------------------------ MODULE RelationWritesProofs ------------------------
(***************************************************************************)
(* Proofs about RelationWrites for every relation, every set of callers    *)
(* and every set of requests.                                              *)
(***************************************************************************)
EXTENDS RelationWrites, SequenceLemmas

Batch == [at : Branches, ids : SUBSET (Ids \cup {Star}), dated : BOOLEAN]
Args  == Requests \cup {NoRequest}

-----------------------------------------------------------------------------
\* What one branch of a request contributes.
Part(r, b) ==
  (IF r.ids[b] # {} THEN <<[at |-> b, ids |-> r.ids[b], dated |-> r.dated]>> ELSE <<>>)
    \o (IF AllowedTypes[b].wildcard /\ b \in r.star
        THEN <<[at |-> b, ids |-> {Star}, dated |-> r.dated]>> ELSE <<>>)

\* A request gives each branch a set of IDs.
LEMMA ArgsAre ==
  ASSUME NEW r \in Args
  PROVE  r.ids \in [Branches -> SUBSET (Ids \cup {Star})] /\ r.dated \in BOOLEAN
<1>1. CASE r = NoRequest
  BY <1>1 DEF NoRequest
<1>2. CASE r \in Requests
  BY <1>2, WritesAssumption DEF WritesAssumption
<1> QED BY <1>1, <1>2 DEF Args

\* The batches of a branch name that branch, and carry the request's date.
LEMMA Parts ==
  ASSUME NEW r \in Args, NEW b \in Branches
  PROVE  /\ Part(r, b) \in Seq(Batch)
         /\ \A m \in ToSet(Part(r, b)) : m.at = b /\ m.dated = r.dated
<1> DEFINE listed == [at |-> b, ids |-> r.ids[b], dated |-> r.dated]
           star   == [at |-> b, ids |-> {Star}, dated |-> r.dated]
           X == {m \in Batch : m.at = b /\ m.dated = r.dated}
           p == IF r.ids[b] # {} THEN <<listed>> ELSE <<>>
           q == IF AllowedTypes[b].wildcard /\ b \in r.star THEN <<star>> ELSE <<>>
<1>1. listed \in X /\ star \in X
  BY ArgsAre DEF Batch
<1>2. <<listed>> \in Seq(X) /\ <<star>> \in Seq(X) /\ <<>> \in Seq(X)
  <2> HIDE DEF listed, star, X
  <2> QED BY <1>1
<1>3. p \in Seq(X) /\ q \in Seq(X)
  <2> HIDE DEF listed, star, X
  <2> QED BY <1>2
<1>4. Part(r, b) = p \o q
  BY DEF Part
<1>5. Part(r, b) \in Seq(X)
  <2> HIDE DEF p, q, X
  <2> QED BY <1>3, <1>4, ConcatProperties
<1>6. Part(r, b) \in Seq(Batch)
  BY <1>5, SeqMonotonic, X \subseteq Batch
<1>7. \A m \in ToSet(Part(r, b)) : m \in X
  <2> HIDE DEF X
  <2> QED BY <1>5, LenProperties, ElementOfSeq DEF ToSet
<1> QED BY <1>6, <1>7

\* A call's batches are a sequence that visits the branches in order.
LEMMA BatchesAre ==
  ASSUME NEW r \in Args
  PROVE  /\ Batches[r] \in Seq(Batch)
         /\ \A i \in 1 .. Len(Batches[r]) : Batches[r][i].dated = r.dated
         /\ \A i, j \in 1 .. Len(Batches[r]) : i <= j => Batches[r][i].at <= Batches[r][j].at
<1> DEFINE s == [b \in Branches |-> Part(r, b)]
           N == Len(AllowedTypes)
<1>1. N \in Nat /\ Branches = 1 .. N
  BY WritesAssumption DEF WritesAssumption
<1>2. s \in [1 .. N -> Seq(Batch)]
  BY <1>1, Parts
<1>3. s \in Seq(Seq(Batch)) /\ Len(s) = N
  <2> HIDE DEF s, N
  <2> QED BY <1>1, <1>2, SeqDef, LenProperties
<1>4. Batches[r] = FlattenSeq(s)
  BY DEF Batches, Part, Args
<1> DEFINE B == Batches[r]
<1>5. Flat(B, s, N, Batch)
  <2> HIDE DEF s, N
  <2> QED BY <1>3, <1>4, FlattenProperties
<1>6. B \in Seq(Batch)
  BY <1>5 DEF Flat
<1>7. PICK o : Origin(o, B, s, N)
  <2> HIDE DEF s, N, B
  <2> QED BY <1>5 DEF Flat
<1>8. ASSUME NEW i \in 1 .. Len(B)
      PROVE  B[i].at = o[i] /\ B[i].dated = r.dated
  <2>1. o[i] \in Branches /\ B[i] \in ToSet(s[o[i]])
    <3> HIDE DEF s, N, B
    <3> QED BY <1>1, <1>7 DEF Origin
  <2>2. s[o[i]] = Part(r, o[i])
    BY <2>1
  <2> HIDE DEF s, N, B
  <2> QED BY <2>1, <2>2, Parts
<1>9. \A i, j \in 1 .. Len(B) : i <= j => o[i] <= o[j]
  <2> HIDE DEF s, N, B
  <2> QED BY <1>7 DEF Origin
<1> HIDE DEF s, N
<1> QED BY <1>6, <1>8, <1>9

-----------------------------------------------------------------------------
(* What a call has sent.                                                   *)

WritesTypes ==
  /\ store \in [Subjects -> Values]
  /\ late \subseteq {"create", "delete"} \X Batch
  /\ lost \in 0 .. MaxLost
  /\ pc \in [Callers -> {"idle", "waiting", "answered", "returned"}]
  /\ op \in [Callers -> {"none", "create", "delete"}]
  /\ request \in [Callers -> Args]
  /\ todo \in [Callers -> Seq(Batch)]
  /\ reply \in [Callers -> {"none", "ok", "refused"}]
  /\ result \in [Callers -> {"none", "nil", "error"}]
  /\ applied \in [Callers -> Nat]
  /\ others \in [Callers -> SUBSET Subjects]

All(c) == Batches[request[c]]

\* Number of batches the call has had a nil answer to.
Passed(c) == Len(All(c)) - Len(todo[c])

\* What is left of a call is the end of its batches.
IsTheRest(c) ==
  /\ Passed(c) >= 0
  /\ \A i \in 1 .. Len(todo[c]) : todo[c][i] = All(c)[Passed(c) + i]

\* How many batches SpiceDB has applied, by how far the call has come.
Counted(c) ==
  /\ pc[c] = "idle" =>
       /\ op[c] = "none" /\ request[c] = NoRequest /\ todo[c] = <<>>
       /\ reply[c] = "none" /\ result[c] = "none" /\ applied[c] = 0
  /\ pc[c] = "waiting" =>
       /\ op[c] # "none" /\ todo[c] # <<>> /\ reply[c] = "none" /\ result[c] = "none"
       /\ applied[c] = Passed(c)
  /\ pc[c] = "answered" =>
       /\ op[c] # "none" /\ todo[c] # <<>> /\ result[c] = "none"
       /\ \/ reply[c] = "ok" /\ applied[c] = Passed(c) + 1
          \/ reply[c] = "refused" /\ applied[c] = Passed(c)
  /\ pc[c] = "returned" =>
       /\ op[c] # "none" /\ reply[c] = "none"
       /\ \/ result[c] = "nil" /\ todo[c] = <<>> /\ applied[c] = Passed(c)
          \/ result[c] = "error" /\ todo[c] # <<>> /\ applied[c] - Passed(c) \in {0, 1}

Progress(c) == IsTheRest(c) /\ Counted(c)

CallInv == WritesTypes /\ \A c \in Callers : Progress(c)

-----------------------------------------------------------------------------
\* A batch names subjects only.
LEMMA NamedAreSubjects ==
  ASSUME NEW m \in Batch
  PROVE  Named(m) \subseteq Subjects
<1> SUFFICES ASSUME NEW i \in m.ids
             PROVE  [type |-> AllowedTypes[m.at].type, sub |-> AllowedTypes[m.at].sub, id |-> i]
                      \in Subjects
  BY DEF Named
<1>1. m.at \in Branches /\ i \in Ids \cup {Star}
  BY DEF Batch
<1> DEFINE Of(b) == [type : {AllowedTypes[b].type}, sub : {"", AllowedTypes[b].sub},
                     id : Ids \cup {Star}]
           s == [type |-> AllowedTypes[m.at].type, sub |-> AllowedTypes[m.at].sub, id |-> i]
<1>2. s \in Of(m.at)
  BY <1>1
<1>3. Subjects = UNION {Of(b) : b \in Branches}
  BY DEF Subjects
<1>4. Of(m.at) \in {Of(b) : b \in Branches}
  BY <1>1
<1>5. s \in UNION {Of(b) : b \in Branches}
  <2> HIDE DEF Of, s
  <2> QED BY <1>2, <1>4
<1> QED BY <1>3, <1>5

\* What SpiceDB stores for a subject is a value.
LEMMA StoredValues ==
  ASSUME WritesTypes, NEW m \in Batch, NEW o
  PROVE  After(o, m) \in [Subjects -> Values]
<1>1. Value(m) \in Values
  <2>1. m.at \in Branches
    BY DEF Batch
  <2> QED BY <2>1 DEF Value, Values, Caveats
<1>2. Absent \in Values
  BY DEF Values
<1> QED BY <1>1, <1>2 DEF After, WritesTypes

\* The batch in hand is the one after those that were passed.
LEMMA HeadIsNext ==
  ASSUME WritesTypes, NEW c \in Callers, IsTheRest(c), todo[c] # <<>>
  PROVE  /\ Len(All(c)) \in Nat /\ Len(todo[c]) \in Nat \ {0}
         /\ Passed(c) \in Nat /\ Passed(c) + 1 \in 1 .. Len(All(c))
         /\ Head(todo[c]) \in Batch /\ Head(todo[c]) = All(c)[Passed(c) + 1]
<1>1. request[c] \in Args /\ todo[c] \in Seq(Batch)
  BY DEF WritesTypes
<1>2. All(c) \in Seq(Batch)
  BY <1>1, BatchesAre DEF All
<1>3. Len(All(c)) \in Nat /\ Len(todo[c]) \in Nat \ {0}
  BY <1>1, <1>2, LenProperties, EmptySeq
<1>4. Head(todo[c]) = todo[c][1] /\ Head(todo[c]) \in Batch
  BY <1>1, HeadTailProperties
<1>5. Passed(c) >= 0 /\ \A i \in 1 .. Len(todo[c]) : todo[c][i] = All(c)[Passed(c) + i]
  BY DEF IsTheRest
<1>6. 1 \in 1 .. Len(todo[c])
  BY <1>3
<1>7. todo[c][1] = All(c)[Passed(c) + 1]
  BY <1>5, <1>6
<1>8. Passed(c) \in Nat /\ Passed(c) + 1 \in 1 .. Len(All(c))
  BY <1>3, <1>5 DEF Passed
<1> QED BY <1>3, <1>4, <1>7, <1>8

\* A caller that is idle has nothing to send.
LEMMA NoBatches == Batches[NoRequest] = <<>>
<1>1. Batches[NoRequest] \in Seq(Batch)
  BY BatchesAre DEF Args
<1> DEFINE B == Batches[NoRequest]
           s == [b \in Branches |-> Part(NoRequest, b)]
           N == Len(AllowedTypes)
<1>2. N \in Nat /\ Branches = 1 .. N
  BY WritesAssumption DEF WritesAssumption
<1>3. \A b \in Branches : Part(NoRequest, b) = <<>>
  <2> TAKE b \in Branches
  <2>1. Part(NoRequest, b) = <<>> \o <<>>
    BY DEF Part, NoRequest
  <2> QED BY <2>1, ConcatEmptySeq, EmptySeq
<1>4. s \in [1 .. N -> Seq(Batch)] /\ \A b \in 1 .. N : s[b] = <<>>
  <2>1. <<>> \in Seq(Batch)
    BY EmptySeq
  <2>2. \A b \in Branches : s[b] = <<>>
    BY <1>3
  <2>3. DOMAIN s = 1 .. N /\ s = [b \in 1 .. N |-> s[b]]
    BY <1>2
  <2> HIDE DEF s, N
  <2> QED BY <1>2, <2>1, <2>2, <2>3
<1>5. s \in Seq(Seq(Batch)) /\ Len(s) = N
  <2> HIDE DEF s, N
  <2> QED BY <1>2, <1>4, SeqDef, LenProperties
<1>6. B = FlattenSeq(s)
  BY DEF Batches, Part, Args
<1>7. Flat(B, s, N, Batch)
  <2> HIDE DEF s, N
  <2> QED BY <1>5, <1>6, FlattenProperties
<1> HIDE DEF s, N, B
<1>8. ToSet(B) = {}
  <2>1. ToSet(B) = UNION {ToSet(s[k]) : k \in 1 .. N}
    BY <1>7 DEF Flat
  <2>2. ToSet(<<>>) = {}
    BY DEF ToSet
  <2> QED BY <1>4, <2>1, <2>2
<1>9. B \in Seq(Batch)
  BY <1>7 DEF Flat
<1> SUFFICES ASSUME B # <<>> PROVE FALSE
  BY DEF B
<1>10. 1 \in DOMAIN B
  BY <1>9, LenProperties, EmptySeq
<1> QED BY <1>8, <1>10 DEF ToSet

\* A step that leaves a call alone leaves its progress alone.
LEMMA Unmoved ==
  ASSUME NEW d, Progress(d),
         pc'[d] = pc[d], op'[d] = op[d], request'[d] = request[d], todo'[d] = todo[d],
         reply'[d] = reply[d], result'[d] = result[d], applied'[d] = applied[d]
  PROVE  Progress(d)'
BY DEF Progress, IsTheRest, Counted, Passed, All

\* What callers note of each other are subjects.
LEMMA Noticed ==
  ASSUME WritesTypes, (\E c \in Callers : Noted(c)) \/ NotedByAll
  PROVE  others' \in [Callers -> SUBSET Subjects]
<1>1. Changed \subseteq Subjects
  BY DEF Changed
<1>2. CASE NotedByAll
  BY <1>1, <1>2 DEF WritesTypes, NotedByAll
<1>3. ASSUME NEW c \in Callers, Noted(c) PROVE others' \in [Callers -> SUBSET Subjects]
  BY <1>1, <1>3 DEF WritesTypes, Noted
<1> QED BY <1>2, <1>3

-----------------------------------------------------------------------------
\* Nobody has called yet in the first state.
LEMMA CallInvInit == Init => CallInv
<1> SUFFICES ASSUME Init PROVE CallInv
  OBVIOUS
<1>1. WritesTypes
  <2>1. <<>> \in Seq(Batch)
    BY EmptySeq
  <2>2. store \in [Subjects -> Values]
    BY DEF Init, Values
  <2>3. lost \in 0 .. MaxLost
    <3>1. MaxLost \in Nat
      BY WritesAssumption DEF WritesAssumption
    <3> QED BY <3>1 DEF Init
  <2>4. request \in [Callers -> Args]
    BY DEF Args, Init
  <2> QED BY <2>1, <2>2, <2>3, <2>4 DEF Init, WritesTypes
<1>2. ASSUME NEW c \in Callers PROVE Progress(c)
  <2>1. All(c) = <<>> /\ todo[c] = <<>>
    BY NoBatches DEF Init, All
  <2> QED BY <2>1, EmptySeq DEF Progress, IsTheRest, Counted, Passed, Init
<1> QED BY <1>1, <1>2 DEF CallInv

\* A call begins with all its batches to send.
LEMMA BeginProgress ==
  ASSUME CallInv, NEW c \in Callers, NEW o \in {"create", "delete"}, NEW r \in Requests,
         Begin(c, o, r)
  PROVE  CallInv'
<1>1. r \in Args /\ Batches[r] \in Seq(Batch)
  BY BatchesAre DEF Args
<1>2. WritesTypes'
  BY <1>1 DEF CallInv, WritesTypes, Begin
<1>3. Progress(c)'
  <2>1. /\ request'[c] = r /\ todo'[c] = Batches[r] /\ op'[c] = o
        /\ pc'[c] = IF Batches[r] = <<>> THEN "returned" ELSE "waiting"
        /\ result'[c] = IF Batches[r] = <<>> THEN "nil" ELSE "none"
        /\ reply'[c] = "none" /\ applied'[c] = 0
    BY DEF CallInv, WritesTypes, Begin, Progress, Counted
  <2>2. Len(Batches[r]) \in Nat
    BY <1>1, LenProperties
  <2>3. Passed(c)' = 0
    BY <2>1, <2>2 DEF Passed, All
  <2>4. IsTheRest(c)'
    BY <2>1, <2>2, <2>3 DEF IsTheRest, All
  <2>5. Counted(c)'
    BY <2>1, <2>3 DEF Counted
  <2> QED BY <2>4, <2>5 DEF Progress
<1>4. ASSUME NEW d \in Callers, d # c PROVE Progress(d)'
  BY <1>4, Unmoved DEF CallInv, WritesTypes, Begin
<1> QED BY <1>2, <1>3, <1>4 DEF CallInv

\* SpiceDB applies the batch that is in hand, or none.
LEMMA ServeProgress ==
  ASSUME CallInv, NEW c \in Callers, Serve(c)
  PROVE  CallInv'
<1>1. Progress(c) /\ pc[c] = "waiting" /\ WritesTypes
  BY DEF CallInv, Serve
<1>2. todo[c] # <<>> /\ applied[c] = Passed(c) /\ IsTheRest(c) /\ op[c] # "none"
  BY <1>1 DEF Progress, Counted
<1> DEFINE m == Head(todo[c])
<1>3. m \in Batch /\ Passed(c) \in Nat
  BY <1>1, <1>2, HeadIsNext
<1>4. \/ Accepts(op[c], m) /\ store' = After(op[c], m) /\ Noted(c)
         /\ reply' = [reply EXCEPT ![c] = "ok"] /\ applied' = [applied EXCEPT ![c] = @ + 1]
      \/ ~Accepts(op[c], m) /\ reply' = [reply EXCEPT ![c] = "refused"]
         /\ UNCHANGED <<store, applied, others>>
  BY DEF Serve
<1>a. pc' = [pc EXCEPT ![c] = "answered"] /\ UNCHANGED <<late, lost, op, request, todo, result>>
  BY DEF Serve
<1> HIDE DEF m
<1>5. WritesTypes'
  <2>1. store' \in [Subjects -> Values]
    BY <1>1, <1>3, <1>4, StoredValues DEF WritesTypes
  <2>2. others' \in [Callers -> SUBSET Subjects]
    BY <1>1, <1>4, Noticed DEF WritesTypes
  <2>3. reply' \in [Callers -> {"none", "ok", "refused"}] /\ applied' \in [Callers -> Nat]
    <3>1. reply' = [reply EXCEPT ![c] = "ok"] \/ reply' = [reply EXCEPT ![c] = "refused"]
      BY <1>4
    <3>2. applied' = [applied EXCEPT ![c] = @ + 1] \/ applied' = applied
      BY <1>4
    <3>3. reply \in [Callers -> {"none", "ok", "refused"}] /\ applied \in [Callers -> Nat]
      BY <1>1 DEF WritesTypes
    <3>4. reply' \in [Callers -> {"none", "ok", "refused"}]
      BY <3>1, <3>3
    <3>5. applied' \in [Callers -> Nat]
      BY <3>2, <3>3
    <3> QED BY <3>4, <3>5
  <2> QED BY <1>1, <1>a, <2>1, <2>2, <2>3 DEF WritesTypes
<1>6. Progress(c)'
  <2>1. /\ request'[c] = request[c] /\ todo'[c] = todo[c] /\ op'[c] = op[c]
        /\ pc'[c] = "answered" /\ result'[c] = result[c]
        /\ \/ reply'[c] = "ok" /\ applied'[c] = applied[c] + 1
           \/ reply'[c] = "refused" /\ applied'[c] = applied[c]
    BY <1>1, <1>4, <1>a DEF WritesTypes
  <2>2. Passed(c)' = Passed(c) /\ IsTheRest(c)'
    BY <2>1, <1>2 DEF Passed, All, IsTheRest
  <2> QED BY <1>1, <1>2, <2>1, <2>2 DEF Progress, Counted
<1>7. ASSUME NEW d \in Callers, d # c PROVE Progress(d)'
  <2>1. Progress(d)
    BY DEF CallInv
  <2>2. /\ pc'[d] = pc[d] /\ op'[d] = op[d] /\ request'[d] = request[d] /\ todo'[d] = todo[d]
        /\ reply'[d] = reply[d] /\ result'[d] = result[d] /\ applied'[d] = applied[d]
    BY <1>1, <1>4, <1>a, <1>7 DEF WritesTypes
  <2> QED BY <2>1, <2>2, Unmoved
<1> QED BY <1>5, <1>6, <1>7 DEF CallInv

\* A call goes on to its next batch when the last one was applied.
LEMMA NextBranchProgress ==
  ASSUME CallInv, NEW c \in Callers, NextBranch(c)
  PROVE  CallInv'
<1>1. Progress(c) /\ pc[c] = "answered" /\ reply[c] = "ok" /\ WritesTypes
  BY DEF CallInv, NextBranch
<1>2. todo[c] # <<>> /\ applied[c] = Passed(c) + 1 /\ IsTheRest(c) /\ op[c] # "none"
  BY <1>1 DEF Progress, Counted
<1>3. /\ Len(todo[c]) \in Nat \ {0} /\ Len(All(c)) \in Nat /\ Passed(c) \in Nat
      /\ todo[c] \in Seq(Batch)
  BY <1>1, <1>2, HeadIsNext DEF WritesTypes
<1>4. /\ Tail(todo[c]) \in Seq(Batch) /\ Len(Tail(todo[c])) = Len(todo[c]) - 1
      /\ \A i \in 1 .. Len(Tail(todo[c])) : Tail(todo[c])[i] = todo[c][i + 1]
  BY <1>2, <1>3, HeadTailProperties
<1>5. Tail(todo[c]) = <<>> <=> Len(todo[c]) = 1
  <2>1. Tail(todo[c]) # <<>> => Len(Tail(todo[c])) \in Nat \ {0}
    BY <1>4, EmptySeq
  <2>2. Tail(todo[c]) = <<>> => Len(Tail(todo[c])) = 0
    BY EmptySeq
  <2> QED BY <1>3, <1>4, <2>1, <2>2
<1>6. WritesTypes'
  BY <1>1, <1>4 DEF WritesTypes, NextBranch
<1>7. Progress(c)'
  <2>1. /\ request'[c] = request[c] /\ todo'[c] = Tail(todo[c]) /\ op'[c] = op[c]
        /\ pc'[c] = IF Len(todo[c]) = 1 THEN "returned" ELSE "waiting"
        /\ result'[c] = IF Len(todo[c]) = 1 THEN "nil" ELSE "none"
        /\ reply'[c] = "none" /\ applied'[c] = applied[c]
    BY <1>1 DEF WritesTypes, NextBranch
  <2>2. Passed(c)' = Passed(c) + 1
    <3>1. All(c)' = All(c) /\ Len(todo'[c]) = Len(todo[c]) - 1
      BY <2>1, <1>4 DEF All
    <3> QED BY <3>1, <1>3 DEF Passed
  <2>3. ASSUME NEW i \in 1 .. Len(Tail(todo[c]))
        PROVE  Tail(todo[c])[i] = All(c)[Passed(c) + 1 + i]
    <3>1. i + 1 \in 1 .. Len(todo[c]) /\ Passed(c) + (i + 1) = Passed(c) + 1 + i
      BY <1>3, <1>4
    <3> QED BY <3>1, <1>2, <1>4 DEF IsTheRest
  <2>4. IsTheRest(c)'
    BY <2>1, <2>2, <2>3, <1>3 DEF IsTheRest, All
  <2>5. Counted(c)'
    BY <2>1, <2>2, <1>2, <1>5 DEF Counted
  <2> QED BY <2>4, <2>5 DEF Progress
<1>8. ASSUME NEW d \in Callers, d # c PROVE Progress(d)'
  BY <1>8, <1>1, Unmoved DEF CallInv, WritesTypes, NextBranch
<1> QED BY <1>6, <1>7, <1>8 DEF CallInv

\* A refusal and a context that ends both return an error and leave the rest.
LEMMA FailProgress ==
  ASSUME CallInv, NEW c \in Callers, Refused(c) \/ GiveUp(c)
  PROVE  CallInv'
<1>1. Progress(c) /\ pc[c] \in {"waiting", "answered"} /\ WritesTypes
  BY DEF CallInv, Refused, GiveUp
<1>2. /\ todo[c] # <<>> /\ applied[c] \in {Passed(c), Passed(c) + 1} /\ IsTheRest(c)
      /\ op[c] # "none"
  BY <1>1 DEF Progress, Counted
<1>3. Passed(c) \in Nat /\ Head(todo[c]) \in Batch
  BY <1>1, <1>2, HeadIsNext
<1>4. /\ pc' = [pc EXCEPT ![c] = "returned"] /\ result' = [result EXCEPT ![c] = "error"]
      /\ reply' = [reply EXCEPT ![c] = "none"]
      /\ UNCHANGED <<store, op, request, todo, applied, others>>
  BY DEF Refused, GiveUp, Fail
<1>5. lost' \in 0 .. MaxLost
  <2>1. MaxLost \in Nat
    BY WritesAssumption DEF WritesAssumption
  <2> QED BY <1>1, <2>1 DEF WritesTypes, Refused, GiveUp
<1>6. late' \subseteq {"create", "delete"} \X Batch
  <2>1. late' = late \/ late' = late \cup {<<op[c], Head(todo[c])>>}
    BY DEF Refused, GiveUp
  <2>2. op[c] \in {"create", "delete"}
    BY <1>1, <1>2 DEF WritesTypes
  <2> QED BY <1>1, <1>3, <2>1, <2>2 DEF WritesTypes
<1>7. WritesTypes'
  BY <1>1, <1>4, <1>5, <1>6 DEF WritesTypes
<1>8. Progress(c)'
  <2>1. /\ request'[c] = request[c] /\ todo'[c] = todo[c] /\ op'[c] = op[c]
        /\ pc'[c] = "returned" /\ result'[c] = "error" /\ reply'[c] = "none"
        /\ applied'[c] = applied[c]
    BY <1>1, <1>4 DEF WritesTypes
  <2>2. Passed(c)' = Passed(c) /\ IsTheRest(c)'
    BY <2>1, <1>2 DEF Passed, All, IsTheRest
  <2> QED BY <1>2, <1>3, <2>1, <2>2 DEF Progress, Counted
<1>9. ASSUME NEW d \in Callers, d # c PROVE Progress(d)'
  BY <1>9, <1>1, <1>4, Unmoved DEF CallInv, WritesTypes
<1> QED BY <1>7, <1>8, <1>9 DEF CallInv

\* A caller that leaves has nothing in flight.
LEMMA LeaveProgress ==
  ASSUME CallInv, NEW c \in Callers, Leave(c)
  PROVE  CallInv'
<1>1. WritesTypes'
  BY EmptySeq DEF CallInv, WritesTypes, Leave, Args
<1>2. Progress(c)'
  <2>1. /\ request'[c] = NoRequest /\ todo'[c] = <<>> /\ op'[c] = "none" /\ pc'[c] = "idle"
        /\ result'[c] = "none" /\ applied'[c] = 0 /\ reply'[c] = "none"
    BY DEF CallInv, WritesTypes, Leave, Progress, Counted
  <2>2. All(c)' = <<>>
    BY <2>1, NoBatches DEF All
  <2> QED BY <2>1, <2>2, EmptySeq DEF Progress, IsTheRest, Counted, Passed
<1>3. ASSUME NEW d \in Callers, d # c PROVE Progress(d)'
  BY <1>3, Unmoved DEF CallInv, WritesTypes, Leave
<1> QED BY <1>1, <1>2, <1>3 DEF CallInv

\* Late deliveries, expiry and collection leave the calls alone.
LEMMA StoreProgress ==
  ASSUME CallInv,
         \/ \E m \in late : ServeLate(m[1], m[2])
         \/ \E s \in Subjects : Expire(s) \/ Collect(s)
  PROVE  CallInv'
<1>1. WritesTypes
  BY DEF CallInv
<1>2. UNCHANGED <<lost, pc, op, request, todo, reply, result, applied>> /\ NotedByAll
  BY DEF ServeLate, Expire, Collect, calls
<1>3. late' \subseteq late
  BY DEF ServeLate, Expire, Collect
<1>4. store' \in [Subjects -> Values]
  <2>1. ASSUME NEW m \in late, ServeLate(m[1], m[2]) PROVE store' \in [Subjects -> Values]
    <3>1. m[2] \in Batch
      BY <1>1 DEF WritesTypes
    <3> QED BY <1>1, <2>1, <3>1, StoredValues DEF ServeLate, WritesTypes
  <2>2. ASSUME NEW s \in Subjects, Expire(s) \/ Collect(s) PROVE store' \in [Subjects -> Values]
    <3>1. store[s] # Absent =>
            store[s] \in [caveat : Caveats, expiry : {"never", "ahead", "past"}]
      BY <1>1 DEF WritesTypes, Values
    <3>2. Expire(s) => store[s] # Absent
      <4>1. Absent.expiry = "absent"
        BY DEF Absent
      <4>2. Expire(s) => store[s].expiry = "ahead"
        BY DEF Expire
      <4> QED BY <4>1, <4>2
    <3>3. Expire(s) => [caveat |-> store[s].caveat, expiry |-> "past"] \in Values
      <4>1. Expire(s) => store[s].caveat \in Caveats
        BY <3>1, <3>2
      <4>2. \A v \in Caveats : [caveat |-> v, expiry |-> "past"] \in Values
        BY DEF Values
      <4> QED BY <4>1, <4>2
    <3>4. Absent \in Values
      BY DEF Values
    <3> QED BY <1>1, <2>2, <3>3, <3>4 DEF WritesTypes, Expire, Collect
  <2> QED BY <2>1, <2>2
<1>5. others' \in [Callers -> SUBSET Subjects]
  BY <1>1, <1>2, Noticed
<1>6. WritesTypes'
  BY <1>1, <1>2, <1>3, <1>4, <1>5 DEF WritesTypes
<1>7. ASSUME NEW d \in Callers PROVE Progress(d)'
  BY <1>2, Unmoved DEF CallInv
<1> QED BY <1>6, <1>7 DEF CallInv

\* Every call has sent a prefix of its batches, and SpiceDB has applied those
\* it answered with nil, and one more at most.
THEOREM CallsAreCounted == Spec => []CallInv
<1>1. Init => CallInv
  BY CallInvInit
<1>2. CallInv /\ [Next]_vars => CallInv'
  <2> SUFFICES ASSUME CallInv, [Next]_vars PROVE CallInv'
    OBVIOUS
  <2>1. ASSUME NEW c \in Callers, NEW o \in {"create", "delete"}, NEW r \in Requests,
               Begin(c, o, r)
        PROVE  CallInv'
    BY <2>1, BeginProgress
  <2>2. ASSUME NEW c \in Callers, Serve(c) PROVE CallInv'
    BY <2>2, ServeProgress
  <2>3. ASSUME NEW c \in Callers, NextBranch(c) PROVE CallInv'
    BY <2>3, NextBranchProgress
  <2>4. ASSUME NEW c \in Callers, Refused(c) \/ GiveUp(c) PROVE CallInv'
    BY <2>4, FailProgress
  <2>5. ASSUME NEW c \in Callers, Leave(c) PROVE CallInv'
    BY <2>5, LeaveProgress
  <2>6. CASE \/ \E m \in late : ServeLate(m[1], m[2])
             \/ \E s \in Subjects : Expire(s) \/ Collect(s)
    BY <2>6, StoreProgress
  <2>7. CASE UNCHANGED vars
    <3>1. WritesTypes'
      BY <2>7 DEF CallInv, WritesTypes, vars, calls
    <3>2. ASSUME NEW d \in Callers PROVE Progress(d)'
      BY <2>7, Unmoved DEF CallInv, vars, calls
    <3> QED BY <3>1, <3>2 DEF CallInv
  <2> QED BY <2>1, <2>2, <2>3, <2>4, <2>5, <2>6, <2>7 DEF Next
<1> QED BY <1>1, <1>2, PTL DEF Spec

\* SpiceDB never applies more of a call than the call has batches.
LEMMA AppliedIsBounded ==
  ASSUME CallInv, NEW c \in Callers
  PROVE  applied[c] \in 0 .. Len(All(c)) /\ All(c) \in Seq(Batch)
<1>1. WritesTypes /\ IsTheRest(c) /\ Counted(c)
  BY DEF CallInv, Progress
<1>2. /\ request[c] \in Args /\ todo[c] \in Seq(Batch) /\ applied[c] \in Nat
      /\ pc[c] \in {"idle", "waiting", "answered", "returned"}
  BY <1>1 DEF WritesTypes
<1>3. All(c) \in Seq(Batch)
  BY <1>2, BatchesAre DEF All
<1>4. Len(All(c)) \in Nat
  BY <1>3, LenProperties
<1>5. CASE todo[c] = <<>>
  BY <1>1, <1>2, <1>3, <1>4, <1>5, EmptySeq DEF Counted, Passed, IsTheRest
<1>6. CASE todo[c] # <<>>
  <2>1. Passed(c) \in Nat /\ Passed(c) + 1 \in 1 .. Len(All(c))
    BY <1>1, <1>6, HeadIsNext
  <2> QED BY <2>1, <1>1, <1>2, <1>3, <1>4, <1>6 DEF Counted
<1> QED BY <1>5, <1>6

\* Type correctness, the rest of a call being a suffix of what its request
\* makes it send.
THEOREM WritesTypeCorrect == Spec => []TypeOK
<1>1. CallInv => TypeOK
  <2> SUFFICES ASSUME CallInv PROVE TypeOK
    OBVIOUS
  <2>1. WritesTypes
    BY DEF CallInv
  <2>2. ASSUME NEW c \in Callers
        PROVE  IsSuffix(todo[c], Batches[request[c]]) /\ applied[c] \in 0 .. Len(Batches[request[c]])
    <3>1. IsTheRest(c) /\ Counted(c)
      BY DEF CallInv, Progress
    <3>2. request[c] \in Args /\ todo[c] \in Seq(Batch) /\ applied[c] \in Nat /\ pc[c] \in {"idle", "waiting", "answered", "returned"}
      BY <2>1 DEF WritesTypes
    <3>3. All(c) \in Seq(Batch)
      BY <3>2, BatchesAre DEF All
    <3>4. Len(All(c)) \in Nat /\ Len(todo[c]) \in Nat
      BY <3>2, <3>3, LenProperties
    <3>5. IsSuffix(todo[c], All(c))
      <4>1. /\ Len(todo[c]) <= Len(All(c))
            /\ \A i \in 1 .. Len(todo[c]) : todo[c][i] = All(c)[Len(All(c)) - Len(todo[c]) + i]
        <5>1. Len(All(c)) - Len(todo[c]) >= 0 => Len(todo[c]) <= Len(All(c))
          BY <3>4
        <5>2. Len(All(c)) - Len(todo[c]) >= 0
          BY <3>1 DEF IsTheRest, Passed
        <5>3. \A i \in 1 .. Len(todo[c]) : todo[c][i] = All(c)[Len(All(c)) - Len(todo[c]) + i]
          BY <3>1, Zenon DEF IsTheRest, Passed
        <5> QED BY <5>1, <5>2, <5>3
      <4> QED BY <3>2, <3>3, <4>1, RestIsSuffix
    <3>6. applied[c] \in 0 .. Len(All(c))
      BY AppliedIsBounded
    <3> QED BY <3>5, <3>6 DEF All
  <2>3. \A m \in late : m[1] \in {"create", "delete"} /\ m[2].at \in Branches
    BY <2>1 DEF WritesTypes, Batch
  <2> QED BY <2>1, <2>2, <2>3 DEF WritesTypes, TypeOK, Args
<1> QED BY <1>1, CallsAreCounted, PTL

\* A call that returned an error has had SpiceDB apply the batches before the
\* one that failed, or those and it, and none after.
THEOREM FailuresLeaveAPrefix == Spec => []FailureLeavesAPrefix
<1>1. CallInv => FailureLeavesAPrefix
  <2> SUFFICES ASSUME CallInv, NEW c \in Callers, result[c] = "error"
               PROVE  Len(Batches[request[c]]) - applied[c] - Len(todo[c]) \in {0, -1}
    BY DEF FailureLeavesAPrefix
  <2>1. WritesTypes /\ IsTheRest(c) /\ Counted(c)
    BY DEF CallInv, Progress
  <2>2. pc[c] \in {"idle", "waiting", "answered", "returned"} /\ applied[c] \in Nat
    BY <2>1 DEF WritesTypes
  <2>3. todo[c] # <<>> /\ applied[c] - Passed(c) \in {0, 1}
    BY <2>1, <2>2 DEF Counted
  <2>4. Len(All(c)) \in Nat /\ Len(todo[c]) \in Nat
    BY <2>1, <2>3, HeadIsNext
  <2>5. \A n, k, a \in Nat : a - (n - k) \in {0, 1} => n - a - k \in {0, -1}
    OBVIOUS
  <2> QED BY <2>2, <2>3, <2>4, <2>5 DEF Passed, All
<1> QED BY <1>1, CallsAreCounted, PTL

-----------------------------------------------------------------------------
(* What the store holds of it.                                             *)

\* What the applied batches of a delete say of the store ...
Revoked(c) ==
  op[c] = "delete" =>
    \A i \in 1 .. applied[c] : AllowedTypes[All(c)[i].at].sub = "" =>
      \A s \in Named(All(c)[i]) \ others[c] : store[s] = Absent

\* ... and those of a create: the last of them to name a subject decides.
Granted(c) ==
  op[c] = "create" =>
    \A i \in 1 .. applied[c] : \A s \in Named(All(c)[i]) \ others[c] :
      \E n \in 1 .. applied[c] :
        /\ s \in Named(All(c)[n]) /\ store[s] = Value(All(c)[n])
        /\ \A k \in 1 .. applied[c] : s \in Named(All(c)[k]) => k <= n

StoreInv == CallInv /\ \A c \in Callers : Revoked(c) /\ Granted(c)

\* A call loses nothing of what its batches did to a step of somebody else:
\* the subjects that step changes are no longer the call's.
LEMMA OthersAreNoted ==
  ASSUME StoreInv, NEW d \in Callers,
         op'[d] = op[d], request'[d] = request[d], applied'[d] = applied[d],
         others'[d] = others[d] \cup (Changed \cap Done(request[d], applied[d]))
  PROVE  Revoked(d)' /\ Granted(d)'
<1>1. CallInv /\ Revoked(d) /\ Granted(d)
  BY DEF StoreInv
<1>2. applied[d] \in 0 .. Len(All(d)) /\ All(d) \in Seq(Batch)
  BY <1>1, AppliedIsBounded
<1>3. ASSUME NEW i \in 1 .. applied[d], NEW s \in Named(All(d)[i]) \ others'[d]
      PROVE  s \in Named(All(d)[i]) \ others[d] /\ store'[s] = store[s]
  <2>1. i \in 1 .. Len(All(d))
    BY <1>2, LenProperties
  <2>2. All(d)[i] \in Batch
    BY <1>2, <2>1, ElementOfSeq
  <2>3. s \in Subjects
    BY <2>2, NamedAreSubjects
  <2>4. s \in Done(request[d], applied[d])
    BY DEF Done, All
  <2> QED BY <2>3, <2>4 DEF Changed
<1>4. All(d)' = All(d)
  BY DEF All
<1>5. Revoked(d)'
  BY <1>1, <1>3, <1>4 DEF Revoked
<1>6. Granted(d)'
  BY <1>1, <1>3, <1>4 DEF Granted
<1> QED BY <1>5, <1>6

\* A delete finds the subjects of a branch that has no subject relation.
LEMMA NamedDirectly ==
  ASSUME NEW b, NEW m, AllowedTypes[b.at].sub = "",
         NEW s, s \in Named(b), s \in Named(m)
  PROVE  s \in Direct(m)
<1>1. s.sub = ""
  <2>1. PICK k \in b.ids :
          s = [type |-> AllowedTypes[b.at].type, sub |-> AllowedTypes[b.at].sub, id |-> k]
    BY DEF Named
  <2> QED BY <2>1
<1>2. PICK k \in m.ids :
        s = [type |-> AllowedTypes[m.at].type, sub |-> AllowedTypes[m.at].sub, id |-> k]
  BY DEF Named
<1>3. AllowedTypes[m.at].sub = ""
  BY <1>1, <1>2
<1> QED BY <1>2, <1>3 DEF Direct

\* A step that changes neither the store nor the call keeps what it stored.
LEMMA StoredStays ==
  ASSUME NEW d \in Callers, Revoked(d), Granted(d), store' = store,
         op'[d] = op[d], request'[d] = request[d], applied'[d] = applied[d],
         others'[d] = others[d]
  PROVE  Revoked(d)' /\ Granted(d)'
BY DEF Revoked, Granted, All

\* The batch SpiceDB applies for a call has the last word on its subjects.
LEMMA AppliedIsStored ==
  ASSUME StoreInv, NEW c \in Callers, Serve(c), Accepts(op[c], Head(todo[c]))
  PROVE  Revoked(c)' /\ Granted(c)'
<1> DEFINE m == Head(todo[c])
           n == applied[c] + 1
<1>1. CallInv /\ WritesTypes /\ IsTheRest(c) /\ Counted(c) /\ pc[c] = "waiting"
  BY DEF StoreInv, CallInv, Progress, Serve
<1>2. todo[c] # <<>> /\ applied[c] = Passed(c)
  BY <1>1 DEF Counted
<1>3. m \in Batch /\ m = All(c)[n] /\ applied[c] \in Nat
  BY <1>1, <1>2, HeadIsNext
<1>4. /\ store' = After(op[c], m) /\ Noted(c)
      /\ applied'[c] = n /\ op'[c] = op[c] /\ request'[c] = request[c]
  BY <1>1 DEF Serve, WritesTypes
<1>5. others'[c] = others[c] \ Named(m) /\ Named(m) \subseteq Subjects
  BY <1>3, <1>4, NamedAreSubjects DEF Noted
<1>6. All(c)' = All(c)
  BY <1>4 DEF All
<1>7. applied[c] \in 0 .. Len(All(c)) /\ All(c) \in Seq(Batch)
  BY <1>1, AppliedIsBounded
<1>8. ASSUME NEW i \in 1 .. n
      PROVE  (i \in 1 .. applied[c] /\ Named(All(c)[i]) \subseteq Subjects) \/ i = n
  <2>1. CASE i \in 1 .. applied[c]
    <3>1. i \in 1 .. Len(All(c))
      BY <2>1, <1>7, LenProperties
    <3> QED BY <2>1, <3>1, <1>7, ElementOfSeq, NamedAreSubjects
  <2> QED BY <2>1, <1>3
<1> HIDE DEF m
<1>9. Revoked(c)'
  <2> SUFFICES ASSUME op[c] = "delete", NEW i \in 1 .. n, AllowedTypes[All(c)[i].at].sub = "",
                      NEW s \in Named(All(c)[i]), s \notin others'[c]
               PROVE  store'[s] = Absent
    BY <1>4, <1>6 DEF Revoked
  <2>1. \A t \in Subjects : store'[t] = IF t \in Direct(m) THEN Absent ELSE store[t]
    BY <1>4 DEF After
  <2>2. s \in Subjects
    BY <1>3, <1>5, <1>8
  <2>3. CASE s \in Named(m)
    <3>1. s \in Direct(m)
      BY <2>3, NamedDirectly
    <3> QED BY <2>1, <2>2, <3>1
  <2>4. CASE s \notin Named(m)
    <3>1. i \in 1 .. applied[c] /\ s \notin others[c]
      BY <2>4, <1>3, <1>5, <1>8
    <3>2. store[s] = Absent
      BY <3>1 DEF StoreInv, Revoked
    <3> QED BY <2>1, <2>2, <3>2
  <2> QED BY <2>3, <2>4
<1>10. Granted(c)'
  <2> SUFFICES ASSUME op[c] = "create", NEW i \in 1 .. n,
                      NEW s \in Named(All(c)[i]), s \notin others'[c]
               PROVE  \E k \in 1 .. n :
                        /\ s \in Named(All(c)[k]) /\ store'[s] = Value(All(c)[k])
                        /\ \A j \in 1 .. n : s \in Named(All(c)[j]) => j <= k
    BY <1>4, <1>6 DEF Granted
  <2>1. \A t \in Subjects : store'[t] = IF t \in Named(m) THEN Value(m) ELSE store[t]
    BY <1>4 DEF After
  <2>2. s \in Subjects
    BY <1>3, <1>5, <1>8
  <2>3. CASE s \in Named(m)
    <3>1. n \in 1 .. n /\ \A j \in 1 .. n : j <= n
      BY <1>3
    <3> QED BY <2>1, <2>2, <2>3, <3>1, <1>3
  <2>4. CASE s \notin Named(m)
    <3>1. i \in 1 .. applied[c] /\ s \notin others[c]
      BY <2>4, <1>3, <1>5, <1>8
    <3>2. PICK k \in 1 .. applied[c] :
            /\ s \in Named(All(c)[k]) /\ store[s] = Value(All(c)[k])
            /\ \A j \in 1 .. applied[c] : s \in Named(All(c)[j]) => j <= k
      BY <3>1 DEF StoreInv, Granted
    <3>3. k \in 1 .. n
      BY <1>3
    <3>4. \A j \in 1 .. n : s \in Named(All(c)[j]) => j <= k
      BY <3>2, <1>3, <1>8, <2>4
    <3> QED BY <2>1, <2>2, <2>4, <3>2, <3>3, <3>4
  <2> QED BY <2>3, <2>4
<1> QED BY <1>9, <1>10

\* A batch that is applied for one call is noted by the others.
LEMMA ServeStores ==
  ASSUME StoreInv, NEW c \in Callers, Serve(c), NEW d \in Callers
  PROVE  Revoked(d)' /\ Granted(d)'
<1> DEFINE m == Head(todo[c])
<1>1. CallInv /\ WritesTypes
  BY DEF StoreInv, CallInv
<1>2. \/ Accepts(op[c], m) /\ store' = After(op[c], m) /\ Noted(c)
         /\ reply' = [reply EXCEPT ![c] = "ok"] /\ applied' = [applied EXCEPT ![c] = @ + 1]
      \/ ~Accepts(op[c], m) /\ reply' = [reply EXCEPT ![c] = "refused"]
         /\ UNCHANGED <<store, applied, others>>
  BY DEF Serve
<1>3. UNCHANGED <<op, request, todo>>
  BY DEF Serve
<1>4. CASE Accepts(op[c], m)
  <2>1. CASE d = c
    BY <1>4, <2>1, AppliedIsStored
  <2>2. CASE d # c
    <3> HIDE DEF m
    <3>1. /\ applied'[d] = applied[d]
          /\ others'[d] = others[d] \cup (Changed \cap Done(request[d], applied[d]))
      BY <1>1, <1>2, <1>4, <2>2 DEF WritesTypes, Noted
    <3> QED BY <1>3, <3>1, OthersAreNoted
  <2> QED BY <2>1, <2>2
<1>5. CASE ~Accepts(op[c], m)
  <2> HIDE DEF m
  <2>1. UNCHANGED <<store, applied, others>>
    BY <1>2, <1>5
  <2> QED BY <1>3, <2>1, StoredStays DEF StoreInv
<1> QED BY <1>4, <1>5

\* Steps of the call that do not touch the store.
LEMMA CallKeepsStored ==
  ASSUME StoreInv, NEW c \in Callers, NEW d \in Callers,
         \/ \E o \in {"create", "delete"}, r \in Requests : Begin(c, o, r)
         \/ NextBranch(c) \/ Refused(c) \/ GiveUp(c) \/ Leave(c)
  PROVE  Revoked(d)' /\ Granted(d)'
<1>1. WritesTypes /\ Progress(c) /\ Revoked(d) /\ Granted(d)
  BY DEF StoreInv, CallInv
<1>2. store' = store
  BY DEF Begin, NextBranch, Refused, GiveUp, Leave
<1>3. \/ applied'[d] = 0
      \/ /\ applied'[d] = applied[d] /\ request'[d] = request[d]
         /\ op'[d] = op[d] /\ others'[d] = others[d]
  BY <1>1 DEF Begin, NextBranch, Refused, GiveUp, Leave, WritesTypes, Progress, Counted
<1>4. CASE applied'[d] = 0
  BY <1>4 DEF Revoked, Granted
<1>5. CASE /\ applied'[d] = applied[d] /\ request'[d] = request[d]
           /\ op'[d] = op[d] /\ others'[d] = others[d]
  BY <1>1, <1>2, <1>5, StoredStays
<1> QED BY <1>3, <1>4, <1>5

\* What time and late deliveries change is noted by every call.
LEMMA StoreKeepsStored ==
  ASSUME StoreInv, NEW d \in Callers,
         \/ \E m \in late : ServeLate(m[1], m[2])
         \/ \E s \in Subjects : Expire(s) \/ Collect(s)
  PROVE  Revoked(d)' /\ Granted(d)'
<1>1. UNCHANGED <<op, request, applied>> /\ NotedByAll
  BY DEF ServeLate, Expire, Collect, calls
<1>2. others'[d] = others[d] \cup (Changed \cap Done(request[d], applied[d]))
  BY <1>1 DEF NotedByAll
<1> QED BY <1>1, <1>2, OthersAreNoted

\* What SpiceDB applied of a call is what the store holds of its subjects,
\* except for the subjects somebody else has changed since.
THEOREM CallsAreStored == Spec => []StoreInv
<1>1. Init => StoreInv
  <2> SUFFICES ASSUME Init PROVE StoreInv
    OBVIOUS
  <2>1. \A c \in Callers : applied[c] = 0 /\ op[c] = "none"
    BY DEF Init
  <2> QED BY <2>1, CallInvInit DEF StoreInv, Revoked, Granted
<1>2. StoreInv /\ CallInv' /\ [Next]_vars => StoreInv'
  <2> SUFFICES ASSUME StoreInv, CallInv', [Next]_vars, NEW d \in Callers
               PROVE  Revoked(d)' /\ Granted(d)'
    BY DEF StoreInv
  <2>1. ASSUME NEW c \in Callers, Serve(c) PROVE Revoked(d)' /\ Granted(d)'
    BY <2>1, ServeStores
  <2>2. ASSUME NEW c \in Callers,
               \/ \E o \in {"create", "delete"}, r \in Requests : Begin(c, o, r)
               \/ NextBranch(c) \/ Refused(c) \/ GiveUp(c) \/ Leave(c)
        PROVE  Revoked(d)' /\ Granted(d)'
    BY <2>2, CallKeepsStored
  <2>3. CASE \/ \E m \in late : ServeLate(m[1], m[2])
             \/ \E s \in Subjects : Expire(s) \/ Collect(s)
    BY <2>3, StoreKeepsStored
  <2>4. CASE UNCHANGED vars
    <3>1. UNCHANGED <<store, op, request, applied, others>>
      BY <2>4 DEF vars, calls
    <3>2. Revoked(d) /\ Granted(d)
      BY DEF StoreInv
    <3> QED BY <3>1, <3>2, StoredStays
  <2> QED BY <2>1, <2>2, <2>3, <2>4 DEF Next
<1> QED BY <1>1, <1>2, CallsAreCounted, PTL DEF Spec

\* A call that returned nil has had every one of its batches applied.
LEMMA AllIsSent ==
  ASSUME CallInv, NEW c \in Callers, pc[c] = "returned", result[c] = "nil"
  PROVE  applied[c] = Len(All(c)) /\ Sent(c) = {All(c)[i] : i \in 1 .. applied[c]}
<1>1. WritesTypes /\ Counted(c) /\ All(c) \in Seq(Batch)
  BY AppliedIsBounded DEF CallInv, Progress
<1>2. todo[c] = <<>> /\ applied[c] = Passed(c)
  BY <1>1 DEF Counted
<1>3. Len(All(c)) \in Nat /\ DOMAIN All(c) = 1 .. Len(All(c))
  BY <1>1, LenProperties
<1>4. applied[c] = Len(All(c))
  BY <1>2, <1>3, EmptySeq DEF Passed
<1> QED BY <1>3, <1>4 DEF Sent, ToSet, All

\* A Delete that returned nil has revoked every direct subject it names, until
\* somebody else grants it again.
THEOREM DeletesRevoke == Spec => []DirectDeleteRevokes
<1>1. StoreInv => DirectDeleteRevokes
  <2> SUFFICES ASSUME StoreInv, NEW c \in Callers, Returned(c, "delete", "nil"),
                      NEW m \in Sent(c), AllowedTypes[m.at].sub = "",
                      NEW s \in Named(m) \ others[c]
               PROVE  store[s] = Absent
    BY DEF DirectDeleteRevokes
  <2>1. Sent(c) = {All(c)[i] : i \in 1 .. applied[c]}
    BY AllIsSent DEF StoreInv, Returned
  <2> QED BY <2>1 DEF StoreInv, Revoked, Returned
<1> QED BY <1>1, CallsAreStored, PTL

\* A Create that returned nil has granted every subject it names with the
\* attributes of the last branch that names it.
THEOREM CreatesGrant == Spec => []CreatedIsGranted
<1>1. StoreInv => CreatedIsGranted
  <2> SUFFICES ASSUME StoreInv, NEW c \in Callers, Returned(c, "create", "nil"),
                      request[c].dated, NEW m \in Sent(c), NEW s \in Named(m) \ others[c]
               PROVE  \E n \in Sent(c) :
                        /\ s \in Named(n) /\ store[s] = Value(n)
                        /\ store[s].expiry # "past" /\ store[s].caveat = AllowedTypes[n.at].caveat
                        /\ \A k \in Sent(c) : s \in Named(k) => k.at <= n.at
    BY DEF CreatedIsGranted
  <2> DEFINE B == All(c)
  <2>1. Sent(c) = {B[i] : i \in 1 .. applied[c]} /\ applied[c] = Len(B)
    BY AllIsSent DEF StoreInv, Returned
  <2>2. /\ B \in Seq(Batch) /\ \A i \in 1 .. Len(B) : B[i].dated = request[c].dated
        /\ \A i, j \in 1 .. Len(B) : i <= j => B[i].at <= B[j].at
    BY BatchesAre DEF StoreInv, CallInv, WritesTypes, All
  <2>3. PICK n \in 1 .. applied[c] :
          /\ s \in Named(B[n]) /\ store[s] = Value(B[n])
          /\ \A k \in 1 .. applied[c] : s \in Named(B[k]) => k <= n
    BY <2>1 DEF StoreInv, Granted, Returned
  <2> HIDE DEF B
  <2>4. store[s].expiry # "past" /\ store[s].caveat = AllowedTypes[B[n].at].caveat
    <3>1. B[n].dated
      BY <2>1, <2>2, Zenon
    <3>2. Value(B[n]).expiry # "past" /\ Value(B[n]).caveat = AllowedTypes[B[n].at].caveat
      BY <3>1 DEF Value
    <3> QED BY <2>3, <3>2
  <2>5. \A k \in Sent(c) : s \in Named(k) => k.at <= B[n].at
    BY <2>1, <2>2, <2>3
  <2> QED BY <2>1, <2>3, <2>4, <2>5
<1> QED BY <1>1, CallsAreStored, PTL

-----------------------------------------------------------------------------
(* What the store holds has been written by some allowed type.             *)

Admitted(s) == store[s] # Absent => \E b \in Branches : Admits(b, s, store[s])

SchemaInv == CallInv /\ \A s \in Subjects : Admitted(s)

\* A batch that SpiceDB accepts stores what the schema admits.
LEMMA AcceptedIsAdmitted ==
  ASSUME SchemaInv, NEW o, NEW m, Accepts(o, m), store' = After(o, m)
  PROVE  \A s \in Subjects : Admitted(s)'
<1> SUFFICES ASSUME NEW s \in Subjects, store'[s] # Absent
             PROVE  \E b \in Branches : Admits(b, s, store'[s])
  BY DEF Admitted, Admits
<1>1. CASE store'[s] = store[s]
  BY <1>1 DEF SchemaInv, Admitted
<1>2. CASE store'[s] # store[s]
  <2>1. o = "create" /\ s \in Named(m) /\ store'[s] = Value(m)
    BY <1>2 DEF After
  <2>2. SchemaAllows(m)
    BY <2>1 DEF Accepts
  <2> QED BY <2>1, <2>2 DEF SchemaAllows
<1> QED BY <1>1, <1>2

\* An expired relationship is still one of the allowed type that wrote it.
LEMMA ExpiryIsAdmitted ==
  ASSUME SchemaInv, NEW s \in Subjects, Expire(s) \/ Collect(s)
  PROVE  \A t \in Subjects : Admitted(t)'
<1>1. store \in [Subjects -> Values]
  BY DEF SchemaInv, CallInv, WritesTypes
<1> SUFFICES ASSUME NEW t \in Subjects, store'[t] # Absent
             PROVE  \E b \in Branches : Admits(b, t, store'[t])
  BY DEF Admitted, Admits
<1>2. CASE t # s
  <2>1. store'[t] = store[t]
    BY <1>1, <1>2 DEF Expire, Collect
  <2> QED BY <2>1 DEF SchemaInv, Admitted
<1>3. CASE t = s
  <2>1. Expire(s)
    BY <1>1, <1>3 DEF Collect
  <2>2. /\ store'[s] = [caveat |-> store[s].caveat, expiry |-> "past"]
        /\ store[s].expiry = "ahead"
    BY <1>1, <2>1 DEF Expire
  <2>3. store[s] # Absent
    <3>1. Absent.expiry = "absent"
      BY DEF Absent
    <3> QED BY <2>2, <3>1
  <2>4. PICK b \in Branches : Admits(b, s, store[s])
    BY <2>3 DEF SchemaInv, Admitted
  <2>5. Admits(b, s, store'[s])
    BY <2>2, <2>4 DEF Admits
  <2> QED BY <1>3, <2>5
<1> QED BY <1>2, <1>3

\* SpiceDB stores only what some allowed type of the relation admits.
THEOREM StoreIsAdmitted == Spec => []SchemaInv
<1>1. Init => SchemaInv
  BY CallInvInit DEF Init, SchemaInv, Admitted
<1>2. SchemaInv /\ CallInv' /\ [Next]_vars => SchemaInv'
  <2> SUFFICES ASSUME SchemaInv, CallInv', [Next]_vars
               PROVE  \A s \in Subjects : Admitted(s)'
    BY DEF SchemaInv
  <2>1. ASSUME store' = store PROVE \A s \in Subjects : Admitted(s)'
    BY <2>1 DEF SchemaInv, Admitted, Admits
  <2>2. ASSUME NEW c \in Callers, Serve(c) PROVE \A s \in Subjects : Admitted(s)'
    <3>1. CASE Accepts(op[c], Head(todo[c]))
      <4>1. store' = After(op[c], Head(todo[c]))
        BY <2>2, <3>1 DEF Serve
      <4> QED BY <3>1, <4>1, AcceptedIsAdmitted
    <3>2. CASE ~Accepts(op[c], Head(todo[c]))
      BY <2>1, <2>2, <3>2 DEF Serve
    <3> QED BY <3>1, <3>2
  <2>3. ASSUME NEW m \in late, ServeLate(m[1], m[2]) PROVE \A s \in Subjects : Admitted(s)'
    <3>1. CASE Accepts(m[1], m[2])
      <4>1. store' = After(m[1], m[2])
        BY <2>3, <3>1 DEF ServeLate
      <4> QED BY <3>1, <4>1, AcceptedIsAdmitted
    <3>2. CASE ~Accepts(m[1], m[2])
      BY <2>1, <2>3, <3>2 DEF ServeLate
    <3> QED BY <3>1, <3>2
  <2>4. ASSUME NEW s \in Subjects, Expire(s) \/ Collect(s)
        PROVE  \A t \in Subjects : Admitted(t)'
    BY <2>4, ExpiryIsAdmitted
  <2>5. ASSUME NEW c \in Callers,
               \/ \E o \in {"create", "delete"}, r \in Requests : Begin(c, o, r)
               \/ NextBranch(c) \/ Refused(c) \/ GiveUp(c) \/ Leave(c)
        PROVE  store' = store
    BY <2>5 DEF Begin, NextBranch, Refused, GiveUp, Leave
  <2>6. CASE UNCHANGED vars
    BY <2>1, <2>6 DEF vars
  <2> QED BY <2>1, <2>2, <2>3, <2>4, <2>5, <2>6 DEF Next
<1> QED BY <1>1, <1>2, CallsAreCounted, PTL DEF Spec

\* SpiceDB refuses a batch the schema allows for a relationship it holds, and
\* if that one has expired, another allowed type wrote it.
LEMMA RefusalIsForOthers ==
  ASSUME SchemaInv, NEW m \in Batch, SchemaAllows(m), ~Accepts("create", m)
  PROVE  \E s \in Named(m) :
           \/ store[s].expiry \in {"never", "ahead"}
           \/ store[s].expiry = "past" /\ \E b \in Branches \ {m.at} : Admits(b, s, store[s])
<1>1. PICK s \in Named(m) : store[s] # Absent
  BY DEF Accepts
<1>2. ~AllowedTypes[m.at].expiring
  BY DEF Accepts, Touches
<1>3. s \in Subjects
  BY NamedAreSubjects
<1>4. store[s].expiry \in {"never", "ahead", "past"}
  BY <1>1, <1>3 DEF SchemaInv, CallInv, WritesTypes, Values
<1>5. PICK b \in Branches : Admits(b, s, store[s])
  BY <1>1, <1>3 DEF SchemaInv, Admitted
<1>6. store[s].expiry = "past" => b # m.at
  BY <1>2, <1>5 DEF Admits
<1> QED BY <1>4, <1>5, <1>6

\* A Create that the schema allows is refused only for a relationship that is
\* in force, or for an expired one that another allowed type left: never for
\* the expired grant it renews.
THEOREM ExpiredGrantsAreRenewed == Spec => ExpiredBlocksOnlyOthers
<1> DEFINE Blocked(m) ==
      \E s \in Named(m) :
        \/ store[s].expiry \in {"never", "ahead"}
        \/ store[s].expiry = "past" /\ \E b \in Branches \ {m.at} : Admits(b, s, store[s])
<1>1. ASSUME SchemaInv, [Next]_vars, NEW c \in Callers, op[c] = "create",
             pc[c] = "waiting", reply'[c] = "refused", SchemaAllows(Head(todo[c]))
      PROVE  Blocked(Head(todo[c]))
  <2>1. WritesTypes /\ IsTheRest(c) /\ todo[c] # <<>> /\ reply[c] = "none"
    BY <1>1 DEF SchemaInv, CallInv, Progress, Counted
  <2>2. Head(todo[c]) \in Batch
    BY <2>1, HeadIsNext
  <2>3. Serve(c)
    <3>1. ASSUME NEW d \in Callers, d # c, Serve(d) PROVE FALSE
      BY <3>1, <1>1, <2>1 DEF Serve, WritesTypes
    <3>2. ASSUME NEW d \in Callers,
                 \/ \E o \in {"create", "delete"}, r \in Requests : Begin(d, o, r)
                 \/ NextBranch(d) \/ Refused(d) \/ GiveUp(d) \/ Leave(d)
          PROVE  FALSE
      BY <3>2, <1>1, <2>1 DEF Begin, NextBranch, Refused, GiveUp, Leave, Fail, WritesTypes
    <3>3. CASE \/ \E m \in late : ServeLate(m[1], m[2])
               \/ \E s \in Subjects : Expire(s) \/ Collect(s)
      BY <3>3, <1>1, <2>1 DEF ServeLate, Expire, Collect, calls
    <3>4. CASE UNCHANGED vars
      BY <3>4, <1>1, <2>1 DEF vars, calls
    <3> QED BY <1>1, <3>1, <3>2, <3>3, <3>4 DEF Next
  <2>4. ~Accepts("create", Head(todo[c]))
    BY <1>1, <2>1, <2>3 DEF Serve, WritesTypes
  <2> QED BY <1>1, <2>2, <2>4, RefusalIsForOthers
<1>2. SchemaInv /\ [Next]_vars =>
        [\A c \in Callers : op[c] = "create" /\ pc[c] = "waiting" /\ reply'[c] = "refused" =>
           LET m == Head(todo[c]) IN
           SchemaAllows(m) =>
             \E s \in Named(m) :
               \/ store[s].expiry \in {"never", "ahead"}
               \/ store[s].expiry = "past"
                  /\ \E b \in Branches \ {m.at} : Admits(b, s, store[s])]_vars
  BY <1>1
<1> QED BY <1>2, StoreIsAdmitted, PTL DEF Spec, ExpiredBlocksOnlyOthers
=============================================================================
