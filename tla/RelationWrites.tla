--------------------------- MODULE RelationWrites ---------------------------
(***************************************************************************)
(* The generated Create<Rel>Relations and Delete<Rel>Relations of one      *)
(* relation of one resource (internal/templates/object.go.tmpl), with the  *)
(* engine methods they call (pkg/authz/spicedb/crud.go).                   *)
(*                                                                         *)
(* Each allowed type of the relation is a branch of the generated method   *)
(* and each branch is one WriteRelationships transaction: the method as a  *)
(* whole is not atomic.  The first error ends the call.  An error may mean *)
(* that SpiceDB refused the batch, that it never saw it, that it applied   *)
(* it, or that it is going to.                                             *)
(***************************************************************************)
EXTENDS Integers, Sequences, FiniteSets, SequencesExt

CONSTANTS
  Callers,       \* goroutines that call the generated methods
  AllowedTypes,  \* the relation's allowed types, in schema order
  Ids,           \* object IDs, other than Star
  Star,          \* authz.WildcardID
  Requests,      \* the <Rel>Objects arguments explored
  MaxLost        \* bound: calls whose context ends before SpiceDB answers

Branches == DOMAIN AllowedTypes

\* adapter.go rejects a schema that allows a type twice, unless each time with
\* a caveat of its own: the branches of a relation can be told apart.
Disambiguated ==
  \A a, b \in Branches :
    /\ a # b
    /\ \A f \in {"type", "sub", "wildcard"} : AllowedTypes[a][f] = AllowedTypes[b][f]
    => AllowedTypes[a].caveat \notin {"", AllowedTypes[b].caveat}

ASSUME WritesAssumption ==
  /\ Disambiguated
  /\ Star \notin Ids
  /\ MaxLost \in Nat
  /\ Len(AllowedTypes) \in Nat /\ Branches = 1 .. Len(AllowedTypes)
  /\ \A b \in Branches :
       /\ DOMAIN AllowedTypes[b] = {"type", "sub", "caveat", "expiring", "wildcard"}
       /\ ~(AllowedTypes[b].wildcard /\ AllowedTypes[b].sub # "")
  /\ \A r \in Requests : /\ r.ids \in [Branches -> SUBSET (Ids \cup {Star})]
                         /\ r.star \in SUBSET Branches
                         /\ r.dated \in BOOLEAN

\* A stored relationship is identified by its subject; caveat and expiration
\* are attributes of it.
Subjects ==
  UNION {[type : {AllowedTypes[b].type}, sub : {"", AllowedTypes[b].sub},
          id : Ids \cup {Star}] : b \in Branches}

Caveats == {""} \cup {AllowedTypes[b].caveat : b \in Branches}
Absent  == [caveat |-> "", expiry |-> "absent"]
Values  == {Absent} \cup [caveat : Caveats, expiry : {"never", "ahead", "past"}]

VARIABLES
  store,    \* SpiceDB: subject -> attributes; expired tuples stay until GC
  late,     \* batches whose callers gave up, not yet applied
  lost,     \* number of calls given up, for MaxLost
  pc,       \* "idle", "waiting" for SpiceDB, "answered", "returned"
  op,       \* the call: "none", "create" or "delete"
  request,  \* its argument
  todo,     \* its batches from the one being sent
  reply,    \* SpiceDB's answer to the batch being sent
  result,   \* what it returned: "none", "nil" or "error"
  (* History, read by no guard: *)
  applied,  \* number of batches of the call that SpiceDB applied
  others    \* subjects of those batches that anything else has changed since

calls == <<pc, op, request, todo, reply, result, applied>>
vars  == <<store, late, lost, calls, others>>

-----------------------------------------------------------------------------
(* What the generated methods send.                                        *)

NoRequest == [ids |-> [b \in Branches |-> {}], star |-> {}, dated |-> FALSE]

\* Batches of a call: per allowed type one for the ID list, if it is not empty,
\* then one for the wildcard, if its flag is set.
Batches == [r \in Requests \cup {NoRequest} |->
  FlattenSeq([b \in Branches |->
     (IF r.ids[b] # {} THEN <<[at |-> b, ids |-> r.ids[b], dated |-> r.dated]>> ELSE <<>>)
     \o (IF AllowedTypes[b].wildcard /\ b \in r.star
         THEN <<[at |-> b, ids |-> {Star}, dated |-> r.dated]>> ELSE <<>>)])]

Named(m)  == {[type |-> AllowedTypes[m.at].type, sub |-> AllowedTypes[m.at].sub, id |-> i] :
                i \in m.ids}

\* DeleteRelations sets no Subject.OptionalRelation.
Direct(m) == {[type |-> AllowedTypes[m.at].type, sub |-> "", id |-> i] : i \in m.ids}

\* Mutant: the template asks for a caveat before it asks for an expiration.
Touches_CaveatFirst(m) ==
  AllowedTypes[m.at].sub # "" \/ (AllowedTypes[m.at].expiring /\ AllowedTypes[m.at].caveat = "")

\* CreateRelationsWithExpiration and CreateRelationsToUserset send
\* OPERATION_TOUCH, CreateRelations and CreateRelationsWithCaveat
\* OPERATION_CREATE.
Touches(m) == AllowedTypes[m.at].expiring \/ AllowedTypes[m.at].sub # ""

\* Mutant: the branch of a caveated type does not read Expirations.
Value_Undated(m) ==
  LET type == AllowedTypes[m.at]
  IN  [caveat |-> type.caveat,
       expiry |-> IF ~type.expiring THEN "never"
                  ELSE IF m.dated /\ type.caveat = "" THEN "ahead"
                  ELSE IF type.sub = "" THEN "past" ELSE "never"]

\* Attributes a Create writes.  Without an entry in Expirations the expiration is
\* the zero time: long past for WithExpiration, none at all for ToUserset.
Value(m) ==
  LET type == AllowedTypes[m.at]
  IN  [caveat |-> type.caveat,
       expiry |-> IF ~type.expiring THEN "never"
                  ELSE IF m.dated THEN "ahead"
                  ELSE IF type.sub = "" THEN "past" ELSE "never"]

-----------------------------------------------------------------------------
(* What SpiceDB makes of a batch.                                          *)

\* An allowed type admits a subject of its kind, with its caveat and with an
\* expiration if it asks for one; a wildcard only where the relation says T:*.
Admits(b, s, v) ==
  LET type == AllowedTypes[b]
  IN  /\ type.type = s.type /\ type.sub = s.sub /\ (type.wildcard <=> s.id = Star)
      /\ type.caveat = v.caveat /\ (type.expiring <=> v.expiry # "never")

SchemaAllows(m) == \A s \in Named(m) : \E b \in Branches : Admits(b, s, Value(m))

\* What a deletion names must be a subject of some allowed type; caveat and
\* expiration do not matter.
SchemaKnows(s) ==
  \E b \in Branches : /\ AllowedTypes[b].type = s.type /\ AllowedTypes[b].sub = s.sub
                      /\ AllowedTypes[b].wildcard <=> s.id = Star

Accepts(o, m) ==
  IF o = "delete" THEN \A s \in Direct(m) : SchemaKnows(s)
  ELSE SchemaAllows(m) /\ (Touches(m) \/ \A s \in Named(m) : store[s] = Absent)

\* Mutant: the wildcard branch of Delete is not generated.
After_KeepsStar(o, m) ==
  IF o = "create" THEN [s \in Subjects |-> IF s \in Named(m) THEN Value(m) ELSE store[s]]
  ELSE [s \in Subjects |-> IF s \in Direct(m) /\ s.id # Star THEN Absent ELSE store[s]]

\* The store once batch m of an o call has been applied.
After(o, m) ==
  IF o = "create" THEN [s \in Subjects |-> IF s \in Named(m) THEN Value(m) ELSE store[s]]
  ELSE [s \in Subjects |-> IF s \in Direct(m) THEN Absent ELSE store[s]]

Changed == {s \in Subjects : store'[s] # store[s]}

\* Subjects of the first n batches of a call.
Done(r, n) == UNION {Named(Batches[r][i]) : i \in 1 .. n}

\* Everyone but c sees the step as somebody else's; c has the last word on the
\* subjects of the batch that is applied for it.
Noted(c) ==
  others' = [d \in Callers |->
               IF d = c THEN others[d] \ Named(Head(todo[d]))
               ELSE others[d] \cup (Changed \cap Done(request[d], applied[d]))]

NotedByAll ==
  others' = [d \in Callers |->
               others[d] \cup (Changed \cap Done(request[d], applied[d]))]

-----------------------------------------------------------------------------
Init ==
  /\ store = [s \in Subjects |-> Absent]
  /\ late = {} /\ lost = 0
  /\ pc = [c \in Callers |-> "idle"]
  /\ op = [c \in Callers |-> "none"]
  /\ request = [c \in Callers |-> NoRequest]
  /\ todo = [c \in Callers |-> <<>>]
  /\ reply = [c \in Callers |-> "none"]
  /\ result = [c \in Callers |-> "none"]
  /\ applied = [c \in Callers |-> 0]
  /\ others = [c \in Callers |-> {}]

\* A call with nothing to send returns nil without an RPC.
Begin(c, o, r) ==
  /\ pc[c] = "idle"
  /\ op' = [op EXCEPT ![c] = o]
  /\ request' = [request EXCEPT ![c] = r]
  /\ todo' = [todo EXCEPT ![c] = Batches[r]]
  /\ pc' = [pc EXCEPT ![c] = IF Batches[r] = <<>> THEN "returned" ELSE "waiting"]
  /\ result' = [result EXCEPT ![c] = IF Batches[r] = <<>> THEN "nil" ELSE "none"]
  /\ UNCHANGED <<store, late, lost, reply, applied, others>>

\* SpiceDB runs the batch as one transaction, or refuses it.
Serve(c) ==
  /\ pc[c] = "waiting"
  /\ LET m == Head(todo[c])
     IN  IF Accepts(op[c], m)
         THEN /\ store' = After(op[c], m)
              /\ reply' = [reply EXCEPT ![c] = "ok"]
              /\ applied' = [applied EXCEPT ![c] = @ + 1]
              /\ Noted(c)
         ELSE /\ reply' = [reply EXCEPT ![c] = "refused"]
              /\ UNCHANGED <<store, applied, others>>
  /\ pc' = [pc EXCEPT ![c] = "answered"]
  /\ UNCHANGED <<late, lost, op, request, todo, result>>

\* Mutant: a branch that fails does not end the call.
NextBranch_GoesOn(c) ==
  /\ pc[c] = "answered"
  /\ todo' = [todo EXCEPT ![c] = Tail(@)]
  /\ pc' = [pc EXCEPT ![c] = IF Len(todo[c]) = 1 THEN "returned" ELSE "waiting"]
  /\ result' = [result EXCEPT ![c] = IF Len(todo[c]) = 1 THEN "nil" ELSE "none"]
  /\ reply' = [reply EXCEPT ![c] = "none"]
  /\ UNCHANGED <<store, late, lost, op, request, applied, others>>

\* Mutant: drops a branch from the wrong end.
NextBranch_Front(c) ==
  /\ pc[c] = "answered" /\ reply[c] = "ok"
  /\ todo' = [todo EXCEPT ![c] = Front(@)]
  /\ pc' = [pc EXCEPT ![c] = IF Len(todo[c]) = 1 THEN "returned" ELSE "waiting"]
  /\ result' = [result EXCEPT ![c] = IF Len(todo[c]) = 1 THEN "nil" ELSE "none"]
  /\ reply' = [reply EXCEPT ![c] = "none"]
  /\ UNCHANGED <<store, late, lost, op, request, applied, others>>

\* The answer was nil: on to the next branch that has something to send.
NextBranch(c) ==
  /\ pc[c] = "answered" /\ reply[c] = "ok"
  /\ todo' = [todo EXCEPT ![c] = Tail(@)]
  /\ pc' = [pc EXCEPT ![c] = IF Len(todo[c]) = 1 THEN "returned" ELSE "waiting"]
  /\ result' = [result EXCEPT ![c] = IF Len(todo[c]) = 1 THEN "nil" ELSE "none"]
  /\ reply' = [reply EXCEPT ![c] = "none"]
  /\ UNCHANGED <<store, late, lost, op, request, applied, others>>

Fail(c) ==
  /\ pc' = [pc EXCEPT ![c] = "returned"]
  /\ result' = [result EXCEPT ![c] = "error"]
  /\ reply' = [reply EXCEPT ![c] = "none"]

\* if err != nil { return err }
Refused(c) ==
  /\ pc[c] = "answered" /\ reply[c] = "refused"
  /\ Fail(c)
  /\ UNCHANGED <<store, late, lost, op, request, todo, applied, others>>

\* The caller's context ends first.  The batch may still be on its way.
GiveUp(c) ==
  /\ pc[c] \in {"waiting", "answered"}
  /\ lost < MaxLost
  /\ lost' = lost + 1
  /\ late' = IF pc[c] = "waiting" THEN late \cup {<<op[c], Head(todo[c])>>} ELSE late
  /\ Fail(c)
  /\ UNCHANGED <<store, op, request, todo, applied, others>>

\* The caller has looked at what the call returned.
Leave(c) ==
  /\ pc[c] = "returned"
  /\ pc' = [pc EXCEPT ![c] = "idle"]
  /\ op' = [op EXCEPT ![c] = "none"]
  /\ request' = [request EXCEPT ![c] = NoRequest]
  /\ todo' = [todo EXCEPT ![c] = <<>>]
  /\ result' = [result EXCEPT ![c] = "none"]
  /\ applied' = [applied EXCEPT ![c] = 0]
  /\ others' = [others EXCEPT ![c] = {}]
  /\ UNCHANGED <<store, late, lost, reply>>

\* A batch its caller gave up on reaches SpiceDB after all.
ServeLate(o, m) ==
  /\ <<o, m>> \in late
  /\ late' = late \ {<<o, m>>}
  /\ store' = IF Accepts(o, m) THEN After(o, m) ELSE store
  /\ NotedByAll
  /\ UNCHANGED <<lost, calls>>

Expire(s) ==
  /\ store[s].expiry = "ahead"
  /\ store' = [store EXCEPT ![s] = [caveat |-> @.caveat, expiry |-> "past"]]
  /\ NotedByAll
  /\ UNCHANGED <<late, lost, calls>>

\* SpiceDB garbage-collects expired relationships some time later.
Collect(s) ==
  /\ store[s].expiry = "past"
  /\ store' = [store EXCEPT ![s] = Absent]
  /\ NotedByAll
  /\ UNCHANGED <<late, lost, calls>>

Next ==
  \/ \E c \in Callers :
       \/ \E o \in {"create", "delete"}, r \in Requests : Begin(c, o, r)
       \/ Serve(c) \/ NextBranch(c) \/ Refused(c) \/ GiveUp(c) \/ Leave(c)
  \/ \E m \in late : ServeLate(m[1], m[2])
  \/ \E s \in Subjects : Expire(s) \/ Collect(s)

Spec == Init /\ [][Next]_vars

-----------------------------------------------------------------------------
(* Properties.                                                             *)

TypeOK ==
  /\ store \in [Subjects -> Values]
  /\ \A m \in late : m[1] \in {"create", "delete"} /\ m[2].at \in Branches
  /\ lost \in 0 .. MaxLost
  /\ pc \in [Callers -> {"idle", "waiting", "answered", "returned"}]
  /\ op \in [Callers -> {"none", "create", "delete"}]
  /\ request \in [Callers -> Requests \cup {NoRequest}]
  /\ \A c \in Callers : IsSuffix(todo[c], Batches[request[c]])
  /\ reply \in [Callers -> {"none", "ok", "refused"}]
  /\ result \in [Callers -> {"none", "nil", "error"}]
  /\ \A c \in Callers : applied[c] \in 0 .. Len(Batches[request[c]])
  /\ others \in [Callers -> SUBSET Subjects]

Returned(c, o, res) == pc[c] = "returned" /\ op[c] = o /\ result[c] = res
Sent(c)             == ToSet(Batches[request[c]])

\* A Create that returned nil, and was given an expiration for its expiring
\* types, has granted every subject it names with the attributes of the last
\* branch that names it, until somebody else changes that subject.
CreatedIsGranted ==
  \A c \in Callers : Returned(c, "create", "nil") /\ request[c].dated =>
    \A m \in Sent(c) : \A s \in Named(m) \ others[c] :
      \E n \in Sent(c) :
        /\ s \in Named(n) /\ store[s] = Value(n)
        /\ store[s].expiry # "past" /\ store[s].caveat = AllowedTypes[n.at].caveat
        /\ \A k \in Sent(c) : s \in Named(k) => k.at <= n.at

\* A Delete that returned nil has revoked every direct subject it names, until
\* somebody else grants it again.
DirectDeleteRevokes ==
  \A c \in Callers : Returned(c, "delete", "nil") =>
    \A m \in Sent(c) : AllowedTypes[m.at].sub = "" =>
      \A s \in Named(m) \ others[c] : store[s] = Absent

\* A call that returned an error has not gone past the branch that failed:
\* what SpiceDB applied of it is the batches before that one, or those and it.
FailureLeavesAPrefix ==
  \A c \in Callers : result[c] = "error" =>
    Len(Batches[request[c]]) - applied[c] - Len(todo[c]) \in {0, -1}

\* A Create that the schema allows is refused only for a relationship that is
\* in force, or for an expired one that SpiceDB still keeps and that another
\* allowed type of the relation left: never for the expired grant it renews
\* (crud.go:97-99).
ExpiredBlocksOnlyOthers ==
  [][\A c \in Callers : op[c] = "create" /\ pc[c] = "waiting" /\ reply'[c] = "refused" =>
       LET m == Head(todo[c]) IN
       SchemaAllows(m) =>
         \E s \in Named(m) :
           \/ store[s].expiry \in {"never", "ahead"}
           \/ store[s].expiry = "past" /\ \E b \in Branches \ {m.at} : Admits(b, s, store[s])
    ]_vars

\* README.md, Relationship Cleanup: Delete<Rel>Relations revokes the specific
\* grants whose subjects it is given; a userset is one of those.
DeleteRevokes ==
  \A c \in Callers : Returned(c, "delete", "nil") =>
    \A m \in Sent(c), s \in Subjects : s \in Named(m) \ others[c] => store[s] = Absent
=============================================================================
