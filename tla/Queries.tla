------------------------------ MODULE Queries ------------------------------
(***************************************************************************)
(* internal/templates/object.go.tmpl and opa.go.tmpl over                  *)
(* pkg/authz/spicedb/crud.go: how a generated read method turns one call   *)
(* into engine calls, RPCs and streams, and their answers into one result, *)
(* while others write.                                                     *)
(*                                                                         *)
(* SpiceDB is a history of stores, one per revision; a store says what each *)
(* subject has on each resource; for a read, which rows the relation has,  *)
(* "cond" being a row whose caveat asks for more context.  A slot is an    *)
(* input field of a Check method: a subject type, or a userset such as     *)
(* team#member.                                                            *)
(***************************************************************************)
EXTENDS Integers, Sequences, SequencesExt

CONSTANTS
  Types,      \* slots of subject types, in the order of the permission tree
  Sorted,     \* the same slots, in the order of their namespaces
  Usersets,   \* slots of usersets
  TypeOf,     \* subject type of each slot
  Relation,   \* allowed types of the relation that is read, in schema order
  IDs,        \* subject IDs, Star among them
  Star,       \* authz.WildcardID
  Resources,
  Stores,     \* bound: the contents SpiceDB may have
  Calls,      \* bound: the calls made
  MaxRev      \* bound: commits

TypeSlots == {Types[k] : k \in DOMAIN Types}
Slots     == TypeSlots \cup {Usersets[k] : k \in DOMAIN Usersets}
Perms     == {"no", "cond", "has"}
Contexts  == {"none", "right", "wrong"}  \* caveat context sent with the call
Revs      == 0 .. MaxRev

Checks     == {"Check", "OPACheck"}
Lookups    == {"Lookup", "OPALookup"}
Subjects   == {"LookupSubjects", "WildcardSubjects"}
Reads      == {"Read", "ReadWildcard"}
Ops        == Checks \cup Lookups \cup Subjects \cup Reads

\* The allowed types of the relation that uniqueByNamespace keeps: the first of
\* each subject type.
Unique == {k \in DOMAIN Relation :
             \A j \in 1 .. k - 1 : TypeOf[Relation[j].slot] # TypeOf[Relation[k].slot]}

\* Subject types with a Read<Rel><Type>Relations method, and those of them with
\* a Read<Rel><Type>Wildcard method: where the kept entry is the wildcard.
ReadTypes     == {TypeOf[Relation[k].slot] : k \in Unique}
WildcardTypes == {TypeOf[Relation[k].slot] : k \in {j \in Unique : Relation[j].star}}

\* input[s]: the list given for slot s; a slot outside DOMAIN input is not
\* given (a nil field of the input, a key missing from the OPA object).  The
\* methods for one type have it in their name: a slot of that type stands for it.
IsCall(c) ==
  /\ c.op \in Ops /\ c.on \in Resources
  /\ c.ctx \in Contexts /\ c.full \in BOOLEAN
  /\ DOMAIN c.input \subseteq Slots
  /\ \A s \in DOMAIN c.input : c.input[s] \subseteq IDs \ {Star}
  /\ c.op \in {"OPACheck", "OPALookup"} => DOMAIN c.input \subseteq TypeSlots
  /\ c.op \in Subjects => \E s \in TypeSlots : DOMAIN c.input = {s}
  /\ c.op \in Reads =>
       \E s \in Slots :
         /\ DOMAIN c.input = {s}
         /\ TypeOf[s] \in IF c.op = "Read" THEN ReadTypes ELSE WildcardTypes
  /\ c.op \in Reads \cup {"WildcardSubjects"} => c.ctx = "none"

ASSUME QueriesAssumption ==
  /\ Types \in Seq(TypeSlots) /\ Sorted \in Seq(TypeSlots) /\ Usersets \in Seq(Slots)
  /\ TypeSlots = {Sorted[k] : k \in DOMAIN Sorted} /\ Len(Sorted) = Len(Types)
  /\ DOMAIN TypeOf = Slots /\ Relation \in Seq([slot : Slots, star : BOOLEAN])
  /\ Star \in IDs
  /\ Stores \subseteq [Slots -> [IDs -> [Resources -> Perms]]]
  /\ \A c \in Calls : IsCall(c)
  /\ MaxRev \in Nat

VARIABLES
  history,   \* SpiceDB: the store of every revision
  token,     \* revision the engine's cache pins to, -1 while it holds none
  pc,        \* where the call is
  call,      \* its arguments
  start,     \* history: newest revision when it began
  queue,     \* slots still to be asked for, the current one first
  mode, pin, \* consistency of the current engine call
  ids,       \* IDs of the current engine call not yet sent
  rows,      \* rows of the open stream not yet received
  definite, conditional,  \* what the call has collected
  result

server == <<history, token>>
vars   == <<server, pc, call, start, queue, mode, pin, ids, rows,
            definite, conditional, result>>

head    == Len(history) - 1
NoCall  == [op |-> "none", on |-> Star, input |-> <<>>, ctx |-> "none", full |-> FALSE]
\* What a call collects: resources, subjects, or rows of a relation, each a slot
\* (subject type and sub-relation) and a subject ID.
Found(op) ==
  CASE op \in Lookups -> Resources [] op \in Reads -> Slots \X IDs [] OTHER -> IDs

Results == {"none", "granted", "denied", "conditional", "noinput", "listed", "failed"}

TypeOK ==
  /\ history \in Seq([Slots -> [IDs -> [Resources -> Perms]]]) /\ head \in Revs
  /\ token \in {-1} \cup 0 .. head
  /\ pc \in {"idle", "snapshot", "ask", "stream", "done"}
  /\ call \in Calls \cup {NoCall} /\ (call = NoCall <=> pc = "idle")
  /\ start \in 0 .. head
  /\ queue \in Seq(Slots)
  /\ pc \in {"snapshot", "ask", "stream"} => queue # <<>>
  /\ mode \in {"none", "full", "exact", "minlat"} /\ pin \in {-1} \cup Revs
  /\ ids \subseteq IDs
  /\ rows \subseteq Found(call.op) \X {"has", "cond"}
  /\ rows # {} => pc = "stream"
  /\ definite \subseteq Found(call.op) /\ conditional \subseteq Found(call.op)
  /\ result \in Results /\ (result = "none" <=> pc # "done")

-----------------------------------------------------------------------------
(* What a call asks for.                                                   *)

Given(input, s) == IF s \in DOMAIN input THEN input[s] ELSE {}

\* Those of a sequence of slots that are in S.
Select(order, S) ==
  FlattenSeq([k \in DOMAIN order |-> IF order[k] \in S THEN <<order[k]>> ELSE <<>>])

\* len(input.<Type>) > 0, slot after slot.
Filled(input, order) == Select(order, {s \in DOMAIN input : input[s] # {}})

\* subjectEntries: the keys of the OPA subject object, empty lists included.
Present(input) == Select(Sorted, DOMAIN input)

First(seq) == IF seq = <<>> THEN <<>> ELSE <<Head(seq)>>

\* Mutant: the OPA check asks for the first key only, as the lookup does.
Plan_FirstKey(c) ==
  CASE c.op = "Check"     -> Filled(c.input, Types \o Usersets)
    [] c.op = "Lookup"    -> First(Filled(c.input, Types))
    [] c.op \in {"OPACheck", "OPALookup"} -> First(Present(c.input))
    [] OTHER -> Select(Types \o Usersets, DOMAIN c.input)

\* The slots a call makes engine calls for: one each for a check, the first
\* one only for a lookup; the type in its name for the other methods.
Plan(c) ==
  CASE c.op = "Check"     -> Filled(c.input, Types \o Usersets)
    [] c.op = "OPACheck"  -> Present(c.input)
    [] c.op = "Lookup"    -> First(Filled(c.input, Types))
    [] c.op = "OPALookup" -> First(Present(c.input))
    [] OTHER -> Select(Types \o Usersets, DOMAIN c.input)

\* The result of a call with nothing to ask for.
NothingGiven(op) ==
  CASE op = "Check" -> "noinput" [] op = "OPACheck" -> "denied" [] OTHER -> "listed"

\* What SpiceDB answers at revision r, given the call's caveat context.
Answer(c, r, s, i, d) ==
  LET p == history[r + 1][s][i][d]
  IN  IF p # "cond" THEN p
      ELSE CASE c.ctx = "none" -> "cond" [] c.ctx = "right" -> "has" [] OTHER -> "no"

Rank(p) == CASE p = "no" -> 0 [] p = "cond" -> 1 [] OTHER -> 2

-----------------------------------------------------------------------------
Init ==
  /\ history \in {<<st>> : st \in Stores}
  /\ token = -1
  /\ pc = "idle" /\ call = NoCall /\ start = 0
  /\ queue = <<>> /\ mode = "none" /\ pin = -1
  /\ ids = {} /\ rows = {}
  /\ definite = {} /\ conditional = {} /\ result = "none"

Begin(c) ==
  /\ pc = "idle"
  /\ call' = c /\ start' = head
  /\ queue' = Plan(c)
  /\ IF Plan(c) = <<>>
     THEN pc' = "done" /\ result' = NothingGiven(c.op)
     ELSE pc' = "snapshot" /\ UNCHANGED result
  /\ UNCHANGED <<server, mode, pin, ids, rows, definite, conditional>>

\* Mutant: only the first engine call of the method honours the override.
Snapshot_OverrideOnce ==
  /\ pc = "snapshot"
  /\ IF call.full /\ queue = Plan(call) THEN mode' = "full" /\ pin' = -1
     ELSE \/ mode' = "minlat" /\ pin' = -1
          \/ token # -1 /\ mode' = "exact" /\ pin' = token
  /\ ids' = Given(call.input, Head(queue))
  /\ pc' = "ask"
  /\ UNCHANGED <<server, call, start, queue, rows, definite, conditional, result>>

\* An engine call begins: module Engine says which consistency it gets.
Snapshot ==
  /\ pc = "snapshot"
  /\ IF call.full THEN mode' = "full" /\ pin' = -1
     ELSE \/ mode' = "minlat" /\ pin' = -1
          \/ token # -1 /\ mode' = "exact" /\ pin' = token
  /\ ids' = Given(call.input, Head(queue))
  /\ pc' = "ask"
  /\ UNCHANGED <<server, call, start, queue, rows, definite, conditional, result>>

EvalRevs == CASE mode = "full"  -> {head}
              [] mode = "exact" -> {pin}
              [] OTHER -> 0 .. head

Finish(r) == pc' = "done" /\ result' = r

\* Mutant: a conditional answer is reported as a denial.
Verdict_Denies(op, p) == "denied"

\* errorIfDenied, and checkOneGranted for the builtin: an answer that is not
\* HAS_PERMISSION ends the check.
Verdict(op, p) == IF p = "cond" /\ op = "Check" THEN "conditional" ELSE "denied"

\* One RPC of CheckPermission, CheckPermissionWithCaveat or
\* CheckPermissionUserset.
CheckID ==
  /\ pc = "ask" /\ call.op \in Checks
  /\ \E i \in ids, r \in EvalRevs :
       LET p == Answer(call, r, Head(queue), i, call.on) IN
       IF p = "has" THEN ids' = ids \ {i} /\ UNCHANGED <<pc, result>>
       ELSE Finish(Verdict(call.op, p)) /\ UNCHANGED ids
  /\ UNCHANGED <<server, call, start, queue, mode, pin, rows, definite, conditional>>

\* Mutant: the method does not notice that it has asked for the last slot.
NextSlot_Past ==
  /\ pc = "ask" /\ call.op \in Checks /\ ids = {}
  /\ queue' = Tail(queue)
  /\ pc' = "snapshot" /\ UNCHANGED result
  /\ UNCHANGED <<server, call, start, mode, pin, ids, rows, definite, conditional>>

\* All IDs of a slot were granted: the next slot, or true.
NextSlot ==
  /\ pc = "ask" /\ call.op \in Checks /\ ids = {}
  /\ queue' = Tail(queue)
  /\ IF Tail(queue) = <<>> THEN Finish("granted")
     ELSE pc' = "snapshot" /\ UNCHANGED result
  /\ UNCHANGED <<server, call, start, mode, pin, ids, rows, definite, conditional>>

\* LookupResources for one ID: a stream over the resources it has.
OpenResources ==
  /\ pc = "ask" /\ call.op \in Lookups
  /\ \E i \in ids, r \in EvalRevs :
       /\ ids' = ids \ {i}
       /\ rows' = {<<d, Answer(call, r, Head(queue), i, d)>> :
                     d \in {e \in Resources : Answer(call, r, Head(queue), i, e) # "no"}}
  /\ pc' = "stream"
  /\ UNCHANGED <<server, call, start, queue, mode, pin, definite, conditional, result>>

\* LookupSubjects: a stream over the subjects of the type that have the
\* permission.  It need not list one that the wildcard covers.  Subjects whose
\* own answer is less than the wildcard's are the ExcludedSubjects of its row,
\* which the engine does not read.
OpenSubjects ==
  /\ pc = "ask" /\ call.op \in Subjects
  /\ \E r \in EvalRevs :
       LET Has(i) == Answer(call, r, Head(queue), i, call.on)
           Some   == {i \in IDs : Has(i) # "no"}
           Needed == {i \in Some : i = Star \/ Rank(Has(i)) > Rank(Has(Star))}
       IN  \E extra \in SUBSET (Some \ Needed) :
             rows' = {<<i, Has(i)>> : i \in Needed \cup extra}
  /\ pc' = "stream"
  /\ UNCHANGED <<server, call, start, queue, mode, pin, ids, definite, conditional, result>>

\* ReadRelations: a stream over the relation's rows with a subject of that type,
\* whatever their sub-relation: the filter names none.
OpenRows ==
  /\ pc = "ask" /\ call.op \in Reads
  /\ \E r \in EvalRevs :
       LET Row(x)  == history[r + 1][x[1]][x[2]][call.on]
           OfType  == {t \in Slots : TypeOf[t] = TypeOf[Head(queue)]}
           Matches == {x \in OfType \X IDs : Row(x) # "no"}
       IN  rows' = {<<x, Row(x)>> : x \in Matches}
  /\ pc' = "stream"
  /\ UNCHANGED <<server, call, start, queue, mode, pin, ids, definite, conditional, result>>

\* Recv returns a row of a lookup: its permissionship decides between the lists.
Recv(x) ==
  /\ pc = "stream" /\ call.op \notin Reads /\ x \in rows
  /\ rows' = rows \ {x}
  /\ IF x[2] = "has"
     THEN definite' = definite \cup {x[1]} /\ UNCHANGED conditional
     ELSE conditional' = conditional \cup {x[1]} /\ UNCHANGED definite
  /\ UNCHANGED <<server, pc, call, start, queue, mode, pin, ids, result>>

\* Mutant: a read drops the rows whose caveat is not satisfied.
RecvRow_DropsCaveated(x) ==
  /\ pc = "stream" /\ call.op \in Reads /\ x \in rows
  /\ rows' = rows \ {x}
  /\ definite' = IF x[2] = "has" THEN definite \cup {x[1]} ELSE definite
  /\ UNCHANGED <<server, pc, call, start, queue, mode, pin, ids, conditional, result>>

\* Recv returns a row of a read, kept whatever its caveat.
RecvRow(x) ==
  /\ pc = "stream" /\ call.op \in Reads /\ x \in rows
  /\ rows' = rows \ {x}
  /\ definite' = definite \cup {x[1]}
  /\ UNCHANGED <<server, pc, call, start, queue, mode, pin, ids, conditional, result>>

\* The entries with the wildcard as ID.
Stars(op) == IF op \in Reads THEN Slots \X {Star} ELSE {Star}

\* HasPublicSubject and Read<Rel><Type>Wildcard: is the wildcard in the list?
StarFound(op) ==
  /\ Finish(IF definite \cap Stars(op) # {} THEN "granted" ELSE "denied")
  /\ definite' = {} /\ conditional' = {}

\* Mutant: the wildcard is handed out as if it were a subject.
Concrete_KeepsStar(op) == Finish("listed") /\ UNCHANGED <<definite, conditional>>

\* The wildcard is left out of reads and of the definite subjects of a lookup
\* (FromIDsExcludingWildcard); conditional entries keep it.
Concrete(op) ==
  Finish("listed") /\ definite' = definite \ Stars(op) /\ UNCHANGED conditional

\* The OPA lookup drops conditional entries.
DefiniteOnly == Finish("listed") /\ conditional' = {} /\ UNCHANGED definite

\* From the collected lists to the result of the generated method.
Project(op) ==
  CASE op \in {"WildcardSubjects", "ReadWildcard"} -> StarFound(op)
    [] op \in {"LookupSubjects", "Read"} -> Concrete(op)
    [] op = "OPALookup" -> DefiniteOnly
    [] OTHER -> Finish("listed") /\ UNCHANGED <<definite, conditional>>

\* io.EOF: the next ID of a lookup, or the result.
EndOfStream ==
  /\ pc = "stream" /\ rows = {}
  /\ IF call.op \in Lookups
     THEN pc' = "ask" /\ UNCHANGED <<definite, conditional, result>>
     ELSE Project(call.op)
  /\ UNCHANGED <<server, call, start, queue, mode, pin, ids, rows>>

Listed ==
  /\ pc = "ask" /\ call.op \in Lookups /\ ids = {}
  /\ Project(call.op)
  /\ UNCHANGED <<server, call, start, queue, mode, pin, ids, rows>>

\* Mutant: a broken stream is taken for the end of the list.
Fails_Partial ==
  /\ pc \in {"ask", "stream"} /\ (pc = "ask" /\ call.op \in Checks \cup Lookups => ids # {})
  /\ Finish(IF pc = "ask" THEN "failed" ELSE "listed")
  /\ rows' = {}
  /\ UNCHANGED <<server, call, start, queue, mode, pin, ids, definite, conditional>>

\* An RPC fails, or a stream breaks half-way: an error and an empty result.
Fails ==
  /\ pc \in {"ask", "stream"} /\ (pc = "ask" /\ call.op \in Checks \cup Lookups => ids # {})
  /\ Finish("failed")
  /\ rows' = {} /\ definite' = {} /\ conditional' = {}
  /\ UNCHANGED <<server, call, start, queue, mode, pin, ids>>

Return ==
  /\ pc = "done"
  /\ pc' = "idle" /\ call' = NoCall /\ start' = 0
  /\ queue' = <<>> /\ mode' = "none" /\ pin' = -1
  /\ ids' = {} /\ definite' = {} /\ conditional' = {} /\ result' = "none"
  /\ UNCHANGED <<server, rows>>

-----------------------------------------------------------------------------
\* Somebody's write commits.
Commit(st) ==
  /\ head < MaxRev
  /\ history' = Append(history, st)
  /\ UNCHANGED <<token, pc, call, start, queue, mode, pin, ids, rows,
                 definite, conditional, result>>

\* Another goroutine's write on the same engine returns; tokens may arrive
\* out of order.
SetToken(r) ==
  /\ token' = r
  /\ UNCHANGED <<history, pc, call, start, queue, mode, pin, ids, rows,
                 definite, conditional, result>>

Next ==
  \/ \E c \in Calls : Begin(c)
  \/ Snapshot \/ CheckID \/ NextSlot
  \/ OpenResources \/ OpenSubjects \/ OpenRows
  \/ \E x \in rows : Recv(x) \/ RecvRow(x)
  \/ EndOfStream \/ Listed \/ Fails \/ Return
  \/ \E st \in Stores : Commit(st)
  \/ \E r \in 1 .. head : SetToken(r)

Spec == Init /\ [][Next]_vars

-----------------------------------------------------------------------------
(* Properties.                                                             *)

\* Revisions an answer may be from: under ConsistencyFullyConsistent none
\* older than the call.
Fresh == (IF call.full THEN start ELSE 0) .. head

Done(ops) == pc = "done" /\ call.op \in ops

Gives(p, s, i, d) == \E r \in Fresh : Answer(call, r, s, i, d) = p
Keeps(p, s, i, d) == \A r \in Fresh : Answer(call, r, s, i, d) = p

\* A check says yes only if every ID of every slot it was given really had the
\* permission, at a revision the override of the caller allows: no slot is
\* forgotten, and the override reaches every engine call of the method.
GrantedIsTrue ==
  Done(Checks) /\ result = "granted" =>
    \A s \in DOMAIN call.input : \A i \in call.input[s] : Gives("has", s, i, call.on)

\* A check says no only if some ID it was given had no permission, and says
\* "conditional" only if one would have it with more caveat context: outages
\* and conditional answers are told from denials.
DeniedIsTrue ==
  Done(Checks) /\ DOMAIN call.input # {} =>
    /\ result = "conditional" =>
         \E s \in DOMAIN call.input : \E i \in call.input[s] : Gives("cond", s, i, call.on)
    /\ result = "denied" =>
         \E s \in DOMAIN call.input : \E i \in call.input[s] :
            \/ Gives("no", s, i, call.on)
            \/ call.op = "OPACheck" /\ Gives("cond", s, i, call.on)

NoEmptyList == \A s \in DOMAIN call.input : call.input[s] # {}

\* A lookup that returns no error lists only resources a given ID has, and for
\* one given type all the resources its IDs have: a stream that breaks never
\* passes for a short list.
LookupIsExact ==
  Done(Lookups) /\ result = "listed" =>
    /\ \A d \in definite : \E s \in DOMAIN call.input :
         \E i \in call.input[s] : Gives("has", s, i, d)
    /\ NoEmptyList /\ DOMAIN call.input \cap TypeSlots # {} =>
         \E s \in DOMAIN call.input \cap TypeSlots :
           \A i \in call.input[s], d \in Resources : Keeps("has", s, i, d) => d \in definite

\* Lookup<Perm><Type>WildcardSubjects says yes at revision r: it sends no context.
Public(r, s) == history[r + 1][s][Star][call.on] = "has"

\* A caveated wildcard that the context of this call satisfies: taken out of its
\* list, and conditional for the method that has no context.
Hidden(r, s) == call.ctx = "right" /\ history[r + 1][s][Star][call.on] = "cond"

\* Lookup<Perm><Type>Subjects and Lookup<Perm><Type>WildcardSubjects together tell
\* of everyone, at one revision: the lists name only concrete holders, and
\* conditional ones with the wildcard among them; a holder left out of them is
\* one the wildcard stands for, and then the other method says so.  The exception
\* is a wildcard hidden from both.
SubjectsAreCovered ==
  Done(Subjects) /\ result # "failed" =>
    \A s \in DOMAIN call.input : \E r \in Fresh :
      LET With(p) == {i \in IDs : Answer(call, r, s, i, call.on) = p} IN
      IF call.op = "WildcardSubjects" THEN result = "granted" <=> Public(r, s)
      ELSE /\ definite \subseteq With("has") \ {Star} /\ conditional \subseteq With("cond")
           /\ Public(r, s) \/ Hidden(r, s) \/
                /\ With("has") \subseteq definite
                /\ With("cond") \subseteq conditional \/ Star \in conditional

\* pkg/authz/authz.go, on what the generated methods leave out of their lists:
\* "the wildcard state is exposed through the sibling Read<Rel><Type>Wildcard /
\* Lookup<Perm><Type>WildcardSubjects methods".  Somebody who has the permission
\* as everyone of the type has it is in the list, or WildcardSubjects says yes.
WildcardIsExposed ==
  Done({"LookupSubjects"}) /\ result = "listed" =>
    \A s \in DOMAIN call.input : \A i \in IDs \ {Star} :
      (\A r \in Fresh : history[r + 1][s][i][call.on] = history[r + 1][s][Star][call.on])
        /\ Keeps("has", s, i, call.on) =>
      i \in definite \/ \E r \in Fresh : Public(r, s)

\* Read<Rel><Type>Relations returns every row of one revision with a subject of
\* its type but the wildcard's, usersets and caveated ones included;
\* Read<Rel><Type>Wildcard, where there is one, whether the wildcard has a row.
ReadsAreWhole ==
  Done(Reads) /\ result # "failed" =>
    \A s \in DOMAIN call.input : \E r \in Fresh :
      LET Row(t, i) == TypeOf[t] = TypeOf[s] /\ history[r + 1][t][i][call.on] # "no" IN
      IF call.op = "Read"
      THEN definite = {x \in Slots \X (IDs \ {Star}) : Row(x[1], x[2])}
      ELSE result = "granted" <=> \E t \in Slots : Row(t, Star)

\* What the typed methods answer on a store nobody writes to.
TypedGrants ==
  LET asked == Filled(call.input, Types \o Usersets) IN
  /\ asked # <<>>
  /\ \A k \in DOMAIN asked : \A i \in call.input[asked[k]] :
       Answer(call, 0, asked[k], i, call.on) = "has"

TypedList ==
  LET asked == First(Filled(call.input, Types)) IN
  {d \in Resources : \E k \in DOMAIN asked : \E i \in call.input[asked[k]] :
                        Answer(call, 0, asked[k], i, d) = "has"}

\* The OPA check builtin and the typed Check agree on lists that are not empty,
\* whatever the order of the types; the lookups agree on a single key.
OPAAgrees ==
  Done({"OPACheck", "OPALookup"}) /\ head = 0 /\ result # "failed" /\ NoEmptyList =>
    IF call.op = "OPACheck" THEN result = "granted" <=> TypedGrants
    ELSE (\A s, t \in DOMAIN call.input : s = t) => definite = TypedList

\* README.md: "Check is AND across present keys (every present subject type
\* must be granted), matching the typed Check<Perm> method".
OPACheckMatches ==
  Done({"OPACheck"}) /\ head = 0 /\ result # "failed" =>
    (result = "granted" <=> TypedGrants)
=============================================================================
