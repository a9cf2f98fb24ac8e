------------------------------ MODULE Cleanup ------------------------------
(***************************************************************************)
(* Relationship cleanup: the generated Purge<Rel>Relations, PurgeRelations *)
(* and PurgeRelationsAsSubject (internal/templates/object.go.tmpl), the    *)
(* schema analysis that drives the last one (internal/generator), and the  *)
(* engine's DeleteRelationsMatching (pkg/authz/spicedb/crud.go).  Other    *)
(* clients grant relationships all the while, deletes fail, and the caller *)
(* repeats a purge that returned an error, as the README tells it to.      *)
(***************************************************************************)
EXTENDS Integers

CONSTANTS
  Schema,   \* allowed types of all relations: records [def, rel, type, sub]
  Order,    \* Order[def]: place of a definition name in sort.Strings
  Ids,      \* Ids[type]: IDs that tuples of other clients use
  Objects,  \* objects [type, id] that get purged
  MaxLost   \* bound: deletes that fail

Defs       == DOMAIN Order
Entries(d) == {e \in Schema : e.def = d}

ASSUME CleanupAssumption ==
  /\ MaxLost \in Nat
  /\ Schema \subseteq [def : Defs, rel : STRING, type : STRING, sub : STRING]
  /\ \A e \in Schema : e.type # ""
  /\ Order \in [Defs -> Nat]

\* Relationships the schema allows.
Tuples ==
  UNION {{[rtype |-> e.def, rid |-> r, rel |-> e.rel,
           stype |-> e.type, sid |-> s, ssub |-> e.sub] :
            r \in Ids[e.def], s \in Ids[e.type]} : e \in Schema}

VARIABLES
  tuples,  \* SpiceDB
  late,    \* filters of deletes given up on, which SpiceDB may still run
  lost,    \* deletes that failed, for MaxLost
  pc,      \* per object: "idle", "running", "returned"
  call,    \* the purge that runs, or ran last: [verb, rel]
  todo,    \* its filters not yet deleted
  errs,    \* resource types of its deletes that failed
  (* History, read by no guard: *)
  fresh    \* tuples granted during the call, after the delete that matches them

purging == <<pc, call, todo, errs>>
vars    == <<tuples, late, lost, purging, fresh>>

-----------------------------------------------------------------------------
(* generator.go: which definitions allow type as a subject.                *)

\* Mutant: userset references are not counted.
SubjectReferences_Direct(type) == {e.def : e \in {x \in Schema : x.type = type /\ x.sub = ""}}

SubjectReferences(type) == {e.def : e \in {x \in Schema : x.type = type}}

(* The filters of a purge of o; "" is a field left at its zero value.      *)

Filter(rtype, rid, rel, stype, sid) ==
  [rtype |-> rtype, rid |-> rid, rel |-> rel, stype |-> stype, sid |-> sid]

Calls(o) ==
  [verb : {"relation"}, rel : {e.rel : e \in Entries(o.type)}]
    \cup (IF Entries(o.type) = {} THEN {} ELSE [verb : {"relations"}, rel : {""}])
    \cup (IF SubjectReferences(o.type) = {} THEN {} ELSE [verb : {"subject"}, rel : {""}])

\* Mutant: PurgeRelationsAsSubject does not say which subject.
Filters_AnySubject(o, k) ==
  IF k.verb = "subject"
  THEN {Filter(d, "", "", o.type, "") : d \in SubjectReferences(o.type)}
  ELSE {Filter(o.type, o.id, k.rel, "", "")}

Filters(o, k) ==
  IF k.verb = "subject"
  THEN {Filter(d, "", "", o.type, o.id) : d \in SubjectReferences(o.type)}
  ELSE {Filter(o.type, o.id, k.rel, "", "")}

\* What the RelationshipFilter that DeleteRelationsMatching builds matches: an
\* unset field anything, the subject filter every sub-relation.
Matches(t, f) ==
  /\ f.rtype \in {"", t.rtype} /\ f.rid \in {"", t.rid} /\ f.rel \in {"", t.rel}
  /\ f.stype \in {"", t.stype} /\ f.sid \in {"", t.sid}

Matching(f) == {t \in tuples : Matches(t, f)}

\* Relationships that a purge of o is about, whatever deletes it consists of.
Scope(o, k) ==
  {t \in Tuples :
     CASE k.verb = "subject"   -> t.stype = o.type /\ t.sid = o.id
       [] k.verb = "relations" -> t.rtype = o.type /\ t.rid = o.id
       [] k.verb = "relation"  -> t.rtype = o.type /\ t.rid = o.id /\ t.rel = k.rel
       [] OTHER -> FALSE}

IsEmpty(f) == \A field \in DOMAIN f : f[field] = ""

-----------------------------------------------------------------------------
NoCall == [verb |-> "none", rel |-> ""]

Init ==
  /\ tuples = {}
  /\ late = {} /\ lost = 0
  /\ pc = [o \in Objects |-> "idle"]
  /\ call = [o \in Objects |-> NoCall]
  /\ todo = [o \in Objects |-> {}]
  /\ errs = [o \in Objects |-> {}]
  /\ fresh = [o \in Objects |-> {}]

\* Mutant: the errors of the last attempt are not forgotten.
Start_KeepsErrs(o, k) ==
  /\ pc' = [pc EXCEPT ![o] = "running"]
  /\ call' = [call EXCEPT ![o] = k]
  /\ todo' = [todo EXCEPT ![o] = Filters(o, k)]
  /\ fresh' = [fresh EXCEPT ![o] = {}]
  /\ UNCHANGED <<tuples, late, lost, errs>>

Start(o, k) ==
  /\ pc' = [pc EXCEPT ![o] = "running"]
  /\ call' = [call EXCEPT ![o] = k]
  /\ todo' = [todo EXCEPT ![o] = Filters(o, k)]
  /\ errs' = [errs EXCEPT ![o] = {}]
  /\ fresh' = [fresh EXCEPT ![o] = {}]
  /\ UNCHANGED <<tuples, late, lost>>

Begin(o, k) == pc[o] = "idle" /\ Start(o, k)

\* The next delete: definitions are taken in order.
Sent(o, f) ==
  /\ pc[o] = "running" /\ f \in todo[o]
  /\ \A g \in todo[o] : Order[f.rtype] <= Order[g.rtype]

\* The delete returned an error: it is kept, and the remaining deletes still run.
Failed(o, f) ==
  /\ lost < MaxLost
  /\ lost' = lost + 1
  /\ errs' = [errs EXCEPT ![o] = @ \cup {f.rtype}]
  /\ todo' = [todo EXCEPT ![o] = @ \ {f}]
  /\ UNCHANGED <<pc, call>>

\* SpiceDB deletes every match in one transaction.
Delete(f) ==
  /\ tuples' = tuples \ Matching(f)
  /\ fresh' = [o \in Objects |-> fresh[o] \ Matching(f)]

Deleted(o, f) ==
  /\ Sent(o, f) /\ ~IsEmpty(f)
  /\ Delete(f)
  /\ todo' = [todo EXCEPT ![o] = @ \ {f}]
  /\ UNCHANGED <<late, lost, pc, call, errs>>

\* It refuses, or the engine does so for it.
Refused(o, f) ==
  /\ Sent(o, f)
  /\ Failed(o, f)
  /\ UNCHANGED <<tuples, late, fresh>>

\* It deletes, and the answer is lost.
AnswerLost(o, f) ==
  /\ Sent(o, f) /\ ~IsEmpty(f)
  /\ Delete(f)
  /\ Failed(o, f)
  /\ UNCHANGED late

\* The context ends while the request is on its way.
GiveUp(o, f) ==
  /\ Sent(o, f) /\ ~IsEmpty(f)
  /\ late' = late \cup {f}
  /\ Failed(o, f)
  /\ UNCHANGED <<tuples, fresh>>

DeleteLate(f) ==
  /\ f \in late
  /\ late' = late \ {f}
  /\ Delete(f)
  /\ UNCHANGED <<lost, purging>>

\* Mutant: returns from inside the sequence of deletes.
Return_Early(o) ==
  /\ pc[o] = "running"
  /\ pc' = [pc EXCEPT ![o] = "returned"]
  /\ UNCHANGED <<tuples, late, lost, call, todo, errs, fresh>>

\* return errors.Join(errs...), nil if there are none.
Return(o) ==
  /\ pc[o] = "running" /\ todo[o] = {}
  /\ pc' = [pc EXCEPT ![o] = "returned"]
  /\ UNCHANGED <<tuples, late, lost, call, todo, errs, fresh>>

\* The caller runs the same purge again after an error,
Retry(o) ==
  /\ pc[o] = "returned" /\ errs[o] # {}
  /\ Start(o, call[o])

\* and is done with it otherwise.
Leave(o) ==
  /\ pc[o] = "returned" /\ errs[o] = {}
  /\ pc' = [pc EXCEPT ![o] = "idle"]
  /\ call' = [call EXCEPT ![o] = NoCall]
  /\ fresh' = [fresh EXCEPT ![o] = {}]
  /\ UNCHANGED <<tuples, late, lost, todo, errs>>

\* Another client grants something.
Grant(t) ==
  /\ t \notin tuples
  /\ tuples' = tuples \cup {t}
  /\ fresh' = [o \in Objects |-> fresh[o] \cup ({t} \cap Scope(o, call[o]))]
  /\ UNCHANGED <<late, lost, purging>>

Purge(o) ==
  \/ \E f \in todo[o] : Deleted(o, f) \/ Refused(o, f) \/ AnswerLost(o, f) \/ GiveUp(o, f)
  \/ Return(o)

Next ==
  \/ \E o \in Objects : \/ \E k \in Calls(o) : Begin(o, k)
                        \/ Purge(o) \/ Retry(o) \/ Leave(o)
  \/ \E f \in late : DeleteLate(f)
  \/ \E t \in Tuples : Grant(t)

\* A purge runs to its end, and a failed one is repeated.
Fairness == \A o \in Objects : WF_vars(Purge(o)) /\ WF_vars(Retry(o))

Spec == Init /\ [][Next]_vars /\ Fairness

-----------------------------------------------------------------------------
(* Properties.                                                             *)

AllCalls   == UNION {Calls(o) : o \in Objects}
AllFilters == UNION {UNION {Filters(o, k) : k \in AllCalls} : o \in Objects}

TypeOK ==
  /\ tuples \subseteq Tuples
  /\ late \subseteq AllFilters
  /\ lost \in 0 .. MaxLost
  /\ pc \in [Objects -> {"idle", "running", "returned"}]
  /\ call \in [Objects -> AllCalls \cup {NoCall}]
  /\ todo \in [Objects -> SUBSET AllFilters]
  /\ errs \in [Objects -> SUBSET Defs]
  /\ fresh \in [Objects -> SUBSET tuples]
  /\ \A o \in Objects :
       /\ IF pc[o] = "idle" THEN call[o] = NoCall ELSE call[o] \in Calls(o)
       /\ IF pc[o] = "running" THEN todo[o] \subseteq Filters(o, call[o]) ELSE todo[o] = {}

\* A purge that returned nil has removed everything it is about, in whichever
\* resource type, relation and sub-relation, but what was granted meanwhile;
\* one that returned an error has done so for every type it does not name.
PurgedIsGone ==
  \A o \in Objects : pc[o] = "returned" =>
    \A t \in tuples \cap Scope(o, call[o]) : t \in fresh[o] \/ t.rtype \in errs[o]

\* No purge, not even one that is late, removes a relationship that does not
\* mention its object.
PurgeStaysOnObject ==
  [][\A t \in tuples \ tuples' :
       \E o \in Objects : <<o.type, o.id>> \in {<<t.rtype, t.rid>>, <<t.stype, t.sid>>}]_vars

\* Repeating a purge until it returns nil comes to an end once deletes stop
\* failing: what has been deleted before is no obstacle.
RetriesSucceed ==
  \A o \in Objects : pc[o] = "running" ~> pc[o] = "returned" /\ errs[o] = {}
=============================================================================
