--------------------------- MODULE CleanupProofs ---------------------------
(***************************************************************************)
(* Proofs about Cleanup for every schema, every set of objects and every   *)
(* number of failing deletes.                                              *)
(***************************************************************************)
EXTENDS Cleanup, TLAPS

\* A relationship the purge is about is gone, or granted since, or in a type
\* whose delete failed, or still covered by a delete to come.
Covered ==
  \A o \in Objects : pc[o] # "idle" =>
    \A t \in tuples \cap Scope(o, call[o]) :
      \/ t \in fresh[o]
      \/ t.rtype \in errs[o]
      \/ \E f \in todo[o] : Matches(t, f) /\ f.rtype = t.rtype

-----------------------------------------------------------------------------
\* The deletes of a purge, together, match everything the purge is about: the
\* schema analysis of the generator misses no definition.
LEMMA FiltersCover ==
  ASSUME NEW o \in Objects, NEW k \in Calls(o), NEW t \in Tuples, t \in Scope(o, k)
  PROVE  \E f \in Filters(o, k) : Matches(t, f) /\ f.rtype = t.rtype
<1>2. CASE k.verb = "subject"
  <2>1. t.stype = o.type /\ t.sid = o.id
    BY <1>2 DEF Scope
  <2>2. PICK e \in Schema : t.rtype = e.def /\ t.stype = e.type
    BY DEF Tuples
  <2>3. t.rtype \in SubjectReferences(o.type)
    BY <2>1, <2>2 DEF SubjectReferences
  <2>4. Filter(t.rtype, "", "", o.type, o.id) \in Filters(o, k)
    BY <1>2, <2>3 DEF Filters
  <2>5. QED
    BY <2>1, <2>4 DEF Matches, Filter
<1>3. CASE k.verb # "subject"
  <2>1. t.rtype = o.type /\ t.rid = o.id /\ (k.verb = "relation" => t.rel = k.rel)
    BY <1>3 DEF Scope
  <2>2. k.verb = "relation" \/ k.rel = ""
    BY <1>3 DEF Calls
  <2>3. k.verb = "relations" \/ k.verb = "relation"
    BY <1>3 DEF Calls
  <2>4. k.rel \in {"", t.rel}
    BY <2>1, <2>2
  <2>5. Filter(o.type, o.id, k.rel, "", "") \in Filters(o, k)
    BY <1>3 DEF Filters
  <2>6. QED
    BY <2>1, <2>4, <2>5 DEF Matches, Filter
<1>4. QED
  BY <1>2, <1>3

\* Every filter in use names a definition of the schema, or the object's own type.
LEMMA FilterTypes ==
  ASSUME NEW o \in Objects, NEW k \in Calls(o), NEW f \in Filters(o, k)
  PROVE  f.rtype \in Defs
<1>1. CASE k.verb = "subject"
  <2>1. Filters(o, k) = {Filter(d, "", "", o.type, o.id) : d \in SubjectReferences(o.type)}
    BY <1>1 DEF Filters
  <2>2. PICK d \in SubjectReferences(o.type) : f = Filter(d, "", "", o.type, o.id)
    BY <2>1
  <2>3. d \in Defs
    BY CleanupAssumption DEF SubjectReferences
  <2>4. QED
    BY <2>2, <2>3 DEF Filter
<1>2. CASE k.verb # "subject"
  <2>1. f = Filter(o.type, o.id, k.rel, "", "")
    BY <1>2 DEF Filters
  <2>2. Entries(o.type) # {}
    BY <1>2 DEF Calls
  <2>3. o.type \in Defs
    BY <2>2, CleanupAssumption DEF Entries
  <2>4. QED
    BY <2>1, <2>3 DEF Filter
<1>3. QED
  BY <1>1, <1>2

-----------------------------------------------------------------------------
\* Every variable keeps its type; in particular a purge only ever sends filters
\* made for its object, and has none left to send when it returns.
THEOREM TypeCorrect == Spec => []TypeOK
<1>0. MaxLost \in Nat
  BY CleanupAssumption
<1>1. Init => TypeOK
  BY <1>0 DEF Init, TypeOK
<1>2. TypeOK /\ [Next]_vars => TypeOK'
  <2> SUFFICES ASSUME TypeOK, [Next]_vars PROVE TypeOK'
    OBVIOUS
  <2> USE DEF TypeOK, purging
  <2>1. ASSUME NEW o \in Objects, NEW k \in Calls(o), Start(o, k) PROVE TypeOK'
    <3>1. k \in AllCalls /\ Filters(o, k) \subseteq AllFilters
      BY DEF AllCalls, AllFilters
    <3>2. QED
      BY <2>1, <3>1 DEF Start
  <2>2. ASSUME NEW o \in Objects, NEW f \in todo[o], Deleted(o, f) PROVE TypeOK'
    BY <2>2 DEF Deleted, Delete, Sent, Matching
  <2>3. ASSUME NEW o \in Objects, NEW f \in todo[o], Sent(o, f), Failed(o, f)
        PROVE  /\ lost' \in 0 .. MaxLost
               /\ todo' \in [Objects -> SUBSET AllFilters]
               /\ errs' \in [Objects -> SUBSET Defs]
               /\ UNCHANGED <<pc, call>>
               /\ \A p \in Objects : todo'[p] \subseteq todo[p]
    <3>1. f.rtype \in Defs
      BY <2>3, FilterTypes DEF Sent
    <3>2. QED
      BY <2>3, <3>1, <1>0 DEF Failed
  <2>4. ASSUME NEW o \in Objects, NEW f \in todo[o], Refused(o, f) PROVE TypeOK'
    BY <2>3, <2>4 DEF Refused
  <2>5. ASSUME NEW o \in Objects, NEW f \in todo[o], AnswerLost(o, f) PROVE TypeOK'
    BY <2>3, <2>5 DEF AnswerLost, Delete, Matching
  <2>6. ASSUME NEW o \in Objects, NEW f \in todo[o], GiveUp(o, f) PROVE TypeOK'
    BY <2>3, <2>6 DEF GiveUp
  <2>7. ASSUME NEW o \in Objects, Return(o) PROVE TypeOK'
    BY <2>7 DEF Return
  <2>8. ASSUME NEW o \in Objects, Retry(o) PROVE TypeOK'
    BY <2>1, <2>8 DEF Retry
  <2>9. ASSUME NEW o \in Objects, Leave(o) PROVE TypeOK'
    BY <2>9 DEF Leave
  <2>10. ASSUME NEW f \in late, DeleteLate(f) PROVE TypeOK'
    BY <2>10 DEF DeleteLate, Delete, Matching
  <2>11. ASSUME NEW t \in Tuples, Grant(t) PROVE TypeOK'
    BY <2>11 DEF Grant
  <2>12. CASE UNCHANGED vars
    BY <2>12 DEF vars
  <2>13. QED
    BY <2>1, <2>2, <2>4, <2>5, <2>6, <2>7, <2>8, <2>9, <2>10, <2>11, <2>12
    DEF Next, Purge, Begin
<1>3. QED
  BY <1>1, <1>2, PTL DEF Spec

-----------------------------------------------------------------------------
\* A step that takes no relationship out of fresh, errs or todo but those it
\* deletes, and grants none, keeps Covered.
LEMMA CoveredKept ==
  ASSUME NEW p \in Objects, Covered, pc[p] # "idle", call'[p] = call[p],
         NEW t \in tuples \cap Scope(p, call[p]),
         t \in fresh[p] => t \in fresh'[p],
         errs[p] \subseteq errs'[p],
         \A f \in todo[p] : Matches(t, f) /\ f.rtype = t.rtype =>
                             f \in todo'[p] \/ t.rtype \in errs'[p]
  PROVE  \/ t \in fresh'[p]
         \/ t.rtype \in errs'[p]
         \/ \E f \in todo'[p] : Matches(t, f) /\ f.rtype = t.rtype
BY DEF Covered

\* Covered is preserved: a delete takes what its filter covers with it, a failed
\* one leaves its type in errs, and what others grant is fresh.
LEMMA CoveredStep ==
  ASSUME TypeOK, Covered, [Next]_vars
  PROVE  Covered'
<1> SUFFICES ASSUME NEW p \in Objects, pc'[p] # "idle",
                    NEW t \in tuples' \cap Scope(p, call'[p])
             PROVE  \/ t \in fresh'[p]
                    \/ t.rtype \in errs'[p]
                    \/ \E f \in todo'[p] : Matches(t, f) /\ f.rtype = t.rtype
  BY DEF Covered
<1> DEFINE Goal == \/ t \in fresh'[p]
                   \/ t.rtype \in errs'[p]
                   \/ \E f \in todo'[p] : Matches(t, f) /\ f.rtype = t.rtype
<1>1. ASSUME NEW o \in Objects, NEW k \in Calls(o), Start(o, k) PROVE Goal
  <2>1. CASE o = p
    <3>1. tuples' = tuples /\ call'[p] = k /\ todo'[p] = Filters(p, k)
      BY <1>1, <2>1 DEF Start, TypeOK
    <3>2. t \in Tuples /\ t \in Scope(p, k) /\ k \in Calls(p)
      BY <2>1, <3>1 DEF TypeOK
    <3>3. QED
      BY <3>1, <3>2, FiltersCover
  <2>2. CASE o # p
    <3>1. /\ tuples' = tuples /\ pc'[p] = pc[p] /\ call'[p] = call[p]
          /\ fresh'[p] = fresh[p] /\ errs'[p] = errs[p] /\ todo'[p] = todo[p]
      BY <1>1, <2>2 DEF Start, TypeOK
    <3>2. QED
      BY <3>1, CoveredKept
  <2>3. QED
    BY <2>1, <2>2
<1>2. ASSUME NEW f, Delete(f)
      PROVE  t \in tuples /\ ~Matches(t, f) /\ (t \in fresh[p] => t \in fresh'[p])
  BY <1>2 DEF Delete, Matching
<1>3. ASSUME NEW o \in Objects, NEW f \in todo[o], Failed(o, f)
      PROVE  /\ pc' = pc /\ call' = call /\ errs[p] \subseteq errs'[p]
             /\ \A g \in todo[p] : g.rtype = t.rtype => g \in todo'[p] \/ t.rtype \in errs'[p]
  BY <1>3 DEF Failed, TypeOK
<1>4. ASSUME NEW o \in Objects, NEW f \in todo[o], Deleted(o, f) PROVE Goal
  <2>1. /\ pc' = pc /\ call' = call /\ errs' = errs
        /\ \A g \in todo[p] : g # f => g \in todo'[p]
    BY <1>4 DEF Deleted, TypeOK
  <2>2. QED
    BY <1>2, <1>4, <2>1, CoveredKept DEF Deleted
<1>5. ASSUME NEW o \in Objects, NEW f \in todo[o], Refused(o, f) PROVE Goal
  BY <1>3, <1>5, CoveredKept DEF Refused
<1>6. ASSUME NEW o \in Objects, NEW f \in todo[o], AnswerLost(o, f) PROVE Goal
  BY <1>2, <1>3, <1>6, CoveredKept DEF AnswerLost
<1>7. ASSUME NEW o \in Objects, NEW f \in todo[o], GiveUp(o, f) PROVE Goal
  BY <1>3, <1>7, CoveredKept DEF GiveUp
<1>8. ASSUME NEW f \in late, DeleteLate(f) PROVE Goal
  BY <1>2, <1>8, CoveredKept DEF DeleteLate, purging
<1>9. ASSUME NEW o \in Objects, Return(o) PROVE Goal
  <2>1. pc[p] # "idle" /\ UNCHANGED <<tuples, call, todo, errs, fresh>>
    BY <1>9 DEF Return, TypeOK
  <2>2. QED
    BY <2>1, CoveredKept
<1>10. ASSUME NEW o \in Objects, Leave(o) PROVE Goal
  <2>1. o # p
    BY <1>10 DEF Leave, TypeOK
  <2>2. /\ pc'[p] = pc[p] /\ call'[p] = call[p] /\ fresh'[p] = fresh[p]
        /\ UNCHANGED <<tuples, todo, errs>>
    BY <1>10, <2>1 DEF Leave, TypeOK
  <2>3. QED
    BY <2>2, CoveredKept
<1>11. ASSUME NEW s \in Tuples, Grant(s) PROVE Goal
  <2>1. UNCHANGED <<pc, call, todo, errs>> /\ tuples' = tuples \cup {s}
    BY <1>11 DEF Grant, purging
  <2>2. fresh'[p] = fresh[p] \cup ({s} \cap Scope(p, call[p]))
    BY <1>11 DEF Grant
  <2>3. CASE t = s
    BY <2>1, <2>2, <2>3
  <2>4. CASE t # s
    BY <2>1, <2>2, <2>4, CoveredKept
  <2>5. QED
    BY <2>3, <2>4
<1>12. CASE UNCHANGED vars
  BY <1>12, CoveredKept DEF vars, purging
<1>13. ASSUME NEW o \in Objects, Retry(o) PROVE Goal
  <2>1. call[o] \in Calls(o)
    BY <1>13 DEF Retry, TypeOK
  <2>2. QED
    BY <1>1, <1>13, <2>1 DEF Retry
<1>14. QED
  BY <1>1, <1>4, <1>5, <1>6, <1>7, <1>8, <1>9, <1>10, <1>11, <1>12, <1>13
  DEF Next, Purge, Begin

\* The purges keep their promise whatever the schema, and however many deletes
\* fail, are lost, or arrive late.
THEOREM PurgesComplete == Spec => []PurgedIsGone
<1>1. Init => Covered
  BY DEF Init, Covered
<1>2. TypeOK /\ Covered => PurgedIsGone
  BY DEF TypeOK, Covered, PurgedIsGone
<1>3. TypeOK /\ Covered /\ [Next]_vars => Covered'
  BY CoveredStep
<1>4. QED
  BY <1>1, <1>2, <1>3, TypeCorrect, PTL DEF Spec

-----------------------------------------------------------------------------
\* What a filter of o matches mentions o, provided o has an ID.
LEMMA FiltersMentionObject ==
  ASSUME NEW o \in Objects, o.id # "", o.type # "", NEW k \in AllCalls,
         NEW f \in Filters(o, k), NEW t, Matches(t, f)
  PROVE  <<o.type, o.id>> \in {<<t.rtype, t.rid>>, <<t.stype, t.sid>>}
<1>1. CASE k.verb = "subject"
  <2>1. Filters(o, k) = {Filter(d, "", "", o.type, o.id) : d \in SubjectReferences(o.type)}
    BY <1>1 DEF Filters
  <2>2. PICK d \in SubjectReferences(o.type) : f = Filter(d, "", "", o.type, o.id)
    BY <2>1
  <2>3. f.stype = o.type /\ f.sid = o.id
    BY <2>2 DEF Filter
  <2>4. QED
    BY <2>3 DEF Matches
<1>2. CASE k.verb # "subject"
  <2>1. f = Filter(o.type, o.id, k.rel, "", "")
    BY <1>2 DEF Filters
  <2>2. f.rtype = o.type /\ f.rid = o.id
    BY <2>1 DEF Filter
  <2>3. QED
    BY <2>2 DEF Matches
<1>3. QED
  BY <1>1, <1>2

\* A purge never reaches beyond its object, provided the object's ID is not the
\* empty string: that one stands for every object of the type.
THEOREM PurgesStayOnObject ==
  ASSUME \A o \in Objects : o.id # "" /\ o.type # ""
  PROVE  Spec => PurgeStaysOnObject
<1> DEFINE Mentions(o, t) == <<o.type, o.id>> \in {<<t.rtype, t.rid>>, <<t.stype, t.sid>>}
           Stays == \A t \in tuples \ tuples' : \E o \in Objects : Mentions(o, t)
<1>1. ASSUME NEW f \in AllFilters, Delete(f) PROVE Stays
  <2>1. PICK o \in Objects : f \in UNION {Filters(o, k) : k \in AllCalls}
    BY DEF AllFilters
  <2>2. PICK k \in AllCalls : f \in Filters(o, k)
    BY <2>1
  <2>3. \A t \in tuples \ tuples' : Matches(t, f)
    BY <1>1 DEF Delete, Matching
  <2>4. QED
    BY <2>2, <2>3, FiltersMentionObject
<1>2. TypeOK /\ [Next]_vars => [Stays]_vars
  <2> SUFFICES ASSUME TypeOK, [Next]_vars PROVE Stays \/ UNCHANGED vars
    OBVIOUS
  <2> HIDE DEF Stays
  <2>1. ASSUME NEW o \in Objects, NEW f \in todo[o] PROVE f \in AllFilters
    BY DEF TypeOK
  <2>2. ASSUME NEW f \in late PROVE f \in AllFilters
    BY DEF TypeOK
  <2>3. ASSUME tuples \subseteq tuples' PROVE Stays
    BY <2>3 DEF Stays
  <2>4. QED
    BY <1>1, <2>1, <2>2, <2>3
    DEF Next, Purge, Begin, Start, Retry, Leave, Deleted, Refused, AnswerLost,
        GiveUp, DeleteLate, Return, Grant
<1>3. Spec => [][Stays]_vars
  <2> HIDE DEF Stays
  <2>1. QED
    BY <1>2, TypeCorrect, PTL DEF Spec
<1>4. QED
  BY <1>3 DEF PurgeStaysOnObject
=============================================================================
