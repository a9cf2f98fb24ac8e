---------------------------- MODULE EngineProofs ----------------------------
(***************************************************************************)
(* Proofs about Engine for every set of goroutines, window, token length   *)
(* and bound.  WriteInv says what the cached token is worth while writes   *)
(* race; ReadInv says what a read in progress has taken from it.           *)
(***************************************************************************)
EXTENDS Engine, TLAPS

HasStored(t, w) ==
  \/ pc[t] = "storeTime"
  \/ pc[t] = "store" /\ w \notin todo[t]

Storing(t) == pc[t] \in {"store", "storeTime"}

\* Commit order: isolated writes, acknowledged writes, SpiceDB's head; and a
\* write still in flight committed after every isolated write that returned.
RevOrder ==
  /\ settled <= acked /\ acked <= head
  /\ \A t \in Threads : pc[t] = "committed" \/ Storing(t) =>
                          settled < rev[t] /\ rev[t] <= head

IsolationExcludes ==
  \A t \in Threads : isolated[t] /\ InFlight(t) =>
                        \A u \in Threads \ {t} : ~InFlight(u)

\* What a writer has stored is not undone, and is not mixed if it is isolated.
StoredWords ==
  \A t \in Threads, w \in Words : HasStored(t, w) =>
    token[w] # 0 /\ (isolated[t] => token[w] = Word(w, rev[t]))

TimeAfterToken  == setTokenTime # 0 => \A w \in Words : token[w] # 0
TokenNotBehind  == token["ptr"] >= settled
QuietWords ==
  (\A t \in Threads : ~Storing(t)) /\ settled = acked
    => \A w \in Words : token[w] = Word(w, settled)

WriteInv == /\ RevOrder /\ IsolationExcludes /\ StoredWords
            /\ TimeAfterToken /\ TokenNotBehind /\ QuietWords

ReadInvOf(t) ==
  /\ pc[t] = "sampled" => now[t] > Window
  /\ pc[t] = "load" =>
       /\ \A w \in Words : token[w] # 0
       /\ \A w \in Words \ todo[t] : loaded[t][w] # 0
       /\ "ptr" \notin todo[t] => loaded[t]["ptr"] >= floor[t]
  /\ mode[t] = "exact" =>
       /\ \A w \in Words : loaded[t][w] # 0
       /\ loaded[t]["ptr"] >= floor[t]
       /\ obs[t] \subseteq {loaded[t]["ptr"]}
  /\ loaded[t]["ptr"] \in Revs
  /\ pc[t] = "rpc" => mode[t] # "none"
  /\ pc[t] # "rpc" => mode[t] = "none" /\ obs[t] = {} /\ ~override[t]
  /\ override[t] =>
       /\ mode[t] = "full" /\ floor[t] <= acked
       /\ \A r \in obs[t] : floor[t] <= r
  /\ ~override[t] => floor[t] <= settled

ReadInv == \A t \in Threads : ReadInvOf(t)

-----------------------------------------------------------------------------
\* Every variable keeps its type under every step of every goroutine.
THEOREM TypeCorrect == Spec => []TypeOK
<1> USE DEF TypeOK
<1>0. /\ 0 \in Revs /\ 0 \in Ticks
      /\ Window + 1 \in Ticks /\ Window + 1 > Window
      /\ MaxIDs \in Nat /\ NoWords \in [Words -> Nat] /\ NoWords["ptr"] \in Revs
  BY EngineAssumption DEF Revs, Ticks, Words, NoWords
<1>1. Init => TypeOK
  BY <1>0 DEF Init, Modes, PCs
<1>2. TypeOK /\ [Next]_vars => TypeOK'
  <2> SUFFICES ASSUME TypeOK, [Next]_vars PROVE TypeOK'
    OBVIOUS
  <2> USE DEF server, engine, reading, writing, returns, PCs
  <2>1. ASSUME NEW t \in Threads, BeginWrite(t) PROVE TypeOK'
    BY <2>1 DEF BeginWrite, EnterFlight, InFlight
  <2>2. ASSUME NEW t \in Threads, Commit(t) PROVE TypeOK'
    <3>1. head + 1 \in Revs
      BY <2>2, EngineAssumption DEF Commit, Revs
    <3>2. QED
      BY <2>2, <3>1 DEF Commit
  <2>3. ASSUME NEW t \in Threads, WriteFails(t) PROVE TypeOK'
    BY <2>3, <1>0 DEF WriteFails
  <2>4. ASSUME NEW t \in Threads, WriteReturns(t) PROVE TypeOK'
    BY <2>4 DEF WriteReturns
  <2>5. ASSUME NEW t \in Threads, SetSnapshotToken(t) PROVE TypeOK'
    <3>1. head + 1 \in Revs
      BY <2>5, EngineAssumption DEF SetSnapshotToken, Revs
    <3>2. QED
      BY <2>5, <3>1 DEF SetSnapshotToken, EnterFlight, InFlight
  <2>6. ASSUME NEW t \in Threads, NEW w \in Words, StoreWord(t, w) PROVE TypeOK'
    <3>1. Word(w, rev[t]) \in Nat /\ (w = "ptr" => Word(w, rev[t]) \in Revs)
      BY EngineAssumption DEF Word, Revs
    <3>2. QED
      BY <2>6, <3>1 DEF StoreWord, Words
  <2>7. ASSUME NEW t \in Threads, StoreTime(t) PROVE TypeOK'
    BY <2>7, <1>0 DEF StoreTime
  <2>8. ASSUME NEW t \in Threads, NEW full \in BOOLEAN, NEW n \in 1 .. MaxIDs,
               BeginRead(t, full, n)
        PROVE  TypeOK'
    <3>1. now' \in [Threads -> Ticks]
      BY <2>8 DEF BeginRead
    <3>2. mode' \in [Threads -> Modes] /\ pc' \in [Threads -> PCs]
      BY <2>8 DEF BeginRead, Modes
    <3>3. QED
      BY <2>8, <3>1, <3>2 DEF BeginRead
  <2>9. ASSUME NEW t \in Threads, CheckWindow(t) PROVE TypeOK'
    BY <2>9 DEF CheckWindow, Modes
  <2>10. ASSUME NEW t \in Threads, NEW w \in Words, LoadWord(t, w) PROVE TypeOK'
    <3>1. loaded' \in [Threads -> [Words -> Nat]]
      BY <2>10 DEF LoadWord
    <3>2. todo' \in [Threads -> SUBSET Words]
      BY <2>10 DEF LoadWord
    <3>3. pc' \in [Threads -> PCs] /\ mode' \in [Threads -> Modes]
      BY <2>10 DEF LoadWord, Modes
    <3>4. QED
      BY <2>10, <3>1, <3>2, <3>3 DEF LoadWord
  <2>11. ASSUME NEW t \in Threads, CheckID(t) PROVE TypeOK'
    <3>1. EvalRevs(mode[t], loaded[t]) \subseteq Revs
      BY EngineAssumption DEF EvalRevs, Revs
    <3>2. left[t] - 1 \in Nat
      BY <2>11 DEF CheckID
    <3>3. PICK r \in Revs : obs' = [obs EXCEPT ![t] = @ \cup {r}]
      BY <2>11, <3>1 DEF CheckID
    <3>4. QED
      BY <2>11, <3>2, <3>3 DEF CheckID
  <2>12. ASSUME NEW t \in Threads, ReadReturns(t) PROVE TypeOK'
    BY <2>12, <1>0 DEF ReadReturns, Modes
  <2>13. CASE OtherCommit
    <3>1. head + 1 \in Revs
      BY <2>13, EngineAssumption DEF OtherCommit, Revs
    <3>2. QED
      BY <2>13, <3>1 DEF OtherCommit
  <2>14. CASE Tick
    <3>1. clock + 1 \in Ticks /\ clock + 1 > Window
      BY <2>14, EngineAssumption DEF Tick, Ticks
    <3>2. QED
      BY <2>14, <3>1 DEF Tick
  <2>15. CASE UNCHANGED vars
    BY <2>15 DEF vars
  <2> HIDE DEF TypeOK, server, engine, reading, writing, returns, PCs
  <2>16. QED
    BY <2>1, <2>2, <2>3, <2>4, <2>5, <2>6, <2>7, <2>8, <2>9, <2>10, <2>11,
       <2>12, <2>13, <2>14, <2>15 DEF Next, Write, Read
<1> HIDE DEF TypeOK
<1>3. QED
  BY <1>1, <1>2, PTL DEF Spec

-----------------------------------------------------------------------------
\* A word of a token of a committed revision is not the empty word.
LEMMA WordNonZero ==
  ASSUME NEW w \in Words, NEW r \in Revs, r > 0
  PROVE  Word(w, r) # 0
BY EngineAssumption DEF Word, Revs

\* The writers' invariant is kept by every step.
LEMMA WriteInvStep == TypeOK /\ WriteInv /\ [Next]_vars => WriteInv'
<1> SUFFICES ASSUME TypeOK, WriteInv, [Next]_vars PROVE WriteInv'
  OBVIOUS
<1> USE DEF WriteInv, RevOrder, IsolationExcludes, StoredWords, TimeAfterToken,
            TokenNotBehind, QuietWords, Storing, HasStored, InFlight, WritePCs
<1>t. /\ head \in Nat /\ acked \in Nat /\ settled \in Nat /\ token["ptr"] \in Nat
      /\ \A t \in Threads : rev[t] \in Nat
      /\ pc \in [Threads -> PCs] /\ isolated \in [Threads -> BOOLEAN]
      /\ rev \in [Threads -> Revs] /\ todo \in [Threads -> SUBSET Words]
      /\ token \in [Words -> Nat] /\ "ptr" \in Words
  BY DEF TypeOK, Revs, Words
<1>1. ASSUME NEW t \in Threads, BeginWrite(t) PROVE WriteInv'
  BY <1>1, <1>t DEF BeginWrite, EnterFlight, server, engine, reading, returns
<1>2. ASSUME NEW t \in Threads, Commit(t) PROVE WriteInv'
  BY <1>2, <1>t DEF Commit, engine, reading, returns
<1>3. ASSUME NEW t \in Threads, WriteFails(t) PROVE WriteInv'
  BY <1>3, <1>t DEF WriteFails, server, engine, reading, returns
<1>4. ASSUME NEW t \in Threads, WriteReturns(t) PROVE WriteInv'
  BY <1>4, <1>t DEF WriteReturns, server, engine, reading, writing, returns
<1>5. ASSUME NEW t \in Threads, SetSnapshotToken(t) PROVE WriteInv'
  BY <1>5, <1>t DEF SetSnapshotToken, EnterFlight, engine, reading, returns
<1>6. ASSUME NEW t \in Threads, NEW w \in Words, StoreWord(t, w) PROVE WriteInv'
  <2>1. Word(w, rev[t]) # 0 /\ (w = "ptr" => Word(w, rev[t]) = rev[t])
    BY <1>6, <1>t, WordNonZero DEF StoreWord, Word
  <2>2. QED
    BY <1>6, <1>t, <2>1 DEF StoreWord, server, reading, writing, returns
<1>7. ASSUME NEW t \in Threads, StoreTime(t) PROVE WriteInv'
  BY <1>7, <1>t DEF StoreTime, server, reading, Word
<1>8. ASSUME NEW t \in Threads, NEW full \in BOOLEAN, NEW n \in 1 .. MaxIDs,
             BeginRead(t, full, n)
      PROVE  WriteInv'
  BY <1>8, <1>t DEF BeginRead, server, engine, writing, returns
<1>9. ASSUME NEW t \in Threads, CheckWindow(t) PROVE WriteInv'
  BY <1>9, <1>t DEF CheckWindow, server, engine, writing, returns
<1>10. ASSUME NEW t \in Threads, NEW w \in Words, LoadWord(t, w) PROVE WriteInv'
  BY <1>10, <1>t DEF LoadWord, server, engine, writing, returns
<1>11. ASSUME NEW t \in Threads, CheckID(t) PROVE WriteInv'
  BY <1>11, <1>t DEF CheckID, server, engine, writing, returns
<1>12. ASSUME NEW t \in Threads, ReadReturns(t) PROVE WriteInv'
  BY <1>12, <1>t DEF ReadReturns, server, engine, writing, returns
<1>13. CASE OtherCommit
  BY <1>13, <1>t DEF OtherCommit, engine, reading, writing, returns
<1>14. CASE Tick
  BY <1>14, <1>t DEF Tick, engine, reading, writing, returns
<1>15. CASE UNCHANGED vars
  BY <1>15, <1>t DEF vars, server, engine, reading, writing, returns
<1> HIDE DEF WriteInv, RevOrder, IsolationExcludes, StoredWords, TimeAfterToken,
             TokenNotBehind, QuietWords, Storing, HasStored, InFlight, WritePCs
<1>16. QED
  BY <1>1, <1>2, <1>3, <1>4, <1>5, <1>6, <1>7, <1>8, <1>9, <1>10, <1>11,
     <1>12, <1>13, <1>14, <1>15 DEF Next, Write, Read

-----------------------------------------------------------------------------
\* The readers' invariant is kept by every step, given the writers'.
LEMMA ReadInvStep == TypeOK /\ WriteInv /\ ReadInv /\ [Next]_vars => ReadInv'
<1> SUFFICES ASSUME TypeOK, WriteInv, ReadInv, [Next]_vars,
                    NEW t \in Threads
             PROVE  ReadInvOf(t)'
  BY DEF ReadInv
<1> USE DEF ReadInvOf
<1>r. ReadInvOf(t)
  BY DEF ReadInv
<1>n. Revs \subseteq Nat /\ Ticks \subseteq Nat /\ Window \in Nat
  BY EngineAssumption DEF Revs, Ticks
<1>t. /\ head \in Nat /\ acked \in Nat /\ settled \in Nat /\ token["ptr"] \in Nat
      /\ clock \in Nat /\ setTokenTime \in Nat /\ clock > Window /\ Window \in Nat
      /\ pc \in [Threads -> PCs] /\ todo \in [Threads -> SUBSET Words]
      /\ override \in [Threads -> BOOLEAN] /\ mode \in [Threads -> Modes]
      /\ now \in [Threads -> Ticks] /\ now[t] \in Nat
      /\ loaded \in [Threads -> [Words -> Nat]]
      /\ obs \in [Threads -> SUBSET Revs] /\ obs[t] \subseteq Nat
      /\ floor \in [Threads -> Revs] /\ floor[t] \in Nat
      /\ "ptr" \in Words
  <2> HIDE DEF ReadInvOf
  <2>1. QED
    BY <1>n DEF TypeOK, Words
<1>p. token["ptr"] \in Revs /\ NoWords \in [Words -> Nat] /\ NoWords["ptr"] \in Revs
  BY EngineAssumption DEF TypeOK, NoWords, Words, Revs
<1>w. /\ settled <= acked /\ acked <= head /\ token["ptr"] >= settled
      /\ setTokenTime # 0 => \A w \in Words : token[w] # 0
  BY DEF WriteInv, RevOrder, TokenNotBehind, TimeAfterToken
<1>1. ASSUME NEW u \in Threads, BeginWrite(u) PROVE ReadInvOf(t)'
  BY <1>1, <1>r, <1>t DEF BeginWrite, server, engine, reading, returns
<1>2. ASSUME NEW u \in Threads, Commit(u) PROVE ReadInvOf(t)'
  BY <1>2, <1>r, <1>t DEF Commit, engine, reading, returns
<1>3. ASSUME NEW u \in Threads, WriteFails(u) PROVE ReadInvOf(t)'
  BY <1>3, <1>r, <1>t DEF WriteFails, server, engine, reading, returns
<1>4. ASSUME NEW u \in Threads, WriteReturns(u) PROVE ReadInvOf(t)'
  BY <1>4, <1>r, <1>t DEF WriteReturns, server, engine, reading, writing, returns
<1>5. ASSUME NEW u \in Threads, SetSnapshotToken(u) PROVE ReadInvOf(t)'
  BY <1>5, <1>r, <1>t DEF SetSnapshotToken, engine, reading, returns
<1>6. ASSUME NEW u \in Threads, NEW w \in Words, StoreWord(u, w)
      PROVE  ReadInvOf(t)'
  <2>1. Word(w, rev[u]) # 0
    BY <1>6, WordNonZero DEF StoreWord, WriteInv, RevOrder, Storing, TypeOK, Revs
  <2>2. \A v \in Words : token[v] # 0 => token'[v] # 0
    BY <1>6, <2>1 DEF StoreWord, TypeOK
  <2>3. QED
    BY <1>6, <1>r, <1>t, <2>2 DEF StoreWord, server, reading, writing, returns
<1>7. ASSUME NEW u \in Threads, StoreTime(u) PROVE ReadInvOf(t)'
  <2>1. settled <= settled' /\ acked <= acked' /\ settled' \in Nat /\ acked' \in Nat
    BY <1>7, <1>t DEF StoreTime, TypeOK, Revs, WriteInv, RevOrder, Storing
  <2>2. QED
    BY <1>7, <1>r, <1>t, <2>1 DEF StoreTime, server, reading
<1>8. ASSUME NEW u \in Threads, NEW full \in BOOLEAN, NEW n \in 1 .. MaxIDs,
             BeginRead(u, full, n)
      PROVE  ReadInvOf(t)'
  <2>1. CASE u = t
    <3>1. CASE full
      BY <1>8, <1>r, <1>t, <1>w, <2>1, <3>1 DEF BeginRead, server, engine, returns
    <3>2. CASE ~full
      BY <1>8, <1>r, <1>t, <1>w, <2>1, <3>2 DEF BeginRead, server, engine, returns
    <3>3. QED
      BY <3>1, <3>2
  <2>2. CASE u # t
    BY <1>8, <1>r, <1>t, <2>2 DEF BeginRead, server, engine, writing, returns
  <2>3. QED
    BY <2>1, <2>2
<1>9. ASSUME NEW u \in Threads, CheckWindow(u) PROVE ReadInvOf(t)'
  BY <1>9, <1>r, <1>t, <1>w DEF CheckWindow, server, engine, writing, returns
<1>10. ASSUME NEW u \in Threads, NEW w \in Words, LoadWord(u, w)
       PROVE  ReadInvOf(t)'
  BY <1>10, <1>p, <1>r, <1>t, <1>w DEF LoadWord, server, engine, writing, returns
<1>11. ASSUME NEW u \in Threads, CheckID(u) PROVE ReadInvOf(t)'
  <2>1. PICK r \in EvalRevs(mode[u], loaded[u]) : obs' = [obs EXCEPT ![u] = @ \cup {r}]
    BY <1>11 DEF CheckID
  <2>2. /\ r \in Nat
        /\ mode[u] = "full" => r = head
        /\ mode[u] = "exact" => r = loaded[u]["ptr"]
    BY <2>1, <1>t DEF EvalRevs
  <2>3. UNCHANGED <<head, acked, settled, token, setTokenTime, pc, todo, now, override,
                    mode, loaded, floor>>
    BY <1>11 DEF CheckID, server, engine, writing, returns
  <2>4. CASE u = t
    <3>1. obs'[t] = obs[t] \cup {r} /\ pc[t] = "rpc"
      BY <1>11, <1>t, <2>1, <2>4 DEF CheckID
    <3>2. QED
      BY <1>r, <1>t, <1>w, <2>2, <2>3, <2>4, <3>1
  <2>5. CASE u # t
    <3>1. obs'[t] = obs[t]
      BY <1>t, <2>1, <2>5
    <3>2. QED
      BY <1>r, <2>3, <3>1
  <2>6. QED
    BY <2>4, <2>5
<1>12. ASSUME NEW u \in Threads, ReadReturns(u) PROVE ReadInvOf(t)'
  BY <1>12, <1>p, <1>r, <1>t DEF ReadReturns, server, engine, writing, returns
<1>13. CASE OtherCommit
  BY <1>13, <1>r, <1>t DEF OtherCommit, engine, reading, writing, returns
<1>14. CASE Tick
  BY <1>14, <1>r, <1>t DEF Tick, engine, reading, writing, returns
<1>15. CASE UNCHANGED vars
  BY <1>15, <1>r DEF vars, server, engine, reading, writing, returns
<1> HIDE DEF ReadInvOf
<1>16. QED
  BY <1>1, <1>2, <1>3, <1>4, <1>5, <1>6, <1>7, <1>8, <1>9, <1>10, <1>11,
     <1>12, <1>13, <1>14, <1>15 DEF Next, Write, Read

-----------------------------------------------------------------------------
\* The invariants of writers and of readers hold in every reachable state.
LEMMA Invariants == Spec => [](TypeOK /\ WriteInv /\ ReadInv)
<1>1. Init => WriteInv /\ ReadInv
  <2>1. Init => WriteInv
    BY EngineAssumption DEF Init, WriteInv, RevOrder, IsolationExcludes, StoredWords,
       TimeAfterToken, TokenNotBehind, QuietWords, Storing, HasStored, NoWords,
       Words, Word, Revs
  <2>2. Init => ReadInv
    <3> SUFFICES ASSUME Init, NEW t \in Threads PROVE ReadInvOf(t)
      BY DEF ReadInv
    <3>1. /\ pc[t] = "idle" /\ mode[t] = "none" /\ obs[t] = {}
          /\ override[t] = FALSE /\ floor[t] = 0 /\ settled = 0
          /\ loaded[t]["ptr"] \in Revs
      BY EngineAssumption DEF Init, NoWords, Words, Revs
    <3>2. QED
      BY <3>1 DEF ReadInvOf
  <2>3. QED
    BY <2>1, <2>2
<1>2. QED
  BY <1>1, TypeCorrect, WriteInvStep, ReadInvStep, PTL DEF Spec

\* No read ever pins to the empty token of an engine that has not written:
\* setToken stores the token before the time that makes readers use it.
THEOREM NeverEmptyPin == Spec => []NoEmptyPin
<1>1. ReadInv => NoEmptyPin
  BY DEF ReadInv, ReadInvOf, NoEmptyPin, Pinned
<1>2. QED
  BY <1>1, Invariants, PTL

\* However many goroutines write, a pinned read sees every write that returned
\* before it and overlapped no other write: read-your-own-writes for one writer.
THEOREM IsolatedWritesAreRead == Spec => []ReadYourIsolatedWrites
<1>1. ReadInv => ReadYourIsolatedWrites
  BY DEF ReadInv, ReadInvOf, ReadYourIsolatedWrites, Pinned
<1>2. QED
  BY <1>1, Invariants, PTL

\* Between writes, and after an isolated one, the cached token is exactly that
\* write's: overlapping stores leave nothing behind that an isolated write
\* does not repair.
THEOREM QuietTokenIsExact == Spec => []QuietToken
<1>1. WriteInv => QuietToken
  BY DEF WriteInv, QuietWords, QuietToken, Storing, InFlight, WritePCs
<1>2. QED
  BY <1>1, Invariants, PTL

\* The IDs a pinned call finds granted are granted at one revision.
THEOREM PinnedCallsAreAtomic == Spec => []PinnedAnswersAgree
<1>1. ReadInv => PinnedAnswersAgree
  BY DEF ReadInv, ReadInvOf, PinnedAnswersAgree
<1>2. QED
  BY <1>1, Invariants, PTL

\* A fully consistent read reflects every write any caller was told of before.
THEOREM FullReadsAreFresh == Spec => []FullyConsistentReads
<1>1. TypeOK /\ ReadInv => FullyConsistentReads
  <2> SUFFICES ASSUME TypeOK, ReadInv, NEW t \in Threads, override[t],
                      NEW r \in obs[t]
               PROVE  r >= floor[t]
    BY DEF FullyConsistentReads
  <2>1. r \in Nat /\ floor[t] \in Nat
    BY DEF TypeOK, Revs
  <2>2. QED
    BY <2>1 DEF ReadInv, ReadInvOf
<1>2. QED
  BY <1>1, Invariants, PTL

-----------------------------------------------------------------------------
(* The refinement.  Seen(t) is what TokenCache knows of t's read.          *)

Seen(t) == [source |-> Source(t), rev |-> Pin(t), floor |-> floor[t], seen |-> obs[t]]
Calls   == [t \in Threads |-> Seen(t)]

\* A step that leaves every read as it is.
Apart == \A t \in Threads : Seen(t)' = Seen(t)

\* A step that changes t's read only.
Only(t, seen) == Seen(t)' = seen /\ \A u \in Threads \ {t} : Seen(u)' = Seen(u)

\* A revision an abstract call may settle on is one of its own.
LEMMA SeenInCalls ==
  ASSUME NEW t \in Threads
  PROVE  /\ Calls[t].source = Source(t) /\ Calls[t].rev = Pin(t)
         /\ Calls[t].floor = floor[t] /\ Calls[t].seen = obs[t]
BY DEF Calls, Seen

\* A step that touches no call leaves the abstract calls alone.
LEMMA CallsApart == Apart => Calls' = Calls
BY DEF Apart, Calls

\* Abstract calls depend on nothing but what Apart names.
LEMMA CallsOnly ==
  ASSUME NEW t \in Threads, NEW seen, Only(t, seen)
  PROVE  Calls' = [Calls EXCEPT ![t] = seen]
BY DEF Only, Calls

\* A step of the engine is one of TokenCache, or none.
LEMMA CacheStep ==
  ASSUME TypeOK, TypeOK', WriteInv, ReadInv, ReadInv', [Next]_vars
  PROVE  [Cache!Next]_Cache!vars
<1>t. /\ pc \in [Threads -> PCs] /\ mode \in [Threads -> Modes]
      /\ loaded \in [Threads -> [Words -> Nat]] /\ obs \in [Threads -> SUBSET Revs]
      /\ floor \in [Threads -> Revs]
  BY DEF TypeOK
<1> DEFINE Still == UNCHANGED <<head, acked, settled>>
<1>s. ASSUME Still, Apart
      PROVE  UNCHANGED Cache!vars
  BY <1>s, CallsApart DEF Cache!vars, Calls, Seen
<1>c. ASSUME head < MaxRev, head' = head + 1, UNCHANGED <<acked, settled>>, Apart
      PROVE  Cache!Next
  BY <1>c, CallsApart DEF Cache!Next, Cache!Commit, Calls, Seen
<1>1. ASSUME NEW t \in Threads, BeginWrite(t) PROVE UNCHANGED Cache!vars
  BY <1>1, <1>t, <1>s DEF BeginWrite, Apart, Seen, Source, Pin, server, engine, reading, returns
<1>2. ASSUME NEW t \in Threads, Commit(t) PROVE Cache!Next
  BY <1>2, <1>t, <1>c DEF Commit, Apart, Seen, Source, Pin, engine, reading, returns
<1>3. ASSUME NEW t \in Threads, WriteFails(t) PROVE UNCHANGED Cache!vars
  BY <1>3, <1>t, <1>s DEF WriteFails, Apart, Seen, Source, Pin, server, engine, reading, returns
<1>4. ASSUME NEW t \in Threads, WriteReturns(t) PROVE UNCHANGED Cache!vars
  BY <1>4, <1>t, <1>s DEF WriteReturns, Apart, Seen, Source, Pin, server, engine, reading, returns
<1>5. ASSUME NEW t \in Threads, SetSnapshotToken(t) PROVE Cache!Next
  BY <1>5, <1>t, <1>c DEF SetSnapshotToken, Apart, Seen, Source, Pin, engine, reading, returns
<1>6. ASSUME NEW t \in Threads, NEW w \in Words, StoreWord(t, w) PROVE UNCHANGED Cache!vars
  BY <1>6, <1>t, <1>s DEF StoreWord, Apart, Seen, Source, Pin, server, reading, returns
<1>7. ASSUME NEW t \in Threads, StoreTime(t) PROVE Cache!Next
  <2>1. rev[t] \in Revs /\ settled < rev[t] /\ rev[t] <= head
    BY <1>7 DEF StoreTime, TypeOK, WriteInv, RevOrder, Storing
  <2>2. Apart
    BY <1>7, <1>t DEF StoreTime, Apart, Seen, Source, Pin, reading
  <2>3. Cache!Report(rev[t])
    BY <1>7, <2>1, <2>2, CallsApart DEF Cache!Report, StoreTime, server, Calls, Seen
  <2>4. QED
    BY <2>1, <2>3 DEF Cache!Next, Cache!Revs, Revs
<1>8. ASSUME NEW t \in Threads, NEW full \in BOOLEAN, NEW n \in 1 .. MaxIDs,
             BeginRead(t, full, n)
      PROVE  Cache!Next
  <2>1. mode[t] = "none" /\ obs[t] = {} /\ Source(t) = "none" /\ Still
    BY <1>8 DEF BeginRead, ReadInv, ReadInvOf, Source, server, returns
  <2>2. Only(t, IF full THEN Cache!Call("newest", 0, acked, {})
                ELSE Cache!Call("open", 0, settled, {}))
    BY <1>8, <1>t, <2>1 DEF BeginRead, Only, Seen, Source, Pin, Cache!Call, server, engine
  <2>3. Cache!Begin(t, full)
    <3>1. Calls' = [Calls EXCEPT ![t] = IF full THEN Cache!Call("newest", 0, acked, {})
                                        ELSE Cache!Call("open", 0, settled, {})]
      BY <2>2, CallsOnly
    <3>2. Calls[t].source = "none"
      BY <2>1, SeenInCalls
    <3>3. QED
      BY <2>1, <3>1, <3>2 DEF Cache!Begin, Calls, Seen
  <2>4. QED
    BY <2>3 DEF Cache!Next
<1>9. ASSUME NEW t \in Threads, CheckWindow(t) PROVE Cache!Next \/ UNCHANGED Cache!vars
  <2>1. mode[t] = "none" /\ Source(t) = "open" /\ Still /\ 0 \in Revs
    BY <1>9, EngineAssumption DEF CheckWindow, ReadInv, ReadInvOf, Source, server, returns, Revs
  <2>2. CASE now[t] - setTokenTime > Window
    <3>1. Only(t, Cache!Call("any", 0, floor[t], obs[t]))
      BY <1>9, <1>t, <2>2 DEF CheckWindow, Only, Seen, Source, Pin, Cache!Call
    <3>2. Cache!Choose(t, "any", 0)
      <4>1. Calls' = [Calls EXCEPT ![t] = Cache!Call("any", 0, Calls[t].floor, Calls[t].seen)]
        BY <3>1, CallsOnly, SeenInCalls
      <4>2. Calls[t].source = "open"
        BY <2>1, SeenInCalls
      <4>3. QED
        BY <2>1, <4>1, <4>2 DEF Cache!Choose, Calls, Seen
    <3>3. QED
      BY <2>1, <3>2 DEF Cache!Next, Cache!Revs, Revs
  <2>3. CASE ~(now[t] - setTokenTime > Window)
    BY <1>9, <1>t, <1>s, <2>1, <2>3 DEF CheckWindow, Apart, Seen, Source, Pin
  <2>4. QED
    BY <2>2, <2>3
<1>10. ASSUME NEW t \in Threads, NEW w \in Words, LoadWord(t, w)
       PROVE  Cache!Next \/ UNCHANGED Cache!vars
  <2>1. mode[t] = "none" /\ Source(t) = "open" /\ Still
    BY <1>10 DEF LoadWord, ReadInv, ReadInvOf, Source, server, returns
  <2>2. CASE todo[t] = {w}
    <3>0. PICK r : r = loaded'[t]["ptr"]
      OBVIOUS
    <3>1. mode'[t] = "exact" /\ floor'[t] = floor[t]
      BY <1>10, <1>t, <2>2 DEF LoadWord
    <3>2. r \in Revs /\ r # 0 /\ floor[t] <= r
      <4>1. r \in Revs /\ r # 0 /\ r >= floor'[t]
        BY <3>0, <3>1 DEF ReadInv, ReadInvOf, Words
      <4>2. r \in Nat /\ floor[t] \in Nat
        BY <4>1, <1>t DEF Revs
      <4>3. QED
        BY <3>1, <4>1, <4>2
    <3>3. Only(t, Cache!Call("one", r, floor[t], obs[t]))
      BY <1>10, <1>t, <2>2, <3>0, <3>1 DEF LoadWord, Only, Seen, Source, Pin, Cache!Call
    <3>4. Cache!Choose(t, "one", r)
      <4>1. Calls' = [Calls EXCEPT ![t] = Cache!Call("one", r, Calls[t].floor, Calls[t].seen)]
        BY <3>3, CallsOnly, SeenInCalls
      <4>2. Calls[t].source = "open" /\ Calls[t].floor <= r
        BY <2>1, <3>2, SeenInCalls
      <4>3. QED
        BY <2>1, <3>2, <4>1, <4>2 DEF Cache!Choose, Calls, Seen
    <3>5. QED
      BY <3>2, <3>4 DEF Cache!Next, Cache!Revs, Revs
  <2>3. CASE todo[t] # {w}
    BY <1>10, <1>t, <1>s, <2>1, <2>3 DEF LoadWord, Apart, Seen, Source, Pin
  <2>4. QED
    BY <2>2, <2>3
<1>11. ASSUME NEW t \in Threads, CheckID(t) PROVE Cache!Next
  <2>1. PICK r \in EvalRevs(mode[t], loaded[t]) : obs' = [obs EXCEPT ![t] = @ \cup {r}]
    BY <1>11 DEF CheckID
  <2>2. /\ r \in Revs /\ r <= head
        /\ mode[t] = "full" => r = head
        /\ mode[t] = "exact" => r = loaded[t]["ptr"]
    BY <2>1 DEF EvalRevs, TypeOK, Revs
  <2>3. pc[t] = "rpc" /\ mode[t] # "none" /\ Still
    BY <1>11 DEF CheckID, ReadInv, ReadInvOf, server, returns
  <2>4. /\ Source(t) \in {"newest", "one", "any"}
        /\ Source(t) = "newest" => r = head
        /\ Source(t) = "one" => r = Pin(t)
    BY <1>t, <2>2, <2>3 DEF Source, Pin, Modes
  <2>5. Only(t, Cache!Call(Source(t), Pin(t), floor[t], obs[t] \cup {r}))
    BY <1>11, <1>t, <2>1 DEF CheckID, Only, Seen, Source, Pin, Cache!Call
  <2>6. Cache!Answer(t, r)
    <3>1. Calls' = [Calls EXCEPT ![t] = Cache!Call(Calls[t].source, Calls[t].rev,
                                                   Calls[t].floor, Calls[t].seen \cup {r})]
      BY <2>5, CallsOnly, SeenInCalls
    <3>2. /\ Calls[t].source \in {"newest", "one", "any"}
          /\ Calls[t].source = "newest" => r = head
          /\ Calls[t].source = "one" => r = Calls[t].rev
      BY <2>4, SeenInCalls
    <3>3. QED
      BY <2>2, <2>3, <3>1, <3>2 DEF Cache!Answer, Calls, Seen
  <2>7. QED
    BY <2>2, <2>6 DEF Cache!Next, Cache!Revs, Revs
<1>12. ASSUME NEW t \in Threads, ReadReturns(t) PROVE Cache!Next
  <2>1. Source(t) \in {"newest", "one", "any"} /\ Still
    BY <1>12, <1>t DEF ReadReturns, ReadInv, ReadInvOf, Source, Modes, server, returns
  <2>2. Only(t, Cache!NoCall)
    BY <1>12, <1>t DEF ReadReturns, Only, Seen, Source, Pin, Cache!NoCall, Cache!Call
  <2>3. Cache!End(t)
    BY <2>1, <2>2, CallsOnly DEF Cache!End, Calls, Seen
  <2>4. QED
    BY <2>3 DEF Cache!Next
<1>13. CASE OtherCommit
  BY <1>13, <1>c DEF OtherCommit, Apart, Seen, Source, Pin, reading, returns
<1>14. CASE Tick
  BY <1>14, <1>s DEF Tick, Apart, Seen, Source, Pin, reading, returns
<1>15. CASE UNCHANGED vars
  BY <1>15, <1>s DEF vars, Apart, Seen, Source, Pin, server, reading, returns
<1>16. QED
  BY <1>1, <1>2, <1>3, <1>4, <1>5, <1>6, <1>7, <1>8, <1>9, <1>10, <1>11,
     <1>12, <1>13, <1>14, <1>15 DEF Next, Write, Read

(* The engine implements TokenCache: for any number of goroutines, and any *)
(* race on e.token and e.setTokenTime (crud.go:52-92), a read settles once *)
(* on a source of answers, which is not older than it may be.              *)
THEOREM CacheImplemented == Spec => ImplementsTokenCache
<1>1. Init => Cache!Init
  BY DEF Init, Cache!Init, Cache!NoCall, Cache!Call, Source, Pin
<1>2. TypeOK /\ TypeOK' /\ WriteInv /\ ReadInv /\ ReadInv' /\ [Next]_vars
        => [Cache!Next]_Cache!vars
  BY CacheStep
<1>3. QED
  BY <1>1, <1>2, Invariants, PTL DEF Spec, Cache!Spec, ImplementsTokenCache
=============================================================================
