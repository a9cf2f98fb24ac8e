------------------------------- MODULE Engine -------------------------------
(***************************************************************************)
(* pkg/authz/spicedb/crud.go: the snapshot-token cache of *spicedb.Engine  *)
(* and the consistency each read asks SpiceDB for, with several goroutines *)
(* calling one engine.  The engine has no lock: e.token and e.setTokenTime *)
(* are plain fields that every write stores and every read loads.          *)
(*                                                                         *)
(* SpiceDB is a counter of committed revisions; a read evaluated at        *)
(* revision r sees exactly the writes committed at or before r.  A Go      *)
(* string is two machine words, so storing or loading e.token is two       *)
(* accesses, in an order the compiler is free to choose.                   *)
(***************************************************************************)
EXTENDS Integers

CONSTANTS
  Threads,   \* goroutines that share the engine
  Window,    \* durationExpire, in clock ticks
  TokenLen,  \* TokenLen[r]: length of the ZedToken SpiceDB issues for revision r
  MaxIDs,    \* longest ID list passed to one read
  MaxRev,    \* bound: revisions SpiceDB commits
  MaxTime    \* bound: last tick of the clock

Revs  == 0 .. MaxRev
Ticks == 0 .. MaxTime
Words == {"ptr", "len"}
Modes == {"none", "full", "minlat", "exact"}

ASSUME EngineAssumption ==
  /\ Window \in Nat
  /\ MaxIDs \in Nat \ {0}
  /\ MaxRev \in Nat
  /\ MaxTime \in Nat /\ MaxTime > Window
  /\ TokenLen \in [Revs -> Nat]
  /\ \A r \in Revs : TokenLen[r] = 0 <=> r = 0  \* revision 0 stands for ""

VARIABLES
  head,          \* SpiceDB: newest committed revision
  clock,         \* wall clock; setTokenTime = 0 is the zero time, long ago
  token,         \* e.token, word by word
  setTokenTime,  \* e.setTokenTime
  pc,            \* where each goroutine is
  rev,           \* write: revision SpiceDB committed it at, 0 before
  todo,          \* words of e.token still to be stored or loaded
  now,           \* read: time.Now() of getConsistencySnapshot
  override,      \* read: ctx carries ConsistencyFullyConsistent
  mode,          \* read: the consistency sent with every RPC of the call
  loaded,        \* read: the words of e.token it pins to
  left,          \* read: IDs not yet checked
  (* History, read by no guard: *)
  obs,           \* revisions at which the read's IDs were granted
  acked,         \* newest revision a caller was told is written
  own,           \* newest revision each goroutine was told it wrote
  isolated,      \* the write in flight has overlapped no other write
  settled,       \* newest revision written by an isolated write
  floor          \* what the read must reflect: acked or settled at its start

server  == <<head, clock>>
engine  == <<token, setTokenTime>>
reading == <<now, override, mode, loaded, left, obs, floor>>
writing == <<rev, isolated>>
returns == <<acked, own, settled>>
vars    == <<server, engine, reading, writing, returns, pc, todo>>

-----------------------------------------------------------------------------
PCs == {"idle", "writing", "committed", "store", "storeTime",
        "sampled", "load", "rpc"}

WritePCs    == {"writing", "committed", "store", "storeTime"}
InFlight(t) == pc[t] \in WritePCs

Word(w, r) == IF w = "ptr" THEN r ELSE TokenLen[r]
NoWords    == [w \in Words |-> 0]

TypeOK ==
  /\ head \in Revs
  /\ clock \in Ticks /\ clock > Window
  /\ token \in [Words -> Nat] /\ token["ptr"] \in Revs
  /\ setTokenTime \in Ticks
  /\ pc \in [Threads -> PCs]
  /\ rev \in [Threads -> Revs]
  /\ todo \in [Threads -> SUBSET Words]
  /\ now \in [Threads -> Ticks]
  /\ override \in [Threads -> BOOLEAN]
  /\ mode \in [Threads -> Modes]
  /\ loaded \in [Threads -> [Words -> Nat]]
  /\ left \in [Threads -> Nat]
  /\ obs \in [Threads -> SUBSET Revs]
  /\ acked \in Revs /\ settled \in Revs
  /\ own \in [Threads -> Revs]
  /\ isolated \in [Threads -> BOOLEAN]
  /\ floor \in [Threads -> Revs]

Init ==
  /\ head = 0 /\ clock = Window + 1
  /\ token = NoWords /\ setTokenTime = 0
  /\ pc = [t \in Threads |-> "idle"]
  /\ rev = [t \in Threads |-> 0]
  /\ todo = [t \in Threads |-> {}]
  /\ now = [t \in Threads |-> 0]
  /\ override = [t \in Threads |-> FALSE]
  /\ mode = [t \in Threads |-> "none"]
  /\ loaded = [t \in Threads |-> NoWords]
  /\ left = [t \in Threads |-> 0]
  /\ obs = [t \in Threads |-> {}]
  /\ acked = 0 /\ settled = 0
  /\ own = [t \in Threads |-> 0]
  /\ isolated = [t \in Threads |-> FALSE]
  /\ floor = [t \in Threads |-> 0]

-----------------------------------------------------------------------------
(* Writes: CreateRelations*, DeleteRelations, DeleteRelationsMatching.     *)

\* t's write enters flight: it is isolated until another one overlaps it.
EnterFlight(t) ==
  isolated' = [u \in Threads |->
                 IF u = t THEN \A v \in Threads \ {t} : ~InFlight(v) ELSE FALSE]

BeginWrite(t) ==
  /\ pc[t] = "idle"
  /\ pc' = [pc EXCEPT ![t] = "writing"]
  /\ EnterFlight(t)
  /\ UNCHANGED <<server, engine, reading, returns, rev, todo>>

\* SpiceDB commits the batch in one transaction.
Commit(t) ==
  /\ pc[t] = "writing"
  /\ head < MaxRev
  /\ head' = head + 1
  /\ rev' = [rev EXCEPT ![t] = head + 1]
  /\ pc' = [pc EXCEPT ![t] = "committed"]
  /\ UNCHANGED <<clock, engine, reading, returns, isolated, todo>>

\* The RPC returns an error and so does the method, before setToken: SpiceDB
\* rejected the batch, or committed it and the answer was lost.
WriteFails(t) ==
  /\ pc[t] \in {"writing", "committed"}
  /\ pc' = [pc EXCEPT ![t] = "idle"]
  /\ rev' = [rev EXCEPT ![t] = 0]
  /\ isolated' = [isolated EXCEPT ![t] = FALSE]
  /\ UNCHANGED <<server, engine, reading, returns, todo>>

\* Mutant: setToken stores the time before it stores the token.
WriteReturns_TimeFirst(t) ==
  /\ pc[t] = "committed"
  /\ pc' = [pc EXCEPT ![t] = "store"]
  /\ todo' = [todo EXCEPT ![t] = Words]
  /\ setTokenTime' = clock
  /\ UNCHANGED <<server, token, reading, writing, returns>>

\* Mutant: the write method returns without calling setToken.
WriteReturns_NoSetToken(t) ==
  /\ pc[t] = "committed"
  /\ pc' = [pc EXCEPT ![t] = "idle"]
  /\ rev' = [rev EXCEPT ![t] = 0]
  /\ isolated' = [isolated EXCEPT ![t] = FALSE]
  /\ acked' = IF rev[t] > acked THEN rev[t] ELSE acked
  /\ own' = [own EXCEPT ![t] = rev[t]]
  /\ settled' = IF isolated[t] THEN rev[t] ELSE settled
  /\ UNCHANGED <<server, engine, reading, todo>>

\* The answer arrives with WrittenAt: setToken starts storing e.token.
WriteReturns(t) ==
  /\ pc[t] = "committed"
  /\ pc' = [pc EXCEPT ![t] = "store"]
  /\ todo' = [todo EXCEPT ![t] = Words]
  /\ UNCHANGED <<server, engine, reading, writing, returns>>

\* A caller that wrote through another client hands over that write's token.
SetSnapshotToken(t) ==
  /\ pc[t] = "idle"
  /\ head < MaxRev
  /\ head' = head + 1
  /\ rev' = [rev EXCEPT ![t] = head + 1]
  /\ pc' = [pc EXCEPT ![t] = "store"]
  /\ todo' = [todo EXCEPT ![t] = Words]
  /\ EnterFlight(t)
  /\ UNCHANGED <<clock, engine, reading, returns>>

\* Mutant: the length word is stored only by the first write.
StoreWord_LenOnce(t, w) ==
  /\ pc[t] = "store" /\ w \in todo[t]
  /\ token' = IF w = "len" /\ token[w] # 0 THEN token
              ELSE [token EXCEPT ![w] = Word(w, rev[t])]
  /\ todo' = [todo EXCEPT ![t] = @ \ {w}]
  /\ pc' = [pc EXCEPT ![t] = IF todo[t] = {w} THEN "storeTime" ELSE "store"]
  /\ UNCHANGED <<server, setTokenTime, reading, writing, returns>>

\* setToken, first statement: one of the two words of e.token.
StoreWord(t, w) ==
  /\ pc[t] = "store" /\ w \in todo[t]
  /\ token' = [token EXCEPT ![w] = Word(w, rev[t])]
  /\ todo' = [todo EXCEPT ![t] = @ \ {w}]
  /\ pc' = [pc EXCEPT ![t] = IF todo[t] = {w} THEN "storeTime" ELSE "store"]
  /\ UNCHANGED <<server, setTokenTime, reading, writing, returns>>

\* setToken, second statement; the write then returns nil.
StoreTime(t) ==
  /\ pc[t] = "storeTime"
  /\ setTokenTime' = clock
  /\ acked' = IF rev[t] > acked THEN rev[t] ELSE acked
  /\ own' = [own EXCEPT ![t] = rev[t]]
  /\ settled' = IF isolated[t] THEN rev[t] ELSE settled
  /\ rev' = [rev EXCEPT ![t] = 0]
  /\ isolated' = [isolated EXCEPT ![t] = FALSE]
  /\ pc' = [pc EXCEPT ![t] = "idle"]
  /\ UNCHANGED <<server, token, reading, todo>>

-----------------------------------------------------------------------------
(* Reads: the Check, Lookup and Read methods.  Each takes one consistency  *)
(* from getConsistencySnapshot and sends it with one RPC per ID.           *)

\* Mutant: the override only changes what is logged.
BeginRead_IgnoresOverride(t, full, n) ==
  /\ pc[t] = "idle"
  /\ override' = [override EXCEPT ![t] = full]
  /\ left' = [left EXCEPT ![t] = n]
  /\ floor' = [floor EXCEPT ![t] = IF full THEN acked ELSE settled]
  /\ pc' = [pc EXCEPT ![t] = "sampled"]
  /\ now' = [now EXCEPT ![t] = clock]
  /\ UNCHANGED <<server, engine, writing, returns, todo, mode, loaded, obs>>

\* The context override is looked at before the clock and the token are.
BeginRead(t, full, n) ==
  /\ pc[t] = "idle"
  /\ override' = [override EXCEPT ![t] = full]
  /\ left' = [left EXCEPT ![t] = n]
  /\ floor' = [floor EXCEPT ![t] = IF full THEN acked ELSE settled]
  /\ IF full
     THEN /\ pc' = [pc EXCEPT ![t] = "rpc"]
          /\ mode' = [mode EXCEPT ![t] = "full"]
          /\ UNCHANGED now
     ELSE /\ pc' = [pc EXCEPT ![t] = "sampled"]
          /\ now' = [now EXCEPT ![t] = clock]
          /\ UNCHANGED mode
  /\ UNCHANGED <<server, engine, writing, returns, todo, loaded, obs>>

\* now - e.setTokenTime > durationExpire decides between no requirement
\* (SpiceDB's minimize-latency default) and pinning to e.token.
CheckWindow(t) ==
  /\ pc[t] = "sampled"
  /\ IF now[t] - setTokenTime > Window
     THEN /\ pc' = [pc EXCEPT ![t] = "rpc"]
          /\ mode' = [mode EXCEPT ![t] = "minlat"]
          /\ UNCHANGED todo
     ELSE /\ pc' = [pc EXCEPT ![t] = "load"]
          /\ todo' = [todo EXCEPT ![t] = Words]
          /\ UNCHANGED mode
  /\ UNCHANGED <<server, engine, writing, returns,
                 now, override, loaded, left, obs, floor>>

LoadWord(t, w) ==
  /\ pc[t] = "load" /\ w \in todo[t]
  /\ loaded' = [loaded EXCEPT ![t][w] = token[w]]
  /\ todo' = [todo EXCEPT ![t] = @ \ {w}]
  /\ IF todo[t] = {w}
     THEN /\ pc' = [pc EXCEPT ![t] = "rpc"]
          /\ mode' = [mode EXCEPT ![t] = "exact"]
     ELSE UNCHANGED <<pc, mode>>
  /\ UNCHANGED <<server, engine, writing, returns, now, override, left, obs, floor>>

\* The two words belong to one token that SpiceDB issued.
Intact(ws) == ws["ptr"] \in Revs \ {0} /\ ws["len"] = TokenLen[ws["ptr"]]

\* Revisions at which SpiceDB may evaluate a request sent with consistency m
\* and, if that pins it, the words ws of a token; none for a token it cannot
\* decode.
EvalRevs(m, ws) ==
  {r \in 0 .. head : /\ m = "full"  => r = head
                     /\ m = "exact" => Intact(ws) /\ r = ws["ptr"]}

\* Mutant: every RPC of the loop takes its own snapshot of e.token.
CheckID_Resnapshot(t) ==
  /\ pc[t] = "rpc" /\ left[t] > 0
  /\ \E r \in EvalRevs(mode[t], token) : obs' = [obs EXCEPT ![t] = @ \cup {r}]
  /\ left' = [left EXCEPT ![t] = @ - 1]
  /\ UNCHANGED <<server, engine, writing, returns, pc, todo,
                 now, override, mode, loaded, floor>>

\* Mutant: off by one at the end of the ID list.
CheckID_OffByOne(t) ==
  /\ pc[t] = "rpc" /\ left[t] >= 0
  /\ \E r \in EvalRevs(mode[t], loaded[t]) : obs' = [obs EXCEPT ![t] = @ \cup {r}]
  /\ left' = [left EXCEPT ![t] = @ - 1]
  /\ UNCHANGED <<server, engine, writing, returns, pc, todo,
                 now, override, mode, loaded, floor>>

\* Mutant: only the first RPC of the loop is sent the consistency.
CheckID_FirstOnly(t) ==
  /\ pc[t] = "rpc" /\ left[t] > 0
  /\ \E r \in EvalRevs(IF obs[t] = {} THEN mode[t] ELSE "minlat", loaded[t]) :
       obs' = [obs EXCEPT ![t] = @ \cup {r}]
  /\ left' = [left EXCEPT ![t] = @ - 1]
  /\ UNCHANGED <<server, engine, writing, returns, pc, todo,
                 now, override, mode, loaded, floor>>

\* SpiceDB grants the next ID; the loop goes on.
CheckID(t) ==
  /\ pc[t] = "rpc" /\ left[t] > 0
  /\ \E r \in EvalRevs(mode[t], loaded[t]) : obs' = [obs EXCEPT ![t] = @ \cup {r}]
  /\ left' = [left EXCEPT ![t] = @ - 1]
  /\ UNCHANGED <<server, engine, writing, returns, pc, todo,
                 now, override, mode, loaded, floor>>

\* The call returns: every ID was granted, or one was denied or failed.
ReadReturns(t) ==
  /\ pc[t] = "rpc"
  /\ pc' = [pc EXCEPT ![t] = "idle"]
  /\ now' = [now EXCEPT ![t] = 0]
  /\ override' = [override EXCEPT ![t] = FALSE]
  /\ mode' = [mode EXCEPT ![t] = "none"]
  /\ loaded' = [loaded EXCEPT ![t] = NoWords]
  /\ left' = [left EXCEPT ![t] = 0]
  /\ obs' = [obs EXCEPT ![t] = {}]
  /\ floor' = [floor EXCEPT ![t] = 0]
  /\ UNCHANGED <<server, engine, writing, returns, todo>>

-----------------------------------------------------------------------------
\* Another client, or a write this process gave up waiting for, commits.
OtherCommit ==
  /\ head < MaxRev
  /\ head' = head + 1
  /\ UNCHANGED <<clock, engine, reading, writing, returns, pc, todo>>

Tick ==
  /\ clock < MaxTime
  /\ clock' = clock + 1
  /\ UNCHANGED <<head, engine, reading, writing, returns, pc, todo>>

Write(t) == \/ BeginWrite(t) \/ Commit(t) \/ WriteFails(t) \/ WriteReturns(t)
            \/ SetSnapshotToken(t) \/ StoreTime(t)
            \/ \E w \in Words : StoreWord(t, w)
Read(t)  == \/ \E full \in BOOLEAN, n \in 1 .. MaxIDs : BeginRead(t, full, n)
            \/ CheckWindow(t) \/ CheckID(t) \/ ReadReturns(t)
            \/ \E w \in Words : LoadWord(t, w)

Next == \/ \E t \in Threads : Write(t) \/ Read(t)
        \/ OtherCommit
        \/ Tick

Spec == Init /\ [][Next]_vars

-----------------------------------------------------------------------------
(* Properties.                                                             *)

\* A read in its RPC loop, pinned to the token it loaded.
Pinned(t) == pc[t] = "rpc" /\ mode[t] = "exact"

\* A read never pins to the token of an engine that has not written yet: by
\* the time a reader finds setTokenTime recent, both words of a token are there.
NoEmptyPin ==
  \A t \in Threads : Pinned(t) => \A w \in Words : loaded[t][w] # 0

\* A pinned read sees every write that had returned, having overlapped no other
\* write of the engine, before the read began.  With one writing goroutine
\* this is read-your-own-writes; with several it is what is left of it.
ReadYourIsolatedWrites ==
  \A t \in Threads : Pinned(t) => loaded[t]["ptr"] >= floor[t]

\* Once no write is in flight, and the last one to return was isolated, the
\* cached token is exactly that write's: no race of earlier writes is left in it.
QuietToken ==
  (\A t \in Threads : ~InFlight(t)) /\ settled = acked
    => \A w \in Words : token[w] = Word(w, settled)

\* All IDs a pinned call finds granted are granted at one revision, that of
\* the token it loaded: the conjunction it reports was true at some moment.
PinnedAnswersAgree ==
  \A t \in Threads : mode[t] = "exact" => obs[t] \subseteq {loaded[t]["ptr"]}

\* Under ConsistencyFullyConsistent no answer is older than the newest write
\* reported to any caller when the read began, whatever the cache holds.
FullyConsistentReads ==
  \A t \in Threads : override[t] => \A r \in obs[t] : r >= floor[t]

\* Where a read in progress is answered from.
Source(t) ==
  CASE pc[t] \in {"sampled", "load"} -> "open"
    [] mode[t] = "full"   -> "newest"
    [] mode[t] = "minlat" -> "any"
    [] mode[t] = "exact"  -> "one"
    [] OTHER -> "none"

Pin(t) == IF mode[t] = "exact" THEN loaded[t]["ptr"] ELSE 0

Cache == INSTANCE TokenCache WITH
  call <- [t \in Threads |->
             [source |-> Source(t), rev |-> Pin(t), floor |-> floor[t], seen |-> obs[t]]]

\* What TokenCache promises is kept, by fields without a lock: each read makes up
\* its mind once, for a snapshot that is not older than it may be, and no write
\* that returns late undoes what an isolated one has settled.
ImplementsTokenCache == Cache!Spec

\* docs/spec-009-consistency-mode-opt-in.md C5: a Create followed by a Check on
\* the same engine pins to the write token and returns the just-written tuple.
ReadYourOwnWrites ==
  \A t \in Threads : Pinned(t) => loaded[t]["ptr"] >= own[t]
=============================================================================
