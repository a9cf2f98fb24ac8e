----------------------------- MODULE TokenCache -----------------------------
(***************************************************************************)
(* What an application may rely on when several goroutines read and write  *)
(* through one *spicedb.Engine, whatever the engine keeps to bring it      *)
(* about.  A read settles once on where it is answered from: at SpiceDB's  *)
(* newest revision when its context says so, or at any revision, or at one *)
(* revision for all its IDs, which is not older than the last write that   *)
(* had the engine to itself.                                               *)
(***************************************************************************)
EXTENDS Integers

CONSTANTS
  Threads,  \* goroutines that share the engine
  MaxRev    \* bound: revisions SpiceDB commits

Revs == 0 .. MaxRev

VARIABLES
  head,     \* SpiceDB: newest committed revision
  acked,    \* newest revision a caller was told is written
  settled,  \* newest of these whose write overlapped no other
  call      \* the read of each goroutine

vars == <<head, acked, settled, call>>

\* A read that is answered from source (from revision rev if that is one), must
\* reflect what is written up to floor, and has found IDs granted at seen.
Call(source, rev, floor, seen) ==
  [source |-> source, rev |-> rev, floor |-> floor, seen |-> seen]

NoCall == Call("none", 0, 0, {})

Init ==
  /\ head = 0 /\ acked = 0 /\ settled = 0
  /\ call = [t \in Threads |-> NoCall]

Commit ==
  /\ head < MaxRev
  /\ head' = head + 1
  /\ UNCHANGED <<acked, settled, call>>

\* A write method returns nil.
Report(r) ==
  /\ settled < r /\ r <= head
  /\ acked' = IF r > acked THEN r ELSE acked
  /\ settled' \in {settled, r}
  /\ UNCHANGED <<head, call>>

Begin(t, full) ==
  /\ call[t].source = "none"
  /\ call' = [call EXCEPT ![t] =
                IF full THEN Call("newest", 0, acked, {}) ELSE Call("open", 0, settled, {})]
  /\ UNCHANGED <<head, acked, settled>>

\* The source of a read's answers is open until it is one revision or any.
Choose(t, source, r) ==
  /\ call[t].source = "open"
  /\ source = "one" => r # 0 /\ call[t].floor <= r
  /\ source = "any" => r = 0
  /\ call' = [call EXCEPT ![t] = Call(source, r, @.floor, @.seen)]
  /\ UNCHANGED <<head, acked, settled>>

\* An ID is found to be granted at revision r.
Answer(t, r) ==
  /\ call[t].source \in {"newest", "one", "any"} /\ r <= head
  /\ call[t].source = "newest" => r = head
  /\ call[t].source = "one" => r = call[t].rev
  /\ call' = [call EXCEPT ![t] = Call(@.source, @.rev, @.floor, @.seen \cup {r})]
  /\ UNCHANGED <<head, acked, settled>>

End(t) ==
  /\ call[t].source \in {"newest", "one", "any"}
  /\ call' = [call EXCEPT ![t] = NoCall]
  /\ UNCHANGED <<head, acked, settled>>

Next ==
  \/ Commit
  \/ \E r \in Revs : Report(r)
  \/ \E t \in Threads :
       \/ \E full \in BOOLEAN : Begin(t, full)
       \/ \E source \in {"one", "any"}, r \in Revs : Choose(t, source, r)
       \/ \E r \in Revs : Answer(t, r)
       \/ End(t)

Spec == Init /\ [][Next]_vars
=============================================================================
