------------------------------ MODULE MCEngine ------------------------------
(* Small instances of Engine for TLC. *)
EXTENDS Engine, FiniteSets, TLC

CONSTANTS t1, t2

TwoThreads == {t1, t2}
Symmetry   == Permutations(TwoThreads)

\* ZedTokens of two lengths, so that words of different tokens may not fit.
Lengths == [r \in 0 .. MaxRev |-> IF r = 0 THEN 0 ELSE 20 + (r % 2)]
=============================================================================
