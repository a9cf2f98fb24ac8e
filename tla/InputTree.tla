----------------------------- MODULE InputTree -----------------------------
(***************************************************************************)
(* What GetPermissionTree promises, whatever the walk that computes it:    *)
(* each permission of the schema gets its list of input types once and for *)
(* all, in any order of the permissions.  A list never repeats a type nor  *)
(* names one that could not hold the permission; it is complete, and in    *)
(* the order of the schema, unless recursion between permissions is cut.   *)
(***************************************************************************)
EXTENDS SequencesExt

CONSTANTS  \* see PermissionTree
  Schemas,
  Keys(_),           \* permissions of a schema
  Mutual(_, _),      \* part of a recursion between permissions
  InputTypes(_, _),  \* types that can hold a permission
  InputList(_, _)    \* the same, in the order of the schema

VARIABLES
  schema,  \* the schema compiled
  tree     \* lists of the permissions resolved so far

vars == <<schema, tree>>

\* What permission k may get.
Fits(list, k) ==
  IF Mutual(schema, k) THEN IsInjective(list) /\ ToSet(list) \subseteq InputTypes(schema, k)
  ELSE list = InputList(schema, k)

Init ==
  /\ schema \in Schemas
  /\ tree = [k \in {} |-> <<>>]

Publish(k) ==
  /\ k \notin DOMAIN tree
  /\ DOMAIN tree' = DOMAIN tree \cup {k}
  /\ \A n \in DOMAIN tree : tree'[n] = tree[n]
  /\ Fits(tree'[k], k)
  /\ UNCHANGED schema

Next == \E k \in Keys(schema) : Publish(k)

Spec == Init /\ [][Next]_vars
=============================================================================
