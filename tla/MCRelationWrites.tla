-------------------------- MODULE MCRelationWrites --------------------------
(* A relation                                                              *)
(*   user with office | user with tenant and expiration                    *)
(*     | team | team#member with expiration | anon:*                       *)
(* and requests that meet on the same subjects.                            *)
EXTENDS RelationWrites

CONSTANTS c1, c2, star

TwoCallers == {c1, c2}
Symmetry   == Permutations(TwoCallers)

Allowed(type, sub, caveat, expiring, wildcard) ==
  [type |-> type, sub |-> sub, caveat |-> caveat,
   expiring |-> expiring, wildcard |-> wildcard]

Types == << Allowed("user", "", "office", FALSE, FALSE),
            Allowed("user", "", "tenant", TRUE, FALSE),
            Allowed("team", "", "", FALSE, FALSE),
            Allowed("team", "member", "", TRUE, FALSE),
            Allowed("anon", "", "", FALSE, TRUE) >>

Request(officeUser, tenantUser, team, teamMember, stars, dated) ==
  [ids |-> <<officeUser, tenantUser, team, teamMember, {}>>, star |-> stars, dated |-> dated]

MixedRequests ==
  { Request({1}, {1}, {}, {}, {}, TRUE),    \* subject 1 in two branches
    Request({}, {}, {1}, {1}, {}, TRUE),
    Request({}, {1}, {}, {}, {5}, FALSE) }     \* Expirations left out
=============================================================================
