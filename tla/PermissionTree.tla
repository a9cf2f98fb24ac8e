--------------------------- MODULE PermissionTree ---------------------------
(***************************************************************************)
(* internal/generator/generator.go, the part that is a function of the     *)
(* schema: ParseDefinitions, which turns a permission's expressions into   *)
(* the legs that resolveTransitive walks, and the meaning the result of    *)
(* that walk is compared with.                                             *)
(*                                                                         *)
(* A schema s is a record [rel, perm]:                                     *)
(*   s.rel[t][r]   allowed types of relation r of t: sequence of records   *)
(*                 with at least [type, sub]                               *)
(*   s.perm[t][p]  expressions of permission p of t: sequence of records   *)
(*                 [kind |-> "ident", left |-> name], [kind |-> "self"],   *)
(*                 [kind |-> "arrow", left |-> relation, right |-> name]   *)
(***************************************************************************)
EXTENDS Integers, Sequences, FiniteSets, SequencesExt

Defs(s)  == DOMAIN s.perm
Keys(s)  == UNION {{<<t, p>> : p \in DOMAIN s.perm[t]} : t \in Defs(s)}

\* Mutant: no look at what is there already.
AppendNew_All(list, types) == list \o types

\* add: append what the list does not have yet.
AppendNew(list, types) ==
  LET out[i \in 0 .. Len(types)] ==
        IF i = 0 THEN list
        ELSE LET seen == out[i - 1]
             IN  IF Contains(seen, types[i]) THEN seen ELSE Append(seen, types[i])
  IN  out[Len(types)]

-----------------------------------------------------------------------------
(* ParseDefinitions.                                                       *)

\* Mutant: userset references count as the type they name.
RelationTypes_Usersets(s, t, r) ==
  LET all == s.rel[t][r] IN [i \in DOMAIN all |-> all[i].type]

\* The types of the allowed types in a list that are not usersets; user | user:* is user twice.
DirectTypes(all) ==
  LET out[i \in 0 .. Len(all)] ==
        IF i = 0 THEN <<>>
        ELSE IF all[i].sub = "" THEN Append(out[i - 1], all[i].type) ELSE out[i - 1]
  IN  out[Len(all)]

\* relationFromView: userset references are left out.
RelationTypes(s, t, r) == DirectTypes(s.rel[t][r])

TypesLeg(types)     == [kind |-> "types", types |-> types]

PermissionLeg(t, p) == [kind |-> "permission", key |-> <<t, p>>]

\* Mutant: arrows are followed into the first referenced type only.
ExprLegs_FirstType(s, t, e) ==
  CASE e.kind = "ident" /\ e.left \in DOMAIN s.rel[t] ->
         << TypesLeg(RelationTypes(s, t, e.left)) >>
    [] e.kind = "ident" /\ e.left \notin DOMAIN s.rel[t] ->
         IF <<t, e.left>> \in Keys(s) THEN << PermissionLeg(t, e.left) >> ELSE <<>>
    [] e.kind = "arrow" ->
         LET refs == SelectSeq(RelationTypes(s, t, e.left), LAMBDA u : <<u, e.right>> \in Keys(s))
         IN  IF refs = <<>> THEN <<>> ELSE << PermissionLeg(refs[1], e.right) >>
    [] e.kind = "self" -> << TypesLeg(<<t>>) >>

\* The permissions called p of the types in a list.
ArrowLegs(s, refs, p) ==
  LET out[i \in 0 .. Len(refs)] ==
        IF i = 0 THEN <<>>
        ELSE IF <<refs[i], p>> \in Keys(s)
        THEN Append(out[i - 1], PermissionLeg(refs[i], p)) ELSE out[i - 1]
  IN  out[Len(refs)]

\* resolvePermissionExpressionTypes: the legs one expression contributes.  A name
\* that is neither a relation nor a permission contributes none, nor does an
\* arrow into a type that has no permission of that name.
ExprLegs(s, t, e) ==
  CASE e.kind = "ident" /\ e.left \in DOMAIN s.rel[t] ->
         << TypesLeg(RelationTypes(s, t, e.left)) >>
    [] e.kind = "ident" /\ e.left \notin DOMAIN s.rel[t] ->
         IF <<t, e.left>> \in Keys(s) THEN << PermissionLeg(t, e.left) >> ELSE <<>>
    [] e.kind = "arrow" -> ArrowLegs(s, RelationTypes(s, t, e.left), e.right)
    [] e.kind = "self" -> << TypesLeg(<<t>>) >>

\* Equal legs count once.
Legs(s, k) ==
  LET exprs == s.perm[k[1]][k[2]]
  IN  AppendNew(<<>>, FlattenSeq([i \in DOMAIN exprs |-> ExprLegs(s, k[1], exprs[i])]))

-----------------------------------------------------------------------------
(* What the schema means, by SpiceDB's reading of it: a subject of type x  *)
(* can hold permission k if it can be reached through the expressions.     *)

Direct(s, t, r) == {a.type : a \in {b \in ToSet(s.rel[t][r]) : b.sub = ""}}

\* Relations and permissions an expression of t refers to.
Refers(s, t, e) ==
  CASE e.kind = "ident" -> {<<t, e.left>>}
    [] e.kind = "arrow" -> Direct(s, t, e.left) \X {e.right}
    [] e.kind = "self"  -> {}

Nodes(s) == Keys(s) \cup UNION {{<<t, r>> : r \in DOMAIN s.rel[t]} : t \in Defs(s)}

Exprs(s, k) == ToSet(s.perm[k[1]][k[2]])

Successors(s, n) ==
  IF n \in Keys(s) THEN Nodes(s) \cap UNION {Refers(s, n[1], e) : e \in Exprs(s, n)} ELSE {}

\* Nodes reachable from n in one step or more.
Below(s, n) ==
  LET within[i \in 0 .. Cardinality(Nodes(s))] ==
        IF i = 0 THEN Successors(s, n)
        ELSE LET nearer == within[i - 1]
             IN  nearer \cup UNION {Successors(s, m) : m \in nearer}
  IN  within[Cardinality(Nodes(s))]

OwnTypes(s, n) ==
  IF n \in Keys(s)
  THEN IF \E e \in Exprs(s, n) : e.kind = "self" THEN {n[1]} ELSE {}
  ELSE Direct(s, n[1], n[2])

InputTypes(s, n) == UNION {OwnTypes(s, m) : m \in {n} \cup Below(s, n)}

\* An arrow below n leads to a relation: p = parent->viewer.
ArrowToRelation(s, n) ==
  \E m \in Keys(s) \cap ({n} \cup Below(s, n)) : \E e \in Exprs(s, m) :
    e.kind = "arrow" /\ Refers(s, m[1], e) \cap (Nodes(s) \ Keys(s)) # {}

\* Permissions below n that need each other: p = q + ..., q = p + ....
Mutual(s, n) ==
  \E m \in {n} \cup Below(s, n) : \E l \in Below(s, m) \ {m} : m \in Below(s, l)

IsList(q) == q \in Seq(ToSet(q))

\* What SpiceDB asks of a schema before it accepts it.
Accepted(s) ==
  /\ DOMAIN s.rel = Defs(s) /\ IsFiniteSet(Nodes(s))
  /\ \A t \in Defs(s) : DOMAIN s.rel[t] \cap DOMAIN s.perm[t] = {}
  /\ \A t \in Defs(s) : \A r \in DOMAIN s.rel[t] :
       IsList(s.rel[t][r]) /\ Direct(s, t, r) \subseteq Defs(s)
  /\ \A k \in Keys(s) :
       /\ IsList(s.perm[k[1]][k[2]])
       /\ \A e \in Exprs(s, k) :
            \/ e.kind \in {"ident", "self"}
            \/ e.kind = "arrow" /\ e.left \in DOMAIN s.rel[k[1]]

\* The types a leg of n contributes, when permission m has the list known[m].
Gives(leg, n, known) ==
  CASE leg.kind = "types" -> leg.types
    [] leg.kind = "permission" /\ leg.key = n -> <<>>
    [] OTHER -> known[leg.key]

\* ... and those its legs contribute together.
GivenBy(legs, n, known) ==
  LET out[j \in 0 .. Len(legs)] ==
        IF j = 0 THEN <<>> ELSE AppendNew(out[j - 1], Gives(legs[j], n, known))
  IN  out[Len(legs)]

\* The types that n has as a list: in the order in which they are written down,
\* references replaced by the list they stand for.
Collected(s, n, known) == GivenBy(Legs(s, n), n, known)

\* The list of a permission without mutual recursion.
InputList(s, k) ==
  LET lists[i \in 0 .. Cardinality(Keys(s))] ==
        [n \in Keys(s) |-> IF i = 0 THEN <<>> ELSE Collected(s, n, lists[i - 1])]
  IN  lists[Cardinality(Keys(s))][k]
=============================================================================
