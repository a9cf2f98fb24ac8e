------------------------- MODULE PermissionTreeProofs -------------------------
(***************************************************************************)
(* Facts about PermissionTree for every schema that SpiceDB accepts: what  *)
(* the loops that ParseDefinitions and resolveTransitive are made of       *)
(* return, which permissions are below which, when a set of types is all   *)
(* that can be reached, and what the list of a permission without mutual   *)
(* recursion is made of.                                                   *)
(***************************************************************************)
EXTENDS PermissionTree, SequenceLemmas

\* AppendNew collects the elements of both lists, each once.
LEMMA AppendNewIs ==
  ASSUME NEW X, NEW list \in Seq(X), NEW types \in Seq(X)
  PROVE  /\ AppendNew(list, types) \in Seq(X)
         /\ ToSet(AppendNew(list, types)) = ToSet(list) \cup ToSet(types)
         /\ IsInjective(list) => IsInjective(AppendNew(list, types))
<1> DEFINE N == Len(types)
           A == Seq(X)
           g == [i \in 1 .. N |-> [seen \in A |->
                   IF Contains(seen, types[i]) THEN seen ELSE Append(seen, types[i])]]
           Out(f) == f = [i \in 0 .. N |-> IF i = 0 THEN list
                            ELSE IF Contains(f[i - 1], types[i]) THEN f[i - 1]
                                 ELSE Append(f[i - 1], types[i])]
<1>1. N \in Nat /\ \A i \in 1 .. N : types[i] \in X
  BY LenProperties
<1>2. g \in Rounds(N, A)
  <2>1. \A i \in 1 .. N : \A seen \in A : Append(seen, types[i]) \in A
    BY <1>1, AppendAdds
  <2> HIDE DEF N, A
  <2> QED BY <2>1 DEF Rounds
<1>3. \E f : Out(f) /\ f \in [0 .. N -> A]
  <2>1. \A i \in 1 .. N, seen \in A :
          g[i][seen] = IF Contains(seen, types[i]) THEN seen ELSE Append(seen, types[i])
    OBVIOUS
  <2>2. list \in A
    OBVIOUS
  <2> HIDE DEF g, N, A
  <2>a. PICK f : Loop(f, list, g, N, A)
    BY <1>1, <1>2, <2>2, Recurses
  <2>3. /\ f \in [0 .. N -> A]
        /\ \A i \in 0 .. N : f[i] = IF i = 0 THEN list ELSE g[i][f[i - 1]]
    BY <2>a DEF Loop
  <2>4. \A i \in 0 .. N : i # 0 => i \in 1 .. N /\ f[i - 1] \in A
    BY <1>1, <2>3
  <2>5. \A i \in 0 .. N : f[i] = IF i = 0 THEN list
                            ELSE IF Contains(f[i - 1], types[i]) THEN f[i - 1]
                                 ELSE Append(f[i - 1], types[i])
    BY <2>1, <2>3, <2>4
  <2>6. f = [i \in 0 .. N |-> f[i]]
    BY <2>3
  <2>7. Out(f)
    BY <2>5, <2>6
  <2> HIDE DEF Out
  <2> QED BY <2>3, <2>7
<1> DEFINE out == CHOOSE f : Out(f)
<1>4. Out(out)
  BY <1>3
<1>5. AppendNew(list, types) = out[N]
  BY DEF AppendNew
<1>6. /\ out[0] = list
      /\ \A i \in 1 .. N : out[i] = IF Contains(out[i - 1], types[i]) THEN out[i - 1]
                                    ELSE Append(out[i - 1], types[i])
  <2>1. 0 \in 0 .. N /\ \A i \in 1 .. N : i \in 0 .. N /\ i # 0
    BY <1>1
  <2> QED BY <1>4, <2>1
<1> HIDE DEF out, N, Out, g, A
<1> DEFINE Upto(i) == {types[j] : j \in 1 .. i}
           S == {i \in Nat : i <= N => /\ out[i] \in Seq(X) /\ ToSet(out[i]) = ToSet(list) \cup Upto(i)
                                       /\ IsInjective(list) => IsInjective(out[i])}
<1>7. 0 \in S
  BY <1>6
<1>8. ASSUME NEW i \in Nat, i \in S PROVE i + 1 \in S
  <2>1. ASSUME i + 1 <= N
        PROVE  /\ out[i + 1] \in Seq(X) /\ ToSet(out[i + 1]) = ToSet(list) \cup Upto(i + 1)
               /\ IsInjective(list) => IsInjective(out[i + 1])
    <3> DEFINE q == out[i]
               x == types[i + 1]
    <3>1. /\ q \in Seq(X) /\ ToSet(q) = ToSet(list) \cup Upto(i)
          /\ IsInjective(list) => IsInjective(q)
      BY <1>8, <2>1, <1>1
    <3>2. i + 1 \in 1 .. N /\ x \in X /\ (i + 1) - 1 = i
      BY <2>1, <1>1
    <3>3. out[i + 1] = IF Contains(q, x) THEN q ELSE Append(q, x)
      BY <3>2, <1>6
    <3>4. Upto(i + 1) = Upto(i) \cup {x}
      <4>1. 1 .. i + 1 = (1 .. i) \cup {i + 1}
        OBVIOUS
      <4> QED BY <4>1
    <3> HIDE DEF q, x, Upto
    <3>5. Contains(q, x) <=> x \in ToSet(q)
      BY <3>1, ElementsOfSeq DEF Contains
    <3> QED BY <3>1, <3>2, <3>3, <3>4, <3>5, AppendAdds
  <2> QED BY <2>1
<1> HIDE DEF S
<1>9. Nat \subseteq S
  BY <1>7, <1>8, NatSetInduction
<1>10. /\ out[N] \in Seq(X) /\ ToSet(out[N]) = ToSet(list) \cup Upto(N)
       /\ IsInjective(list) => IsInjective(out[N])
  <2>1. N \in S /\ N <= N
    BY <1>1, <1>9
  <2> HIDE DEF Upto
  <2> QED BY <2>1 DEF S
<1>11. Upto(N) = ToSet(types)
  BY ElementsOfSeq DEF N
<1> QED BY <1>5, <1>10, <1>11

-----------------------------------------------------------------------------
(* Legs.                                                                   *)

AnyLeg(s) == [kind : {"types"}, types : Seq(Defs(s))] \cup [kind : {"permission"}, key : Keys(s)]

\* A permission is named by its definition and its name there.
LEMMA KeysAre ==
  ASSUME NEW s, NEW k \in Keys(s)
  PROVE  k[1] \in Defs(s) /\ k[2] \in DOMAIN s.perm[k[1]] /\ k = <<k[1], k[2]>>
BY DEF Keys

\* relationFromView lists the types a relation allows directly.
LEMMA RelationTypesAre ==
  ASSUME NEW s, Accepted(s), NEW t \in Defs(s), NEW r \in DOMAIN s.rel[t]
  PROVE  RelationTypes(s, t, r) \in Seq(Defs(s)) /\ ToSet(RelationTypes(s, t, r)) = Direct(s, t, r)
<1> DEFINE all == s.rel[t][r]
           N   == Len(all)
           v   == [i \in 1 .. N |-> all[i].type]
           P   == {i \in 1 .. N : all[i].sub = ""}
<1>1. all \in Seq(ToSet(all)) /\ Direct(s, t, r) \subseteq Defs(s)
  BY DEF Accepted, IsList
<1> HIDE DEF all
<1>2. N \in Nat /\ ToSet(all) = {all[i] : i \in 1 .. N}
  BY <1>1, LenProperties, ElementsOfSeq
<1>3. Direct(s, t, r) = Kept(v, P, N)
  <2>1. Direct(s, t, r) = {a.type : a \in {b \in ToSet(all) : b.sub = ""}}
    BY DEF Direct, all
  <2> QED BY <1>2, <2>1 DEF Kept
<1> DEFINE Out(f) == f = [i \in 0 .. N |-> IF i = 0 THEN <<>>
                            ELSE IF all[i].sub = "" THEN Append(f[i - 1], all[i].type) ELSE f[i - 1]]
<1>5. \A f : Out(f) <=> Keeping(f, N, v, P)
  <2>1. \A i \in 1 .. N : (i \in P <=> all[i].sub = "") /\ v[i] = all[i].type
    OBVIOUS
  <2>2. \A i \in 0 .. N : i # 0 => i \in 1 .. N
    BY <1>2
  <2> HIDE DEF v, P, N
  <2> QED BY <2>1, <2>2 DEF Keeping
<1> DEFINE out == CHOOSE f : Out(f)
<1>6. RelationTypes(s, t, r) = out[N]
  BY DEF RelationTypes, DirectTypes, all
<1> HIDE DEF Out, v, P, N
<1>7. \E f : Out(f)
  BY <1>2, <1>5, KeepingExists
<1>8. Keeping(out, N, v, P)
  BY <1>5, <1>7
<1> HIDE DEF out
<1>9. out[N] \in Seq(Defs(s)) /\ ToSet(out[N]) = Kept(v, P, N)
  BY <1>1, <1>2, <1>3, <1>8, KeptAre
<1> QED BY <1>3, <1>6, <1>9

\* The legs of expression e of a permission of t, as a set.
LegsOf(s, t, e) ==
  {PermissionLeg(m[1], m[2]) : m \in Refers(s, t, e) \cap Keys(s)} \cup
  (IF e.kind = "self" THEN {TypesLeg(<<t>>)} ELSE {}) \cup
  (IF e.kind = "ident" /\ e.left \in DOMAIN s.rel[t]
   THEN {TypesLeg(RelationTypes(s, t, e.left))} ELSE {})

\* An arrow has a leg for each permission it leads to.
LEMMA ArrowLegsAre ==
  ASSUME NEW s, Accepted(s), NEW t \in Defs(s), NEW e, e.kind = "arrow", e.left \in DOMAIN s.rel[t]
  PROVE  ExprLegs(s, t, e) \in Seq(AnyLeg(s)) /\ ToSet(ExprLegs(s, t, e)) = LegsOf(s, t, e)
<1> DEFINE refs == RelationTypes(s, t, e.left)
           N    == Len(refs)
           v    == [i \in 1 .. N |-> PermissionLeg(refs[i], e.right)]
           P    == {i \in 1 .. N : <<refs[i], e.right>> \in Keys(s)}
<1>1. refs \in Seq(Defs(s)) /\ ToSet(refs) = Direct(s, t, e.left)
  BY RelationTypesAre
<1> HIDE DEF refs
<1>2. N \in Nat /\ ToSet(refs) = {refs[i] : i \in 1 .. N}
  BY <1>1, LenProperties, ElementsOfSeq
<1>3. Kept(v, P, N) = {PermissionLeg(m[1], m[2]) : m \in Refers(s, t, e) \cap Keys(s)}
  <2>1. Refers(s, t, e) = {refs[i] : i \in 1 .. N} \X {e.right}
    BY <1>1, <1>2 DEF Refers
  <2>2. Kept(v, P, N) = {v[i] : i \in P}
    BY DEF Kept
  <2>3. ASSUME NEW i \in P
        PROVE  \E m \in Refers(s, t, e) \cap Keys(s) : v[i] = PermissionLeg(m[1], m[2])
    <3>1. <<refs[i], e.right>> \in Refers(s, t, e) \cap Keys(s)
      BY <2>1
    <3> QED BY <3>1
  <2>4. ASSUME NEW m \in Refers(s, t, e) \cap Keys(s)
        PROVE  \E i \in P : v[i] = PermissionLeg(m[1], m[2])
    <3>1. PICK i \in 1 .. N : m = <<refs[i], e.right>>
      BY <2>1
    <3> QED BY <3>1
  <2> HIDE DEF v, P
  <2> QED BY <2>2, <2>3, <2>4
<1>4. Kept(v, P, N) = LegsOf(s, t, e)
  BY <1>3 DEF LegsOf
<1>5. Kept(v, P, N) \subseteq AnyLeg(s)
  <2>1. ASSUME NEW m \in Refers(s, t, e) \cap Keys(s)
        PROVE  PermissionLeg(m[1], m[2]) \in AnyLeg(s)
    BY KeysAre DEF PermissionLeg, AnyLeg
  <2> QED BY <1>3, <2>1
<1> DEFINE Out(f) == f = [i \in 0 .. N |-> IF i = 0 THEN <<>>
                            ELSE IF <<refs[i], e.right>> \in Keys(s)
                            THEN Append(f[i - 1], PermissionLeg(refs[i], e.right)) ELSE f[i - 1]]
<1>6. \A f : Out(f) <=> Keeping(f, N, v, P)
  <2>1. \A i \in 1 .. N : /\ i \in P <=> <<refs[i], e.right>> \in Keys(s)
                          /\ v[i] = PermissionLeg(refs[i], e.right)
    OBVIOUS
  <2>2. \A i \in 0 .. N : i # 0 => i \in 1 .. N
    BY <1>2
  <2> HIDE DEF v, P, N
  <2> QED BY <2>1, <2>2 DEF Keeping
<1> DEFINE out == CHOOSE f : Out(f)
<1>7. ExprLegs(s, t, e) = out[N]
  BY DEF ExprLegs, ArrowLegs, refs
<1> HIDE DEF Out, v, P, N
<1>8. \E f : Out(f)
  BY <1>2, <1>6, KeepingExists
<1>9. Keeping(out, N, v, P)
  BY <1>6, <1>8
<1> HIDE DEF out
<1>10. out[N] \in Seq(AnyLeg(s)) /\ ToSet(out[N]) = Kept(v, P, N)
  BY <1>2, <1>5, <1>9, KeptAre
<1> QED BY <1>4, <1>7, <1>10

\* resolvePermissionExpressionTypes makes of an expression the legs it stands for.
LEMMA ExprLegsAre ==
  ASSUME NEW s, Accepted(s), NEW k \in Keys(s), NEW e \in Exprs(s, k)
  PROVE  ExprLegs(s, k[1], e) \in Seq(AnyLeg(s)) /\ ToSet(ExprLegs(s, k[1], e)) = LegsOf(s, k[1], e)
<1> DEFINE t == k[1]
<1>1. t \in Defs(s) /\ (e.kind \in {"ident", "self"} \/ (e.kind = "arrow" /\ e.left \in DOMAIN s.rel[t]))
  BY KeysAre DEF Accepted
<1>2. ASSUME NEW l \in AnyLeg(s)
      PROVE  <<l>> \in Seq(AnyLeg(s)) /\ ToSet(<<l>>) = {l}
  BY DEF ToSet
<1>3. <<>> \in Seq(AnyLeg(s)) /\ ToSet(<<>>) = {}
  BY EmptySeq DEF ToSet
<1>4. \A n : <<t, n>> \in Keys(s) <=> n \in DOMAIN s.perm[t]
  BY <1>1 DEF Keys
<1> HIDE DEF t
<1>5. CASE e.kind = "ident" /\ e.left \in DOMAIN s.rel[t]
  <2>1. Refers(s, t, e) \cap Keys(s) = {}
    BY <1>1, <1>4, <1>5 DEF Refers, Accepted
  <2>2. TypesLeg(RelationTypes(s, t, e.left)) \in AnyLeg(s)
    BY <1>1, <1>5, RelationTypesAre DEF TypesLeg, AnyLeg
  <2>3. ExprLegs(s, t, e) = <<TypesLeg(RelationTypes(s, t, e.left))>>
    BY <1>5 DEF ExprLegs
  <2>4. LegsOf(s, t, e) = {TypesLeg(RelationTypes(s, t, e.left))}
    BY <2>1, <1>5 DEF LegsOf
  <2> QED BY <2>2, <2>3, <2>4, <1>2 DEF t
<1>6. CASE e.kind = "ident" /\ e.left \notin DOMAIN s.rel[t]
  <2>1. Refers(s, t, e) = {<<t, e.left>>}
    BY <1>6 DEF Refers
  <2>2. LegsOf(s, t, e) = {PermissionLeg(m[1], m[2]) : m \in {<<t, e.left>>} \cap Keys(s)}
    BY <2>1, <1>6 DEF LegsOf
  <2>3. ExprLegs(s, t, e) = IF <<t, e.left>> \in Keys(s) THEN <<PermissionLeg(t, e.left)>> ELSE <<>>
    BY <1>6 DEF ExprLegs
  <2>4. CASE <<t, e.left>> \in Keys(s)
    <3>1. PermissionLeg(t, e.left) \in AnyLeg(s)
      BY <2>4 DEF PermissionLeg, AnyLeg
    <3>2. LegsOf(s, t, e) = {PermissionLeg(t, e.left)}
      BY <2>2, <2>4
    <3> QED BY <2>3, <2>4, <3>1, <3>2, <1>2 DEF t
  <2>5. CASE <<t, e.left>> \notin Keys(s)
    <3>1. LegsOf(s, t, e) = {}
      BY <2>2, <2>5
    <3> QED BY <2>3, <2>5, <3>1, <1>3 DEF t
  <2> QED BY <2>4, <2>5
<1>7. CASE e.kind = "arrow"
  BY <1>1, <1>7, ArrowLegsAre DEF t
<1>8. CASE e.kind = "self"
  <2>1. TypesLeg(<<t>>) \in AnyLeg(s)
    BY <1>1 DEF TypesLeg, AnyLeg
  <2>2. ExprLegs(s, t, e) = <<TypesLeg(<<t>>)>>
    BY <1>8 DEF ExprLegs
  <2>3. LegsOf(s, t, e) = {TypesLeg(<<t>>)}
    BY <1>8 DEF LegsOf, Refers
  <2> QED BY <2>1, <2>2, <2>3, <1>2 DEF t
<1> QED BY <1>1, <1>5, <1>6, <1>7, <1>8

\* The legs of a permission are those of its expressions.
LEMMA LegsAre ==
  ASSUME NEW s, Accepted(s), NEW k \in Keys(s)
  PROVE  /\ Legs(s, k) \in Seq(AnyLeg(s))
         /\ ToSet(Legs(s, k)) = UNION {LegsOf(s, k[1], e) : e \in Exprs(s, k)}
<1> DEFINE exprs == s.perm[k[1]][k[2]]
           parts == [i \in DOMAIN exprs |-> ExprLegs(s, k[1], exprs[i])]
           N == Len(exprs)
<1>1. exprs \in Seq(Exprs(s, k)) /\ Exprs(s, k) = ToSet(exprs)
  BY DEF Accepted, IsList, Exprs
<1>2. Legs(s, k) = AppendNew(<<>>, FlattenSeq(parts))
  BY DEF Legs
<1> HIDE DEF exprs
<1>3. /\ N \in Nat /\ DOMAIN exprs = 1 .. N /\ Exprs(s, k) = {exprs[i] : i \in 1 .. N}
      /\ \A i \in 1 .. N : exprs[i] \in Exprs(s, k)
  BY <1>1, LenProperties, ElementsOfSeq
<1>4. /\ \A i \in 1 .. N : /\ parts[i] \in Seq(AnyLeg(s))
                           /\ ToSet(parts[i]) = LegsOf(s, k[1], exprs[i])
      /\ parts \in [1 .. N -> Seq(AnyLeg(s))]
  BY <1>3, ExprLegsAre
<1> HIDE DEF parts
<1>5. parts \in Seq(Seq(AnyLeg(s))) /\ Len(parts) = N
  BY <1>3, <1>4
<1>6. /\ FlattenSeq(parts) \in Seq(AnyLeg(s))
      /\ ToSet(FlattenSeq(parts)) = UNION {ToSet(parts[i]) : i \in 1 .. N}
  BY <1>5, FlattenProperties DEF Flat
<1>7. <<>> \in Seq(AnyLeg(s)) /\ ToSet(<<>>) = {}
  BY EmptySeq DEF ToSet
<1>8. /\ Legs(s, k) \in Seq(AnyLeg(s))
      /\ ToSet(Legs(s, k)) = UNION {ToSet(parts[i]) : i \in 1 .. N}
  <2> DEFINE all == FlattenSeq(parts)
  <2>1. all \in Seq(AnyLeg(s)) /\ ToSet(all) = UNION {ToSet(parts[i]) : i \in 1 .. N}
    BY <1>6
  <2>2. Legs(s, k) = AppendNew(<<>>, all)
    BY <1>2
  <2> HIDE DEF all, N
  <2>3. PICK none : none = <<>>
    OBVIOUS
  <2>4. none \in Seq(AnyLeg(s)) /\ all \in Seq(AnyLeg(s))
    BY <1>7, <2>1, <2>3
  <2>5. /\ AppendNew(none, all) \in Seq(AnyLeg(s))
        /\ ToSet(AppendNew(none, all)) = ToSet(none) \cup ToSet(all)
    BY <2>4, AppendNewIs
  <2> QED BY <1>7, <2>1, <2>2, <2>3, <2>5
<1>9. {ToSet(parts[i]) : i \in 1 .. N} = {LegsOf(s, k[1], e) : e \in Exprs(s, k)}
  <2> HIDE DEF N
  <2>1. {ToSet(parts[i]) : i \in 1 .. N} = {LegsOf(s, k[1], exprs[i]) : i \in 1 .. N}
    BY <1>4
  <2> QED BY <2>1, <1>3
<1> QED BY <1>8, <1>9

-----------------------------------------------------------------------------
(* What can be reached.                                                    *)

\* Only relations and permissions are referred to.
LEMMA NodesAre ==
  ASSUME NEW s, NEW n
  PROVE  Successors(s, n) \subseteq Nodes(s) /\ Keys(s) \subseteq Nodes(s)
BY DEF Successors, Nodes

\* Below contains the successors, and the successors of what it contains, and nothing else.
LEMMA BelowIs ==
  ASSUME NEW s, Accepted(s), NEW n
  PROVE  /\ Successors(s, n) \subseteq Below(s, n) /\ Below(s, n) \subseteq Nodes(s)
         /\ \A m \in Below(s, n) : Successors(s, m) \subseteq Below(s, n)
         /\ \A T : /\ Successors(s, n) \subseteq T
                   /\ \A m \in T : Successors(s, m) \subseteq T
                   => Below(s, n) \subseteq T
<1> DEFINE All == Nodes(s)
           N   == Cardinality(All)
           A   == SUBSET All
           one == Successors(s, n)
           More(q) == q \cup UNION {Successors(s, m) : m \in q}
           g   == [i \in 1 .. N |-> [q \in A |-> More(q)]]
           Out(f) == f = [i \in 0 .. N |-> IF i = 0 THEN one
                            ELSE f[i - 1] \cup UNION {Successors(s, m) : m \in f[i - 1]}]
<1>1. IsFiniteSet(All)
  BY DEF Accepted
<1>2. N \in Nat
  BY <1>1, FS_CardinalityType
<1>3. one \in A /\ \A q \in A : More(q) \in A
  BY NodesAre
<1>4. \E f : Out(f) /\ f \in [0 .. N -> A]
  <2>1. g \in Rounds(N, A)
    <3> HIDE DEF A, N, More
    <3> QED BY <1>3 DEF Rounds
  <2>2. \A i \in 1 .. N, q \in A : g[i][q] = More(q)
    OBVIOUS
  <2> HIDE DEF g, A, N, All, one
  <2>3. PICK f : Loop(f, one, g, N, A)
    BY <1>2, <1>3, <2>1, Recurses
  <2>4. /\ f \in [0 .. N -> A]
        /\ \A i \in 0 .. N : f[i] = IF i = 0 THEN one ELSE g[i][f[i - 1]]
    BY <2>3 DEF Loop
  <2>5. \A i \in 0 .. N : i # 0 => i \in 1 .. N /\ f[i - 1] \in A
    BY <1>2, <2>4
  <2>6. \A i \in 0 .. N : f[i] = IF i = 0 THEN one ELSE More(f[i - 1])
    BY <2>2, <2>4, <2>5
  <2>7. f = [i \in 0 .. N |-> f[i]]
    BY <2>4
  <2>8. Out(f)
    BY <2>6, <2>7
  <2> HIDE DEF Out
  <2> QED BY <2>4, <2>8
<1> DEFINE w == CHOOSE f : Out(f)
<1>5. Out(w)
  BY <1>4
<1>6. Below(s, n) = w[N]
  BY DEF Below
<1>7. w[0] = one /\ \A i \in 1 .. N : w[i] = More(w[i - 1])
  <2>1. 0 \in 0 .. N /\ \A i \in 1 .. N : i \in 0 .. N /\ i # 0
    BY <1>2
  <2> HIDE DEF w, N, one
  <2> QED BY <1>5, <2>1
<1> HIDE DEF w, N, Out, g
<1> DEFINE Closed(q) == \A m \in q : Successors(s, m) \subseteq q
           S == {i \in Nat : i <= N => /\ w[i] \in A /\ one \subseteq w[i]
                                       /\ Closed(w[i]) \/ Cardinality(w[i]) >= i + 1
                                       /\ \A T : one \subseteq T /\ Closed(T) => w[i] \subseteq T}
<1>8. 0 \in S
  <2>1. one = {} => Closed(one)
    OBVIOUS
  <2>2. one # {} => Cardinality(one) >= 0 + 1
    <3>1. IsFiniteSet(one)
      BY <1>1, <1>3, FS_Subset
    <3> HIDE DEF one
    <3> QED BY <3>1, FS_EmptySet, FS_CardinalityType
  <2> HIDE DEF Closed, one
  <2> QED BY <1>3, <1>7, <2>1, <2>2
<1>9. ASSUME NEW i \in Nat, i \in S PROVE i + 1 \in S
  <2>1. ASSUME i + 1 <= N
        PROVE  /\ w[i + 1] \in A /\ one \subseteq w[i + 1]
               /\ Closed(w[i + 1]) \/ Cardinality(w[i + 1]) >= (i + 1) + 1
               /\ \A T : one \subseteq T /\ Closed(T) => w[i + 1] \subseteq T
    <3> DEFINE q == w[i]
               r == w[i + 1]
    <3>1. /\ q \in A /\ one \subseteq q
          /\ Closed(q) \/ Cardinality(q) >= i + 1
          /\ \A T : one \subseteq T /\ Closed(T) => q \subseteq T
      <4> HIDE DEF Closed, one, A
      <4> QED BY <1>9, <2>1, <1>2
    <3>2. i + 1 \in 1 .. N /\ (i + 1) - 1 = i
      BY <2>1, <1>2
    <3>3. r = More(q)
      BY <3>2, <1>7
    <3> HIDE DEF q, r
    <3>4. r \in A /\ q \subseteq r
      BY <1>3, <3>1, <3>3
    <3>5. Closed(q) => Closed(r)
      BY <3>3
    <3>6. ~Closed(q) => Cardinality(r) >= (i + 1) + 1
      <4> SUFFICES ASSUME ~Closed(q) PROVE Cardinality(r) >= (i + 1) + 1
        OBVIOUS
      <4>1. q # r
        BY <3>3
      <4>2. IsFiniteSet(r) /\ IsFiniteSet(q)
        BY <1>1, <3>1, <3>4, FS_Subset
      <4>3. Cardinality(q) <= Cardinality(r) /\ Cardinality(q) # Cardinality(r)
        BY <3>4, <4>1, <4>2, FS_Subset
      <4>4. Cardinality(q) \in Nat /\ Cardinality(r) \in Nat
        BY <4>2, FS_CardinalityType
      <4>5. Cardinality(q) >= i + 1
        BY <3>1
      <4> QED BY <4>3, <4>4, <4>5
    <3>7. ASSUME NEW T, one \subseteq T, Closed(T) PROVE r \subseteq T
      <4>1. q \subseteq T
        BY <3>1, <3>7
      <4> QED BY <3>3, <3>7, <4>1
    <3> HIDE DEF Closed, one, A
    <3> QED BY <3>1, <3>4, <3>5, <3>6, <3>7 DEF r
  <2> HIDE DEF Closed, one, A
  <2> QED BY <2>1
<1> HIDE DEF S
<1>10. Nat \subseteq S
  BY <1>8, <1>9, NatSetInduction
<1>11. N \in S /\ N <= N
  BY <1>2, <1>10
<1>12. /\ w[N] \in A /\ one \subseteq w[N]
       /\ Closed(w[N]) \/ Cardinality(w[N]) >= N + 1
       /\ \A T : one \subseteq T /\ Closed(T) => w[N] \subseteq T
  <2> HIDE DEF Closed, one, A
  <2> QED BY <1>11 DEF S
<1>13. Closed(w[N])
  <2>1. Cardinality(w[N]) <= N
    BY <1>1, <1>12, FS_Subset DEF N
  <2>2. Cardinality(w[N]) \in Nat
    BY <1>1, <1>12, FS_Subset, FS_CardinalityType
  <2> HIDE DEF Closed
  <2> QED BY <1>2, <1>12, <2>1, <2>2
<1> QED BY <1>6, <1>12, <1>13

\* What is below something below n is below n.
LEMMA BelowTwice ==
  ASSUME NEW s, Accepted(s), NEW n, NEW m \in Below(s, n)
  PROVE  Below(s, m) \subseteq Below(s, n)
BY BelowIs

\* Whoever can hold a permission can hold what refers to it.
LEMMA InputTypesBelow ==
  ASSUME NEW s, Accepted(s), NEW n, NEW m \in Below(s, n)
  PROVE  InputTypes(s, m) \subseteq InputTypes(s, n) /\ OwnTypes(s, m) \subseteq InputTypes(s, n)
BY BelowTwice DEF InputTypes

\* Permission legs are the permissions a permission refers to.
LEMMA PermissionLegs ==
  ASSUME NEW s, Accepted(s), NEW k \in Keys(s)
  PROVE  /\ \A l \in ToSet(Legs(s, k)) :
              l.kind = "permission" => l.key \in Keys(s) /\ l.key \in Successors(s, k)
         /\ \A m \in Successors(s, k) \cap Keys(s) :
              \E l \in ToSet(Legs(s, k)) : l.kind = "permission" /\ l.key = m
<1>1. ToSet(Legs(s, k)) = UNION {LegsOf(s, k[1], e) : e \in Exprs(s, k)}
  BY LegsAre
<1>2. Successors(s, k) = Nodes(s) \cap UNION {Refers(s, k[1], e) : e \in Exprs(s, k)}
  BY DEF Successors
<1>3. ASSUME NEW e \in Exprs(s, k), NEW l \in LegsOf(s, k[1], e), l.kind = "permission"
      PROVE  l.key \in Keys(s) /\ l.key \in Successors(s, k)
  <2>1. PICK m \in Refers(s, k[1], e) \cap Keys(s) : l = PermissionLeg(m[1], m[2])
    BY <1>3 DEF LegsOf, TypesLeg
  <2>2. l.key = m
    BY <2>1, KeysAre DEF PermissionLeg
  <2> QED BY <2>1, <2>2, <1>2, NodesAre
<1>4. ASSUME NEW m \in Successors(s, k) \cap Keys(s)
      PROVE  \E l \in ToSet(Legs(s, k)) : l.kind = "permission" /\ l.key = m
  <2>1. PICK e \in Exprs(s, k) : m \in Refers(s, k[1], e)
    BY <1>2
  <2> DEFINE l == PermissionLeg(m[1], m[2])
  <2>2. l \in LegsOf(s, k[1], e)
    BY <2>1 DEF LegsOf
  <2>3. l.kind = "permission" /\ l.key = m
    BY KeysAre DEF PermissionLeg
  <2> QED BY <1>1, <2>2, <2>3
<1> QED BY <1>1, <1>3, <1>4

\* An arrow of k leads to a relation.
ToRelation(s, k) ==
  \E e \in Exprs(s, k) : e.kind = "arrow" /\ Refers(s, k[1], e) \cap (Nodes(s) \ Keys(s)) # {}

\* Types legs give types that can hold the permission; they give all its own types,
\* and those of the relations it refers to unless it does so by an arrow.
LEMMA TypesLegs ==
  ASSUME NEW s, Accepted(s), NEW k \in Keys(s)
  PROVE  /\ \A l \in ToSet(Legs(s, k)) :
              l.kind = "types" => l.types \in Seq(Defs(s)) /\ ToSet(l.types) \subseteq InputTypes(s, k)
         /\ \A x \in OwnTypes(s, k) :
              \E l \in ToSet(Legs(s, k)) : l.kind = "types" /\ x \in ToSet(l.types)
         /\ \A n \in Successors(s, k) \ Keys(s) : \A x \in OwnTypes(s, n) : ~ToRelation(s, k) =>
              \E l \in ToSet(Legs(s, k)) : l.kind = "types" /\ x \in ToSet(l.types)
<1> DEFINE t == k[1]
<1>1. ToSet(Legs(s, k)) = UNION {LegsOf(s, t, e) : e \in Exprs(s, k)}
  BY LegsAre
<1>2. Successors(s, k) = Nodes(s) \cap UNION {Refers(s, t, e) : e \in Exprs(s, k)}
  BY DEF Successors
<1>3. t \in Defs(s) /\ (\A n : <<t, n>> \in Keys(s) <=> n \in DOMAIN s.perm[t])
  BY KeysAre DEF Keys
<1>4. \A r \in DOMAIN s.rel[t] : /\ <<t, r>> \in Nodes(s) \ Keys(s)
                                 /\ OwnTypes(s, <<t, r>>) = Direct(s, t, r)
                                 /\ ToSet(RelationTypes(s, t, r)) = Direct(s, t, r)
                                 /\ RelationTypes(s, t, r) \in Seq(Defs(s))
  <2> TAKE r \in DOMAIN s.rel[t]
  <2>1. <<t, r>> \notin Keys(s)
    BY <1>3 DEF Accepted
  <2>2. <<t, r>> \in Nodes(s)
    BY <1>3 DEF Nodes
  <2>3. OwnTypes(s, <<t, r>>) = Direct(s, t, r)
    BY <2>1 DEF OwnTypes
  <2> QED BY <2>1, <2>2, <2>3, <1>3, RelationTypesAre
<1>5. OwnTypes(s, k) = IF \E e \in Exprs(s, k) : e.kind = "self" THEN {t} ELSE {}
  BY DEF OwnTypes
<1>6. <<t>> \in Seq(Defs(s)) /\ ToSet(<<t>>) = {t}
  BY <1>3 DEF ToSet
<1> HIDE DEF t
<1>7. ASSUME NEW e \in Exprs(s, k), NEW l \in LegsOf(s, t, e), l.kind = "types"
      PROVE  l.types \in Seq(Defs(s)) /\ ToSet(l.types) \subseteq InputTypes(s, k)
  <2>1. \/ e.kind = "self" /\ l = TypesLeg(<<t>>)
        \/ e.kind = "ident" /\ e.left \in DOMAIN s.rel[t] /\ l = TypesLeg(RelationTypes(s, t, e.left))
    BY <1>7 DEF LegsOf, PermissionLeg
  <2>2. CASE e.kind = "self" /\ l = TypesLeg(<<t>>)
    <3>1. OwnTypes(s, k) = {t} /\ OwnTypes(s, k) \subseteq InputTypes(s, k)
      BY <2>2, <1>5 DEF InputTypes
    <3> QED BY <3>1, <2>2, <1>6 DEF TypesLeg
  <2>3. CASE e.kind = "ident" /\ e.left \in DOMAIN s.rel[t] /\ l = TypesLeg(RelationTypes(s, t, e.left))
    <3> DEFINE n == <<t, e.left>>
    <3>1. n \in Refers(s, t, e)
      BY <2>3 DEF Refers
    <3>2. n \in Below(s, k)
      BY <3>1, <2>3, <1>2, <1>4, BelowIs
    <3>3. OwnTypes(s, n) \subseteq InputTypes(s, k)
      BY <3>2, InputTypesBelow
    <3>4. l.types = RelationTypes(s, t, e.left)
      BY <2>3 DEF TypesLeg
    <3> QED BY <3>3, <3>4, <2>3, <1>4
  <2> QED BY <2>1, <2>2, <2>3
<1>8. ASSUME NEW x \in OwnTypes(s, k)
      PROVE  \E l \in ToSet(Legs(s, k)) : l.kind = "types" /\ x \in ToSet(l.types)
  <2>1. x = t /\ \E e \in Exprs(s, k) : e.kind = "self"
    BY <1>5
  <2>2. PICK e \in Exprs(s, k) : e.kind = "self"
    BY <2>1
  <2> DEFINE l == TypesLeg(<<t>>)
  <2>3. l \in LegsOf(s, t, e)
    BY <2>2 DEF LegsOf
  <2>4. l.kind = "types" /\ l.types = <<t>>
    BY DEF TypesLeg
  <2> HIDE DEF l
  <2> QED BY <2>1, <2>3, <2>4, <1>1, <1>6
<1>9. ASSUME NEW n \in Successors(s, k) \ Keys(s), NEW x \in OwnTypes(s, n), ~ToRelation(s, k)
      PROVE  \E l \in ToSet(Legs(s, k)) : l.kind = "types" /\ x \in ToSet(l.types)
  <2>1. PICK e \in Exprs(s, k) : n \in Refers(s, t, e) /\ n \in Nodes(s) \ Keys(s)
    BY <1>2
  <2>2. e.kind # "arrow"
    BY <2>1, <1>9 DEF ToRelation, t
  <2>3. e.kind = "ident"
    BY <2>1, <2>2 DEF Accepted, Refers
  <2>4. n = <<t, e.left>>
    BY <2>1, <2>3 DEF Refers
  <2>5. e.left \in DOMAIN s.rel[t]
    BY <2>1, <2>4 DEF Nodes
  <2> DEFINE l == TypesLeg(RelationTypes(s, t, e.left))
  <2>6. l \in LegsOf(s, t, e)
    BY <2>3, <2>5 DEF LegsOf
  <2>7. l.kind = "types" /\ l.types = RelationTypes(s, t, e.left)
    BY DEF TypesLeg
  <2>8. x \in ToSet(RelationTypes(s, t, e.left))
    BY <2>4, <2>5, <1>4
  <2> HIDE DEF l
  <2> QED BY <2>6, <2>7, <2>8, <1>1
<1> QED BY <1>1, <1>7, <1>8, <1>9

\* Nothing is below a relation.
LEMMA RelationsEnd ==
  ASSUME NEW s, NEW n, n \notin Keys(s)
  PROVE  Successors(s, n) = {}
BY DEF Successors

\* If the lists of R are part of r's, the legs of each of R are met in its list, and
\* R has what it refers to below r, then r's list has all types of what is below r.
LEMMA Complete ==
  ASSUME NEW s, Accepted(s), NEW C, NEW R, NEW r \in R \cap Keys(s), ~ArrowToRelation(s, r),
         \A n \in R : ToSet(C[n]) \subseteq ToSet(C[r]),
         \A n \in R : \A l \in ToSet(Legs(s, n)) :
           l.kind = "types" => ToSet(l.types) \subseteq ToSet(C[n]),
         \A n \in R \cap ({r} \cup Below(s, r)) : Successors(s, n) \cap Keys(s) \subseteq R
  PROVE  InputTypes(s, r) \subseteq ToSet(C[r])
<1> DEFINE A == {r} \cup Below(s, r)
           T == {n \in Below(s, r) : IF n \in Keys(s) THEN n \in R
                                     ELSE OwnTypes(s, n) \subseteq ToSet(C[r])}
<1>1. \A n \in A \cap Keys(s) : ~ToRelation(s, n)
  BY DEF ArrowToRelation, ToRelation
<1>2. ASSUME NEW n \in A, n \in Keys(s) => n \in R
      PROVE  Successors(s, n) \subseteq T
  <2>1. CASE n \in Keys(s)
    <3>1. n \in R /\ Successors(s, n) \subseteq Below(s, r)
      BY <1>2, <2>1, BelowIs
    <3>2. ASSUME NEW m \in Successors(s, n), m \notin Keys(s)
          PROVE  OwnTypes(s, m) \subseteq ToSet(C[r])
      <4>1. ASSUME NEW x \in OwnTypes(s, m) PROVE x \in ToSet(C[r])
        <5>1. PICK l \in ToSet(Legs(s, n)) : l.kind = "types" /\ x \in ToSet(l.types)
          BY <1>1, <2>1, <3>2, <4>1, TypesLegs
        <5> QED BY <3>1, <5>1
      <4> QED BY <4>1
    <3>3. Successors(s, n) \cap Keys(s) \subseteq R
      BY <3>1
    <3> QED BY <3>1, <3>2, <3>3
  <2>2. CASE n \notin Keys(s)
    BY <2>2, RelationsEnd
  <2> QED BY <2>1, <2>2
<1>3. Below(s, r) \subseteq T
  <2>1. Successors(s, r) \subseteq T
    BY <1>2
  <2>2. \A n \in T : Successors(s, n) \subseteq T
    BY <1>2
  <2> HIDE DEF T
  <2> QED BY <2>1, <2>2, BelowIs
<1>4. ASSUME NEW n \in A PROVE OwnTypes(s, n) \subseteq ToSet(C[r])
  <2>1. CASE n \in Keys(s)
    <3>1. n \in R
      BY <1>3, <2>1
    <3>2. ASSUME NEW x \in OwnTypes(s, n) PROVE x \in ToSet(C[r])
      <4>1. PICK l \in ToSet(Legs(s, n)) : l.kind = "types" /\ x \in ToSet(l.types)
        BY <2>1, <3>2, TypesLegs
      <4> QED BY <3>1, <4>1
    <3> QED BY <3>2
  <2>2. CASE n \notin Keys(s)
    BY <1>3, <2>2
  <2> QED BY <2>1, <2>2
<1> QED BY <1>4 DEF InputTypes

-----------------------------------------------------------------------------
(* Lists.                                                                  *)

Lists(s) == [Keys(s) -> Seq(Defs(s))]

\* The lists of n as its legs are dealt with.
Collects(out, s, n, known) ==
  /\ out \in [0 .. Len(Legs(s, n)) -> Seq(Defs(s))]
  /\ \A j \in 0 .. Len(Legs(s, n)) :
       out[j] = IF j = 0 THEN <<>> ELSE AppendNew(out[j - 1], Gives(Legs(s, n)[j], n, known))

\* What a leg gives is a list of types.
LEMMA GivesTypes ==
  ASSUME NEW s, Accepted(s), NEW n, NEW known \in Lists(s), NEW l \in AnyLeg(s),
         l.kind = "types" => l.types \in Seq(Defs(s))
  PROVE  Gives(l, n, known) \in Seq(Defs(s))
<1>1. l.kind # "types" => l.kind = "permission" /\ l.key \in Keys(s) /\ known[l.key] \in Seq(Defs(s))
  BY DEF AnyLeg, Lists
<1>2. <<>> \in Seq(Defs(s))
  BY EmptySeq
<1> QED BY <1>1, <1>2 DEF Gives

\* Each of the legs of a permission is one.
LEMMA LegAt ==
  ASSUME NEW s, Accepted(s), NEW n \in Keys(s)
  PROVE  /\ Len(Legs(s, n)) \in Nat
         /\ \A j \in 1 .. Len(Legs(s, n)) :
              /\ Legs(s, n)[j] \in AnyLeg(s) /\ Legs(s, n)[j] \in ToSet(Legs(s, n))
              /\ Legs(s, n)[j].kind = "types" => Legs(s, n)[j].types \in Seq(Defs(s))
<1>1. PICK all \in Seq(AnyLeg(s)) : all = Legs(s, n)
  BY LegsAre
<1>2. Len(all) \in Nat /\ \A j \in 1 .. Len(all) : all[j] \in AnyLeg(s) /\ all[j] \in ToSet(all)
  BY LenProperties, ElementsOfSeq
<1> QED BY <1>1, <1>2, TypesLegs

\* There is one such loop, and Collected is its result.
LEMMA CollectedIs ==
  ASSUME NEW s, Accepted(s), NEW n \in Keys(s), NEW known \in Lists(s)
  PROVE  \E out : Collects(out, s, n, known) /\ Collected(s, n, known) = out[Len(Legs(s, n))]
<1> DEFINE legs == Legs(s, n)
           N == Len(legs)
           A == Seq(Defs(s))
           g == [j \in 1 .. N |-> [q \in A |-> AppendNew(q, Gives(legs[j], n, known))]]
<1>1. N \in Nat /\ \A j \in 1 .. N : Gives(legs[j], n, known) \in Seq(Defs(s))
  BY LegAt, GivesTypes
<1>2. g \in Rounds(N, A)
  <2>1. \A j \in 1 .. N : \A q \in A : AppendNew(q, Gives(legs[j], n, known)) \in A
    BY <1>1, AppendNewIs
  <2> HIDE DEF A, N, legs
  <2> QED BY <2>1 DEF Rounds
<1>3. <<>> \in A
  BY EmptySeq
<1>4. \A j \in 1 .. N, q \in A : g[j][q] = AppendNew(q, Gives(legs[j], n, known))
  OBVIOUS
<1> DEFINE Is(f) == f = [j \in 0 .. N |-> IF j = 0 THEN <<>>
                           ELSE AppendNew(f[j - 1], Gives(legs[j], n, known))]
<1>5. Collected(s, n, known) = (CHOOSE f : Is(f))[N]
  BY DEF Collected, GivenBy, Gives
<1> HIDE DEF g, A, N, legs
<1>6. PICK f0 : Loop(f0, <<>>, g, N, A)
  BY <1>1, <1>2, <1>3, Recurses
<1>7. \A f : Loop(f, <<>>, g, N, A) =>
        /\ f \in [0 .. N -> A]
        /\ \A j \in 0 .. N : f[j] = IF j = 0 THEN <<>> ELSE AppendNew(f[j - 1], Gives(legs[j], n, known))
  <2> SUFFICES ASSUME NEW f, Loop(f, <<>>, g, N, A)
               PROVE  /\ f \in [0 .. N -> A]
                      /\ \A j \in 0 .. N : f[j] = IF j = 0 THEN <<>>
                                             ELSE AppendNew(f[j - 1], Gives(legs[j], n, known))
    OBVIOUS
  <2>1. f \in [0 .. N -> A] /\ \A j \in 0 .. N : f[j] = IF j = 0 THEN <<>> ELSE g[j][f[j - 1]]
    BY DEF Loop
  <2>2. \A j \in 0 .. N : j # 0 => j \in 1 .. N /\ f[j - 1] \in A
    BY <1>1, <2>1
  <2> QED BY <1>4, <2>1, <2>2
<1>8. Is(f0)
  <2>1. f0 = [j \in 0 .. N |-> f0[j]]
    BY <1>6, <1>7
  <2> QED BY <1>6, <1>7, <2>1
<1>9. PICK f : Is(f) /\ f = CHOOSE h : Is(h)
  BY <1>8
<1>10. \A j \in 0 .. N : f[j] = IF j = 0 THEN <<>> ELSE AppendNew(f[j - 1], Gives(legs[j], n, known))
  BY <1>9
<1>11. f \in [0 .. N -> A]
  <2> DEFINE S == {j \in Nat : j <= N => f[j] \in A}
  <2>1. 0 \in S
    BY <1>1, <1>3, <1>10
  <2>2. ASSUME NEW j \in Nat, j \in S PROVE j + 1 \in S
    <3>1. ASSUME j + 1 <= N PROVE f[j + 1] \in A
      <4>1. j + 1 \in 0 .. N /\ j + 1 # 0 /\ (j + 1) - 1 = j /\ j + 1 \in 1 .. N /\ f[j] \in A
        BY <1>1, <2>2, <3>1
      <4>2. f[j + 1] = AppendNew(f[j], Gives(legs[j + 1], n, known))
        BY <1>10, <4>1
      <4> QED BY <1>1, <4>1, <4>2, AppendNewIs DEF A
    <3> QED BY <3>1
  <2> HIDE DEF S
  <2>3. Nat \subseteq S
    BY <2>1, <2>2, NatSetInduction
  <2>4. \A j \in 0 .. N : f[j] \in A
    BY <2>3 DEF S
  <2>5. f = [j \in 0 .. N |-> f[j]]
    BY <1>9
  <2> QED BY <2>4, <2>5
<1>12. Collects(f, s, n, known)
  BY <1>10, <1>11 DEF Collects, A, N, legs
<1>13. Collected(s, n, known) = f[N]
  BY <1>5, <1>9
<1> QED BY <1>12, <1>13 DEF N, legs

\* Only the lists of the other permissions it refers to matter.
LEMMA CollectsSame ==
  ASSUME NEW s, Accepted(s), NEW n \in Keys(s), NEW k1 \in Lists(s), NEW k2 \in Lists(s),
         \A m \in Successors(s, n) \cap Keys(s) : m # n => k1[m] = k2[m],
         NEW f1, Collects(f1, s, n, k1), NEW f2, Collects(f2, s, n, k2)
  PROVE  f1 = f2
<1>1. PICK legs : legs = Legs(s, n)
  OBVIOUS
<1>2. Len(legs) \in Nat
  BY <1>1, LegAt
<1>3. \A j \in 1 .. Len(legs) : Gives(legs[j], n, k1) = Gives(legs[j], n, k2)
  <2> TAKE j \in 1 .. Len(legs)
  <2>1. legs[j] \in AnyLeg(s) /\ legs[j] \in ToSet(Legs(s, n))
    BY <1>1, LegAt
  <2>2. legs[j].kind = "types" \/ legs[j].kind = "permission"
    BY <2>1 DEF AnyLeg
  <2>3. legs[j].kind = "permission" => legs[j].key \in Successors(s, n) \cap Keys(s)
    BY <2>1, PermissionLegs
  <2> QED BY <2>2, <2>3 DEF Gives
<1>4. /\ f1 \in [0 .. Len(legs) -> Seq(Defs(s))] /\ f2 \in [0 .. Len(legs) -> Seq(Defs(s))]
      /\ \A j \in 0 .. Len(legs) : f1[j] = IF j = 0 THEN <<>> ELSE AppendNew(f1[j - 1], Gives(legs[j], n, k1))
      /\ \A j \in 0 .. Len(legs) : f2[j] = IF j = 0 THEN <<>> ELSE AppendNew(f2[j - 1], Gives(legs[j], n, k2))
  BY <1>1 DEF Collects
<1> DEFINE S == {j \in Nat : j <= Len(legs) => f1[j] = f2[j]}
<1>5. 0 \in S
  BY <1>2, <1>4
<1>6. ASSUME NEW j \in Nat, j \in S PROVE j + 1 \in S
  <2>1. ASSUME j + 1 <= Len(legs) PROVE f1[j + 1] = f2[j + 1]
    <3>1. /\ j + 1 \in 0 .. Len(legs) /\ j + 1 # 0 /\ (j + 1) - 1 = j /\ f1[j] = f2[j]
          /\ j + 1 \in 1 .. Len(legs)
      BY <1>2, <1>6, <2>1
    <3> QED BY <3>1, <1>3, <1>4
  <2> QED BY <2>1
<1> HIDE DEF S
<1>7. Nat \subseteq S
  BY <1>5, <1>6, NatSetInduction
<1>8. \A j \in 0 .. Len(legs) : f1[j] = f2[j]
  BY <1>2, <1>7 DEF S
<1> QED BY <1>4, <1>8

\* What is collected is a list of types.
LEMMA CollectedTypes ==
  ASSUME NEW s, Accepted(s), NEW n \in Keys(s), NEW known \in Lists(s)
  PROVE  Collected(s, n, known) \in Seq(Defs(s))
<1>1. PICK out : Collects(out, s, n, known) /\ Collected(s, n, known) = out[Len(Legs(s, n))]
  BY CollectedIs
<1>2. Len(Legs(s, n)) \in Nat
  BY LegAt
<1>3. Len(Legs(s, n)) \in 0 .. Len(Legs(s, n))
  BY <1>2
<1> QED BY <1>1, <1>3 DEF Collects

\* Only the lists of the other permissions it refers to matter.
LEMMA CollectedSame ==
  ASSUME NEW s, Accepted(s), NEW n \in Keys(s), NEW k1 \in Lists(s), NEW k2 \in Lists(s),
         \A m \in Successors(s, n) \cap Keys(s) : m # n => k1[m] = k2[m]
  PROVE  Collected(s, n, k1) = Collected(s, n, k2)
<1>1. PICK f1 : Collects(f1, s, n, k1) /\ Collected(s, n, k1) = f1[Len(Legs(s, n))]
  BY CollectedIs
<1>2. PICK f2 : Collects(f2, s, n, k2) /\ Collected(s, n, k2) = f2[Len(Legs(s, n))]
  BY CollectedIs
<1>3. f1 = f2
  BY <1>1, <1>2, CollectsSame
<1> QED BY <1>1, <1>2, <1>3

\* f are the lists of all permissions when references are followed to depth 0, 1, ...
Deepens(f, s, N) ==
  /\ f \in [0 .. N -> Lists(s)]
  /\ f[0] = [n \in Keys(s) |-> <<>>]
  /\ \A i \in 1 .. N : \A n \in Keys(s) : f[i][n] = Collected(s, n, f[i - 1])

\* InputList is the last of the lists that deepen, one for each permission there is.
LEMMA InputListIs ==
  ASSUME NEW s, Accepted(s)
  PROVE  /\ Cardinality(Keys(s)) \in Nat
         /\ \E f : /\ Deepens(f, s, Cardinality(Keys(s)))
                   /\ \A k \in Keys(s) : InputList(s, k) = f[Cardinality(Keys(s))][k]
<1> DEFINE N == Cardinality(Keys(s))
           A == Lists(s)
           none == [n \in Keys(s) |-> <<>>]
           g == [i \in 1 .. N |-> [q \in A |-> [n \in Keys(s) |-> Collected(s, n, q)]]]
<1>1. N \in Nat
  <2>1. IsFiniteSet(Nodes(s)) /\ Keys(s) \subseteq Nodes(s)
    BY DEF Accepted, Nodes
  <2> QED BY <2>1, FS_Subset, FS_CardinalityType
<1>2. g \in Rounds(N, A)
  <2>1. \A q \in A : [n \in Keys(s) |-> Collected(s, n, q)] \in A
    <3> TAKE q \in A
    <3>1. \A n \in Keys(s) : Collected(s, n, q) \in Seq(Defs(s))
      BY CollectedTypes
    <3> QED BY <3>1 DEF Lists
  <2> HIDE DEF A, N
  <2> QED BY <2>1 DEF Rounds
<1>3. none \in A
  BY EmptySeq DEF Lists
<1>4. \A i \in 1 .. N, q \in A : g[i][q] = [n \in Keys(s) |-> Collected(s, n, q)]
  OBVIOUS
<1> DEFINE Is(f) == f = [i \in 0 .. N |->
                           [n \in Keys(s) |-> IF i = 0 THEN <<>> ELSE Collected(s, n, f[i - 1])]]
<1>5. \A k \in Keys(s) : InputList(s, k) = (CHOOSE f : Is(f))[N][k]
  BY DEF InputList
<1> HIDE DEF g, A, N
<1>6. PICK f0 : Loop(f0, none, g, N, A)
  BY <1>1, <1>2, <1>3, Recurses
<1>7. Is(f0)
  <2>1. f0 \in [0 .. N -> A] /\ \A i \in 0 .. N : f0[i] = IF i = 0 THEN none ELSE g[i][f0[i - 1]]
    BY <1>6 DEF Loop
  <2>2. \A i \in 0 .. N : i # 0 => i \in 1 .. N /\ f0[i - 1] \in A
    BY <1>1, <2>1
  <2>3. \A i \in 0 .. N : f0[i] = [n \in Keys(s) |-> IF i = 0 THEN <<>> ELSE Collected(s, n, f0[i - 1])]
    <3> TAKE i \in 0 .. N
    <3>1. CASE i = 0
      BY <2>1, <3>1
    <3>2. CASE i # 0
      <4>1. f0[i] = [n \in Keys(s) |-> Collected(s, n, f0[i - 1])]
        BY <1>4, <2>1, <2>2, <3>2
      <4> QED BY <3>2, <4>1
    <3> QED BY <3>1, <3>2
  <2>4. f0 = [i \in 0 .. N |-> f0[i]]
    BY <2>1
  <2> QED BY <2>3, <2>4
<1>8. PICK f : Is(f) /\ f = CHOOSE h : Is(h)
  BY <1>7
<1>9. /\ f[0] = none
      /\ \A i \in 1 .. N : f[i] = [n \in Keys(s) |-> Collected(s, n, f[i - 1])]
  <2>1. 0 \in 0 .. N /\ \A i \in 1 .. N : i \in 0 .. N /\ i # 0
    BY <1>1
  <2>2. \A i \in 0 .. N : f[i] = [n \in Keys(s) |-> IF i = 0 THEN <<>> ELSE Collected(s, n, f[i - 1])]
    BY <1>8
  <2> QED BY <2>1, <2>2
<1>10. f \in [0 .. N -> A]
  <2> DEFINE S == {i \in Nat : i <= N => f[i] \in A}
  <2>1. 0 \in S
    BY <1>3, <1>9
  <2>2. ASSUME NEW i \in Nat, i \in S PROVE i + 1 \in S
    <3>1. ASSUME i + 1 <= N PROVE f[i + 1] \in A
      <4>1. i + 1 \in 1 .. N /\ (i + 1) - 1 = i /\ f[i] \in A
        BY <1>1, <2>2, <3>1
      <4>2. f[i + 1] = [n \in Keys(s) |-> Collected(s, n, f[i])]
        BY <1>9, <4>1
      <4>3. PICK q \in Lists(s) : q = f[i]
        BY <4>1 DEF A
      <4>4. \A n \in Keys(s) : Collected(s, n, q) \in Seq(Defs(s))
        BY CollectedTypes
      <4> QED BY <4>2, <4>3, <4>4 DEF A, Lists
    <3> QED BY <3>1
  <2> HIDE DEF S
  <2>3. Nat \subseteq S
    BY <2>1, <2>2, NatSetInduction
  <2>4. \A i \in 0 .. N : f[i] \in A
    BY <1>1, <2>3 DEF S
  <2>5. f = [i \in 0 .. N |-> f[i]]
    BY <1>8
  <2> QED BY <2>4, <2>5
<1>11. \A i \in 1 .. N : \A n \in Keys(s) : f[i][n] = Collected(s, n, f[i - 1])
  BY <1>9
<1>12. Deepens(f, s, N)
  BY <1>9, <1>10, <1>11 DEF Deepens, A
<1>13. \A k \in Keys(s) : InputList(s, k) = f[N][k]
  BY <1>5, <1>8
<1> QED BY <1>1, <1>12, <1>13 DEF N

-----------------------------------------------------------------------------
\* Permissions that n needs, itself included.
Needs(s, n) == Keys(s) \cap ({n} \cup Below(s, n))

\* Without mutual recursion those it refers to need fewer, and are without it.
LEMMA TameBelow ==
  ASSUME NEW s, Accepted(s), NEW n \in Keys(s), ~Mutual(s, n),
         NEW m \in Keys(s) \cap Below(s, n)
  PROVE  /\ ~Mutual(s, m)
         /\ m # n => Needs(s, m) \subseteq Needs(s, n) \ {n}
<1>1. Below(s, m) \subseteq Below(s, n)
  BY BelowTwice
<1>2. ~Mutual(s, m)
  BY <1>1 DEF Mutual
<1>3. m # n => n \notin Below(s, m)
  BY DEF Mutual
<1> QED BY <1>1, <1>2, <1>3 DEF Needs

\* A permission needs itself, and no more than there are.
LEMMA NeedsAre ==
  ASSUME NEW s, Accepted(s), NEW n \in Keys(s)
  PROVE  /\ IsFiniteSet(Needs(s, n)) /\ Cardinality(Needs(s, n)) \in Nat \ {0}
         /\ Cardinality(Needs(s, n)) <= Cardinality(Keys(s))
<1>1. IsFiniteSet(Keys(s))
  <2>1. IsFiniteSet(Nodes(s)) /\ Keys(s) \subseteq Nodes(s)
    BY DEF Accepted, Nodes
  <2> QED BY <2>1, FS_Subset
<1>2. Needs(s, n) \subseteq Keys(s) /\ n \in Needs(s, n)
  BY DEF Needs
<1>3. IsFiniteSet(Needs(s, n)) /\ Cardinality(Needs(s, n)) <= Cardinality(Keys(s))
  BY <1>1, <1>2, FS_Subset
<1>4. Cardinality(Needs(s, n)) \in Nat /\ Cardinality(Needs(s, n)) # 0
  BY <1>2, <1>3, FS_CardinalityType, FS_EmptySet
<1> QED BY <1>3, <1>4

\* The permissions another one refers to need fewer, in numbers.
LEMMA NeedsFewer ==
  ASSUME NEW s, Accepted(s), NEW n \in Keys(s), ~Mutual(s, n),
         NEW m \in Keys(s) \cap Below(s, n), m # n
  PROVE  Cardinality(Needs(s, m)) + 1 <= Cardinality(Needs(s, n))
<1> DEFINE P == Needs(s, n)
           Q == Needs(s, m)
<1>1. Q \subseteq P \ {n} /\ n \in P
  BY TameBelow DEF Needs
<1>2. IsFiniteSet(P) /\ Cardinality(P) \in Nat /\ Cardinality(Q) \in Nat
  BY NeedsAre
<1> HIDE DEF P, Q
<1>3. IsFiniteSet(P \ {n}) /\ Cardinality(P \ {n}) = Cardinality(P) - 1
  BY <1>1, <1>2, FS_RemoveElement
<1>4. Cardinality(Q) <= Cardinality(P \ {n})
  BY <1>1, <1>3, FS_Subset
<1>5. Cardinality(Q) + 1 <= Cardinality(P)
  BY <1>2, <1>3, <1>4
<1> QED BY <1>5 DEF P, Q

\* From the depth on at which all that a permission needs is there, its list stays.
LEMMA ListSettles ==
  ASSUME NEW s, Accepted(s), NEW N \in Nat, NEW f, Deepens(f, s, N)
  PROVE  \A n \in Keys(s) : ~Mutual(s, n) =>
           \A i \in 0 .. N : Cardinality(Needs(s, n)) <= i => f[i][n] = Collected(s, n, f[i])
<1> DEFINE Settled(n, i) == f[i][n] = Collected(s, n, f[i])
           S == {c \in Nat : \A n \in Keys(s) : ~Mutual(s, n) /\ Cardinality(Needs(s, n)) <= c =>
                               \A i \in 0 .. N : c <= i => Settled(n, i)}
<1>1. /\ \A i \in 0 .. N : f[i] \in Lists(s)
      /\ \A i \in 1 .. N : \A n \in Keys(s) : f[i][n] = Collected(s, n, f[i - 1])
  BY DEF Deepens
<1>2. 0 \in S
  BY NeedsAre
<1>3. ASSUME NEW c \in Nat, c \in S PROVE c + 1 \in S
  <2>1. ASSUME NEW n \in Keys(s), ~Mutual(s, n), Cardinality(Needs(s, n)) <= c + 1,
               NEW i \in 0 .. N, c + 1 <= i
        PROVE  Settled(n, i)
    <3>1. i \in 1 .. N /\ i - 1 \in 0 .. N /\ c <= i - 1
      BY <2>1
    <3>2. f[i][n] = Collected(s, n, f[i - 1])
      BY <1>1, <3>1
    <3>3. ASSUME NEW m \in Successors(s, n) \cap Keys(s), m # n
          PROVE  f[i - 1][m] = f[i][m]
      <4>1. m \in Keys(s) \cap Below(s, n)
        BY BelowIs
      <4>2. ~Mutual(s, m)
        BY <2>1, <4>1, TameBelow
      <4>3. Cardinality(Needs(s, m)) + 1 <= Cardinality(Needs(s, n))
        BY <2>1, <3>3, <4>1, NeedsFewer
      <4>4. Cardinality(Needs(s, m)) \in Nat /\ Cardinality(Needs(s, n)) \in Nat
        BY NeedsAre
      <4>5. Cardinality(Needs(s, m)) <= c
        BY <2>1, <4>3, <4>4
      <4>6. Settled(m, i - 1)
        BY <1>3, <3>1, <4>2, <4>5
      <4>7. f[i][m] = Collected(s, m, f[i - 1])
        BY <1>1, <3>1
      <4> QED BY <4>6, <4>7
    <3>4. PICK k1 \in Lists(s) : k1 = f[i - 1]
      BY <1>1, <3>1
    <3>5. PICK k2 \in Lists(s) : k2 = f[i]
      BY <1>1
    <3>6. Collected(s, n, k1) = Collected(s, n, k2)
      BY <3>3, <3>4, <3>5, CollectedSame
    <3> QED BY <3>2, <3>4, <3>5, <3>6
  <2> HIDE DEF Settled
  <2> QED BY <2>1
<1> HIDE DEF S
<1>4. Nat \subseteq S
  BY <1>2, <1>3, NatSetInduction
<1>5. ASSUME NEW n \in Keys(s), ~Mutual(s, n), NEW i \in 0 .. N, Cardinality(Needs(s, n)) <= i
      PROVE  Settled(n, i)
  <2>1. Cardinality(Needs(s, n)) \in Nat
    BY NeedsAre
  <2>2. Cardinality(Needs(s, n)) \in S
    BY <1>4, <2>1
  <2> HIDE DEF Settled
  <2> QED BY <1>5, <2>1, <2>2 DEF S
<1> QED BY <1>5

\* The lists of all permissions.
AllLists(s) == [k \in Keys(s) |-> InputList(s, k)]

\* Without mutual recursion a list is what its legs give.
LEMMA ListIsCollected ==
  ASSUME NEW s, Accepted(s), NEW n \in Keys(s), ~Mutual(s, n)
  PROVE  AllLists(s) \in Lists(s) /\ InputList(s, n) = Collected(s, n, AllLists(s))
<1>1. PICK N \in Nat : N = Cardinality(Keys(s))
  BY InputListIs
<1>2. PICK f : Deepens(f, s, N) /\ \A k \in Keys(s) : InputList(s, k) = f[N][k]
  BY <1>1, InputListIs
<1>3. N \in 0 .. N /\ Cardinality(Needs(s, n)) <= N
  BY <1>1, NeedsAre
<1>4. f[N] \in Lists(s)
  BY <1>2, <1>3 DEF Deepens
<1>5. f[N] = AllLists(s)
  BY <1>2, <1>4 DEF AllLists, Lists
<1>6. f[N][n] = Collected(s, n, f[N])
  BY <1>2, <1>3, ListSettles
<1> QED BY <1>2, <1>4, <1>5, <1>6

-----------------------------------------------------------------------------
(* A set of types that no relation and no permission leads out of.         *)

\* A leg of a permission of a type in P gives types of P.
Inside(s, n, P) ==
  \A l \in ToSet(Legs(s, n)) : /\ l.kind = "types" => ToSet(l.types) \subseteq P
                               /\ l.kind = "permission" => l.key \in Keys(s) /\ l.key[1] \in P

\* Lists of permissions of types in P have types of P.
Within(s, known, P) == \A m \in Keys(s) : m[1] \in P => ToSet(known[m]) \subseteq P

\* One walk over a permission stays inside P if the lists so far do.
LEMMA CollectedInside ==
  ASSUME NEW s, Accepted(s), NEW n \in Keys(s), NEW known \in Lists(s), NEW P,
         Inside(s, n, P), Within(s, known, P)
  PROVE  ToSet(Collected(s, n, known)) \subseteq P /\ IsInjective(Collected(s, n, known))
<1> DEFINE N == Len(Legs(s, n))
           Good(q) == ToSet(q) \subseteq P /\ IsInjective(q)
<1>1. PICK out : Collects(out, s, n, known) /\ Collected(s, n, known) = out[N]
  BY CollectedIs
<1> DEFINE S == {j \in Nat : j <= N => Good(out[j])}
<1>2. N \in Nat
  BY LegAt
<1>3. /\ out[0] = <<>>
      /\ \A j \in 0 .. N : out[j] \in Seq(Defs(s))
      /\ \A j \in 1 .. N : out[j] = AppendNew(out[j - 1], Gives(Legs(s, n)[j], n, known))
  BY <1>1, <1>2 DEF Collects
<1>4. \A j \in 1 .. N : /\ Gives(Legs(s, n)[j], n, known) \in Seq(Defs(s))
                        /\ ToSet(Gives(Legs(s, n)[j], n, known)) \subseteq P
  <2> TAKE j \in 1 .. N
  <2>1. PICK l : l = Legs(s, n)[j]
    OBVIOUS
  <2>2. l \in AnyLeg(s) /\ l \in ToSet(Legs(s, n)) /\ (l.kind = "types" => l.types \in Seq(Defs(s)))
    BY <2>1, LegAt
  <2>3. Gives(l, n, known) \in Seq(Defs(s))
    BY <2>2, GivesTypes
  <2>4. l.kind \in {"types", "permission"}
    BY <2>2 DEF AnyLeg
  <2>5. CASE l.kind = "types"
    <3>1. Gives(l, n, known) = l.types
      BY <2>5 DEF Gives
    <3> QED BY <2>1, <2>2, <2>3, <2>5, <3>1 DEF Inside
  <2>6. CASE l.kind = "permission" /\ l.key = n
    <3>1. Gives(l, n, known) = <<>>
      BY <2>6 DEF Gives
    <3>2. ToSet(<<>>) = {}
      BY DEF ToSet
    <3> QED BY <2>1, <2>3, <3>1, <3>2
  <2>7. CASE l.kind = "permission" /\ l.key # n
    <3>1. Gives(l, n, known) = known[l.key]
      BY <2>7 DEF Gives
    <3>2. l.key \in Keys(s) /\ l.key[1] \in P
      BY <2>2, <2>7 DEF Inside
    <3> QED BY <2>1, <2>3, <3>1, <3>2 DEF Within
  <2> QED BY <2>4, <2>5, <2>6, <2>7
<1> HIDE DEF N
<1>5. 0 \in S
  <2>1. Good(<<>>)
    BY DEF ToSet, IsInjective
  <2> QED BY <1>3, <2>1
<1>6. \A j \in Nat : j \in S => j + 1 \in S
  <2> SUFFICES ASSUME NEW j \in Nat, j \in S, j + 1 <= N PROVE Good(out[j + 1])
    OBVIOUS
  <2>1. j \in 0 .. N /\ j + 1 \in 1 .. N /\ j + 1 - 1 = j /\ j <= N
    BY <1>2
  <2>2. PICK a, g : a = out[j] /\ g = Gives(Legs(s, n)[j + 1], n, known)
    OBVIOUS
  <2>3. /\ a \in Seq(Defs(s)) /\ g \in Seq(Defs(s)) /\ Good(a) /\ ToSet(g) \subseteq P
        /\ out[j + 1] = AppendNew(a, g)
    BY <1>3, <1>4, <2>1, <2>2
  <2>4. ToSet(AppendNew(a, g)) = ToSet(a) \cup ToSet(g) /\ IsInjective(AppendNew(a, g))
    BY <2>3, AppendNewIs
  <2> QED BY <2>3, <2>4
<1> HIDE DEF S, Good
<1>7. N \in S
  BY <1>2, <1>5, <1>6, NatSetInduction
<1>8. Good(out[N])
  BY <1>2, <1>7 DEF S
<1> QED BY <1>1, <1>8 DEF Good

\* So has InputList, if no type in P refers to one outside.
LEMMA InputListInside ==
  ASSUME NEW s, Accepted(s), NEW P, \A n \in Keys(s) : n[1] \in P => Inside(s, n, P),
         NEW k \in Keys(s), k[1] \in P
  PROVE  /\ InputList(s, k) \in Seq(Defs(s)) /\ ToSet(InputList(s, k)) \subseteq P
         /\ IsInjective(InputList(s, k))
<1> DEFINE N == Cardinality(Keys(s))
<1>1. PICK f : Deepens(f, s, N) /\ \A n \in Keys(s) : InputList(s, n) = f[N][n]
  BY InputListIs
<1>2. N \in Nat
  BY InputListIs
<1> HIDE DEF N
<1>3. /\ f[0] = [n \in Keys(s) |-> <<>>]
      /\ \A i \in 0 .. N : f[i] \in Lists(s)
      /\ \A i \in 1 .. N : \A n \in Keys(s) : f[i][n] = Collected(s, n, f[i - 1])
  BY <1>1, <1>2 DEF Deepens
<1> DEFINE Good(q) == \A n \in Keys(s) : n[1] \in P => ToSet(q[n]) \subseteq P /\ IsInjective(q[n])
           S == {i \in Nat : i <= N => Good(f[i])}
<1>4. 0 \in S
  <2>1. ToSet(<<>>) = {} /\ IsInjective(<<>>)
    BY DEF ToSet, IsInjective
  <2>2. \A n \in Keys(s) : f[0][n] = <<>>
    BY <1>3
  <2>3. Good(f[0])
    BY <2>1, <2>2
  <2> QED BY <2>3
<1>5. \A i \in Nat : i \in S => i + 1 \in S
  <2> SUFFICES ASSUME NEW i \in Nat, i \in S, i + 1 <= N PROVE Good(f[i + 1])
    OBVIOUS
  <2>1. i \in 0 .. N /\ i + 1 \in 1 .. N /\ i + 1 - 1 = i /\ i <= N
    BY <1>2
  <2>2. PICK q : q = f[i]
    OBVIOUS
  <2>3. q \in Lists(s) /\ Good(q) /\ \A n \in Keys(s) : f[i + 1][n] = Collected(s, n, q)
    BY <1>3, <2>1, <2>2
  <2>4. Within(s, q, P)
    BY <2>3 DEF Within
  <2>5. \A n \in Keys(s) : n[1] \in P => /\ ToSet(Collected(s, n, q)) \subseteq P
                                        /\ IsInjective(Collected(s, n, q))
    BY <2>3, <2>4, CollectedInside
  <2> QED BY <2>3, <2>5
<1> HIDE DEF S, Good
<1>6. N \in S
  BY <1>2, <1>4, <1>5, NatSetInduction
<1>7. Good(f[N])
  BY <1>2, <1>6 DEF S
<1>8. f[N][k] \in Seq(Defs(s))
  BY <1>2, <1>3 DEF Lists
<1> QED BY <1>1, <1>7, <1>8 DEF Good
=============================================================================
