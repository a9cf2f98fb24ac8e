--------------------------- MODULE SequenceLemmas ---------------------------
(***************************************************************************)
(* Facts about the operators on sequences that the modules use, for every  *)
(* argument.                                                               *)
(***************************************************************************)
EXTENDS SequencesExt, FiniteSetTheorems, SequenceTheorems, WellFoundedInduction, TLAPS

\* m < n in the form the induction theorems take.
LEMMA NatLess == \A m, n \in Nat : m < n => <<m, n>> \in OpToRel(<, Nat)
BY DEF OpToRel

\* Induction over the naturals, with a set for the formula: this is how a fact
\* about a recursive function is proved for every argument.
LEMMA NatSetInduction ==
  ASSUME NEW S, 0 \in S, \A n \in Nat : n \in S => n + 1 \in S
  PROVE  Nat \subseteq S
<1> DEFINE R == OpToRel(<, Nat)
           T == Nat \ S
<1>1. IsWellFoundedOn(R, Nat)
  BY NatLessThanWellFounded
<1>2. \A x, y \in Nat : x < y => <<x, y>> \in R
  BY NatLess
<1> HIDE DEF R
<1> SUFFICES ASSUME T # {} PROVE FALSE
  OBVIOUS
<1>3. PICK x \in T : \A y \in T : <<y, x>> \notin R
  BY <1>1, WFMin
<1>4. x - 1 \in Nat /\ x - 1 < x /\ x = (x - 1) + 1
  BY x # 0
<1>5. x - 1 \in S
  BY <1>4, <1>3, <1>2
<1> QED BY <1>4, <1>5

Flattens(f, s, n) ==
  f = [i \in 1 .. n |-> IF i = 1 THEN s[i] ELSE f[i - 1] \o s[i]]

\* There is a function that satisfies the recursion of FlattenSeq.
LEMMA FlattenExists ==
  ASSUME NEW X, NEW N \in Nat, NEW s \in [1 .. N -> Seq(X)]
  PROVE  \A n \in 1 .. N : \E f \in [1 .. n -> Seq(X)] : Flattens(f, s, n)
<1> DEFINE S == {n \in Nat : n \in 1 .. N => \E f \in [1 .. n -> Seq(X)] : Flattens(f, s, n)}
<1>1. 0 \in S
  OBVIOUS
<1>2. ASSUME NEW n \in Nat, n \in S, n + 1 \in 1 .. N
      PROVE  \E g \in [1 .. n + 1 -> Seq(X)] : Flattens(g, s, n + 1)
  <2>1. CASE n = 0
    <3> DEFINE g == [i \in 1 .. 1 |-> s[1]]
    <3>1. g \in [1 .. 1 -> Seq(X)] /\ Flattens(g, s, 1)
      BY <1>2, <2>1 DEF Flattens
    <3> QED BY <3>1, <2>1
  <2>2. CASE n # 0
    <3>1. PICK f \in [1 .. n -> Seq(X)] : Flattens(f, s, n)
      BY <1>2, <2>2
    <3> DEFINE g == [i \in 1 .. n + 1 |-> IF i = n + 1 THEN f[n] \o s[n + 1] ELSE f[i]]
    <3>2. f[n] \o s[n + 1] \in Seq(X)
      BY <1>2, <2>2, <3>1, ConcatProperties
    <3>3. g \in [1 .. n + 1 -> Seq(X)]
      BY <3>2, <2>2
    <3>a. g[n + 1] = f[n] \o s[n + 1] /\ \A i \in 1 .. n : g[i] = f[i]
      <4>1. n + 1 \in 1 .. n + 1 /\ \A i \in 1 .. n : i \in 1 .. n + 1 /\ i # n + 1
        OBVIOUS
      <4> QED BY <4>1, Zenon
    <3>b. \A i \in 1 .. n : f[i] = IF i = 1 THEN s[i] ELSE f[i - 1] \o s[i]
      BY <3>1 DEF Flattens
    <3> HIDE DEF g
    <3>4. \A i \in 1 .. n + 1 : g[i] = IF i = 1 THEN s[i] ELSE g[i - 1] \o s[i]
      <4> TAKE i \in 1 .. n + 1
      <4>1. CASE i = n + 1
        <5>1. i # 1 /\ i - 1 = n /\ n \in 1 .. n
          BY <4>1, <2>2
        <5>2. g[i - 1] = f[n] /\ g[i] = f[n] \o s[i]
          BY <4>1, <5>1, <3>a
        <5> QED BY <5>1, <5>2
      <4>2. CASE i \in 1 .. n
        <5>1. i = 1 \/ i - 1 \in 1 .. n
          BY <4>2
        <5> QED BY <4>2, <3>a, <3>b, <5>1
      <4> QED BY <4>1, <4>2
    <3>5. Flattens(g, s, n + 1)
      BY <3>3, <3>4 DEF Flattens
    <3> QED BY <3>3, <3>5
  <2> QED BY <2>1, <2>2
<1>3. \A n \in Nat : n \in S => n + 1 \in S
  <2> SUFFICES ASSUME NEW n \in Nat, n \in S PROVE n + 1 \in S
    OBVIOUS
  <2>1. n + 1 \in 1 .. N => \E g \in [1 .. n + 1 -> Seq(X)] : Flattens(g, s, n + 1)
    BY <1>2
  <2> QED BY <2>1
<1> HIDE DEF S
<1>4. Nat \subseteq S
  BY <1>1, <1>3, NatSetInduction
<1> QED BY <1>4 DEF S

\* FlattenSeq is the last value of a function that satisfies its recursion.
LEMMA FlattenSeqIs ==
  ASSUME NEW X, NEW N \in Nat \ {0}, NEW s \in [1 .. N -> Seq(X)], Len(s) = N
  PROVE  \E f : Flattens(f, s, N) /\ FlattenSeq(s) = f[N]
<1> DEFINE f == CHOOSE f : Flattens(f, s, N)
<1>1. Flattens(f, s, N)
  BY FlattenExists
<1>2. FlattenSeq(s) = f[N]
  BY DEF FlattenSeq, Flattens
<1> QED BY <1>1, <1>2

\* The elements of a concatenation are those of its parts.
LEMMA ConcatElements ==
  ASSUME NEW X, NEW a \in Seq(X), NEW b \in Seq(X)
  PROVE  ToSet(a \o b) = ToSet(a) \cup ToSet(b)
<1> DEFINE c == a \o b
<1>1. /\ c \in Seq(X) /\ Len(c) = Len(a) + Len(b)
      /\ \A i \in 1 .. Len(a) + Len(b) : c[i] = IF i <= Len(a) THEN a[i] ELSE b[i - Len(a)]
  BY ConcatProperties
<1>2. /\ Len(a) \in Nat /\ DOMAIN a = 1 .. Len(a) /\ Len(b) \in Nat /\ DOMAIN b = 1 .. Len(b)
      /\ DOMAIN c = 1 .. Len(a) + Len(b)
  BY <1>1, LenProperties
<1> HIDE DEF c
<1>3. ASSUME NEW i \in DOMAIN c PROVE c[i] \in ToSet(a) \cup ToSet(b)
  <2>1. i \in 1 .. Len(a) \/ i - Len(a) \in 1 .. Len(b)
    BY <1>2
  <2> QED BY <1>1, <1>2, <2>1 DEF ToSet
<1>4. ASSUME NEW i \in DOMAIN a PROVE a[i] \in ToSet(c)
  <2>1. i \in DOMAIN c /\ c[i] = a[i]
    BY <1>1, <1>2
  <2> QED BY <2>1 DEF ToSet
<1>5. ASSUME NEW i \in DOMAIN b PROVE b[i] \in ToSet(c)
  <2>1. i + Len(a) \in DOMAIN c /\ ~(i + Len(a) <= Len(a)) /\ (i + Len(a)) - Len(a) = i
    BY <1>2
  <2>2. c[i + Len(a)] = b[i]
    BY <1>1, <1>2, <2>1
  <2> QED BY <2>1, <2>2 DEF ToSet
<1> QED BY <1>3, <1>4, <1>5 DEF ToSet, c

\* A concatenation repeats nothing that its parts do not repeat or share.
LEMMA ConcatOnce ==
  ASSUME NEW X, NEW a \in Seq(X), NEW b \in Seq(X), IsInjective(a), IsInjective(b),
         ToSet(a) \cap ToSet(b) = {}
  PROVE  IsInjective(a \o b)
<1> DEFINE c == a \o b
<1>1. /\ c \in Seq(X) /\ Len(c) = Len(a) + Len(b)
      /\ \A i \in 1 .. Len(a) + Len(b) : c[i] = IF i <= Len(a) THEN a[i] ELSE b[i - Len(a)]
  BY ConcatProperties
<1>2. /\ Len(a) \in Nat /\ DOMAIN a = 1 .. Len(a) /\ Len(b) \in Nat /\ DOMAIN b = 1 .. Len(b)
      /\ DOMAIN c = 1 .. Len(a) + Len(b)
  BY <1>1, LenProperties
<1> HIDE DEF c
<1>3. ASSUME NEW i \in DOMAIN c
      PROVE  \/ i \in DOMAIN a /\ c[i] = a[i] /\ c[i] \in ToSet(a)
             \/ i - Len(a) \in DOMAIN b /\ c[i] = b[i - Len(a)] /\ c[i] \in ToSet(b)
  <2>1. (i \in 1 .. Len(a) /\ i <= Len(a)) \/ (i - Len(a) \in 1 .. Len(b) /\ ~(i <= Len(a)))
    BY <1>2
  <2> QED BY <1>1, <1>2, <2>1 DEF ToSet
<1>4. ASSUME NEW i \in DOMAIN c, NEW j \in DOMAIN c, c[i] = c[j] PROVE i = j
  <2>1. CASE i \in DOMAIN a /\ c[i] = a[i] /\ c[i] \in ToSet(a)
    <3>1. j \in DOMAIN a /\ c[j] = a[j]
      BY <1>3, <1>4, <2>1
    <3> QED BY <1>4, <2>1, <3>1 DEF IsInjective
  <2>2. CASE i - Len(a) \in DOMAIN b /\ c[i] = b[i - Len(a)] /\ c[i] \in ToSet(b)
    <3>1. j - Len(a) \in DOMAIN b /\ c[j] = b[j - Len(a)]
      BY <1>3, <1>4, <2>2
    <3>2. i - Len(a) = j - Len(a)
      BY <1>4, <2>2, <3>1 DEF IsInjective
    <3> QED BY <3>2, <1>2
  <2> QED BY <2>1, <2>2, <1>3
<1> QED BY <1>4 DEF IsInjective, c

\* o says from which element of s each element of t comes, in order.
Origin(o, t, s, n) ==
  /\ o \in [1 .. Len(t) -> 1 .. n]
  /\ \A i \in 1 .. Len(t) : t[i] \in ToSet(s[o[i]])
  /\ \A i, j \in 1 .. Len(t) : i <= j => o[i] <= o[j]

Flat(t, s, n, X) ==
  /\ t \in Seq(X)
  /\ ToSet(t) = UNION {ToSet(s[k]) : k \in 1 .. n}
  /\ \E o : Origin(o, t, s, n)

\* Appending the next sequence to a flattened prefix flattens one sequence more.
LEMMA FlatExtends ==
  ASSUME NEW X, NEW n \in Nat, NEW s, s[n + 1] \in Seq(X),
         NEW t, Flat(t, s, n, X)
  PROVE  Flat(t \o s[n + 1], s, n + 1, X)
<1> DEFINE e == s[n + 1]
           c == t \o e
<1>1. PICK o : Origin(o, t, s, n)
  BY DEF Flat
<1>2. t \in Seq(X) /\ e \in Seq(X)
  BY DEF Flat
<1>3. /\ c \in Seq(X) /\ Len(c) = Len(t) + Len(e)
      /\ \A i \in 1 .. Len(t) + Len(e) : c[i] = IF i <= Len(t) THEN t[i] ELSE e[i - Len(t)]
  BY <1>2, ConcatProperties
<1>4. /\ Len(t) \in Nat /\ DOMAIN t = 1 .. Len(t) /\ Len(e) \in Nat /\ DOMAIN e = 1 .. Len(e)
  BY <1>2, LenProperties
<1>5. ToSet(c) = UNION {ToSet(s[k]) : k \in 1 .. n + 1}
  <2>1. ToSet(c) = ToSet(t) \cup ToSet(e)
    BY <1>2, ConcatElements
  <2>2. 1 .. n + 1 = (1 .. n) \cup {n + 1}
    OBVIOUS
  <2>3. ToSet(t) = UNION {ToSet(s[k]) : k \in 1 .. n}
    BY DEF Flat
  <2> HIDE DEF c
  <2> QED BY <2>1, <2>2, <2>3
<1> DEFINE p == [i \in 1 .. Len(c) |-> IF i <= Len(t) THEN o[i] ELSE n + 1]
<1>6. \A i \in 1 .. Len(t) : o[i] \in 1 .. n
  BY <1>1 DEF Origin
<1>7. p \in [1 .. Len(c) -> 1 .. n + 1]
  <2> HIDE DEF c
  <2> QED BY <1>3, <1>4, <1>6
<1>8. \A i \in 1 .. Len(c) : p[i] = IF i <= Len(t) THEN o[i] ELSE n + 1
  OBVIOUS
<1> HIDE DEF c, p, e
<1>9. ASSUME NEW i \in 1 .. Len(c) PROVE c[i] \in ToSet(s[p[i]])
  <2>1. CASE i <= Len(t)
    <3>1. i \in 1 .. Len(t)
      BY <2>1, <1>3, <1>4
    <3> QED BY <2>1, <3>1, <1>1, <1>3, <1>4, <1>8 DEF Origin
  <2>2. CASE ~(i <= Len(t))
    <3>1. i - Len(t) \in DOMAIN e
      BY <2>2, <1>3, <1>4
    <3>2. c[i] = e[i - Len(t)] /\ p[i] = n + 1
      BY <2>2, <1>3, <1>4, <1>8
    <3> QED BY <3>1, <3>2 DEF ToSet, e
  <2> QED BY <2>1, <2>2
<1>10. ASSUME NEW i \in 1 .. Len(c), NEW j \in 1 .. Len(c), i <= j
       PROVE  p[i] <= p[j]
  <2>1. i \in Nat /\ j \in Nat /\ i >= 1 /\ j >= 1
    BY <1>3, <1>4
  <2>2. CASE j <= Len(t)
    <3>1. i \in 1 .. Len(t) /\ j \in 1 .. Len(t)
      BY <2>1, <2>2, <1>4, <1>10
    <3> QED BY <3>1, <2>2, <1>8, <1>1, <1>10 DEF Origin
  <2>3. CASE ~(j <= Len(t))
    <3>1. p[j] = n + 1
      BY <2>3, <1>8
    <3> QED BY <3>1, <1>7
  <2> QED BY <2>2, <2>3
<1>11. Origin(p, c, s, n + 1)
  BY <1>7, <1>9, <1>10 DEF Origin
<1> QED BY <1>3, <1>5, <1>11 DEF Flat, c, e

\* FlattenSeq has the elements of its parts, in the order of the parts.
LEMMA FlattenProperties ==
  ASSUME NEW X, NEW s \in Seq(Seq(X))
  PROVE  Flat(FlattenSeq(s), s, Len(s), X)
<1> DEFINE N == Len(s)
<1>1. N \in Nat /\ s \in [1 .. N -> Seq(X)]
  BY LenProperties
<1>2. CASE N = 0
  <2>1. s = << >> /\ FlattenSeq(s) = << >>
    BY <1>2, EmptySeq DEF FlattenSeq
  <2>2. Origin(<< >>, << >>, s, 0)
    BY DEF Origin
  <2>3. ToSet(<< >>) = {} /\ UNION {ToSet(s[k]) : k \in 1 .. 0} = {}
    BY DEF ToSet
  <2> QED BY <2>1, <2>2, <2>3, <1>2, EmptySeq DEF Flat
<1>3. CASE N # 0
  <2>1. PICK f : Flattens(f, s, N) /\ FlattenSeq(s) = f[N]
    BY <1>1, <1>3, FlattenSeqIs
  <2>2. \A i \in 1 .. N : f[i] = IF i = 1 THEN s[i] ELSE f[i - 1] \o s[i]
    BY <2>1 DEF Flattens
  <2> HIDE DEF N
  <2> DEFINE S == {n \in Nat : n \in 1 .. N => Flat(f[n], s, n, X)}
  <2>3. 0 \in S
    OBVIOUS
  <2>4. ASSUME NEW n \in Nat, n \in S, n + 1 \in 1 .. N
        PROVE  Flat(f[n + 1], s, n + 1, X)
    <3>1. CASE n = 0
      <4>1. f[1] = s[1] /\ s[1] \in Seq(X)
        BY <2>4, <3>1, <2>2, <1>1
      <4> DEFINE o == [i \in 1 .. Len(s[1]) |-> 1]
      <4>2. DOMAIN s[1] = 1 .. Len(s[1])
        BY <4>1, LenProperties
      <4>3. Origin(o, s[1], s, 1)
        <5>1. o \in [1 .. Len(s[1]) -> 1 .. 1] /\ \A i \in 1 .. Len(s[1]) : o[i] = 1
          OBVIOUS
        <5>2. \A i \in 1 .. Len(s[1]) : s[1][i] \in ToSet(s[1])
          BY <4>2 DEF ToSet
        <5> HIDE DEF o
        <5> QED BY <5>1, <5>2 DEF Origin
      <4>4. ToSet(s[1]) = UNION {ToSet(s[k]) : k \in 1 .. 1}
        OBVIOUS
      <4> HIDE DEF o
      <4> QED BY <3>1, <4>1, <4>3, <4>4 DEF Flat
    <3>2. CASE n # 0
      <4>1. n \in 1 .. N
        BY <2>4, <3>2, <1>1
      <4>2. Flat(f[n], s, n, X) /\ s[n + 1] \in Seq(X)
        BY <4>1, <2>4, <1>1
      <4>3. n + 1 # 1 /\ (n + 1) - 1 = n
        BY <3>2
      <4>4. f[n + 1] = f[n] \o s[n + 1]
        BY <4>3, <2>2, <2>4
      <4> QED BY <4>2, <4>4, FlatExtends
    <3> QED BY <3>1, <3>2
  <2>5. \A n \in Nat : n \in S => n + 1 \in S
    <3> SUFFICES ASSUME NEW n \in Nat, n \in S PROVE n + 1 \in S
      OBVIOUS
    <3>1. n + 1 \in 1 .. N => Flat(f[n + 1], s, n + 1, X)
      BY <2>4
    <3> QED BY <3>1
  <2> HIDE DEF S
  <2>6. Nat \subseteq S
    BY <2>3, <2>5, NatSetInduction
  <2>7. Flat(f[N], s, N, X)
    BY <2>6, <1>1, <1>3 DEF S
  <2> QED BY <2>1, <2>7 DEF N
<1> QED BY <1>2, <1>3

\* FlattenSeq repeats nothing that its parts do not repeat or share.
LEMMA FlattenOnce ==
  ASSUME NEW X, NEW s \in Seq(Seq(X)), \A k \in 1 .. Len(s) : IsInjective(s[k]),
         \A k, l \in 1 .. Len(s) : k # l => ToSet(s[k]) \cap ToSet(s[l]) = {}
  PROVE  IsInjective(FlattenSeq(s))
<1> DEFINE N == Len(s)
<1>1. N \in Nat /\ s \in [1 .. N -> Seq(X)]
  BY LenProperties
<1>2. CASE N = 0
  <2>1. FlattenSeq(s) = << >>
    BY <1>2, EmptySeq DEF FlattenSeq
  <2> QED BY <2>1 DEF IsInjective
<1>3. CASE N # 0
  <2>1. PICK f : Flattens(f, s, N) /\ FlattenSeq(s) = f[N]
    BY <1>1, <1>3, FlattenSeqIs
  <2>2. \A i \in 1 .. N : f[i] = IF i = 1 THEN s[i] ELSE f[i - 1] \o s[i]
    BY <2>1 DEF Flattens
  <2>3. /\ \A k \in 1 .. N : IsInjective(s[k])
        /\ \A k, l \in 1 .. N : k # l => ToSet(s[k]) \cap ToSet(s[l]) = {}
    OBVIOUS
  <2> HIDE DEF N
  <2> DEFINE Good(n) == /\ f[n] \in Seq(X) /\ IsInjective(f[n])
                        /\ ToSet(f[n]) = UNION {ToSet(s[k]) : k \in 1 .. n}
             S == {n \in Nat : n \in 1 .. N => Good(n)}
  <2>4. 0 \in S
    OBVIOUS
  <2>5. ASSUME NEW n \in Nat, n \in S, n + 1 \in 1 .. N PROVE Good(n + 1)
    <3>1. CASE n = 0
      <4>1. f[1] = s[1] /\ s[1] \in Seq(X) /\ IsInjective(s[1])
        BY <2>5, <3>1, <2>2, <2>3, <1>1
      <4>2. ToSet(s[1]) = UNION {ToSet(s[k]) : k \in 1 .. 1}
        OBVIOUS
      <4> QED BY <3>1, <4>1, <4>2
    <3>2. CASE n # 0
      <4>1. n \in 1 .. N /\ n + 1 # 1 /\ (n + 1) - 1 = n /\ \A k \in 1 .. n : k \in 1 .. N /\ k # n + 1
        BY <2>5, <3>2, <1>1
      <4>2. Good(n) /\ s[n + 1] \in Seq(X) /\ IsInjective(s[n + 1])
        BY <4>1, <2>3, <2>5, <1>1
      <4>3. f[n + 1] = f[n] \o s[n + 1]
        BY <4>1, <2>2, <2>5
      <4>4. ToSet(f[n]) \cap ToSet(s[n + 1]) = {}
        <5>1. \A k \in 1 .. n : ToSet(s[k]) \cap ToSet(s[n + 1]) = {}
          BY <4>1, <2>3, <2>5
        <5> QED BY <4>2, <5>1
      <4>5. 1 .. n + 1 = (1 .. n) \cup {n + 1}
        OBVIOUS
      <4>6. PICK a, b : a = f[n] /\ b = s[n + 1]
        OBVIOUS
      <4>7. a \in Seq(X) /\ b \in Seq(X) /\ IsInjective(a) /\ IsInjective(b) /\ ToSet(a) \cap ToSet(b) = {}
        BY <4>2, <4>4, <4>6
      <4>8. a \o b \in Seq(X) /\ ToSet(a \o b) = ToSet(a) \cup ToSet(b) /\ IsInjective(a \o b)
        BY <4>7, ConcatProperties, ConcatElements, ConcatOnce
      <4>9. UNION {ToSet(s[k]) : k \in 1 .. n + 1} = (UNION {ToSet(s[k]) : k \in 1 .. n}) \cup ToSet(s[n + 1])
        BY <4>5
      <4>10. ToSet(a) = UNION {ToSet(s[k]) : k \in 1 .. n}
        BY <4>2, <4>6
      <4>11. f[n + 1] = a \o b
        BY <4>3, <4>6
      <4> QED BY <4>6, <4>8, <4>9, <4>10, <4>11
    <3> QED BY <3>1, <3>2
  <2>6. \A n \in Nat : n \in S => n + 1 \in S
    <3> SUFFICES ASSUME NEW n \in Nat, n \in S PROVE n + 1 \in S
      OBVIOUS
    <3>1. n + 1 \in 1 .. N => Good(n + 1)
      BY <2>5
    <3> HIDE DEF Good
    <3> QED BY <3>1
  <2> HIDE DEF S
  <2>7. Nat \subseteq S
    BY <2>4, <2>6, NatSetInduction
  <2>8. N \in S /\ N \in 1 .. N
    BY <2>7, <1>1, <1>3
  <2> QED BY <2>1, <2>8 DEF S
<1> QED BY <1>2, <1>3

-----------------------------------------------------------------------------
\* What is left of a sequence after a prefix of it is a suffix of it.
LEMMA RestIsSuffix ==
  ASSUME NEW X, NEW a \in Seq(X), NEW b \in Seq(X), Len(a) <= Len(b),
         \A i \in 1 .. Len(a) : a[i] = b[Len(b) - Len(a) + i]
  PROVE  IsSuffix(a, b)
<1> DEFINE u == Reverse(a)
           v == Reverse(b)
           n == Len(a)
           k == Len(b)
<1>1. n \in Nat /\ k \in Nat /\ a \in [1 .. n -> X] /\ b \in [1 .. k -> X]
  BY LenProperties
<1>2. /\ u = [i \in 1 .. n |-> a[(n - i) + 1]] /\ v = [i \in 1 .. k |-> b[(k - i) + 1]]
  BY DEF Reverse
<1>3. n <= k /\ \A i \in 1 .. n : a[i] = b[k - n + i]
  OBVIOUS
<1> HIDE DEF u, v, n, k
<1>4. u \in [1 .. n -> X] /\ v \in [1 .. k -> X]
  BY <1>1, <1>2
<1>5. u \in Seq(X) /\ v \in Seq(X) /\ Len(u) = n /\ Len(v) = k
  BY <1>1, <1>4, SeqDef, LenProperties
<1>6. \A i \in 1 .. n : u[i] = v[i] /\ u[i] \in X /\ v[i] \in X
  <2> TAKE i \in 1 .. n
  <2>1. (n - i) + 1 \in 1 .. n /\ i \in 1 .. k /\ k - n + ((n - i) + 1) = (k - i) + 1
    BY <1>1, <1>3
  <2>2. u[i] = a[(n - i) + 1] /\ v[i] = b[(k - i) + 1]
    BY <1>2, <2>1
  <2>3. a[(n - i) + 1] = b[(k - i) + 1]
    BY <2>1, <1>3
  <2> QED BY <2>1, <2>2, <2>3, <1>4
<1>7. /\ SubSeq(u, 1, n) \in Seq(X) /\ Len(SubSeq(u, 1, n)) = n
      /\ \A i \in 1 .. n : SubSeq(u, 1, n)[i] = u[i]
  <2>1. 1 \in Int /\ n \in Int /\ \A i \in 1 .. n : u[i] \in X
    BY <1>1, <1>6
  <2>2. /\ SubSeq(u, 1, n) \in Seq(X)
        /\ Len(SubSeq(u, 1, n)) = IF 1 <= n THEN n - 1 + 1 ELSE 0
        /\ \A i \in 1 .. n - 1 + 1 : SubSeq(u, 1, n)[i] = u[1 + i - 1]
    BY <2>1, SubSeqProperties
  <2> QED BY <2>2, <1>1
<1>8. /\ SubSeq(v, 1, n) \in Seq(X) /\ Len(SubSeq(v, 1, n)) = n
      /\ \A i \in 1 .. n : SubSeq(v, 1, n)[i] = v[i]
  <2>1. 1 \in Int /\ n \in Int /\ \A i \in 1 .. n : v[i] \in X
    BY <1>1, <1>6
  <2>2. /\ SubSeq(v, 1, n) \in Seq(X)
        /\ Len(SubSeq(v, 1, n)) = IF 1 <= n THEN n - 1 + 1 ELSE 0
        /\ \A i \in 1 .. n - 1 + 1 : SubSeq(v, 1, n)[i] = v[1 + i - 1]
    BY <2>1, SubSeqProperties
  <2> QED BY <2>2, <1>1
<1>9. SubSeq(u, 1, n) = SubSeq(v, 1, n)
  BY <1>6, <1>7, <1>8, SeqEqual
<1> QED BY <1>3, <1>5, <1>9 DEF IsSuffix, IsPrefix, u, v, n, k

\* The elements of a sequence are its values at 1 .. Len.
LEMMA ElementsOfSeq ==
  ASSUME NEW X, NEW s \in Seq(X)
  PROVE  /\ ToSet(s) = {s[i] : i \in 1 .. Len(s)} /\ ToSet(s) \subseteq X
         /\ s = <<>> <=> ToSet(s) = {}
<1>1. Len(s) \in Nat /\ DOMAIN s = 1 .. Len(s) /\ \A i \in 1 .. Len(s) : s[i] \in X
  BY LenProperties
<1>2. ToSet(s) = {s[i] : i \in 1 .. Len(s)}
  BY <1>1 DEF ToSet
<1>3. s # <<>> => 1 \in 1 .. Len(s)
  BY <1>1, EmptySeq
<1>4. s # <<>> => s[1] \in ToSet(s)
  BY <1>2, <1>3
<1>5. s = <<>> => ToSet(s) = {}
  BY DEF ToSet
<1> QED BY <1>1, <1>2, <1>4, <1>5

-----------------------------------------------------------------------------
(* Loops, written as recursive functions.                                 *)

\* f is what a loop makes of a, whose round i makes g[i][x] of x.
Loop(f, a, g, N, A) ==
  f \in [0 .. N -> A] /\ \A i \in 0 .. N : f[i] = IF i = 0 THEN a ELSE g[i][f[i - 1]]

Rounds(N, A) == [1 .. N -> [A -> A]]

\* Every loop has a result.
LEMMA Recurses ==
  ASSUME NEW A, NEW N \in Nat, NEW a \in A, NEW g \in Rounds(N, A)
  PROVE  \E f : Loop(f, a, g, N, A)
<1>0. g \in [1 .. N -> [A -> A]]
  BY DEF Rounds
<1> DEFINE Solves(f, n) == \A i \in 0 .. n : f[i] = IF i = 0 THEN a ELSE g[i][f[i - 1]]
           S == {n \in Nat : n <= N => \E f \in [0 .. n -> A] : Solves(f, n)}
<1>1. 0 \in S
  <2> DEFINE f == [i \in 0 .. 0 |-> a]
  <2>1. f \in [0 .. 0 -> A] /\ Solves(f, 0)
    OBVIOUS
  <2> QED BY <2>1
<1>2. ASSUME NEW n \in Nat, n \in S, n + 1 <= N
      PROVE  \E f \in [0 .. n + 1 -> A] : Solves(f, n + 1)
  <2>1. PICK f \in [0 .. n -> A] : Solves(f, n)
    BY <1>2
  <2> DEFINE h == [i \in 0 .. n + 1 |-> IF i = n + 1 THEN g[n + 1][f[n]] ELSE f[i]]
  <2>2. n + 1 \in 1 .. N /\ g[n + 1] \in [A -> A]
    BY <1>0, <1>2
  <2>3. f[n] \in A /\ g[n + 1][f[n]] \in A
    BY <2>2
  <2>4. h \in [0 .. n + 1 -> A]
    BY <2>3
  <2>5. /\ h[n + 1] = g[n + 1][f[n]] /\ \A i \in 0 .. n : h[i] = f[i]
        /\ \A i \in 0 .. n : f[i] = IF i = 0 THEN a ELSE g[i][f[i - 1]]
    <3>1. n + 1 \in 0 .. n + 1 /\ \A i \in 0 .. n : i \in 0 .. n + 1 /\ i # n + 1
      OBVIOUS
    <3>2. \A i \in 0 .. n : f[i] = IF i = 0 THEN a ELSE g[i][f[i - 1]]
      BY <2>1
    <3> QED BY <3>1, <3>2, Zenon
  <2> HIDE DEF h
  <2>6. \A i \in 0 .. n + 1 : h[i] = IF i = 0 THEN a ELSE g[i][h[i - 1]]
    <3> TAKE i \in 0 .. n + 1
    <3>1. CASE i = n + 1
      <4>1. i # 0 /\ i - 1 = n /\ n \in 0 .. n
        BY <3>1
      <4> QED BY <3>1, <4>1, <2>5
    <3>2. CASE i \in 0 .. n
      <4>1. i = 0 \/ i - 1 \in 0 .. n
        BY <3>2
      <4> QED BY <3>2, <4>1, <2>5
    <3> QED BY <3>1, <3>2
  <2> QED BY <2>4, <2>6
<1>3. \A n \in Nat : n \in S => n + 1 \in S
  <2> SUFFICES ASSUME NEW n \in Nat, n \in S PROVE n + 1 \in S
    OBVIOUS
  <2>1. n + 1 <= N => \E f \in [0 .. n + 1 -> A] : Solves(f, n + 1)
    BY <1>2
  <2> HIDE DEF Solves
  <2> QED BY <2>1
<1> HIDE DEF S
<1>4. Nat \subseteq S
  BY <1>1, <1>3, NatSetInduction
<1> QED BY <1>4 DEF S, Loop

\* Appending adds an element.
LEMMA AppendAdds ==
  ASSUME NEW X, NEW q \in Seq(X), NEW x \in X
  PROVE  /\ Append(q, x) \in Seq(X) /\ ToSet(Append(q, x)) = ToSet(q) \cup {x}
         /\ IsInjective(q) /\ x \notin ToSet(q) => IsInjective(Append(q, x))
<1> DEFINE r == Append(q, x)
           n == Len(q)
<1>1. /\ n \in Nat /\ DOMAIN q = 1 .. n /\ r \in Seq(X) /\ DOMAIN r = 1 .. n + 1
      /\ \A i \in 1 .. n : r[i] = q[i]
      /\ r[n + 1] = x
  BY LenProperties, AppendProperties
<1> HIDE DEF r, n
<1>2. \A i \in 1 .. n + 1 : i \in 1 .. n \/ i = n + 1
  BY <1>1
<1>3. n + 1 \in 1 .. n + 1 /\ \A i \in 1 .. n : i \in 1 .. n + 1
  BY <1>1
<1>4. ToSet(r) = ToSet(q) \cup {x}
  BY <1>1, <1>2, <1>3 DEF ToSet
<1>5. IsInjective(q) /\ x \notin ToSet(q) => IsInjective(r)
  BY <1>1, <1>2, <1>3 DEF ToSet, IsInjective
<1> QED BY <1>1, <1>4, <1>5 DEF r

\* f keeps of the values v those at P.
Keeping(f, N, v, P) ==
  f = [i \in 0 .. N |-> IF i = 0 THEN <<>>
                        ELSE IF i \in P THEN Append(f[i - 1], v[i]) ELSE f[i - 1]]

Kept(v, P, n) == {v[i] : i \in P \cap 1 .. n}

\* There is such a list,
LEMMA KeepingExists ==
  ASSUME NEW N \in Nat, NEW v, NEW P
  PROVE  \E f : Keeping(f, N, v, P)
<1> DEFINE A == Seq({v[i] : i \in 1 .. N})
           g == [i \in 1 .. N |-> [q \in A |-> IF i \in P THEN Append(q, v[i]) ELSE q]]
<1>1. g \in Rounds(N, A)
  <2>1. \A i \in 1 .. N : \A q \in A : Append(q, v[i]) \in A
    BY AppendAdds
  <2> HIDE DEF A
  <2> QED BY <2>1 DEF Rounds
<1>2. <<>> \in A
  BY EmptySeq
<1>3. \A i \in 1 .. N, q \in A : g[i][q] = IF i \in P THEN Append(q, v[i]) ELSE q
  OBVIOUS
<1> HIDE DEF g, A
<1>4. PICK f : Loop(f, <<>>, g, N, A)
  BY <1>1, <1>2, Recurses
<1>5. /\ f \in [0 .. N -> A]
      /\ \A i \in 0 .. N : f[i] = IF i = 0 THEN <<>> ELSE g[i][f[i - 1]]
  BY <1>4 DEF Loop
<1>6. \A i \in 0 .. N : i # 0 => i \in 1 .. N /\ f[i - 1] \in A
  BY <1>5
<1>7. \A i \in 0 .. N : f[i] = IF i = 0 THEN <<>>
                          ELSE IF i \in P THEN Append(f[i - 1], v[i]) ELSE f[i - 1]
  BY <1>3, <1>5, <1>6
<1>8. f = [i \in 0 .. N |-> f[i]]
  BY <1>5
<1> QED BY <1>7, <1>8 DEF Keeping

\* No value occurs twice among those at P.
KeptOnce(v, P, n) == \A i, j \in P \cap 1 .. n : v[i] = v[j] => i = j

\* and it has the values at P for its elements, each once if they are different.
LEMMA KeptAre ==
  ASSUME NEW X, NEW N \in Nat, NEW v, NEW P, NEW f, Keeping(f, N, v, P), Kept(v, P, N) \subseteq X
  PROVE  /\ f[N] \in Seq(X) /\ ToSet(f[N]) = Kept(v, P, N)
         /\ KeptOnce(v, P, N) => IsInjective(f[N])
<1>1. \A i \in 0 .. N : f[i] = IF i = 0 THEN <<>>
                          ELSE IF i \in P THEN Append(f[i - 1], v[i]) ELSE f[i - 1]
  BY Zenon DEF Keeping
<1> DEFINE Good(i) == /\ f[i] \in Seq(X) /\ ToSet(f[i]) = Kept(v, P, i)
                      /\ KeptOnce(v, P, N) => IsInjective(f[i])
           S == {i \in Nat : i <= N => Good(i)}
<1>2. 0 \in S
  <2>1. f[0] = <<>> /\ <<>> \in Seq(X) /\ ToSet(<<>>) = {} /\ Kept(v, P, 0) = {}
    BY <1>1, EmptySeq DEF ToSet, Kept
  <2>2. IsInjective(<<>>)
    BY DEF IsInjective
  <2> QED BY <2>1, <2>2
<1>3. ASSUME NEW i \in Nat, i \in S PROVE i + 1 \in S
  <2>1. ASSUME i + 1 <= N PROVE Good(i + 1)
    <3>1. Good(i)
      BY <1>3, <2>1
    <3>2. i + 1 \in 0 .. N /\ i + 1 # 0 /\ (i + 1) - 1 = i /\ i + 1 \in 1 .. N
      BY <2>1
    <3>3. f[i + 1] = IF i + 1 \in P THEN Append(f[i], v[i + 1]) ELSE f[i]
      BY <1>1, <3>2
    <3>4. Kept(v, P, i + 1) = IF i + 1 \in P THEN Kept(v, P, i) \cup {v[i + 1]} ELSE Kept(v, P, i)
      <4>1. P \cap 1 .. i + 1 = IF i + 1 \in P THEN (P \cap 1 .. i) \cup {i + 1} ELSE P \cap 1 .. i
        OBVIOUS
      <4> QED BY <4>1 DEF Kept
    <3>5. i + 1 \in P => v[i + 1] \in X
      BY <3>2 DEF Kept
    <3>6. CASE i + 1 \in P
      <4> DEFINE q == f[i]
                 x == v[i + 1]
      <4>1. q \in Seq(X) /\ x \in X /\ f[i + 1] = Append(q, x)
        BY <3>1, <3>3, <3>5, <3>6
      <4>2. /\ ToSet(q) = Kept(v, P, i) /\ Kept(v, P, i + 1) = Kept(v, P, i) \cup {x}
            /\ KeptOnce(v, P, N) => IsInjective(q)
        BY <3>1, <3>4, <3>6
      <4>3. KeptOnce(v, P, N) => x \notin Kept(v, P, i)
        <5>1. \A j \in P \cap 1 .. i : j \in P \cap 1 .. N /\ j # i + 1
          BY <3>2
        <5> QED BY <5>1, <3>2, <3>6 DEF KeptOnce, Kept
      <4> HIDE DEF q, x
      <4>4. /\ Append(q, x) \in Seq(X) /\ ToSet(Append(q, x)) = ToSet(q) \cup {x}
            /\ IsInjective(q) /\ x \notin ToSet(q) => IsInjective(Append(q, x))
        BY <4>1, AppendAdds
      <4> QED BY <4>1, <4>2, <4>3, <4>4
    <3>7. CASE i + 1 \notin P
      BY <3>1, <3>3, <3>4, <3>7
    <3> QED BY <3>6, <3>7
  <2> QED BY <2>1
<1> HIDE DEF S
<1>4. Nat \subseteq S
  BY <1>2, <1>3, NatSetInduction
<1>5. N \in S /\ N <= N
  BY <1>4
<1> QED BY <1>5 DEF S

\* A list of one element.
LEMMA SingleIs ==
  ASSUME NEW X, NEW x \in X
  PROVE  <<x>> \in Seq(X) /\ ToSet(<<x>>) = {x} /\ IsInjective(<<x>>)
BY DEF ToSet, IsInjective

\* And of none.
LEMMA NoneIs ==
  ASSUME NEW X
  PROVE  <<>> \in Seq(X) /\ ToSet(<<>>) = {} /\ IsInjective(<<>>)
BY DEF ToSet, IsInjective

\* A list of one field or none.
LEMMA MaybeIs ==
  ASSUME NEW X, NEW w, <<w>> \in X, NEW m \in {<<>>, << <<w>> >>}
  PROVE  m \in Seq(X) /\ IsInjective(m) /\ \A x \in ToSet(m) : x[1] = w
<1>1. PICK y : y = <<w>>
  OBVIOUS
<1>2. m = <<>> \/ m = <<y>>
  BY <1>1
<1>3. m \in Seq(X) /\ IsInjective(m) /\ \A x \in ToSet(m) : x = y
  <2>1. y \in X
    BY <1>1
  <2>2. <<y>> \in Seq(X) /\ IsInjective(<<y>>) /\ ToSet(<<y>>) = {y}
    BY <2>1, SingleIs
  <2>3. <<>> \in Seq(X) /\ IsInjective(<<>>) /\ ToSet(<<>>) = {}
    BY NoneIs
  <2> QED BY <1>2, <2>2, <2>3
<1> QED BY <1>1, <1>3

\* A list that begins with one word and goes on.
LEMMA OneThenRest ==
  ASSUME NEW X, NEW a \in Seq(X), NEW b \in Seq(X), Len(a) = 1, Len(b) = 1,
         NEW u \in Seq(X), NEW v \in Seq(X), a \o u = b \o v
  PROVE  a = b /\ u = v
<1>1. PICK c : c = a \o u
  OBVIOUS
<1>2. c = a \o u
  BY <1>1
<1>3. c = b \o v
  BY <1>1
<1>4. Len(u) \in Nat /\ Len(v) \in Nat
  BY LenProperties
<1>5. /\ Len(c) = 1 + Len(u) /\ c[1] = a[1]
      /\ \A i \in 1 .. 1 + Len(u) : c[i] = IF i <= 1 THEN a[i] ELSE u[i - 1]
  <2>1. /\ Len(c) = Len(a) + Len(u)
        /\ \A i \in 1 .. Len(a) + Len(u) : c[i] = IF i <= Len(a) THEN a[i] ELSE u[i - Len(a)]
    BY <1>2, ConcatProperties
  <2> QED BY <1>4, <2>1
<1>6. /\ Len(c) = 1 + Len(v) /\ c[1] = b[1]
      /\ \A i \in 1 .. 1 + Len(v) : c[i] = IF i <= 1 THEN b[i] ELSE v[i - 1]
  <2>1. /\ Len(c) = Len(b) + Len(v)
        /\ \A i \in 1 .. Len(b) + Len(v) : c[i] = IF i <= Len(b) THEN b[i] ELSE v[i - Len(b)]
    BY <1>3, ConcatProperties
  <2> QED BY <1>4, <2>1
<1>7. a = b
  BY <1>5, <1>6, SeqEqual
<1>8. Len(u) = Len(v)
  BY <1>4, <1>5, <1>6
<1>9. ASSUME NEW i \in 1 .. Len(u) PROVE u[i] = v[i]
  <2>1. i + 1 \in 1 .. 1 + Len(u) /\ ~(i + 1 <= 1) /\ i + 1 - 1 = i
    BY <1>4
  <2>2. c[i + 1] = u[i]
    BY <1>5, <2>1
  <2>3. c[i + 1] = v[i]
    BY <1>6, <1>8, <2>1
  <2> QED BY <2>2, <2>3
<1>10. u = v
  BY <1>8, <1>9, SeqEqual
<1> QED BY <1>7, <1>10

\* q with g applied to each element.
Mapped(q, g) == [i \in DOMAIN q |-> g[q[i]]]

\* A list without repetitions that is mapped one to one.
LEMMA MappedOnce ==
  ASSUME NEW X, NEW Y, NEW q \in Seq(X), NEW g \in [X -> Y], IsInjective(q),
         \A x, y \in ToSet(q) : g[x] = g[y] => x = y
  PROVE  /\ Mapped(q, g) \in Seq(Y) /\ IsInjective(Mapped(q, g))
<1> DEFINE m == Mapped(q, g)
<1>1. m \in Seq(Y) /\ DOMAIN m = DOMAIN q /\ \A i \in DOMAIN q : m[i] = g[q[i]]
  <2>1. Len(q) \in Nat /\ DOMAIN q = 1 .. Len(q) /\ \A i \in 1 .. Len(q) : q[i] \in X
    BY LenProperties, ElementOfSeq
  <2>2. m = [i \in DOMAIN q |-> g[q[i]]]
    BY DEF Mapped
  <2>3. m \in [1 .. Len(q) -> Y]
    BY <2>1, <2>2
  <2> QED BY <2>1, <2>2, <2>3, SeqDef
<1> HIDE DEF m
<1>2. ASSUME NEW i \in DOMAIN m, NEW j \in DOMAIN m, m[i] = m[j]
      PROVE  i = j
  <2>1. q[i] \in ToSet(q) /\ q[j] \in ToSet(q) /\ g[q[i]] = g[q[j]]
    BY <1>1, <1>2 DEF ToSet
  <2>2. q[i] = q[j]
    BY <2>1
  <2> QED BY <1>1, <2>2 DEF IsInjective
<1>3. IsInjective(m)
  BY <1>2 DEF IsInjective
<1> QED BY <1>1, <1>3 DEF m
=============================================================================
