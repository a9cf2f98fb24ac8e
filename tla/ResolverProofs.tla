--------------------------- MODULE ResolverProofs ---------------------------
(***************************************************************************)
(* Proofs about Resolver for all schemas that SpiceDB accepts.             *)
(*                                                                         *)
(* That the walk works on each permission once needs no more of types than *)
(* that the stack is a sequence of frames (Framed).  What it computes is   *)
(* WalkInv: what a frame has gathered is what the legs it has dealt with   *)
(* are worth, but for a permission that is part of a recursion, and the    *)
(* outermost frame gathers everything until it is finished.  ListInv adds  *)
(* the order, from which the walk implements InputTree.                    *)
(***************************************************************************)
EXTENDS Resolver, PermissionTreeProofs

Framed ==
  /\ stack \in Seq({stack[i] : i \in DOMAIN stack})
  /\ \A i \in DOMAIN stack :
       stack[i] = [key |-> stack[i].key, legs |-> stack[i].legs, out |-> stack[i].out]

EachOnceInv == Framed /\ EachOnce

-----------------------------------------------------------------------------
\* A function on 1 .. n is a sequence of its values.
LEMMA ValuesOfSequence ==
  ASSUME NEW f, NEW n \in Nat, f = [i \in 1 .. n |-> f[i]]
  PROVE  f \in Seq({f[i] : i \in DOMAIN f}) /\ Len(f) = n /\ DOMAIN f = 1 .. n
<1> DEFINE S == {f[i] : i \in DOMAIN f}
<1>1. DOMAIN f = 1 .. n
  OBVIOUS
<1>2. f \in [1 .. n -> S]
  BY <1>1
<1>3. f \in Seq(S)
  BY <1>2
<1> QED
  BY <1>1, <1>3

\* A frame more, of whatever kind.
LEMMA Appended ==
  ASSUME NEW S, NEW q \in Seq(S), NEW x
  PROVE  /\ DOMAIN Append(q, x) = 1 .. Len(q) + 1
         /\ Append(q, x) = [i \in 1 .. Len(q) + 1 |-> Append(q, x)[i]]
         /\ Len(Append(q, x)) = Len(q) + 1
         /\ \A i \in 1 .. Len(q) : Append(q, x)[i] = q[i]
         /\ Append(q, x)[Len(q) + 1] = x
<1>1. q \in Seq(S \cup {x}) /\ x \in S \cup {x}
  OBVIOUS
<1>2. Append(q, x) \in Seq(S \cup {x}) /\ Len(Append(q, x)) = Len(q) + 1 /\ Len(q) \in Nat
  BY <1>1
<1>3. DOMAIN Append(q, x) = 1 .. Len(q) + 1
  BY <1>2
<1>4. Append(q, x) \in [1 .. Len(q) + 1 -> S \cup {x}]
  BY <1>2, LenProperties
<1>5. Append(q, x) = [i \in 1 .. Len(q) + 1 |-> Append(q, x)[i]]
  BY <1>4
<1>6. /\ \A i \in 1 .. Len(q) : Append(q, x)[i] = q[i]
      /\ Append(q, x)[Len(q) + 1] = x
  BY <1>1
<1> QED
  BY <1>2, <1>3, <1>5, <1>6

\* A stack whose keys are another stack's, but for its last frames, and whose
\* permissions are finished in the same way.
LEMMA SameKeys ==
  ASSUME EachOnceInv, NEW n \in Nat, n <= Len(stack), NEW legs, NEW out,
         n # 0,
         Len(stack') = n, stack' = [i \in 1 .. n |-> stack'[i]],
         \A i \in 1 .. n - 1 : stack'[i] = stack[i],
         stack'[n] = [key |-> stack[n].key, legs |-> legs, out |-> out],
         \A i \in 1 .. n : stack[i].key \notin finished'
  PROVE  EachOnceInv'
<1>1. DOMAIN stack = 1 .. Len(stack) /\ DOMAIN stack' = 1 .. n
  BY DEF EachOnceInv, Framed
<1>3. stack'[n] = [key |-> stack'[n].key, legs |-> stack'[n].legs, out |-> stack'[n].out]
  OBVIOUS
<1>4. \A i \in 1 .. n :
        stack'[i] = [key |-> stack'[i].key, legs |-> stack'[i].legs, out |-> stack'[i].out]
  <2>1. \A i \in 1 .. n - 1 : i \in 1 .. Len(stack) /\ i \in DOMAIN stack
    BY <1>1
  <2>2. \A i \in 1 .. n - 1 :
          stack'[i] = [key |-> stack'[i].key, legs |-> stack'[i].legs, out |-> stack'[i].out]
    BY <2>1 DEF EachOnceInv, Framed
  <2>3. \A i \in 1 .. n : i \in 1 .. n - 1 \/ i = n
    OBVIOUS
  <2> QED
    BY <1>3, <2>2, <2>3, Zenon
<1>5. Framed'
  BY <1>1, <1>4, ValuesOfSequence DEF Framed
<1>6. \A i \in 1 .. n : stack'[i].key = stack[i].key
  OBVIOUS
<1> QED
  BY <1>1, <1>5, <1>6 DEF EachOnce, EachOnceInv

\* Dealing with a leg neither adds a frame nor finishes a permission.
LEMMA AddStep ==
  ASSUME EachOnceInv, stack # <<>>, NEW types, Add(types), UNCHANGED finished
  PROVE  EachOnceInv'
<1> DEFINE n == Len(stack)
<1>1. /\ n \in Nat \ {0} /\ DOMAIN stack = 1 .. n /\ stack = [i \in 1 .. n |-> stack[i]]
      /\ \A i \in 1 .. n : stack[i].key \notin finished
  BY DEF EachOnceInv, Framed, EachOnce
<1> DEFINE legs  == Tail(Top.legs)
           out   == AppendNew(Top.out, types)
           frame == [key |-> stack[n].key, legs |-> legs, out |-> out]
<1>2. stack' = [stack EXCEPT ![n] = frame]
  BY DEF Add, Fed, Top
<1> HIDE DEF legs, out
<1>3. stack' = [i \in 1 .. n |-> IF i = n THEN frame ELSE stack[i]]
  BY <1>1, <1>2
<1>4. /\ stack' = [i \in 1 .. n |-> stack'[i]]
      /\ \A i \in 1 .. n - 1 : stack'[i] = stack[i]
      /\ stack'[n] = frame
  BY <1>1, <1>3
<1>5. Len(stack') = n
  BY <1>1, <1>4, ValuesOfSequence
<1>6. n <= Len(stack) /\ \A i \in 1 .. n : stack[i].key \notin finished'
  BY <1>1
<1> QED
  BY <1>1, <1>4, <1>5, <1>6, SameKeys

\* A call or a new root puts a permission on the stack that is neither on it nor cached.
LEMMA PushStep ==
  ASSUME EachOnceInv, NEW k, k \notin finished, ~Visited(k),
         stack' = Append(stack, Frame(k)), UNCHANGED finished
  PROVE  EachOnceInv'
<1> DEFINE n == Len(stack)
<1>1. n \in Nat /\ DOMAIN stack = 1 .. n /\ stack = [i \in 1 .. n |-> stack[i]]
  BY DEF EachOnceInv, Framed
<1>2. /\ DOMAIN stack' = 1 .. n + 1 /\ stack' = [i \in 1 .. n + 1 |-> stack'[i]]
      /\ \A i \in 1 .. n : stack'[i] = stack[i]
      /\ stack'[n + 1] = Frame(k)
  BY <1>1, Appended DEF EachOnceInv, Framed
<1>3. \A i \in 1 .. n + 1 :
        stack'[i] = [key |-> stack'[i].key, legs |-> stack'[i].legs, out |-> stack'[i].out]
  BY <1>1, <1>2 DEF EachOnceInv, Framed, Frame
<1>4. Framed'
  <2> DEFINE m == n + 1
  <2>1. m \in Nat /\ stack' = [i \in 1 .. m |-> stack'[i]]
    BY <1>1, <1>2
  <2> HIDE DEF m
  <2>2. stack' \in Seq({stack'[i] : i \in DOMAIN stack'})
    BY <2>1, ValuesOfSequence
  <2> QED
    BY <1>2, <1>3, <2>2 DEF Framed
<1>5. stack'[n + 1].key = k
  BY <1>2 DEF Frame
<1>6. \A i \in 1 .. n : stack[i].key # k
  BY <1>1 DEF Visited
<1> QED
  BY <1>1, <1>2, <1>4, <1>5, <1>6 DEF EachOnce, EachOnceInv

\* The permission that is finished was on the stack once, and is taken off it.
LEMMA ReturnStep ==
  ASSUME EachOnceInv, Return
  PROVE  EachOnceInv'
<1> DEFINE n == Len(stack)
<1>1. /\ n \in Nat \ {0} /\ DOMAIN stack = 1 .. n /\ stack = [i \in 1 .. n |-> stack[i]]
      /\ \A i \in 1 .. n - 1 : stack[i].key # Top.key
      /\ \A i \in 1 .. n - 1 : stack[i].key \notin finished'
  BY DEF EachOnceInv, Framed, EachOnce, Return, Top
<1>2. CASE n = 1
  <2>1. stack' = <<>>
    BY <1>2 DEF Return
  <2> QED
    BY <2>1 DEF EachOnceInv, Framed, EachOnce
<1>3. CASE n # 1
  <2> DEFINE caller == stack[n - 1]
             legs   == Tail(caller.legs)
             out    == AppendNew(caller.out, Top.out)
             frame  == [key |-> caller.key, legs |-> legs, out |-> out]
  <2>1. stack' = Append(SubSeq(stack, 1, n - 2), frame)
    BY <1>1, <1>3 DEF Return, Fed
  <2>2. /\ DOMAIN stack' = 1 .. n - 1 /\ stack' = [i \in 1 .. n - 1 |-> stack'[i]]
        /\ Len(stack') = n - 1
        /\ \A i \in 1 .. n - 2 : stack'[i] = stack[i]
        /\ stack'[n - 1] = frame
    <3> DEFINE S    == {stack[i] : i \in DOMAIN stack}
               rest == SubSeq(stack, 1, n - 2)
    <3>1. /\ rest \in Seq(S) /\ Len(rest) = n - 2
          /\ \A i \in 1 .. n - 2 : rest[i] = stack[i]
      BY <1>1, <1>3 DEF EachOnceInv, Framed
    <3>2. stack' = Append(rest, frame)
      BY <2>1
    <3> HIDE DEF rest, S, frame
    <3>3. n - 2 + 1 = n - 1 /\ 1 .. n - 2 = 1 .. Len(rest)
      BY <1>1, <3>1
    <3>4. /\ DOMAIN stack' = 1 .. n - 1 /\ stack' = [i \in 1 .. n - 1 |-> stack'[i]]
          /\ Len(stack') = n - 1 /\ stack'[n - 1] = frame
          /\ \A i \in 1 .. n - 2 : stack'[i] = rest[i]
      BY <3>1, <3>2, <3>3, Appended
    <3> QED
      BY <3>1, <3>4
  <2> HIDE DEF legs, out
  <2> QED
    BY <1>1, <1>3, <2>2, SameKeys
<1> QED
  BY <1>1, <1>2, <1>3

-----------------------------------------------------------------------------
(* No permission is on the stack twice, or again once it is cached         *)
(* (generator.go:424-441): whatever recursion a schema has, the walk works *)
(* on each permission once, at a depth bounded by the number of them.      *)
THEOREM WalksOnce == Spec => []EachOnce
<1>1. Init => EachOnceInv
  BY DEF Init, EachOnceInv, Framed, EachOnce
<1>2. EachOnceInv /\ [Next]_vars => EachOnceInv'
  <2> SUFFICES ASSUME EachOnceInv, [Next]_vars
               PROVE  EachOnceInv'
    OBVIOUS
  <2>1. ASSUME NEW k \in roots, Resolve(k)
        PROVE  EachOnceInv'
    <3>1. CASE k \in finished
      BY <2>1, <3>1 DEF Resolve, EachOnceInv, Framed, EachOnce
    <3>2. CASE k \notin finished
      <4>1. ~Visited(k) /\ stack' = Append(stack, Frame(k)) /\ UNCHANGED finished
        BY <2>1, <3>2 DEF Resolve, Visited
      <4> QED
        BY <3>2, <4>1, PushStep
    <3> QED
      BY <3>1, <3>2
  <2>2. CASE AddTypes
    BY <2>2, AddStep DEF AddTypes
  <2>3. CASE AddCached
    BY <2>3, AddStep DEF AddCached
  <2>4. CASE Revisit
    BY <2>4, AddStep DEF Revisit
  <2>5. CASE Call
    BY <2>5, PushStep DEF Call
  <2>6. CASE Return
    BY <2>6, ReturnStep
  <2>7. CASE UNCHANGED vars
    BY <2>7 DEF vars, EachOnceInv, Framed, EachOnce
  <2> QED
    BY <2>1, <2>2, <2>3, <2>4, <2>5, <2>6, <2>7 DEF Next, Step
<1>3. EachOnceInv => EachOnce
  BY DEF EachOnceInv
<1> QED
  BY <1>1, <1>2, <1>3, PTL DEF Spec

-----------------------------------------------------------------------------
(* What the walk has gathered.                                            *)

Frames(s) == [key : Keys(s), legs : Seq(AnyLeg(s)), out : Seq(Defs(s))]

WalkTypes ==
  /\ schema \in Schemas
  /\ roots \subseteq Keys(schema) /\ finished \subseteq Keys(schema)
  /\ first \in Keys(schema) \cup {NoKey}
  /\ cache \in [Keys(schema) -> Seq(Defs(schema))]
  /\ stack \in Seq(Frames(schema))

\* What is left of a frame's legs is the end of its permission's; the rest was dealt with.
Passed(s, f) == Len(Legs(s, f.key)) - Len(f.legs)
Rest(s, f)   == /\ Passed(s, f) \in Nat
                /\ \A i \in 1 .. Len(f.legs) : f.legs[i] = Legs(s, f.key)[Passed(s, f) + i]
Dealt(s, f)  == {Legs(s, f.key)[i] : i \in 1 .. Passed(s, f)}

\* Permission k, with these types so far, has from leg l what there is to have, or
\* is part of a recursion: F is finished, with lists C, and V on the stack.
Met(s, F, C, k, types, l) ==
  /\ l.kind = "types" => ToSet(l.types) \subseteq types
  /\ l.kind = "permission" =>
       \/ l.key = k
       \/ l.key \in F /\ ToSet(C[l.key]) \subseteq types
       \/ Mutual(s, k)

Known(F, V, l) == l.kind = "permission" => l.key \in F \cup V

Gathered(s, F, C, V, k, types, legs) ==
  /\ types \subseteq InputTypes(s, k)
  /\ \A l \in legs : Met(s, F, C, k, types, l) /\ Known(F, V, l)

FrameOK(s, F, C, V, f) == Rest(s, f) /\ Gathered(s, F, C, V, f.key, ToSet(f.out), Dealt(s, f))
DoneOK(s, F, C, V, k)  == Gathered(s, F, C, V, k, ToSet(C[k]), ToSet(Legs(s, k)))

OnStack == {stack[i].key : i \in DOMAIN stack}

\* Each frame waits for the one above it.
Chain ==
  /\ \A i \in 1 .. Len(stack) - 1 : /\ stack[i].legs # <<>>
                                    /\ Head(stack[i].legs).kind = "permission"
                                    /\ Head(stack[i].legs).key = stack[i + 1].key
  /\ \A i, j \in DOMAIN stack : i < j => stack[j].key \in Below(schema, stack[i].key)

\* Until the first permission is finished everything is collected below it.
FirstInv ==
  \/ first = NoKey /\ finished = {} /\ stack = <<>>
  \/ /\ first \in Keys(schema) \ finished
     /\ stack # <<>> /\ stack[1].key = first
     /\ \A m \in finished : \E i \in DOMAIN stack : ToSet(cache[m]) \subseteq ToSet(stack[i].out)
  \/ /\ first \in finished
     /\ ~ArrowToRelation(schema, first) => InputTypes(schema, first) \subseteq ToSet(cache[first])

WalkInv ==
  /\ WalkTypes /\ EachOnce /\ Chain
  /\ \A i \in DOMAIN stack : FrameOK(schema, finished, cache, OnStack, stack[i])
  /\ \A k \in finished : DoneOK(schema, finished, cache, OnStack, k)
  /\ Keys(schema) \subseteq roots \cup finished \cup OnStack
  /\ FirstInv
-----------------------------------------------------------------------------
\* The first leg of a frame is one of its permission's.
LEMMA HeadIsLeg ==
  ASSUME NEW s, Accepted(s), NEW f \in Frames(s), Rest(s, f), f.legs # <<>>
  PROVE  Head(f.legs) \in ToSet(Legs(s, f.key)) /\ Head(f.legs) \in AnyLeg(s)
<1> DEFINE all == Legs(s, f.key)
<1>1. f.key \in Keys(s) /\ f.legs \in Seq(AnyLeg(s))
  BY DEF Frames
<1>2. all \in Seq(AnyLeg(s)) /\ ToSet(all) = {all[i] : i \in 1 .. Len(all)}
  BY <1>1, LegsAre, ElementsOfSeq
<1>3. Len(f.legs) \in Nat \ {0} /\ Head(f.legs) = f.legs[1] /\ f.legs[1] \in AnyLeg(s)
  BY <1>1, EmptySeq, LenProperties
<1>4. Len(all) \in Nat /\ Passed(s, f) = Len(all) - Len(f.legs)
  BY <1>2, LenProperties DEF Passed
<1>5. f.legs[1] = all[Passed(s, f) + 1]
  BY <1>3 DEF Rest
<1>6. Passed(s, f) + 1 \in 1 .. Len(all)
  BY <1>3, <1>4 DEF Rest
<1> QED BY <1>2, <1>3, <1>5, <1>6

\* Of a suffix that begins after p elements, the tail begins after p + 1.
LEMMA TailOfRest ==
  ASSUME NEW X, NEW a \in Seq(X), NEW b \in Seq(X), a # <<>>, NEW p \in Nat,
         p = Len(b) - Len(a), \A i \in 1 .. Len(a) : a[i] = b[p + i]
  PROVE  /\ Tail(a) \in Seq(X) /\ Len(b) - Len(Tail(a)) = p + 1 /\ Head(a) = b[p + 1]
         /\ \A i \in 1 .. Len(Tail(a)) : Tail(a)[i] = b[(p + 1) + i]
<1>1. /\ Len(a) \in Nat \ {0} /\ Len(b) \in Nat
      /\ Head(a) = a[1] /\ Tail(a) \in Seq(X) /\ Len(Tail(a)) = Len(a) - 1
      /\ \A i \in 1 .. Len(a) - 1 : Tail(a)[i] = a[i + 1]
  BY EmptySeq, LenProperties, HeadTailProperties
<1>2. PICK n \in Nat \ {0} : n = Len(a)
  BY <1>1
<1>3. Head(a) = b[p + 1]
  <2>1. 1 \in 1 .. n
    OBVIOUS
  <2> QED BY <2>1, <1>1, <1>2
<1>4. Len(b) - Len(Tail(a)) = p + 1
  BY <1>1
<1>5. ASSUME NEW i \in 1 .. Len(Tail(a)) PROVE Tail(a)[i] = b[(p + 1) + i]
  <2>1. i \in 1 .. n - 1 /\ i + 1 \in 1 .. n /\ (p + 1) + i = p + (i + 1)
    BY <1>1, <1>2
  <2>2. Tail(a)[i] = a[i + 1]
    BY <2>1, <1>1, <1>2
  <2>3. a[i + 1] = b[p + (i + 1)]
    BY <2>1, <1>2
  <2> QED BY <2>1, <2>2, <2>3
<1> QED BY <1>1, <1>3, <1>4, <1>5

\* Dealing with a leg.
LEMMA FedIs ==
  ASSUME NEW s, Accepted(s), NEW f \in Frames(s), Rest(s, f), f.legs # <<>>,
         NEW types \in Seq(Defs(s))
  PROVE  LET g == Fed(f, types) IN
         /\ g \in Frames(s) /\ g.key = f.key /\ Rest(s, g)
         /\ Dealt(s, g) = Dealt(s, f) \cup {Head(f.legs)}
         /\ ToSet(g.out) = ToSet(f.out) \cup ToSet(types)
         /\ g.out = AppendNew(f.out, types) /\ Passed(s, g) = Passed(s, f) + 1
         /\ Passed(s, g) \in 1 .. Len(Legs(s, f.key))
         /\ Head(f.legs) = Legs(s, f.key)[Passed(s, g)]
<1> DEFINE g == Fed(f, types)
<1>1. f.key \in Keys(s) /\ f.legs \in Seq(AnyLeg(s)) /\ f.out \in Seq(Defs(s))
  BY DEF Frames
<1>2. PICK all \in Seq(AnyLeg(s)) : all = Legs(s, f.key)
  BY <1>1, LegsAre
<1>3. PICK legs \in Seq(AnyLeg(s)) : legs = f.legs
  BY <1>1
<1>4. PICK p \in Nat : p = Passed(s, f)
  BY DEF Rest
<1>5. p = Len(all) - Len(legs) /\ legs # <<>> /\ \A i \in 1 .. Len(legs) : legs[i] = all[p + i]
  BY <1>2, <1>3, <1>4 DEF Passed, Rest
<1>6. PICK left : left = Tail(legs)
  OBVIOUS
<1>7. /\ left \in Seq(AnyLeg(s)) /\ Len(all) - Len(left) = p + 1 /\ Head(legs) = all[p + 1]
      /\ \A i \in 1 .. Len(left) : left[i] = all[(p + 1) + i]
  BY <1>5, <1>6, TailOfRest
<1>8. /\ AppendNew(f.out, types) \in Seq(Defs(s))
      /\ ToSet(AppendNew(f.out, types)) = ToSet(f.out) \cup ToSet(types)
  BY <1>1, AppendNewIs
<1>9. g = [key |-> f.key, legs |-> left, out |-> AppendNew(f.out, types)]
  BY <1>3, <1>6 DEF Fed
<1>10. g \in Frames(s) /\ g.key = f.key /\ g.legs = left /\ g.out = AppendNew(f.out, types)
  BY <1>1, <1>7, <1>8, <1>9 DEF Frames
<1> HIDE DEF g
<1>11. Passed(s, g) = p + 1
  BY <1>2, <1>7, <1>10 DEF Passed
<1>12. Rest(s, g)
  BY <1>2, <1>7, <1>10, <1>11 DEF Rest
<1>13. Dealt(s, g) = Dealt(s, f) \cup {Head(f.legs)}
  <2>1. Dealt(s, f) = {all[i] : i \in 1 .. p} /\ Dealt(s, g) = {all[i] : i \in 1 .. p + 1}
    BY <1>2, <1>4, <1>10, <1>11 DEF Dealt
  <2>2. 1 .. p + 1 = (1 .. p) \cup {p + 1}
    OBVIOUS
  <2>3. Head(f.legs) = all[p + 1]
    BY <1>3, <1>7
  <2> QED BY <2>1, <2>2, <2>3
<1>14. p + 1 \in 1 .. Len(all)
  <2>1. Len(legs) \in Nat \ {0} /\ Len(all) \in Nat
    BY <1>5, EmptySeq, LenProperties
  <2> QED BY <2>1, <1>5
<1>15. /\ Passed(s, g) = Passed(s, f) + 1 /\ Passed(s, g) \in 1 .. Len(Legs(s, f.key))
       /\ Head(f.legs) = Legs(s, f.key)[Passed(s, g)]
  BY <1>2, <1>3, <1>4, <1>7, <1>11, <1>14
<1> QED BY <1>8, <1>10, <1>12, <1>13, <1>15 DEF g

\* A new frame has dealt with nothing, and one without legs left with all of them.
LEMMA NewFrame ==
  ASSUME NEW s, Accepted(s), NEW k \in Keys(s)
  PROVE  LET f == [key |-> k, legs |-> Legs(s, k), out |-> <<>>] IN
         /\ f \in Frames(s) /\ Rest(s, f) /\ Dealt(s, f) = {} /\ ToSet(f.out) = {}
         /\ Passed(s, f) = 0
<1> DEFINE f == [key |-> k, legs |-> Legs(s, k), out |-> <<>>]
<1>1. Legs(s, k) \in Seq(AnyLeg(s)) /\ Len(Legs(s, k)) \in Nat
  BY LegsAre, LenProperties
<1>2. f \in Frames(s)
  BY <1>1, EmptySeq DEF Frames
<1>3. f.key = k /\ f.legs = Legs(s, k) /\ f.out = <<>>
  OBVIOUS
<1> HIDE DEF f
<1>4. Passed(s, f) = 0
  BY <1>1, <1>3 DEF Passed
<1>5. Rest(s, f) /\ Dealt(s, f) = {}
  BY <1>1, <1>3, <1>4 DEF Rest, Dealt
<1>6. ToSet(f.out) = {}
  BY <1>3 DEF ToSet
<1> QED BY <1>2, <1>4, <1>5, <1>6 DEF f

\* A frame without legs left has dealt with all of its permission's.
LEMMA AllDealt ==
  ASSUME NEW s, Accepted(s), NEW f \in Frames(s), f.legs = <<>>
  PROVE  Dealt(s, f) = ToSet(Legs(s, f.key)) /\ Passed(s, f) = Len(Legs(s, f.key))
<1> DEFINE all == Legs(s, f.key)
<1>1. f.key \in Keys(s)
  BY DEF Frames
<1>2. all \in Seq(AnyLeg(s)) /\ ToSet(all) = {all[i] : i \in 1 .. Len(all)} /\ Len(all) \in Nat
  BY <1>1, LegsAre, ElementsOfSeq, LenProperties
<1>3. Passed(s, f) = Len(all)
  BY <1>2 DEF Passed
<1> QED BY <1>2, <1>3 DEF Dealt

\* What was gathered stays gathered while permissions are put on the stack and finished.
LEMMA StaysGathered ==
  ASSUME NEW s, NEW F, NEW C, NEW V, NEW F2, NEW C2, NEW V2,
         F \subseteq F2, \A m \in F : C2[m] = C[m], F \cup V \subseteq F2 \cup V2,
         NEW k, NEW types, NEW legs, Gathered(s, F, C, V, k, types, legs)
  PROVE  Gathered(s, F2, C2, V2, k, types, legs)
BY DEF Gathered, Met, Known

\* The same of a frame.
LEMMA FrameStays ==
  ASSUME NEW s, NEW F, NEW C, NEW V, NEW F2, NEW C2, NEW V2,
         F \subseteq F2, \A m \in F : C2[m] = C[m], F \cup V \subseteq F2 \cup V2,
         NEW f, FrameOK(s, F, C, V, f)
  PROVE  FrameOK(s, F2, C2, V2, f)
<1>1. PICK k, types, legs : k = f.key /\ types = ToSet(f.out) /\ legs = Dealt(s, f)
  OBVIOUS
<1>2. Rest(s, f) /\ Gathered(s, F, C, V, k, types, legs)
  BY <1>1 DEF FrameOK
<1>3. Gathered(s, F2, C2, V2, k, types, legs)
  BY <1>2, StaysGathered
<1> QED BY <1>1, <1>2, <1>3 DEF FrameOK

\* More types, and one more leg that is met.
LEMMA GathersMore ==
  ASSUME NEW s, NEW F, NEW C, NEW V, NEW k, NEW types, NEW legs,
         Gathered(s, F, C, V, k, types, legs),
         NEW more, more \subseteq InputTypes(s, k), NEW l,
         Met(s, F, C, k, types \cup more, l), Known(F, V, l)
  PROVE  Gathered(s, F, C, V, k, types \cup more, legs \cup {l})
BY DEF Gathered, Met

-----------------------------------------------------------------------------
(* Completeness.                                                           *)

\* What is part of no recursion among different permissions is complete.
LEMMA TameIsComplete ==
  ASSUME NEW s, Accepted(s), NEW F \in SUBSET Keys(s), NEW C, NEW V,
         \A k \in F : DoneOK(s, F, C, V, k),
         NEW r \in F, ~Mutual(s, r), ~ArrowToRelation(s, r)
  PROVE  InputTypes(s, r) \subseteq ToSet(C[r])
<1> DEFINE R == {n \in F : ToSet(C[n]) \subseteq ToSet(C[r])}
<1>1. ASSUME NEW n \in R PROVE ~Mutual(s, n) \/ n \notin {r} \cup Below(s, r)
  BY BelowTwice DEF Mutual
<1>2. ASSUME NEW n \in R, n \in {r} \cup Below(s, r), NEW m \in Successors(s, n) \cap Keys(s)
      PROVE  m \in R
  <2>1. PICK l \in ToSet(Legs(s, n)) : l.kind = "permission" /\ l.key = m
    BY PermissionLegs
  <2>2. m = n \/ (m \in F /\ ToSet(C[m]) \subseteq ToSet(C[n]))
    BY <1>1, <1>2, <2>1 DEF DoneOK, Gathered, Met
  <2> QED BY <2>2
<1>3. \A n \in R : \A l \in ToSet(Legs(s, n)) :
        l.kind = "types" => ToSet(l.types) \subseteq ToSet(C[n])
  BY DEF DoneOK, Gathered, Met
<1>4. r \in R \cap Keys(s) /\ \A n \in R : ToSet(C[n]) \subseteq ToSet(C[r])
  OBVIOUS
<1>5. \A n \in R \cap ({r} \cup Below(s, r)) : Successors(s, n) \cap Keys(s) \subseteq R
  BY <1>2
<1> HIDE DEF R
<1> QED BY <1>3, <1>4, <1>5, Complete

\* Once nothing is on the stack, a list that has all others in it is complete.
LEMMA OutermostIsComplete ==
  ASSUME NEW s, Accepted(s), NEW F \in SUBSET Keys(s), NEW C,
         \A k \in F : DoneOK(s, F, C, {}, k),
         NEW r \in F, ~ArrowToRelation(s, r), \A n \in F : ToSet(C[n]) \subseteq ToSet(C[r])
  PROVE  InputTypes(s, r) \subseteq ToSet(C[r])
<1>1. ASSUME NEW n \in F, NEW m \in Successors(s, n) \cap Keys(s)
      PROVE  m \in F
  <2>1. PICK l \in ToSet(Legs(s, n)) : l.kind = "permission" /\ l.key = m
    BY PermissionLegs
  <2> QED BY <2>1 DEF DoneOK, Gathered, Known
<1>2. \A n \in F : \A l \in ToSet(Legs(s, n)) :
        l.kind = "types" => ToSet(l.types) \subseteq ToSet(C[n])
  BY DEF DoneOK, Gathered, Met
<1> QED BY <1>1, <1>2, Complete

-----------------------------------------------------------------------------
(* Steps.                                                                  *)

\* The stack is a sequence of frames.
LEMMA StackIs ==
  ASSUME WalkTypes
  PROVE  /\ Accepted(schema) /\ Len(stack) \in Nat /\ DOMAIN stack = 1 .. Len(stack)
         /\ \A i \in 1 .. Len(stack) : stack[i] \in Frames(schema) /\ stack[i].key \in Keys(schema)
         /\ stack # <<>> => Len(stack) \in 1 .. Len(stack)
<1>1. schema \in Schemas /\ stack \in Seq(Frames(schema))
  BY DEF WalkTypes
<1>2. /\ Len(stack) \in Nat /\ DOMAIN stack = 1 .. Len(stack)
      /\ \A i \in 1 .. Len(stack) : stack[i] \in Frames(schema)
  BY <1>1, LenProperties
<1>3. stack # <<>> => Len(stack) \in 1 .. Len(stack)
  BY <1>1, <1>2, EmptySeq
<1> QED BY <1>1, <1>2, <1>3, ResolverAssumption DEF ResolverAssumption, Frames

\* A stack whose last frame has dealt with a leg more.
LEMMA DealKeeps ==
  ASSUME WalkInv, EachOnce', stack # <<>>, Top.legs # <<>>,
         NEW types \in Seq(Defs(schema)), Add(types),
         UNCHANGED <<schema, roots, cache, finished, first>>,
         ToSet(types) \subseteq InputTypes(schema, Top.key),
         Met(schema, finished, cache, Top.key, ToSet(Top.out) \cup ToSet(types), Leg),
         Known(finished, OnStack, Leg)
  PROVE  WalkInv'
<1>1. PICK s \in Schemas : s = schema /\ schema' = s
  BY DEF WalkInv, WalkTypes
<1>2. /\ Accepted(s) /\ WalkTypes
      /\ \A i \in 1 .. Len(stack) : stack[i] \in Frames(s) /\ stack[i].key \in Keys(s)
  BY <1>1, StackIs DEF WalkInv
<1>3. PICK n \in Nat : n = Len(stack) /\ DOMAIN stack = 1 .. n /\ n \in 1 .. n
  BY <1>2, StackIs
<1>4. PICK f \in Frames(s) : f = Top /\ f = stack[n]
  BY <1>2, <1>3 DEF Top
<1>5. PICK g : g = Fed(f, types)
  OBVIOUS
<1>6. FrameOK(s, finished, cache, OnStack, f)
  BY <1>1, <1>3, <1>4 DEF WalkInv
<1>7. /\ g \in Frames(s) /\ g.key = f.key /\ Rest(s, g)
      /\ Dealt(s, g) = Dealt(s, f) \cup {Head(f.legs)}
      /\ ToSet(g.out) = ToSet(f.out) \cup ToSet(types)
  <2>1. Rest(s, f) /\ f.legs # <<>> /\ types \in Seq(Defs(s))
    BY <1>1, <1>4, <1>6 DEF FrameOK
  <2> QED BY <2>1, <1>2, <1>5, FedIs
<1>8. /\ stack \in Seq(Frames(s)) /\ stack' = [stack EXCEPT ![n] = g]
  BY <1>1, <1>2, <1>3, <1>4, <1>5 DEF Add, WalkTypes
<1>9. /\ stack' \in Seq(Frames(s)) /\ Len(stack') = n /\ DOMAIN stack' = 1 .. n
      /\ \A i \in 1 .. n : stack'[i] = IF i = n THEN g ELSE stack[i]
  BY <1>3, <1>7, <1>8, ExceptSeq
<1>10. \A i \in 1 .. n : stack'[i].key = stack[i].key
  BY <1>4, <1>7, <1>9
<1>11. OnStack' = OnStack
  BY <1>3, <1>9, <1>10 DEF OnStack
<1>12. WalkTypes'
  BY <1>1, <1>2, <1>9 DEF WalkTypes
<1>13. Chain'
  <2>1. Chain
    BY DEF WalkInv
  <2>2. \A i \in 1 .. n - 1 : i \in 1 .. n /\ i + 1 \in 1 .. n /\ stack'[i] = stack[i]
    BY <1>9
  <2> QED BY <2>1, <2>2, <1>1, <1>3, <1>9, <1>10 DEF Chain
<1>14. ASSUME NEW i \in 1 .. n
       PROVE  FrameOK(s, finished, cache, OnStack, stack'[i])
  <2>1. CASE i = n
    <3>1. Gathered(s, finished, cache, OnStack, f.key, ToSet(f.out) \cup ToSet(types),
                   Dealt(s, f) \cup {Head(f.legs)})
      BY <1>1, <1>4, <1>6, GathersMore DEF FrameOK, Leg
    <3> QED BY <2>1, <3>1, <1>7, <1>9 DEF FrameOK
  <2>2. CASE i # n
    BY <2>2, <1>1, <1>3, <1>9 DEF WalkInv
  <2> QED BY <2>1, <2>2
<1>15. FirstInv'
  <2>1. ASSUME NEW i \in 1 .. n PROVE ToSet(stack[i].out) \subseteq ToSet(stack'[i].out)
    BY <1>4, <1>7, <1>9
  <2>2. stack' # <<>> /\ 1 \in 1 .. n
    BY <1>3, <1>9
  <2>3. FirstInv
    BY DEF WalkInv
  <2> QED BY <2>1, <2>2, <2>3, <1>1, <1>3, <1>9, <1>10 DEF FirstInv
<1> QED BY <1>1, <1>3, <1>9, <1>11, <1>12, <1>13, <1>14, <1>15 DEF WalkInv

\* A stack with a frame more, which the last one waits for.
LEMMA PushKeeps ==
  ASSUME WalkInv, EachOnce', NEW k \in Keys(schema), stack' = Append(stack, Frame(k)),
         UNCHANGED <<schema, cache, finished>>,
         roots' \subseteq roots, roots \subseteq roots' \cup {k},
         first' \in Keys(schema) \cup {NoKey}, FirstInv',
         stack # <<>> => Top.legs # <<>> /\ Leg.kind = "permission" /\ Leg.key = k
  PROVE  WalkInv'
<1>1. PICK s \in Schemas : s = schema /\ schema' = s
  BY DEF WalkInv, WalkTypes
<1>2. /\ Accepted(s) /\ WalkTypes
      /\ \A i \in 1 .. Len(stack) : stack[i] \in Frames(s) /\ stack[i].key \in Keys(s)
  BY <1>1, StackIs DEF WalkInv
<1>3. PICK n \in Nat : n = Len(stack) /\ DOMAIN stack = 1 .. n /\ (stack # <<>> <=> n # 0)
  BY <1>2, StackIs, EmptySeq DEF WalkTypes
<1>4. PICK f : f = Frame(k)
  OBVIOUS
<1>5. f \in Frames(s) /\ f.key = k /\ Rest(s, f) /\ Dealt(s, f) = {} /\ ToSet(f.out) = {}
  BY <1>1, <1>2, <1>4, NewFrame DEF Frame
<1>6. /\ stack' \in Seq(Frames(s)) /\ Len(stack') = n + 1 /\ DOMAIN stack' = 1 .. n + 1
      /\ \A i \in 1 .. n : stack'[i] = stack[i]
      /\ stack'[n + 1] = f
  <2>1. stack \in Seq(Frames(s)) /\ stack' = Append(stack, f)
    BY <1>1, <1>2, <1>4 DEF WalkTypes
  <2> QED BY <2>1, <1>3, <1>5, AppendProperties
<1>7. WalkTypes'
  BY <1>1, <1>2, <1>6 DEF WalkTypes
<1>8. OnStack' = OnStack \cup {k}
  <2>1. \A i \in 1 .. n + 1 : i \in 1 .. n \/ i = n + 1
    OBVIOUS
  <2>2. n + 1 \in 1 .. n + 1 /\ \A i \in 1 .. n : i \in 1 .. n + 1
    OBVIOUS
  <2> QED BY <2>1, <2>2, <1>3, <1>5, <1>6 DEF OnStack
<1>9. Chain'
  <2>1. Chain
    BY DEF WalkInv
  <2>2. ASSUME NEW i \in 1 .. (n + 1) - 1
        PROVE  /\ stack'[i].legs # <<>> /\ Head(stack'[i].legs).kind = "permission"
               /\ Head(stack'[i].legs).key = stack'[i + 1].key
    <3>1. CASE i = n
      BY <3>1, <1>3, <1>5, <1>6 DEF Top, Leg
    <3>2. CASE i # n
      <4>1. i \in 1 .. n - 1 /\ i \in 1 .. n /\ i + 1 \in 1 .. n
        BY <3>2
      <4> QED BY <4>1, <2>1, <1>3, <1>6 DEF Chain
    <3> QED BY <3>1, <3>2
  <2>3. ASSUME stack # <<>> PROVE k \in Successors(s, Top.key) /\ Top = stack[n] /\ n \in 1 .. n
    <3>1. Top = stack[n] /\ n \in 1 .. n
      BY <1>3, <2>3 DEF Top
    <3>2. Rest(s, Top) /\ Top \in Frames(s) /\ Top.legs # <<>>
      BY <3>1, <2>3, <1>1, <1>2, <1>3 DEF WalkInv, FrameOK
    <3>3. Leg \in ToSet(Legs(s, Top.key)) /\ Top.key \in Keys(s)
      BY <3>1, <3>2, <1>2, <1>3, HeadIsLeg DEF Leg
    <3> QED BY <2>3, <3>1, <3>3, <1>2, PermissionLegs
  <2>4. ASSUME NEW i \in 1 .. n + 1, NEW j \in 1 .. n + 1, i < j
        PROVE  stack'[j].key \in Below(s, stack'[i].key)
    <3>1. CASE j = n + 1
      <4>1. i \in 1 .. n /\ stack # <<>> /\ n \in 1 .. n
        BY <3>1, <2>4, <1>3
      <4>2. stack'[i] = stack[i] /\ stack'[j].key = k
        BY <3>1, <4>1, <1>5, <1>6
      <4>3. CASE i = n
        BY <4>1, <4>2, <4>3, <2>3, <1>2, BelowIs
      <4>4. CASE i # n
        <5>1. stack[n].key \in Below(s, stack[i].key)
          <6>1. i < n
            BY <4>1, <4>4
          <6> QED BY <4>1, <6>1, <2>1, <1>1, <1>3 DEF Chain
        <5> QED BY <4>1, <4>2, <5>1, <2>3, <1>2, BelowIs
      <4> QED BY <4>3, <4>4
    <3>2. CASE j # n + 1
      <4>1. i \in 1 .. n /\ j \in 1 .. n
        BY <3>2, <2>4
      <4> QED BY <4>1, <2>1, <2>4, <1>1, <1>3, <1>6 DEF Chain
    <3> QED BY <3>1, <3>2
  <2> QED BY <2>2, <2>4, <1>1, <1>6 DEF Chain
<1>10. ASSUME NEW i \in 1 .. n + 1
       PROVE  FrameOK(s, finished, cache, OnStack \cup {k}, stack'[i])
  <2>1. CASE i = n + 1
    BY <2>1, <1>5, <1>6 DEF FrameOK, Gathered
  <2>2. CASE i # n + 1
    <3>1. i \in 1 .. n
      BY <2>2
    <3>2. FrameOK(s, finished, cache, OnStack, stack'[i])
      BY <3>1, <1>1, <1>3, <1>6 DEF WalkInv
    <3>3. PICK v, g : v = OnStack /\ g = stack'[i]
      OBVIOUS
    <3>4. FrameOK(s, finished, cache, v \cup {k}, g)
      BY <3>2, <3>3, FrameStays
    <3> QED BY <3>3, <3>4
  <2> QED BY <2>1, <2>2
<1>11. ASSUME NEW m \in finished
       PROVE  DoneOK(s, finished, cache, OnStack \cup {k}, m)
  <2>1. DoneOK(s, finished, cache, OnStack, m)
    BY <1>1 DEF WalkInv
  <2> QED BY <2>1, StaysGathered DEF DoneOK
<1>12. Keys(s) \subseteq roots' \cup finished \cup (OnStack \cup {k})
  BY <1>1 DEF WalkInv
<1> QED BY <1>1, <1>6, <1>7, <1>8, <1>9, <1>10, <1>11, <1>12 DEF WalkInv

\* What is known of the permission that is finished.
LEMMA ReturnFinishes ==
  ASSUME WalkInv, Return, NEW s, s = schema, NEW V, finished \cup OnStack \subseteq finished' \cup V
  PROVE  /\ finished' = finished \cup {Top.key} /\ Top.key \in Keys(s) \ finished
         /\ cache' \in [Keys(s) -> Seq(Defs(s))] /\ cache'[Top.key] = Top.out
         /\ \A m \in finished : cache'[m] = cache[m]
         /\ \A m \in finished' : DoneOK(s, finished', cache', V, m)
         /\ \A i \in DOMAIN stack : FrameOK(s, finished', cache', V, stack[i])
<1>1. /\ Accepted(s) /\ WalkTypes /\ Top = stack[Len(stack)] /\ Len(stack) \in DOMAIN stack
      /\ Top \in Frames(s) /\ Top.key \in Keys(s) /\ Top.legs = <<>>
  BY StackIs DEF WalkInv, Return, Top
<1>2. Top.key \notin finished
  BY <1>1 DEF WalkInv, EachOnce
<1>3. PICK k, out : k = Top.key /\ out = Top.out
  OBVIOUS
<1>4. cache \in [Keys(s) -> Seq(Defs(s))] /\ out \in Seq(Defs(s)) /\ finished \subseteq Keys(s)
  BY <1>1, <1>3 DEF WalkTypes, Frames
<1>5. cache' = [cache EXCEPT ![k] = out] /\ finished' = finished \cup {k}
  BY <1>3 DEF Return
<1>6. /\ cache' \in [Keys(s) -> Seq(Defs(s))] /\ cache'[k] = out
      /\ \A m \in finished : cache'[m] = cache[m]
  BY <1>1, <1>2, <1>3, <1>4, <1>5
<1>7. ASSUME NEW i \in DOMAIN stack PROVE FrameOK(s, finished', cache', V, stack[i])
  <2>1. FrameOK(s, finished, cache, OnStack, stack[i])
    BY DEF WalkInv
  <2>2. PICK v, f, F2, C2 : v = OnStack /\ f = stack[i] /\ F2 = finished' /\ C2 = cache'
    OBVIOUS
  <2>3. /\ finished \subseteq F2 /\ finished \cup v \subseteq F2 \cup V
        /\ \A m \in finished : C2[m] = cache[m]
    BY <1>5, <1>6, <2>2
  <2>4. FrameOK(s, F2, C2, V, f)
    BY <2>1, <2>2, <2>3, FrameStays
  <2> QED BY <2>2, <2>4
<1>8. ASSUME NEW m \in finished' PROVE DoneOK(s, finished', cache', V, m)
  <2>1. CASE m = k
    <3>1. FrameOK(s, finished', cache', V, Top)
      BY <1>1, <1>7
    <3>2. Dealt(s, Top) = ToSet(Legs(s, k))
      BY <1>1, <1>3, AllDealt
    <3> QED BY <2>1, <3>1, <3>2, <1>3, <1>6 DEF FrameOK, DoneOK
  <2>2. CASE m \in finished
    <3>1. DoneOK(s, finished, cache, OnStack, m)
      BY <2>2 DEF WalkInv
    <3> QED BY <2>2, <3>1, <1>5, <1>6, StaysGathered DEF DoneOK
  <2> QED BY <2>1, <2>2, <1>5
<1> QED BY <1>1, <1>2, <1>3, <1>5, <1>6, <1>7, <1>8

\* The outermost call ends.
LEMMA LastReturnKeeps ==
  ASSUME WalkInv, EachOnce', Return, Len(stack) = 1
  PROVE  WalkInv'
<1>1. PICK s \in Schemas : s = schema /\ schema' = s
  BY DEF WalkInv, WalkTypes, Return
<1>2. Accepted(s) /\ WalkTypes /\ DOMAIN stack = 1 .. 1 /\ Top = stack[1]
  BY <1>1, StackIs DEF WalkInv, Top
<1>3. OnStack = {Top.key}
  BY <1>2 DEF OnStack
<1>4. stack' = <<>> /\ roots' = roots /\ first' = first /\ finished' = finished \cup {Top.key}
  BY DEF Return
<1>5. OnStack' = {} /\ EachOnce' /\ Chain'
  BY <1>4 DEF OnStack, Chain
<1>6. finished \cup OnStack \subseteq finished' \cup {}
  BY <1>3, <1>4
<1>7. /\ Top.key \in Keys(s) \ finished
      /\ cache' \in [Keys(s) -> Seq(Defs(s))] /\ cache'[Top.key] = Top.out
      /\ \A m \in finished : cache'[m] = cache[m]
      /\ \A m \in finished' : DoneOK(s, finished', cache', {}, m)
  BY <1>1, <1>6, ReturnFinishes
<1>8. finished' \in SUBSET Keys(s)
  BY <1>1, <1>2, <1>4, <1>7 DEF WalkTypes
<1>9. WalkTypes'
  BY <1>1, <1>2, <1>4, <1>7, <1>8, EmptySeq DEF WalkTypes
<1>10. FirstInv'
  <2>1. CASE first \in finished
    BY <2>1, <1>1, <1>4, <1>7 DEF WalkInv, FirstInv
  <2>2. CASE first \notin finished
    <3>1. first = Top.key /\ \A m \in finished : ToSet(cache[m]) \subseteq ToSet(Top.out)
      BY <2>2, <1>2 DEF WalkInv, FirstInv
    <3>2. \A m \in finished' : ToSet(cache'[m]) \subseteq ToSet(cache'[first])
      BY <3>1, <1>4, <1>7
    <3>3. PICK F, C : F = finished' /\ C = cache'
      OBVIOUS
    <3>4. ASSUME ~ArrowToRelation(s, first) PROVE InputTypes(s, first) \subseteq ToSet(C[first])
      <4>1. F \in SUBSET Keys(s) /\ \A m \in F : DoneOK(s, F, C, {}, m)
        BY <3>3, <1>7, <1>8
      <4>2. first \in F /\ \A m \in F : ToSet(C[m]) \subseteq ToSet(C[first])
        BY <3>1, <3>2, <3>3, <1>4
      <4> QED BY <4>1, <4>2, <3>4, <1>2, OutermostIsComplete
    <3> QED BY <3>1, <3>3, <3>4, <1>1, <1>4 DEF FirstInv
  <2> QED BY <2>1, <2>2
<1>11. Keys(s) \subseteq roots' \cup finished' \cup OnStack'
  BY <1>1, <1>3, <1>4 DEF WalkInv
<1>12. \A i \in DOMAIN stack' : FrameOK(s, finished', cache', {}, stack'[i])
  BY <1>4
<1> QED BY <1>1, <1>5, <1>7, <1>9, <1>10, <1>11, <1>12 DEF WalkInv

\* A recursive call ends, and its caller adds the types it returned.
LEMMA InnerReturnKeeps ==
  ASSUME WalkInv, EachOnce', Return, Len(stack) # 1
  PROVE  WalkInv'
<1>1. PICK s \in Schemas : s = schema /\ schema' = s
  BY DEF WalkInv, WalkTypes, Return
<1>2. /\ Accepted(s) /\ WalkTypes
      /\ \A i \in 1 .. Len(stack) : stack[i] \in Frames(s) /\ stack[i].key \in Keys(s)
  BY <1>1, StackIs DEF WalkInv
<1>3. PICK n \in Nat \ {0, 1} : n = Len(stack)
  <2>1. stack \in Seq(Frames(s)) /\ stack # <<>>
    BY <1>1, <1>2 DEF WalkTypes, Return
  <2>2. Len(stack) \in Nat \ {0}
    BY <2>1, EmptySeq
  <2> QED BY <2>2
<1>4. /\ DOMAIN stack = 1 .. n /\ n \in 1 .. n /\ n - 1 \in 1 .. n /\ n - 2 \in Nat
      /\ 1 .. n - 2 \subseteq 1 .. n
  BY <1>2, <1>3, StackIs
<1>5. PICK t \in Frames(s) : t = Top /\ t = stack[n]
  BY <1>2, <1>3, <1>4 DEF Top
<1>6. PICK f \in Frames(s) : f = stack[n - 1]
  BY <1>2, <1>3, <1>4
<1>7. /\ f.legs # <<>> /\ Head(f.legs).kind = "permission" /\ Head(f.legs).key = t.key
      /\ t.key \in Below(s, f.key)
  <2>1. n - 1 \in 1 .. n - 1 /\ n - 1 < n /\ (n - 1) + 1 = n
    OBVIOUS
  <2> QED BY <2>1, <1>1, <1>3, <1>4, <1>5, <1>6 DEF WalkInv, Chain
<1>8. PICK g : g = Fed(f, t.out)
  OBVIOUS
<1>9. FrameOK(s, finished, cache, OnStack, f) /\ FrameOK(s, finished, cache, OnStack, t)
  BY <1>1, <1>4, <1>5, <1>6 DEF WalkInv
<1>10. t.out \in Seq(Defs(s))
  BY DEF Frames
<1>11. /\ g \in Frames(s) /\ g.key = f.key /\ Rest(s, g)
       /\ Dealt(s, g) = Dealt(s, f) \cup {Head(f.legs)}
       /\ ToSet(g.out) = ToSet(f.out) \cup ToSet(t.out)
  <2>1. PICK types \in Seq(Defs(s)) : types = t.out
    BY <1>10
  <2>2. Accepted(s) /\ Rest(s, f) /\ f.legs # <<>>
    BY <1>2, <1>7, <1>9 DEF FrameOK
  <2>3. LET h == Fed(f, types) IN
        /\ h \in Frames(s) /\ h.key = f.key /\ Rest(s, h)
        /\ Dealt(s, h) = Dealt(s, f) \cup {Head(f.legs)}
        /\ ToSet(h.out) = ToSet(f.out) \cup ToSet(types)
    BY <2>2, FedIs
  <2> QED BY <2>1, <2>3, <1>8
<1>12. /\ stack' \in Seq(Frames(s)) /\ Len(stack') = n - 1 /\ DOMAIN stack' = 1 .. n - 1
       /\ \A i \in 1 .. n - 2 : stack'[i] = stack[i]
       /\ stack'[n - 1] = g
  <2>1. PICK q : q = SubSeq(stack, 1, n - 2)
    OBVIOUS
  <2>2. /\ q \in Seq(Frames(s)) /\ Len(q) = n - 2
        /\ \A i \in 1 .. n - 2 : q[i] = stack[i]
    BY <2>1, <1>1, <1>2, <1>3, <1>4 DEF WalkTypes
  <2>3. stack' = Append(q, g)
    BY <2>1, <1>3, <1>5, <1>6, <1>8 DEF Return
  <2>4. (n - 2) + 1 = n - 1
    OBVIOUS
  <2> QED BY <2>2, <2>3, <2>4, <1>4, <1>11, AppendProperties
<1>13. /\ \A i \in 1 .. n - 1 : i \in 1 .. n - 2 \/ i = n - 1
       /\ \A i \in 1 .. n : i \in 1 .. n - 1 \/ i = n
       /\ \A i \in 1 .. n - 1 : i \in 1 .. n /\ i # n
  OBVIOUS
<1>14. \A i \in 1 .. n - 1 : stack'[i].key = stack[i].key
  BY <1>6, <1>11, <1>12, <1>13
<1>15. OnStack' = {stack[i].key : i \in 1 .. n - 1} /\ OnStack = OnStack' \cup {t.key}
  <2>1. OnStack' = {stack'[i].key : i \in 1 .. n - 1}
    BY <1>12 DEF OnStack
  <2>2. OnStack' = {stack[i].key : i \in 1 .. n - 1}
    BY <2>1, <1>14
  <2>3. OnStack = {stack[i].key : i \in 1 .. n}
    BY <1>4 DEF OnStack
  <2> QED BY <2>2, <2>3, <1>4, <1>5, <1>13
<1>16. PICK F, C, V : F = finished' /\ C = cache' /\ V = OnStack'
  OBVIOUS
<1>17. F = finished \cup {t.key}
  BY <1>5, <1>16 DEF Return
<1>18. /\ t.key \in Keys(s) \ finished
       /\ C \in [Keys(s) -> Seq(Defs(s))] /\ C[t.key] = t.out
       /\ \A m \in finished : C[m] = cache[m]
       /\ \A m \in F : DoneOK(s, F, C, V, m)
       /\ \A i \in 1 .. n : FrameOK(s, F, C, V, stack[i])
  <2>1. finished \cup OnStack \subseteq finished' \cup V
    BY <1>15, <1>16, <1>17
  <2> QED BY <2>1, <1>1, <1>4, <1>5, <1>16, ReturnFinishes
<1>19. roots' = roots /\ first' = first
  BY DEF Return
<1>20. WalkTypes'
  BY <1>1, <1>2, <1>12, <1>16, <1>17, <1>18, <1>19 DEF WalkTypes
<1>21. Chain'
  <2>1. ASSUME NEW i \in 1 .. (n - 1) - 1
        PROVE  /\ stack'[i].legs # <<>> /\ Head(stack'[i].legs).kind = "permission"
               /\ Head(stack'[i].legs).key = stack'[i + 1].key
    <3>1. i \in 1 .. n - 2 /\ i \in 1 .. n - 1 /\ i + 1 \in 1 .. n - 1
      BY <1>3
    <3> QED BY <3>1, <1>3, <1>12, <1>14 DEF WalkInv, Chain
  <2>2. ASSUME NEW i \in 1 .. n - 1, NEW j \in 1 .. n - 1, i < j
        PROVE  stack'[j].key \in Below(s, stack'[i].key)
    BY <2>2, <1>1, <1>4, <1>13, <1>14 DEF WalkInv, Chain
  <2> QED BY <2>1, <2>2, <1>1, <1>12 DEF Chain
<1>22. FrameOK(s, F, C, V, g)
  <2>1. FrameOK(s, F, C, V, f)
    BY <1>4, <1>6, <1>18
  <2>2. ToSet(t.out) \subseteq InputTypes(s, f.key)
    <3>1. ToSet(t.out) \subseteq InputTypes(s, t.key)
      BY <1>9 DEF FrameOK, Gathered
    <3> QED BY <3>1, <1>2, <1>7, InputTypesBelow
  <2>3. /\ Met(s, F, C, f.key, ToSet(f.out) \cup ToSet(t.out), Head(f.legs))
        /\ Known(F, V, Head(f.legs))
    BY <1>7, <1>17, <1>18 DEF Met, Known
  <2>4. Gathered(s, F, C, V, f.key, ToSet(f.out) \cup ToSet(t.out), Dealt(s, f) \cup {Head(f.legs)})
    BY <2>1, <2>2, <2>3, GathersMore DEF FrameOK
  <2> QED BY <2>4, <1>11 DEF FrameOK
<1>23. \A i \in 1 .. n - 1 : FrameOK(s, F, C, V, stack'[i])
  BY <1>12, <1>13, <1>18, <1>22
<1>24. FirstInv'
  <2>1. CASE first \in finished
    BY <2>1, <1>1, <1>16, <1>17, <1>18, <1>19 DEF WalkInv, FirstInv
  <2>2. CASE first \notin finished
    <3>1. /\ first \in Keys(s) /\ stack[1].key = first
          /\ \A m \in finished : \E i \in 1 .. n : ToSet(cache[m]) \subseteq ToSet(stack[i].out)
      <4>1. stack # <<>>
        BY DEF Return
      <4> QED BY <2>2, <4>1, <1>1, <1>4 DEF WalkInv, FirstInv
    <3>2. 1 \in 1 .. n - 1 /\ 1 \in 1 .. n /\ 1 # n
      BY <1>3
    <3>3. stack'[1].key = first /\ stack' # <<>>
      BY <3>1, <3>2, <1>12, <1>14
    <3>4. first \notin F
      BY <3>1, <3>2, <2>2, <1>4, <1>5, <1>17 DEF WalkInv, EachOnce
    <3>5. \A i \in 1 .. n : \E j \in 1 .. n - 1 : ToSet(stack[i].out) \subseteq ToSet(stack'[j].out)
      <4>1. \A i \in 1 .. n - 2 : i \in 1 .. n - 1 /\ ToSet(stack[i].out) \subseteq ToSet(stack'[i].out)
        BY <1>12
      <4>2. n - 1 \in 1 .. n - 1 /\ ToSet(stack[n - 1].out) \subseteq ToSet(stack'[n - 1].out)
        BY <1>6, <1>11, <1>12
      <4>3. ToSet(stack[n].out) \subseteq ToSet(stack'[n - 1].out)
        BY <1>5, <1>11, <1>12
      <4> QED BY <4>1, <4>2, <4>3, <1>13
    <3>6. ASSUME NEW m \in F PROVE \E j \in 1 .. n - 1 : ToSet(C[m]) \subseteq ToSet(stack'[j].out)
      <4>1. CASE m = t.key
        BY <4>1, <3>5, <1>4, <1>5, <1>18
      <4>2. CASE m \in finished
        <5>1. PICK i \in 1 .. n : ToSet(cache[m]) \subseteq ToSet(stack[i].out)
          BY <4>2, <3>1
        <5>2. PICK j \in 1 .. n - 1 : ToSet(stack[i].out) \subseteq ToSet(stack'[j].out)
          BY <3>5
        <5>3. ToSet(C[m]) = ToSet(cache[m])
          BY <4>2, <1>18
        <5> QED BY <5>1, <5>2, <5>3
      <4> QED BY <4>1, <4>2, <1>17
    <3> QED BY <3>1, <3>3, <3>4, <3>6, <1>1, <1>12, <1>16, <1>19 DEF FirstInv
  <2> QED BY <2>1, <2>2
<1>25. Keys(s) \subseteq roots' \cup finished' \cup OnStack'
  BY <1>1, <1>15, <1>16, <1>17, <1>19 DEF WalkInv
<1> QED BY <1>1, <1>12, <1>16, <1>18, <1>20, <1>21, <1>23, <1>24, <1>25 DEF WalkInv

\* The leg that the last frame is at.
LEMMA AtLeg ==
  ASSUME WalkInv, stack # <<>>, Top.legs # <<>>
  PROVE  /\ Accepted(schema) /\ WalkTypes /\ Top = stack[Len(stack)]
         /\ Len(stack) \in Nat /\ Len(stack) \in DOMAIN stack /\ DOMAIN stack = 1 .. Len(stack)
         /\ Top \in Frames(schema) /\ Top.key \in Keys(schema)
         /\ Leg \in ToSet(Legs(schema, Top.key))
<1>1. /\ Accepted(schema) /\ WalkTypes /\ Top = stack[Len(stack)]
      /\ Len(stack) \in Nat /\ Len(stack) \in DOMAIN stack /\ DOMAIN stack = 1 .. Len(stack)
      /\ Top \in Frames(schema) /\ Top.key \in Keys(schema)
  BY StackIs DEF WalkInv, Top
<1>2. Rest(schema, Top)
  BY <1>1 DEF WalkInv, FrameOK
<1> QED BY <1>1, <1>2, HeadIsLeg DEF Leg

\* GetPermissionTree begins with a permission, or finds it in the cache.
LEMMA ResolveKeeps ==
  ASSUME WalkInv, EachOnce', NEW k \in roots, Resolve(k)
  PROVE  WalkInv'
<1>1. k \in Keys(schema) /\ first \in Keys(schema) \cup {NoKey} /\ stack = <<>>
  BY DEF WalkInv, WalkTypes, Resolve
<1>2. CASE k \in finished
  <2>1. UNCHANGED <<schema, cache, finished, stack, first>> /\ roots' = roots \ {k}
    BY <1>2 DEF Resolve
  <2>2. WalkTypes' /\ Chain' /\ FirstInv' /\ OnStack' = OnStack
    BY <2>1 DEF WalkInv, WalkTypes, Chain, FirstInv, OnStack
  <2> QED BY <1>2, <2>1, <2>2 DEF WalkInv
<1>3. CASE k \notin finished
  <2>1. /\ UNCHANGED <<schema, cache, finished>> /\ roots' = roots \ {k}
        /\ stack' = <<Frame(k)>> /\ first' = IF finished = {} THEN k ELSE first
    BY <1>3 DEF Resolve
  <2>2. FirstInv'
    <3>1. CASE finished = {}
      <4>1. DOMAIN stack' = 1 .. 1 /\ stack'[1].key = k /\ stack' # <<>>
        BY <2>1 DEF Frame
      <4> QED BY <3>1, <4>1, <2>1, <1>1 DEF FirstInv
    <3>2. CASE finished # {}
      BY <3>2, <2>1, <1>1 DEF FirstInv, WalkInv
    <3> QED BY <3>1, <3>2
  <2>3. stack' = Append(stack, Frame(k))
    BY <2>1, <1>1
  <2>4. roots' \subseteq roots /\ roots \subseteq roots' \cup {k} /\ first' \in Keys(schema) \cup {NoKey}
    BY <2>1, <1>1
  <2> QED BY <1>1, <2>1, <2>2, <2>3, <2>4, PushKeeps
<1> QED BY <1>2, <1>3

\* A leg of types is met by adding them.
LEMMA AddTypesKeeps ==
  ASSUME WalkInv, EachOnce', AddTypes
  PROVE  WalkInv'
<1>1. stack # <<>> /\ Top.legs # <<>> /\ Leg.kind = "types" /\ Add(Leg.types)
  BY DEF AddTypes
<1>2. UNCHANGED <<schema, roots, cache, finished, first>>
  BY DEF AddTypes
<1>3. /\ Leg.types \in Seq(Defs(schema))
      /\ ToSet(Leg.types) \subseteq InputTypes(schema, Top.key)
  BY <1>1, AtLeg, TypesLegs
<1>4. /\ Met(schema, finished, cache, Top.key, ToSet(Top.out) \cup ToSet(Leg.types), Leg)
      /\ Known(finished, OnStack, Leg)
  BY <1>1 DEF Met, Known
<1> QED BY <1>1, <1>2, <1>3, <1>4, DealKeeps

\* A permission that is finished is met by adding its list.
LEMMA AddCachedKeeps ==
  ASSUME WalkInv, EachOnce', AddCached
  PROVE  WalkInv'
<1>1. /\ stack # <<>> /\ Top.legs # <<>> /\ Leg.kind = "permission" /\ Leg.key \in finished
      /\ Add(cache[Leg.key])
  BY DEF AddCached
<1>2. UNCHANGED <<schema, roots, cache, finished, first>>
  BY DEF AddCached
<1>3. PICK types : types = cache[Leg.key]
  OBVIOUS
<1>4. Leg.key \in Keys(schema) /\ Leg.key \in Below(schema, Top.key)
  BY <1>1, AtLeg, PermissionLegs, BelowIs
<1>5. types \in Seq(Defs(schema))
  BY <1>3, <1>4 DEF WalkInv, WalkTypes
<1>6. ToSet(types) \subseteq InputTypes(schema, Top.key)
  <2>1. ToSet(types) \subseteq InputTypes(schema, Leg.key)
    BY <1>1, <1>3 DEF WalkInv, DoneOK, Gathered
  <2>2. InputTypes(schema, Leg.key) \subseteq InputTypes(schema, Top.key)
    BY <1>1, <1>4, AtLeg, InputTypesBelow
  <2> QED BY <2>1, <2>2
<1>7. /\ Met(schema, finished, cache, Top.key, ToSet(Top.out) \cup ToSet(types), Leg)
      /\ Known(finished, OnStack, Leg)
  BY <1>1, <1>3 DEF Met, Known
<1> QED BY <1>1, <1>2, <1>3, <1>5, <1>6, <1>7, DealKeeps

\* A permission that is visited again is the one at work or needs it.
LEMMA RevisitIsMutual ==
  ASSUME WalkInv, Revisit
  PROVE  /\ Leg.key = Top.key \/ Mutual(schema, Top.key)
         /\ Leg.key \in OnStack
<1>1. /\ stack # <<>> /\ Top.legs # <<>> /\ Leg.kind = "permission" /\ Visited(Leg.key)
  BY DEF Revisit
<1>2. PICK n \in Nat : n = Len(stack)
  BY <1>1, AtLeg
<1>3. DOMAIN stack = 1 .. n /\ n \in 1 .. n /\ Top = stack[n] /\ Accepted(schema)
  BY <1>1, <1>2, AtLeg
<1>4. PICK i \in 1 .. n : stack[i].key = Leg.key
  BY <1>1, <1>3 DEF Visited
<1>5. Leg.key \in Below(schema, Top.key)
  BY <1>1, AtLeg, PermissionLegs, BelowIs
<1>6. CASE i = n
  BY <1>3, <1>4, <1>6 DEF OnStack
<1>7. CASE i # n
  <2>1. Top.key \in Below(schema, Leg.key)
    <3>1. i < n
      BY <1>7
    <3> QED BY <3>1, <1>3, <1>4 DEF WalkInv, Chain
  <2> QED BY <2>1, <1>3, <1>4, <1>5 DEF Mutual, OnStack
<1> QED BY <1>6, <1>7

\* A cut reference is met in the permission itself, or part of a recursion.
LEMMA RevisitKeeps ==
  ASSUME WalkInv, EachOnce', Revisit
  PROVE  WalkInv'
<1>1. stack # <<>> /\ Top.legs # <<>> /\ Leg.kind = "permission" /\ Add(<<>>)
  BY DEF Revisit
<1>2. UNCHANGED <<schema, roots, cache, finished, first>>
  BY DEF Revisit
<1>3. PICK none : none = <<>>
  OBVIOUS
<1>4. none \in Seq(Defs(schema)) /\ ToSet(none) = {}
  BY <1>3, EmptySeq DEF ToSet
<1>5. /\ Met(schema, finished, cache, Top.key, ToSet(Top.out) \cup ToSet(none), Leg)
      /\ Known(finished, OnStack, Leg)
  BY <1>1, RevisitIsMutual DEF Met, Known
<1>6. ToSet(none) \subseteq InputTypes(schema, Top.key) /\ Add(none)
  BY <1>1, <1>3, <1>4
<1> QED BY <1>1, <1>2, <1>4, <1>5, <1>6, DealKeeps

\* A recursive call begins.
LEMMA CallKeeps ==
  ASSUME WalkInv, EachOnce', Call
  PROVE  WalkInv'
<1>1. /\ stack # <<>> /\ Top.legs # <<>> /\ Leg.kind = "permission"
      /\ stack' = Append(stack, Frame(Leg.key))
  BY DEF Call
<1>2. UNCHANGED <<schema, roots, cache, finished, first>>
  BY DEF Call
<1>3. Leg.key \in Keys(schema) /\ first' \in Keys(schema) \cup {NoKey}
  BY <1>1, <1>2, AtLeg, PermissionLegs DEF WalkTypes
<1>4. FirstInv'
  <2>1. PICK n \in Nat : n = Len(stack)
    BY <1>1, AtLeg
  <2>2. DOMAIN stack = 1 .. n /\ n \in 1 .. n /\ stack \in Seq(Frames(schema))
    BY <1>1, <2>1, AtLeg DEF WalkTypes
  <2>3. /\ DOMAIN stack' = 1 .. n + 1 /\ \A i \in 1 .. n : stack'[i] = stack[i]
        /\ \A i \in 1 .. n : i \in 1 .. n + 1
    BY <1>1, <2>1, <2>2, Appended
  <2>4. stack' # <<>> /\ 1 \in 1 .. n
    BY <2>2, <2>3
  <2> QED BY <1>1, <1>2, <2>2, <2>3, <2>4 DEF WalkInv, FirstInv
<1> QED BY <1>1, <1>2, <1>3, <1>4, PushKeeps

-----------------------------------------------------------------------------
\* The walk keeps account of what it has gathered at every step.
LEMMA WalkKnown == Spec => []WalkInv
<1>1. Init => WalkInv
  <2> SUFFICES ASSUME Init PROVE WalkInv
    OBVIOUS
  <2>1. /\ schema \in Schemas /\ roots = Keys(schema) /\ finished = {} /\ first = NoKey
        /\ cache = [k \in Keys(schema) |-> <<>>] /\ stack = <<>>
    BY DEF Init
  <2>2. cache \in [Keys(schema) -> Seq(Defs(schema))] /\ stack \in Seq(Frames(schema))
    BY <2>1, EmptySeq
  <2>3. WalkTypes
    BY <2>1, <2>2 DEF WalkTypes
  <2> QED BY <2>1, <2>3 DEF WalkInv, EachOnce, Chain, FirstInv
<1>2. WalkInv /\ EachOnce' /\ [Next]_vars => WalkInv'
  <2> SUFFICES ASSUME WalkInv, EachOnce', [Next]_vars
               PROVE  WalkInv'
    OBVIOUS
  <2>1. ASSUME NEW k \in roots, Resolve(k) PROVE WalkInv'
    BY <2>1, ResolveKeeps
  <2>2. CASE AddTypes
    BY <2>2, AddTypesKeeps
  <2>3. CASE AddCached
    BY <2>3, AddCachedKeeps
  <2>4. CASE Revisit
    BY <2>4, RevisitKeeps
  <2>5. CASE Call
    BY <2>5, CallKeeps
  <2>6. CASE Return
    BY <2>6, LastReturnKeeps, InnerReturnKeeps
  <2>7. CASE UNCHANGED vars
    <3>1. UNCHANGED <<schema, roots, cache, finished, stack, first>>
      BY <2>7 DEF vars
    <3>2. WalkTypes' /\ Chain' /\ FirstInv' /\ OnStack' = OnStack
      BY <3>1 DEF WalkInv, WalkTypes, Chain, FirstInv, OnStack
    <3> QED BY <3>1, <3>2 DEF WalkInv
  <2> QED BY <2>1, <2>2, <2>3, <2>4, <2>5, <2>6, <2>7 DEF Next, Step
<1> QED BY <1>1, <1>2, WalksOnce, PTL DEF Spec

\* What a frame has left to do is the end of its permission's legs.
THEOREM ResolverTypeCorrect == Spec => []TypeOK
<1>1. WalkInv => TypeOK
  <2> SUFFICES ASSUME WalkInv PROVE TypeOK
    OBVIOUS
  <2>1. WalkTypes /\ Accepted(schema) /\ DOMAIN stack = 1 .. Len(stack)
    BY StackIs DEF WalkInv
  <2>2. ASSUME NEW k \in Keys(schema) PROVE ToSet(cache[k]) \subseteq Defs(schema)
    <3>1. cache[k] \in Seq(Defs(schema))
      BY <2>1 DEF WalkTypes
    <3> QED BY <3>1, ElementsOfSeq
  <2>3. ASSUME NEW i \in DOMAIN stack
        PROVE  /\ stack[i].key \in Keys(schema)
               /\ IsSuffix(stack[i].legs, Legs(schema, stack[i].key))
               /\ ToSet(stack[i].out) \subseteq Defs(schema)
    <3>1. PICK f \in Frames(schema) : f = stack[i]
      BY <2>1, StackIs
    <3>2. Rest(schema, f)
      BY <3>1 DEF WalkInv, FrameOK
    <3>3. f.key \in Keys(schema) /\ f.legs \in Seq(AnyLeg(schema)) /\ f.out \in Seq(Defs(schema))
      BY DEF Frames
    <3>4. PICK all \in Seq(AnyLeg(schema)) : all = Legs(schema, f.key)
      BY <2>1, <3>3, LegsAre
    <3>5. PICK legs \in Seq(AnyLeg(schema)) : legs = f.legs
      BY <3>3
    <3>6. Len(legs) <= Len(all) /\ \A j \in 1 .. Len(legs) : legs[j] = all[Len(all) - Len(legs) + j]
      <4>1. Len(legs) \in Nat /\ Len(all) \in Nat
        BY LenProperties
      <4>2. Passed(schema, f) = Len(all) - Len(legs)
        BY <3>4, <3>5 DEF Passed
      <4>3. /\ Len(all) - Len(legs) \in Nat
            /\ \A j \in 1 .. Len(legs) : legs[j] = all[Len(all) - Len(legs) + j]
        BY <4>2, <3>2, <3>4, <3>5 DEF Rest
      <4> QED BY <4>1, <4>3
    <3>7. IsSuffix(legs, all)
      BY <3>6, RestIsSuffix
    <3> QED BY <3>1, <3>3, <3>4, <3>5, <3>7, ElementsOfSeq
  <2> QED BY <2>1, <2>2, <2>3 DEF TypeOK, WalkTypes
<1> QED BY <1>1, WalkKnown, PTL

\* Permissions without mutual recursion get exactly the types that can hold them, in
\* whatever order GetPermissionTree iterates the map (generator.go:354-373).
THEOREM TameGetAll == Spec => []TameIsExact
<1>1. WalkInv => TameIsExact
  <2> SUFFICES ASSUME WalkInv, Resolved, NEW k \in Keys(schema),
                      ~Mutual(schema, k), ~ArrowToRelation(schema, k)
               PROVE  ToSet(cache[k]) = InputTypes(schema, k)
    BY DEF TameIsExact
  <2>1. Accepted(schema) /\ WalkTypes
    BY StackIs DEF WalkInv
  <2>2. OnStack = {} /\ finished \in SUBSET Keys(schema) /\ k \in finished
    BY <2>1 DEF Resolved, OnStack, WalkInv, WalkTypes
  <2>3. \A m \in finished : DoneOK(schema, finished, cache, OnStack, m)
    BY DEF WalkInv
  <2>4. InputTypes(schema, k) \subseteq ToSet(cache[k])
    BY <2>1, <2>2, <2>3, TameIsComplete
  <2> QED BY <2>2, <2>3, <2>4 DEF DoneOK, Gathered
<1> QED BY <1>1, WalkKnown, PTL

\* The permission resolved first gets exactly its types whatever recursion is below it
\* (generator.go:385-397): what the cut calls leave out the outermost call collects.
THEOREM OutermostGetsAll == Spec => []OutermostIsExact
<1>1. WalkInv => OutermostIsExact
  <2> SUFFICES ASSUME WalkInv, Resolved, first # NoKey, ~ArrowToRelation(schema, first)
               PROVE  ToSet(cache[first]) = InputTypes(schema, first)
    BY DEF OutermostIsExact
  <2>1. first \in finished /\ InputTypes(schema, first) \subseteq ToSet(cache[first])
    BY DEF Resolved, WalkInv, FirstInv
  <2> QED BY <2>1 DEF WalkInv, DoneOK, Gathered
<1> QED BY <1>1, WalkKnown, PTL

-----------------------------------------------------------------------------
(* The order of the lists.                                                *)

\* The list of n as its legs are dealt with.
Collecting(s, n) == CHOOSE out : Collects(out, s, n, AllLists(s))

\* A frame's types are in order and without repetition.
InOrder(s, f) ==
  /\ IsInjective(f.out)
  /\ ~Mutual(s, f.key) => f.out = Collecting(s, f.key)[Passed(s, f)]

ListInv ==
  /\ \A i \in DOMAIN stack : InOrder(schema, stack[i])
  /\ \A k \in finished : /\ IsInjective(cache[k])
                         /\ ~Mutual(schema, k) => cache[k] = InputList(schema, k)

\* There is such a list, and its last state is the permission's InputList.
LEMMA CollectingIs ==
  ASSUME NEW s, Accepted(s), NEW n \in Keys(s), ~Mutual(s, n)
  PROVE  /\ Collects(Collecting(s, n), s, n, AllLists(s))
         /\ InputList(s, n) = Collecting(s, n)[Len(Legs(s, n))]
<1>1. AllLists(s) \in Lists(s) /\ InputList(s, n) = Collected(s, n, AllLists(s))
  BY ListIsCollected
<1>2. PICK out : /\ Collects(out, s, n, AllLists(s))
                 /\ Collected(s, n, AllLists(s)) = out[Len(Legs(s, n))]
  BY <1>1, CollectedIs
<1>3. Collects(Collecting(s, n), s, n, AllLists(s))
  BY <1>2 DEF Collecting
<1>4. PICK c : c = Collecting(s, n)
  OBVIOUS
<1>5. c = out
  BY <1>1, <1>2, <1>3, <1>4, CollectsSame
<1> QED BY <1>1, <1>2, <1>3, <1>4, <1>5

\* Dealing with a leg keeps the order if it gave what InputList has for it.
LEMMA FedInOrder ==
  ASSUME NEW s, Accepted(s), NEW f \in Frames(s), Rest(s, f), f.legs # <<>>, InOrder(s, f),
         NEW types \in Seq(Defs(s)),
         ~Mutual(s, f.key) => types = Gives(Head(f.legs), f.key, AllLists(s))
  PROVE  InOrder(s, Fed(f, types))
<1>1. PICK g : g = Fed(f, types)
  OBVIOUS
<1>2. /\ g.key = f.key /\ g.out = AppendNew(f.out, types) /\ Passed(s, g) = Passed(s, f) + 1
      /\ Passed(s, g) \in 1 .. Len(Legs(s, f.key)) /\ Head(f.legs) = Legs(s, f.key)[Passed(s, g)]
  BY <1>1, FedIs
<1>3. f.key \in Keys(s) /\ f.out \in Seq(Defs(s)) /\ Passed(s, f) \in Nat
  BY DEF Frames, Rest
<1>4. IsInjective(g.out)
  BY <1>2, <1>3, AppendNewIs DEF InOrder
<1>5. ASSUME ~Mutual(s, f.key) PROVE g.out = Collecting(s, f.key)[Passed(s, g)]
  <2>1. PICK p \in Nat : p = Passed(s, f)
    BY <1>3
  <2>2. p + 1 \in 0 .. Len(Legs(s, f.key)) /\ p + 1 # 0 /\ (p + 1) - 1 = p /\ Passed(s, g) = p + 1
    BY <1>2, <2>1
  <2>3. Collects(Collecting(s, f.key), s, f.key, AllLists(s))
    BY <1>3, <1>5, CollectingIs
  <2>4. Collecting(s, f.key)[p + 1] =
          AppendNew(Collecting(s, f.key)[p], Gives(Legs(s, f.key)[p + 1], f.key, AllLists(s)))
    BY <2>2, <2>3 DEF Collects
  <2>5. f.out = Collecting(s, f.key)[p]
    BY <1>5, <2>1 DEF InOrder
  <2> QED BY <1>2, <1>5, <2>2, <2>4, <2>5
<1> QED BY <1>1, <1>2, <1>4, <1>5 DEF InOrder

\* A new frame is in order.
LEMMA FrameInOrder ==
  ASSUME NEW s, Accepted(s), NEW k \in Keys(s), s = schema
  PROVE  InOrder(s, Frame(k))
<1>1. PICK f : f = Frame(k)
  OBVIOUS
<1>2. f.key = k /\ f.out = <<>> /\ Passed(s, f) = 0
  BY <1>1, NewFrame DEF Frame
<1>3. IsInjective(<<>>)
  BY DEF IsInjective
<1>4. ASSUME ~Mutual(s, k) PROVE Collecting(s, k)[0] = <<>>
  <2>1. Collects(Collecting(s, k), s, k, AllLists(s)) /\ 0 \in 0 .. Len(Legs(s, k))
    BY <1>4, CollectingIs, LegAt
  <2> QED BY <2>1 DEF Collects
<1> QED BY <1>1, <1>2, <1>3, <1>4 DEF InOrder

\* A frame that has dealt with all its legs has the list of its permission.
LEMMA AllInOrder ==
  ASSUME NEW s, Accepted(s), NEW f \in Frames(s), f.legs = <<>>, InOrder(s, f)
  PROVE  IsInjective(f.out) /\ (~Mutual(s, f.key) => f.out = InputList(s, f.key))
<1>1. f.key \in Keys(s) /\ Passed(s, f) = Len(Legs(s, f.key))
  BY AllDealt DEF Frames
<1>2. IsInjective(f.out) /\ (~Mutual(s, f.key) => f.out = Collecting(s, f.key)[Len(Legs(s, f.key))])
  BY <1>1 DEF InOrder
<1> QED BY <1>1, <1>2, CollectingIs

-----------------------------------------------------------------------------
\* A stack all of whose frames but one were on it before.
LEMMA ListsKept ==
  ASSUME ListInv, UNCHANGED <<schema, cache, finished>>, NEW f, InOrder(schema, f),
         \A i \in DOMAIN stack' : stack'[i] = f \/ \E j \in DOMAIN stack : stack'[i] = stack[j]
  PROVE  ListInv'
BY DEF ListInv

\* Dealing with a leg that gave what InputList has for it.
LEMMA DealLists ==
  ASSUME WalkInv, ListInv, stack # <<>>, Top.legs # <<>>, NEW types \in Seq(Defs(schema)),
         Add(types), UNCHANGED <<schema, cache, finished>>,
         ~Mutual(schema, Top.key) => types = Gives(Leg, Top.key, AllLists(schema))
  PROVE  ListInv'
<1>1. PICK n \in Nat : n = Len(stack)
  BY AtLeg
<1>2. /\ Accepted(schema) /\ n \in DOMAIN stack /\ Top = stack[n] /\ Top \in Frames(schema)
      /\ stack \in Seq(Frames(schema)) /\ DOMAIN stack = 1 .. n
  BY <1>1, AtLeg DEF WalkTypes
<1>3. Rest(schema, Top) /\ InOrder(schema, Top)
  BY <1>2 DEF WalkInv, FrameOK, ListInv
<1>4. PICK f, g : f = Top /\ g = Fed(f, types)
  OBVIOUS
<1>5. InOrder(schema, g)
  BY <1>2, <1>3, <1>4, FedInOrder DEF Leg
<1>6. stack' = [stack EXCEPT ![n] = g]
  BY <1>1, <1>4 DEF Add
<1>7. \A i \in DOMAIN stack' : stack'[i] = g \/ \E j \in DOMAIN stack : stack'[i] = stack[j]
  BY <1>2, <1>6
<1> QED BY <1>5, <1>7, ListsKept

\* A frame more.
LEMMA PushLists ==
  ASSUME WalkInv, ListInv, NEW k \in Keys(schema), stack' = Append(stack, Frame(k)),
         UNCHANGED <<schema, cache, finished>>
  PROVE  ListInv'
<1>1. /\ Accepted(schema) /\ stack \in Seq(Frames(schema))
      /\ DOMAIN stack = 1 .. Len(stack) /\ Len(stack) \in Nat
  BY StackIs DEF WalkInv, WalkTypes
<1>2. InOrder(schema, Frame(k))
  BY <1>1, FrameInOrder
<1>3. PICK f, n : f = Frame(k) /\ n = Len(stack)
  OBVIOUS
<1>4. /\ DOMAIN stack' = 1 .. n + 1 /\ stack'[n + 1] = f
      /\ \A i \in 1 .. n : stack'[i] = stack[i]
  BY <1>1, <1>3, Appended
<1>5. \A i \in DOMAIN stack' : stack'[i] = f \/ \E j \in DOMAIN stack : stack'[i] = stack[j]
  BY <1>1, <1>3, <1>4
<1> QED BY <1>2, <1>3, <1>5, ListsKept

\* The caller whose leg the permission that is finished was.
LEMMA CallerIs ==
  ASSUME WalkInv, Return, Len(stack) # 1
  PROVE  LET f == stack[Len(stack) - 1] IN
         /\ Len(stack) - 1 \in DOMAIN stack /\ f \in Frames(schema) /\ f.key \in Keys(schema)
         /\ f.legs # <<>> /\ Rest(schema, f)
         /\ Head(f.legs).kind = "permission" /\ Head(f.legs).key = Top.key
         /\ Top.key \in Below(schema, f.key) /\ Top.key # f.key
         /\ \A i \in DOMAIN stack' :
              stack'[i] = Fed(f, Top.out) \/ \E j \in DOMAIN stack : stack'[i] = stack[j]
<1>1. WalkTypes /\ stack \in Seq(Frames(schema)) /\ stack # <<>> /\ DOMAIN stack = 1 .. Len(stack)
  BY StackIs DEF WalkInv, WalkTypes, Return
<1>2. Len(stack) \in Nat \ {0}
  BY <1>1, EmptySeq
<1>3. PICK n \in Nat \ {0, 1} : n = Len(stack)
  BY <1>2
<1>4. /\ n - 1 \in 1 .. n /\ n \in 1 .. n /\ n - 1 \in 1 .. n - 1
      /\ n - 1 < n /\ (n - 1) + 1 = n /\ n - 2 \in Nat
  OBVIOUS
<1>5. PICK f : f = stack[n - 1]
  OBVIOUS
<1>6. /\ f \in Frames(schema) /\ f.key \in Keys(schema) /\ Rest(schema, f)
  BY <1>1, <1>3, <1>4, <1>5, StackIs DEF WalkInv, FrameOK
<1>7. /\ f.legs # <<>> /\ Head(f.legs).kind = "permission" /\ Head(f.legs).key = Top.key
      /\ Top.key \in Below(schema, f.key)
  BY <1>1, <1>3, <1>4, <1>5 DEF WalkInv, Chain, Top
<1>8. Top.key # f.key
  BY <1>1, <1>3, <1>4, <1>5 DEF WalkInv, EachOnce, Top
<1>9. ASSUME NEW i \in DOMAIN stack'
      PROVE  stack'[i] = Fed(f, Top.out) \/ \E j \in DOMAIN stack : stack'[i] = stack[j]
  <2>1. PICK q, g : q = SubSeq(stack, 1, n - 2) /\ g = Fed(f, Top.out)
    OBVIOUS
  <2>2. q \in Seq(Frames(schema)) /\ Len(q) = n - 2 /\ \A j \in 1 .. n - 2 : q[j] = stack[j]
    BY <2>1, <1>1, <1>3, <1>4
  <2>3. stack' = Append(q, g)
    BY <2>1, <1>3, <1>5 DEF Return
  <2>4. /\ DOMAIN stack' = 1 .. (n - 2) + 1 /\ stack'[(n - 2) + 1] = g
        /\ \A j \in 1 .. n - 2 : stack'[j] = q[j]
    BY <2>2, <2>3, Appended
  <2>5. i = (n - 2) + 1 \/ i \in 1 .. n - 2
    BY <1>4, <2>4
  <2>6. 1 .. n - 2 \subseteq 1 .. n
    BY <1>4
  <2> QED BY <1>1, <1>3, <2>1, <2>2, <2>4, <2>5, <2>6
<1> QED BY <1>1, <1>3, <1>4, <1>5, <1>6, <1>7, <1>8, <1>9

\* The list of a permission is finished, and its caller goes on with it.
LEMMA ReturnLists ==
  ASSUME WalkInv, ListInv, Return
  PROVE  ListInv'
<1>1. PICK s \in Schemas : s = schema /\ schema' = s
  BY DEF WalkInv, WalkTypes, Return
<1>2. /\ Accepted(s) /\ WalkTypes /\ Top = stack[Len(stack)] /\ Len(stack) \in DOMAIN stack
      /\ Top \in Frames(s) /\ Top.legs = <<>>
  BY <1>1, StackIs DEF WalkInv, Return, Top
<1>3. PICK t \in Frames(s) : t = Top
  BY <1>2
<1>4. InOrder(s, t)
  BY <1>1, <1>2, <1>3 DEF ListInv
<1>5. IsInjective(t.out) /\ (~Mutual(s, t.key) => t.out = InputList(s, t.key))
  BY <1>2, <1>3, <1>4, AllInOrder
<1>6. /\ finished' = finished \cup {t.key} /\ cache'[t.key] = t.out
      /\ \A m \in finished : cache'[m] = cache[m]
  <2>1. finished \cup OnStack \subseteq finished' \cup OnStack
    BY DEF Return
  <2>2. PICK v : v = OnStack
    OBVIOUS
  <2> QED BY <2>1, <2>2, <1>1, <1>3, ReturnFinishes
<1>7. ASSUME NEW m \in finished'
      PROVE  IsInjective(cache'[m]) /\ (~Mutual(s, m) => cache'[m] = InputList(s, m))
  BY <1>1, <1>5, <1>6 DEF ListInv
<1>8. ASSUME NEW i \in DOMAIN stack' PROVE InOrder(s, stack'[i])
  <2>1. CASE Len(stack) = 1
    <3>1. stack' = <<>>
      BY <2>1 DEF Return
    <3> QED BY <3>1
  <2>2. CASE Len(stack) # 1
    <3>1. PICK f : f = stack[Len(stack) - 1]
      OBVIOUS
    <3>2. /\ Len(stack) - 1 \in DOMAIN stack /\ f \in Frames(s) /\ f.key \in Keys(s)
          /\ f.legs # <<>> /\ Rest(s, f)
          /\ Head(f.legs).kind = "permission" /\ Head(f.legs).key = t.key
          /\ t.key \in Below(s, f.key) /\ t.key # f.key
          /\ \A j \in DOMAIN stack' :
               stack'[j] = Fed(f, t.out) \/ \E l \in DOMAIN stack : stack'[j] = stack[l]
      BY <2>2, <3>1, <1>1, <1>3, CallerIs
    <3>3. t.key \in Keys(s) /\ t.out \in Seq(Defs(s))
      BY DEF Frames
    <3>4. ~Mutual(s, f.key) => t.out = Gives(Head(f.legs), f.key, AllLists(s))
      <4> SUFFICES ASSUME ~Mutual(s, f.key) PROVE t.out = Gives(Head(f.legs), f.key, AllLists(s))
        OBVIOUS
      <4>1. ~Mutual(s, t.key)
        BY <3>2, <3>3, <1>2, TameBelow
      <4>2. AllLists(s)[t.key] = t.out
        BY <4>1, <3>3, <1>5 DEF AllLists
      <4> QED BY <4>2, <3>2 DEF Gives
    <3>5. InOrder(s, f)
      BY <3>1, <3>2, <1>1 DEF ListInv
    <3>6. InOrder(s, Fed(f, t.out))
      BY <3>2, <3>3, <3>4, <3>5, <1>2, FedInOrder
    <3> QED BY <3>2, <3>6, <1>1 DEF ListInv
  <2> QED BY <2>1, <2>2
<1> QED BY <1>1, <1>7, <1>8 DEF ListInv

-----------------------------------------------------------------------------
(* The abstract specification.                                            *)

\* Lists are in order at every step.
LEMMA ListsKnown == Spec => []ListInv
<1>1. Init => ListInv
  <2> SUFFICES ASSUME Init PROVE ListInv
    OBVIOUS
  <2>1. stack = <<>> /\ finished = {}
    BY DEF Init
  <2> QED BY <2>1 DEF ListInv
<1>2. WalkInv /\ ListInv /\ [Next]_vars => ListInv'
  <2> SUFFICES ASSUME WalkInv, ListInv, [Next]_vars
               PROVE  ListInv'
    OBVIOUS
  <2>1. ASSUME NEW k \in roots, Resolve(k) PROVE ListInv'
    <3>1. stack = <<>> /\ k \in Keys(schema) /\ UNCHANGED <<schema, cache, finished>>
      BY <2>1 DEF Resolve, WalkInv, WalkTypes
    <3>2. CASE k \in finished
      BY <2>1, <3>1, <3>2 DEF Resolve, ListInv
    <3>3. CASE k \notin finished
      <4>1. stack' = Append(stack, Frame(k))
        BY <2>1, <3>1, <3>3 DEF Resolve
      <4> QED BY <3>1, <4>1, PushLists
    <3> QED BY <3>2, <3>3
  <2>2. CASE AddTypes
    <3>1. /\ stack # <<>> /\ Top.legs # <<>> /\ Leg.kind = "types" /\ Add(Leg.types)
          /\ UNCHANGED <<schema, cache, finished>>
      BY <2>2 DEF AddTypes
    <3>2. Leg.types \in Seq(Defs(schema))
      BY <3>1, AtLeg, TypesLegs
    <3>3. Leg.types = Gives(Leg, Top.key, AllLists(schema))
      BY <3>1 DEF Gives
    <3> QED BY <3>1, <3>2, <3>3, DealLists
  <2>3. CASE AddCached
    <3>1. /\ stack # <<>> /\ Top.legs # <<>> /\ Leg.kind = "permission" /\ Leg.key \in finished
          /\ Add(cache[Leg.key]) /\ UNCHANGED <<schema, cache, finished>>
      BY <2>3 DEF AddCached
    <3>2. /\ Accepted(schema) /\ Top = stack[Len(stack)] /\ Len(stack) \in DOMAIN stack
          /\ Top.key \in Keys(schema)
          /\ Leg.key \in Keys(schema) /\ Leg.key \in Below(schema, Top.key)
      BY <3>1, AtLeg, PermissionLegs, BelowIs
    <3>3. cache[Leg.key] \in Seq(Defs(schema))
      BY <3>2 DEF WalkInv, WalkTypes
    <3>4. Leg.key # Top.key
      BY <3>1, <3>2 DEF WalkInv, EachOnce
    <3>5. ASSUME ~Mutual(schema, Top.key)
          PROVE  cache[Leg.key] = Gives(Leg, Top.key, AllLists(schema))
      <4>1. ~Mutual(schema, Leg.key)
        BY <3>2, <3>5, TameBelow
      <4>2. cache[Leg.key] = AllLists(schema)[Leg.key]
        BY <3>1, <3>2, <4>1 DEF ListInv, AllLists
      <4> QED BY <3>1, <3>4, <4>2 DEF Gives
    <3> QED BY <3>1, <3>3, <3>5, DealLists
  <2>4. CASE Revisit
    <3>1. /\ stack # <<>> /\ Top.legs # <<>> /\ Leg.kind = "permission" /\ Add(<<>>)
          /\ UNCHANGED <<schema, cache, finished>>
      BY <2>4 DEF Revisit
    <3>2. PICK none : none = <<>>
      OBVIOUS
    <3>3. none \in Seq(Defs(schema)) /\ Add(none)
      BY <3>1, <3>2, EmptySeq
    <3>4. ~Mutual(schema, Top.key) => none = Gives(Leg, Top.key, AllLists(schema))
      BY <2>4, <3>1, <3>2, RevisitIsMutual DEF Gives
    <3> QED BY <3>1, <3>3, <3>4, DealLists
  <2>5. CASE Call
    <3>1. /\ stack # <<>> /\ Top.legs # <<>> /\ Leg.kind = "permission"
          /\ stack' = Append(stack, Frame(Leg.key)) /\ UNCHANGED <<schema, cache, finished>>
      BY <2>5 DEF Call
    <3>2. Leg.key \in Keys(schema)
      BY <3>1, AtLeg, PermissionLegs
    <3> QED BY <3>1, <3>2, PushLists
  <2>6. CASE Return
    BY <2>6, ReturnLists
  <2>7. CASE UNCHANGED vars
    BY <2>7 DEF vars, ListInv
  <2> QED BY <2>1, <2>2, <2>3, <2>4, <2>5, <2>6, <2>7 DEF Next, Step
<1> QED BY <1>1, <1>2, WalkKnown, PTL DEF Spec

\* The list of the permission that is finished is published, and no other.
LEMMA ReturnPublishes ==
  ASSUME WalkInv, WalkInv', ListInv', Return
  PROVE  Promise!Next
<1>1. PICK s, v : s = schema /\ schema' = s /\ v = OnStack
  BY DEF Return
<1>2. PICK k : k = Top.key
  OBVIOUS
<1>3. /\ finished' = finished \cup {k} /\ k \in Keys(s) \ finished
      /\ cache' \in [Keys(s) -> Seq(Defs(s))]
      /\ \A m \in finished : cache'[m] = cache[m]
      /\ \A m \in finished' : DoneOK(s, finished', cache', v, m)
  <2>1. finished \cup OnStack \subseteq finished' \cup v
    BY <1>1 DEF Return
  <2> QED BY <2>1, <1>1, <1>2, ReturnFinishes
<1>4. k \in finished'
  BY <1>3
<1>5. IsInjective(cache'[k]) /\ (~Mutual(s, k) => cache'[k] = InputList(s, k))
  BY <1>1, <1>4 DEF ListInv
<1>6. ToSet(cache'[k]) \subseteq InputTypes(s, k)
  BY <1>3, <1>4 DEF DoneOK, Gathered
<1>7. DOMAIN [m \in finished' |-> cache'[m]] = DOMAIN [m \in finished |-> cache[m]] \cup {k}
  BY <1>3
<1>8. /\ [m \in finished' |-> cache'[m]][k] = cache'[k]
      /\ \A m \in finished : [n \in finished' |-> cache'[n]][m] = [n \in finished |-> cache[n]][m]
  BY <1>3
<1>9. Promise!Publish(k)
  BY <1>1, <1>3, <1>5, <1>6, <1>7, <1>8
  DEF Promise!Publish, Promise!Fits, Promise!IsInjective, Promise!ToSet, IsInjective, ToSet
<1> QED BY <1>1, <1>3, <1>9 DEF Promise!Next

\* The walk implements InputTree: each list is published once, when its permission is
\* finished (generator.go:433-437), has no repetition and no type too many, and is
\* the same whatever the order of the walk unless a recursion is cut.
THEOREM TreeImplemented == Spec => ImplementsInputTree
<1>1. Init => Promise!Init
  BY DEF Init, Promise!Init
<1>2. WalkInv /\ WalkInv' /\ ListInv' /\ [Next]_vars => [Promise!Next]_(Promise!vars)
  <2> SUFFICES ASSUME WalkInv, WalkInv', ListInv', [Next]_vars
               PROVE  [Promise!Next]_(Promise!vars)
    OBVIOUS
  <2>1. CASE Return
    BY <2>1, ReturnPublishes
  <2>2. CASE ~Return
    <3>1. UNCHANGED <<schema, cache, finished>>
      BY <2>2 DEF Next, Step, Resolve, AddTypes, AddCached, Revisit, Call, vars
    <3> QED BY <3>1 DEF Promise!vars
  <2> QED BY <2>1, <2>2
<1> QED BY <1>1, <1>2, WalkKnown, ListsKnown, PTL DEF Spec, ImplementsInputTree, Promise!Spec
=============================================================================
