------------------------------ MODULE Resolver ------------------------------
(***************************************************************************)
(* internal/generator/generator.go: which subject types the generated      *)
(* Check<Perm>Inputs of each permission accepts.  ParseDefinitions lowers  *)
(* a permission's expressions to legs; GetPermissionTree resolves every    *)
(* permission, in the random order Go iterates maps in, by a depth-first   *)
(* walk that shares one cache between all of them and cuts recursion with  *)
(* the set of permissions on its stack.                                    *)
(***************************************************************************)
EXTENDS PermissionTree

CONSTANT Schemas  \* schemas explored, see PermissionTree

ASSUME ResolverAssumption == \A s \in Schemas : Accepted(s)

VARIABLES
  schema,    \* the schema compiled
  roots,     \* permissions GetPermissionTree has still to resolve
  cache,     \* types cached per permission
  finished,  \* permissions that are in the cache
  stack,     \* calls of resolveTransitive: [key, legs, out], innermost last
  (* History, read by no guard: *)
  first      \* the first permission resolved from an empty cache, or none

vars == <<schema, roots, cache, finished, stack, first>>

NoKey  == <<>>

-----------------------------------------------------------------------------
(* GetPermissionTree and resolveTransitive.                                *)

Init ==
  /\ schema \in Schemas
  /\ roots = Keys(schema)
  /\ cache = [k \in Keys(schema) |-> <<>>]
  /\ finished = {}
  /\ stack = <<>>
  /\ first = NoKey

Top == stack[Len(stack)]
Leg == Head(Top.legs)

\* Mutant: only a permission that refers to itself counts as visited.
Visited_Self(k) == stack # <<>> /\ Top.key = k

Visited(k) == \E i \in DOMAIN stack : stack[i].key = k

Frame(k) == [key |-> k, legs |-> Legs(schema, k), out |-> <<>>]

\* A frame that has dealt with its leg, which gave it these types.
Fed(f, types) ==
  [key |-> f.key, legs |-> Tail(f.legs), out |-> AppendNew(f.out, types)]

Add(types) == stack' = [stack EXCEPT ![Len(stack)] = Fed(Top, types)]

\* GetPermissionTree calls resolveTransitive with an empty visited set.
Resolve(k) ==
  /\ stack = <<>> /\ k \in roots
  /\ roots' = roots \ {k}
  /\ IF k \in finished THEN UNCHANGED <<stack, first>>
     ELSE /\ stack' = << Frame(k) >>
          /\ first' = IF finished = {} THEN k ELSE first
  /\ UNCHANGED <<schema, cache, finished>>

AddTypes ==
  /\ stack # <<>> /\ Top.legs # <<>> /\ Leg.kind = "types"
  /\ Add(Leg.types)
  /\ UNCHANGED <<schema, roots, cache, finished, first>>

AddCached ==
  /\ stack # <<>> /\ Top.legs # <<>> /\ Leg.kind = "permission"
  /\ Leg.key \in finished
  /\ Add(cache[Leg.key])
  /\ UNCHANGED <<schema, roots, cache, finished, first>>

\* if visited[key] { return []string{}, nil }
Revisit ==
  /\ stack # <<>> /\ Top.legs # <<>> /\ Leg.kind = "permission"
  /\ Leg.key \notin finished /\ Visited(Leg.key)
  /\ Add(<<>>)
  /\ UNCHANGED <<schema, roots, cache, finished, first>>

Call ==
  /\ stack # <<>> /\ Top.legs # <<>> /\ Leg.kind = "permission"
  /\ Leg.key \notin finished /\ ~Visited(Leg.key)
  /\ stack' = Append(stack, Frame(Leg.key))
  /\ UNCHANGED <<schema, roots, cache, finished, first>>

\* Mutant: a permission without types is not cached.
Return_SkipsEmpty ==
  /\ stack # <<>> /\ Top.legs = <<>>
  /\ cache' = [cache EXCEPT ![Top.key] = Top.out]
  /\ finished' = IF Top.out = <<>> THEN finished ELSE finished \cup {Top.key}
  /\ stack' = IF Len(stack) = 1 THEN <<>>
              ELSE Append(SubSeq(stack, 1, Len(stack) - 2), Fed(stack[Len(stack) - 1], Top.out))
  /\ UNCHANGED <<schema, roots, first>>

\* Mutant: the caller does not add what the recursive call returned.
Return_Drops ==
  /\ stack # <<>> /\ Top.legs = <<>>
  /\ cache' = [cache EXCEPT ![Top.key] = Top.out]
  /\ finished' = finished \cup {Top.key}
  /\ stack' = IF Len(stack) = 1 THEN <<>>
              ELSE LET caller == stack[Len(stack) - 1]
                   IN  Append(SubSeq(stack, 1, Len(stack) - 2),
                              [caller EXCEPT !.legs = Tail(@)])
  /\ UNCHANGED <<schema, roots, first>>

\* cache[key] = out; the caller adds it to its own.
Return ==
  /\ stack # <<>> /\ Top.legs = <<>>
  /\ cache' = [cache EXCEPT ![Top.key] = Top.out]
  /\ finished' = finished \cup {Top.key}
  /\ stack' = IF Len(stack) = 1 THEN <<>>
              ELSE Append(SubSeq(stack, 1, Len(stack) - 2), Fed(stack[Len(stack) - 1], Top.out))
  /\ UNCHANGED <<schema, roots, first>>

Step == AddTypes \/ AddCached \/ Revisit \/ Call \/ Return
Next == (\E k \in roots : Resolve(k)) \/ Step

Spec == Init /\ [][Next]_vars /\ WF_vars(Next)

Resolved == roots = {} /\ stack = <<>>

-----------------------------------------------------------------------------
(* Properties.                                                             *)

TypeOK ==
  /\ roots \subseteq Keys(schema) /\ finished \subseteq Keys(schema)
  /\ first \in Keys(schema) \cup {NoKey}
  /\ \A k \in Keys(schema) : ToSet(cache[k]) \subseteq Defs(schema)
  /\ \A i \in DOMAIN stack :
       /\ stack[i].key \in Keys(schema)
       /\ IsSuffix(stack[i].legs, Legs(schema, stack[i].key))
       /\ ToSet(stack[i].out) \subseteq Defs(schema)

\* Each permission is on the stack at most once and never after it is cached:
\* the walk works on each of them once, and its depth is bounded by their number.
EachOnce ==
  \A i, j \in DOMAIN stack : /\ stack[i].key \notin finished
                             /\ stack[i].key = stack[j].key => i = j

\* Permissions that are not mutually recursive, nor use one that is, get exactly
\* the types that can hold them, whatever the order of the map iteration.
TameIsExact ==
  Resolved => \A k \in Keys(schema) :
    ~Mutual(schema, k) /\ ~ArrowToRelation(schema, k) =>
      ToSet(cache[k]) = InputTypes(schema, k)

\* generator.go:387-392: the outermost call of a recursion collects what the cut
\* recursive calls do not.
OutermostIsExact ==
  Resolved /\ first # NoKey /\ ~ArrowToRelation(schema, first) =>
    ToSet(cache[first]) = InputTypes(schema, first)

\* Whatever the recursion in the schema, the walk ends and all of it is cached.
Terminates == <>(Resolved /\ finished = Keys(schema))

Promise == INSTANCE InputTree WITH tree <- [k \in finished |-> cache[k]]

\* The walk implements the promise: lists are final once they are cached, repeat
\* nothing, name nothing that could not hold the permission, and where no recursion
\* is cut they come in the same order in every run of the generator.
ImplementsInputTree == Promise!Spec

\* generator.go:387-392: an empty set on revisit is correct.
RecursionIsExact ==
  Resolved => \A k \in Keys(schema) :
    ~ArrowToRelation(schema, k) => ToSet(cache[k]) = InputTypes(schema, k)
=============================================================================
