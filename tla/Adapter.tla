------------------------------ MODULE Adapter ------------------------------
(***************************************************************************)
(* internal/generator/adapter.go: from SpiceDB's compiled schema to the    *)
(* views the templates are rendered from, and what the generator refuses.  *)
(***************************************************************************)
EXTENDS PermissionTree, SchemaForms

CONSTANTS
  Words,    \* words each name consists of
  Alphabet  \* names that get sorted, in the order of sort.Strings

\* External: a name is what its words make, put together with underscores.
ASSUME WordsAssumption ==
  /\ Alphabet \in Seq(STRING) /\ IsInjective(Alphabet)
  /\ DOMAIN Words = ToSet(Alphabet) /\ IsInjective(Words)
  /\ \A n \in DOMAIN Words : Words[n] \in Seq(STRING) \ {<<>>}

\* sort.Strings on a set of names.
Sorted(names) ==
  LET out[i \in 0 .. Len(Alphabet)] ==
        IF i = 0 THEN <<>>
        ELSE IF Alphabet[i] \in names THEN Append(out[i - 1], Alphabet[i]) ELSE out[i - 1]
  IN  out[Len(Alphabet)]

\* The pairs that begin with f, in the order of their seconds.
PairsFrom(f, pairs) ==
  LET seconds == Sorted({x[2] : x \in {y \in pairs : y[1] = f}})
  IN  [j \in DOMAIN seconds |-> <<f, seconds[j]>>]

\* Pairs in the order of their firsts, which are given, then of their seconds.
SortedPairs(pairs, firsts) == FlattenSeq([i \in DOMAIN firsts |-> PairsFrom(firsts[i], pairs)])

\* The slash of prefix/name comes before the characters of a name.
SortedNames(names) == SortedPairs(names, Sorted({x[1] : x \in names}))

Named(list, name) == list[CHOOSE i \in DOMAIN list : list[i].name = name]
NamesOf(list)     == {x.name : x \in ToSet(list)}

-----------------------------------------------------------------------------
(* Go identifiers are sequences of capitalized words (utilstr).            *)

WordsOf(n) == Words[n]

SnakeToPascal(n) == WordsOf(n)

\* PackageName drops the underscores, so what were words are one word now.
TypeName(type) ==
  IF Len(WordsOf(type[2])) = 1 THEN WordsOf(type[2])
  ELSE << FoldLeft(LAMBDA w, v : w \o v, "", WordsOf(type[2])) >>

\* UpperFirst keeps them.
UpperFirst(n) == IF Len(WordsOf(n)) = 1 THEN WordsOf(n) ELSE <<n>>

PackageName(n) == TypeName(<<"", n>>)[1]

PascalCaveatName(c) == SnakeToPascal(c[2])

-----------------------------------------------------------------------------
(* Lowering of permission expressions.                                     *)

Failure == [kind |-> "error"]

\* lowerSetOperationChild on what is no rewrite.
LowerChild(c) ==
  CASE c.kind \in {"ident", "self", "arrow"} -> c
    [] c.kind = "functioned"     -> [kind |-> "arrow", left |-> c.left, right |-> c.right]
    [] c.kind \in {"this", "nil"} -> Failure

\* ... and on a nested rewrite: the first expression stays.
LowerNested(exprs) == IF exprs = <<>> \/ Contains(exprs, Failure) THEN Failure ELSE exprs[1]

\* A path leads to a child of rw: <<2, 1>> to the first child of its second.
LowerUsersetRewrite(rw) ==
  LET child[path \in Seq(Nat)] ==
        IF path = <<>> THEN rw ELSE child[Front(path)].kids[Last(path)]
      lowered[path \in Seq(Nat)] ==
        LET c == child[path]
        IN  IF c.kind # "rewrite" THEN LowerChild(c)
            ELSE LowerNested([i \in DOMAIN c.kids |-> lowered[Append(path, i)]])
  IN  [i \in DOMAIN rw.kids |-> lowered[<<i>>]]

-----------------------------------------------------------------------------
(* Allowed types.                                                          *)

Group(types, i) ==
  {j \in DOMAIN types : /\ types[j].type = types[i].type /\ types[j].star = types[i].star
                        /\ types[j].sub = types[i].sub}

\* flattenAllowedTypes: entries of a group are told apart by their caveats.
Ambiguous(types) ==
  \E i \in DOMAIN types : LET caveats == {types[j].caveat : j \in Group(types, i)} IN
    /\ Cardinality(Group(types, i)) > 1
    /\ NoCaveat \in caveats \/ Cardinality(caveats) # Cardinality(Group(types, i))

\* Mutant: entries of a group are not told apart.
IDFieldName_NoCaveat(types, i) ==
  TypeName(types[i].type)
    \o (IF types[i].sub = "" THEN <<>> ELSE SnakeToPascal(types[i].sub))

IDFieldName(types, i) ==
  TypeName(types[i].type)
    \o (IF types[i].sub = "" THEN <<>> ELSE SnakeToPascal(types[i].sub))
    \o (IF Group(types, i) = {i} THEN <<>> ELSE PascalCaveatName(types[i].caveat))

-----------------------------------------------------------------------------
(* Views: what AdaptDefinitions hands on, in the form PermissionTree reads. *)

TypesOf(rels, r) == Named(rels, r).types

Views(s) ==
  LET def(t) == Named(s.defs, t)
      types  == NamesOf(s.defs)
  IN  [rel  |-> [t \in types |-> [r \in NamesOf(def(t).rels) |-> TypesOf(def(t).rels, r)]],
       perm |-> [t \in types |-> [p \in NamesOf(def(t).perms) |->
                                    LowerUsersetRewrite(Named(def(t).perms, p).rewrite)]]]

\* Permissions of t that the walks of collectPermCaveats and collectPermUsersets
\* visit from p: through names only, arrows are not followed.
Walked(v, t, p) ==
  LET step(ps) == ps \cup {q \in DOMAIN v.perm[t] \ DOMAIN v.rel[t] :
                             \E o \in ps : [kind |-> "ident", left |-> q] \in ToSet(v.perm[t][o])}
      within[i \in Nat] == IF i = 0 THEN {p} ELSE step(within[i - 1])
  IN  within[Cardinality(DOMAIN v.perm[t])]

\* Mutant: an arrow's relation is not looked at.
WalkedTypes_NamesOnly(v, t, p) ==
  UNION {UNION {ToSet(v.rel[t][e.left]) :
                  e \in {x \in ToSet(v.perm[t][q]) :
                           x.kind = "ident" /\ x.left \in DOMAIN v.rel[t]}} : q \in Walked(v, t, p)}

\* walkPermCaveats, walkPermUsersets: allowed types of the relations they come by.
WalkedTypes(v, t, p) ==
  UNION {UNION {ToSet(v.rel[t][e.left]) :
                  e \in {x \in ToSet(v.perm[t][q]) :
                           x.kind \in {"ident", "arrow"} /\ x.left \in DOMAIN v.rel[t]}} : q \in Walked(v, t, p)}

PermCaveats(v, t, p) == SortedNames({a.caveat : a \in WalkedTypes(v, t, p)} \ {NoCaveat})

\* Sorted by type, then sub-relation.
PermUsersets(v, t, p) ==
  LET usersets == {a \in WalkedTypes(v, t, p) : a.sub # ""}
  IN  SortedPairs({<<a.type, a.sub>> : a \in usersets}, SortedNames({a.type : a \in usersets}))

\* Mutant: caveats of one permission may share parameters.
Collides_Never(s, v, t, p) == FALSE

\* detectPermCaveatCollisions: two caveats of p have a parameter of one name.
Collides(s, v, t, p) ==
  \E c, d \in ToSet(PermCaveats(v, t, p)) :
    c # d /\ NamesOf(s.caveats[c]) \cap NamesOf(s.caveats[d]) # {}

\* AdaptDefinitions or GenerateObjectSource return an error before a file is written.
Refused(s) ==
  LET v == Views(s) IN
    \/ \E t \in Defs(v) : \E r \in DOMAIN v.rel[t] :
         \/ Ambiguous(v.rel[t][r])
         \/ \E a \in ToSet(v.rel[t][r]) : a.caveat \notin DOMAIN s.caveats \cup {NoCaveat}
    \/ \E k \in Keys(v) : Contains(v.perm[k[1]][k[2]], Failure)
    \/ \E k \in Keys(v) : Collides(s, v, k[1], k[2])

-----------------------------------------------------------------------------
(* Caveat parameters.                                                      *)

\* caveatTypeToGoElem: the type of a list element.
GoElem(type) ==
  CASE type \in {"bool", "string", "int", "uint"} -> type
    [] type = "double" -> "float64"
    [] type = "bytes"  -> "[]byte"
    [] type = "list"   -> "[]"
    [] OTHER -> "any"

\* caveatTypeToGo: scalars are pointers, so that nil can leave them to check time.
GoType(type) ==
  CASE Head(type) \in {"bool", "string", "int", "uint", "double"} -> << "*", GoElem(Head(type)) >>
    [] Head(type) = "bytes"     -> << "[]byte" >>
    [] Head(type) = "duration"  -> << "*", "time.Duration" >>
    [] Head(type) = "timestamp" -> << "*", "time.Time" >>
    [] Head(type) = "ipaddress" -> << "*", "string" >>
    [] Head(type) = "list"      -> [i \in DOMAIN type |-> GoElem(type[i])]
    [] OTHER -> << "any" >>

\* buildCaveatMap: sorted by name.
CaveatParams(s, c) ==
  LET names == Sorted(NamesOf(s.caveats[c]))
  IN  [i \in DOMAIN names |-> <<names[i], GoType(Named(s.caveats[c], names[i]).type)>>]
=============================================================================
