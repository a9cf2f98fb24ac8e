---------------------------- MODULE SourceFiles ----------------------------
(***************************************************************************)
(* internal/generator/generator.go, opa.go and internal/templates: what    *)
(* the files say that are generated from a schema, and when Go accepts     *)
(* them.  A file is reduced to what differs from schema to schema; what    *)
(* the methods in it do is the subject of RelationWrites, Queries and      *)
(* Cleanup.                                                                *)
(***************************************************************************)
EXTENDS Adapter

-----------------------------------------------------------------------------
(* object.go.tmpl                                                          *)

\* The engine method a branch of Create<Rel>Relations calls; t#sub:* is no schema.
Method(a) ==
  IF a.sub # "" THEN "CreateRelationsToUserset"
  ELSE IF a.expiring THEN "CreateRelationsWithExpiration"
  ELSE IF a.caveat # NoCaveat THEN "CreateRelationsWithCaveat"
  ELSE "CreateRelations"

\* A branch of Create<Rel>Relations: it writes the IDs of field from, or the wildcard.
Branch(types, i, star) ==
  [from   |-> IDFieldName(types, i), star |-> star, type |-> TypeName(types[i].type),
   method |-> Method(types[i]), sub |-> types[i].sub,
   caveat |-> types[i].caveat, expires |-> types[i].expiring]

Creates(types) ==
  FlattenSeq([i \in DOMAIN types |-> << Branch(types, i, FALSE) >> \o
                IF types[i].star THEN << Branch(types, i, TRUE) >> ELSE <<>>])

\* uniqueByNamespace: the first entry of a type decides whether there is a
\* Read<Rel><Type>Wildcard.
Reads(types) ==
  LET firsts == {i \in DOMAIN types : \A j \in 1 .. i - 1 : types[j].type # types[i].type}
      place  == SetToSortSeq(firsts, <)
  IN  [i \in DOMAIN place |-> <<TypeName(types[place[i]].type), types[place[i]].star>>]

RelationSource(r) == [name |-> r.name, creates |-> Creates(r.types), reads |-> Reads(r.types)]

CheckSource(v, t, p) ==
  LET inputs   == InputList(v, <<t, p>>)
      usersets == PermUsersets(v, t, p)
      caveats  == PermCaveats(v, t, p)
  IN  [name |-> p,
       inputs   |-> [i \in DOMAIN inputs |-> TypeName(inputs[i])],
       usersets |-> [i \in DOMAIN usersets |-> <<TypeName(usersets[i][1]), usersets[i][2]>>],
       caveats  |-> [i \in DOMAIN caveats |-> PascalCaveatName(caveats[i])]]

AllowedIn(d) == UNION {ToSet(r.types) : r \in ToSet(d.rels)}

\* definitionCaveats.
CaveatsIn(d) == {a.caveat : a \in AllowedIn(d)} \ {NoCaveat}

\* caveatParams: one Args struct per caveat of the definition.
ArgsSource(s, d) ==
  LET used == SortedNames(CaveatsIn(d))
  IN  [i \in DOMAIN used |-> [name |-> PascalCaveatName(used[i]), params |-> CaveatParams(s, used[i])]]

\* Mutant: userset references do not count.
Referencing_Direct(s, t) ==
  SortedNames({d.name : d \in {x \in ToSet(s.defs) : \E a \in AllowedIn(x) : a.type = t /\ a.sub = ""}})

\* referencingDefinitions: what PurgeRelationsAsSubject goes through.
Referencing(s, t) ==
  SortedNames({d.name : d \in {x \in ToSet(s.defs) : \E a \in AllowedIn(x) : a.type = t}})

ObjectSource(s, v, d) ==
  [kind   |-> "object", name |-> d.name, type |-> UpperFirst(d.name[2]),
   rels   |-> [i \in DOMAIN d.rels |-> RelationSource(d.rels[i])],
   args   |-> ArgsSource(s, d),
   purges |-> Referencing(s, d.name),
   checks |-> [i \in DOMAIN d.perms |-> CheckSource(v, d.name, d.perms[i].name)]]

-----------------------------------------------------------------------------
(* schema.go.tmpl and opa.go.tmpl                                          *)

\* SchemaText; SchemaDigest says nothing more.
SchemaSource(s) == [kind |-> "schema", text |-> s]

Packages(s) == {PackageName(d.name[1]) : d \in ToSet(s.defs)}

DefsOf(s, pkg) == {d \in ToSet(s.defs) : PackageName(d.name[1]) = pkg}

\* What opa.go.tmpl ranges over for d: permissions by name.
BuiltinsOf(d) ==
  LET perms == Sorted(NamesOf(d.perms)) IN [i \in DOMAIN perms |-> <<d.name, perms[i]>>]

\* groupByPackage: definitions by name.  The package has one prefix, so a local name
\* is one definition's.
Builtins(s, pkg) ==
  LET locals    == Sorted({d.name[2] : d \in DefsOf(s, pkg)})
      ofName(n) == CHOOSE d \in DefsOf(s, pkg) : d.name[2] = n
  IN  FlattenSeq([i \in DOMAIN locals |-> BuiltinsOf(ofName(locals[i]))])

\* Mutant: the type is not part of the name.
BuiltinName_PermOnly(b) == WordsOf(b[2])

\* The name OPA knows it by, after check_ or lookup_.
BuiltinName(b) == WordsOf(b[1][2]) \o WordsOf(b[2])

\* SpiceDBBuiltins and RegisterSpiceDBBuiltinsGlobal.
OPASource(s, pkg) ==
  [kind |-> "opa", options |-> Builtins(s, pkg), globals |-> Builtins(s, pkg)]

-----------------------------------------------------------------------------
(* Where they are written.                                                 *)

ObjectPath(t) == <<PackageName(t[1]), PackageName(t[2])>>
SchemaPath    == <<"schema">>
OPAPath(pkg)  == <<pkg, "opa">>

ObjectFiles(s) ==
  LET v    == Views(s)
      d(i) == s.defs[i]
  IN  [i \in DOMAIN s.defs |-> [path |-> ObjectPath(d(i).name), text |-> ObjectSource(s, v, d(i))]]

SchemaFile(s) == [path |-> SchemaPath, text |-> SchemaSource(s)]

OPAFiles(s) == {[path |-> OPAPath(pkg), text |-> OPASource(s, pkg)] : pkg \in Packages(s)}

-----------------------------------------------------------------------------
(* External: Go.                                                           *)

Keywords == {"break", "case", "chan", "const", "continue", "default", "defer", "else",
             "fallthrough", "for", "func", "go", "goto", "if", "import", "interface", "map",
             "package", "range", "return", "select", "struct", "switch", "type", "var"}

\* gofmt parses the file: the receiver of the methods has the definition's name,
\* the package the prefix.
Formats(text) ==
  text.kind = "object" => {text.name[1], text.name[2]} \cap Keywords = {}

\* Fields of the structs of an object file: <Rel>Objects, Check<Perm>Inputs.
IDFields(branches) ==
  LET out[i \in 0 .. Len(branches)] ==
        IF i = 0 THEN <<>>
        ELSE IF ~branches[i].star THEN Append(out[i - 1], branches[i].from) ELSE out[i - 1]
  IN  out[Len(branches)]

ObjectsFields(r) ==
  LET branches == ToSet(r.creates)
  IN  IDFields(r.creates)
        \o (IF \E b \in branches : b.star THEN << <<"wildcards">> >> ELSE <<>>)
        \o (IF \E b \in branches : b.caveat # NoCaveat THEN << <<"caveats">> >> ELSE <<>>)
        \o (IF \E b \in branches : b.expires THEN << <<"expirations">> >> ELSE <<>>)

InputsFields(c) ==
  c.inputs \o [i \in DOMAIN c.usersets |-> c.usersets[i][1] \o SnakeToPascal(c.usersets[i][2])]
    \o (IF c.caveats = <<>> THEN <<>> ELSE << <<"caveats">> >>)

\* Package-level names an object file declares, and those it uses.  Names made of
\* the definition's and a relation's or permission's are left out.
Args(caveat) == caveat \o <<"args">>

Declares(f) == << f.type >> \o [i \in DOMAIN f.args |-> Args(f.args[i].name)]

Uses(f) ==
  LET branches == UNION {ToSet(r.creates) : r \in ToSet(f.rels)}
      gated    == {b \in branches : b.caveat # NoCaveat}
  IN  {b.type : b \in branches} \cup {Args(PascalCaveatName(b.caveat)) : b \in gated}
        \cup UNION {ToSet(c.inputs) \cup {u[1] : u \in ToSet(c.usersets)}
                       \cup {Args(k) : k \in ToSet(c.caveats)} : c \in ToSet(f.checks)}

\* The file imports context for the methods of its relations and for its purge.
ImportsContext(f) == f.rels # <<>> \/ f.purges # <<>>

\* The compiler accepts a package consisting of these files.
Compiles(files) ==
  LET objects  == {f \in files : f.kind = "object"}
      declared == UNION {ToSet(Declares(f)) : f \in objects}
  IN  /\ \A f \in files : f.kind # "partial"
      /\ \A f \in objects : f.checks # <<>> => ImportsContext(f)
      /\ \A f \in objects : IsInjective(Declares(f)) /\ Uses(f) \subseteq declared
      /\ \A f, g \in objects : f # g => ToSet(Declares(f)) \cap ToSet(Declares(g)) = {}
      /\ \A f \in objects : /\ \A r \in ToSet(f.rels) : IsInjective(ObjectsFields(r))
                            /\ \A c \in ToSet(f.checks) : IsInjective(InputsFields(c))
=============================================================================
