------------------------------ MODULE Codegen ------------------------------
(***************************************************************************)
(* The generator with what it writes: Generator's runs over the files of   *)
(* SourceFiles, and the clients that are built from the output directory,  *)
(* next to the schema that is live in SpiceDB.                             *)
(***************************************************************************)
EXTENDS Generator, SourceFiles, SchemaDrift, ExampleSchema

\* External: the client that is checked in under example/authzed.
InBookingsvc == INSTANCE BookingsvcClient
InMenusvc    == INSTANCE MenusvcClient
InExtsvc     == INSTANCE ExtsvcClient
CheckedIn    == InBookingsvc!Files \cup InMenusvc!Files \cup InExtsvc!Files

CONSTANT Catalog  \* the schemas, by name

LocalNames == ToSet(Alphabet)
FullNames  == LocalNames \X LocalNames

UniqueNames(list) == IsList(list) /\ \A i, j \in DOMAIN list : list[i].name = list[j].name => i = j

\* External: an allowed type.
IsAllowed(a) ==
  /\ a.type \in FullNames /\ a.sub \in LocalNames \cup {""} /\ a.caveat \in FullNames \cup {NoCaveat}
  /\ a.star \in BOOLEAN /\ a.expiring \in BOOLEAN

\* External: what SpiceDB's compiler has seen to in a schema it hands on.  Accepted
\* looks at the permissions as they are lowered.
Compiled(s) ==
  /\ UniqueNames(s.defs) /\ NamesOf(s.defs) \subseteq FullNames
  /\ \A d \in ToSet(s.defs) :
       /\ UniqueNames(d.rels) /\ UniqueNames(d.perms) /\ NamesOf(d.perms) \subseteq LocalNames
       /\ \A r \in ToSet(d.rels) : IsList(r.types) /\ \A a \in ToSet(r.types) : IsAllowed(a)
  /\ \A c \in DOMAIN s.caveats : UniqueNames(s.caveats[c]) /\ NamesOf(s.caveats[c]) \subseteq LocalNames
  /\ ~Refused(s) => Accepted(Views(s))

\* In the states a text goes by its schema, or "checked in", and its file.
Label(s, path, kind) == [path |-> path, text |-> [of |-> s, path |-> path, kind |-> kind]]

\* Orders in which the elements of a set can come.
Orders(set) == {q \in [1 .. Cardinality(set) -> set] : ToSet(q) = set}

\* What main renders from each schema, in labels; opa.gen.go in any order.
Labels(s, c) ==
  [refused |-> Refused(c),
   objects |-> [i \in DOMAIN c.defs |-> Label(s, ObjectPath(c.defs[i].name), "object")],
   schema  |-> Label(s, SchemaPath, "schema"),
   opa     |-> Orders({Label(s, OPAPath(pkg), "opa") : pkg \in Packages(c)})]

Renderings == [s \in DOMAIN Catalog |-> Labels(s, Catalog[s])]

\* The instance of Generator is this one.
ASSUME CodegenAssumption ==
  /\ Schemas = DOMAIN Catalog /\ Rendering = Renderings
  /\ "checked in" \notin DOMAIN Catalog
  /\ \A s \in DOMAIN Catalog : Compiled(Catalog[s])

\* And what that says.
Rendered(c) ==
  LET objects == ObjectFiles(c)
  IN  IF Refused(c) THEN {} ELSE {objects[i] : i \in DOMAIN objects} \cup {SchemaFile(c)} \cup OPAFiles(c)

Contents == [s \in DOMAIN Catalog |-> Rendered(Catalog[s])]

Library ==
  [s \in {"checked in"} \cup DOMAIN Catalog |-> IF s = "checked in" THEN CheckedIn ELSE Contents[s]]

Says(l) == (CHOOSE f \in Library[l.of] : f.path = l.path /\ f.text.kind = l.kind).text

Original == [p \in {f.path : f \in CheckedIn} |->
               Label("checked in", p, (CHOOSE f \in CheckedIn : f.path = p).text.kind).text]

\* Texts that gofmt parses.
WellFormed ==
  LET library == Library
  IN  UNION {{Label(s, f.path, f.text.kind).text : f \in {g \in library[s] : Formats(g.text)}} :
               s \in DOMAIN library}

-----------------------------------------------------------------------------
(* The output of a run that has ended well.                                *)

\* Labels of texts that a checked-in file has.
AsCheckedIn ==
  LET library == Library
  IN  UNION {{Label(s, f.path, f.text.kind).text : f \in library[s] \cap CheckedIn} : s \in DOMAIN library}

(* Regenerating the example changes no line of the clients that are        *)
(* checked in (docs/scope-opa-go-builtins-codegen.md, SC7): whatever runs  *)
(* over it, each of their files is as it was or half written.              *)
RoundTrip ==
  Catalog[text] = ExampleSchema =>
    \A p \in DOMAIN Original : disk[p] \in {l \in AsCheckedIn : l.path = p} \cup {Partial}

\* Packages of the run's schema, and what the directory of one holds.
InPackage(pkg) == {p \in Paths : Len(p) = 2 /\ p[1] = pkg /\ disk[p] # Absent}
FilesOf(pkg)   == {IF disk[p] = Partial THEN Partial ELSE Says(disk[p]) : p \in InPackage(pkg)}

\* Nothing in it is left from another schema.
Tidy(pkg) == InPackage(pkg) \subseteq {f.path : f \in Ran}

\* No relation allows t and t:*.
Plain(s, pkg) ==
  \A d \in DefsOf(s, pkg) : \A r \in ToSet(d.rels) : \A a, b \in ToSet(r.types) :
    a.type = b.type /\ a.sub = b.sub => a.star = b.star

\* What an allowed type can add to the name of its type: IDFieldName.
Endings(a) ==
  LET sub == IF a.sub = "" THEN <<>> ELSE SnakeToPascal(a.sub)
  IN  {sub} \cup IF a.caveat = NoCaveat THEN {} ELSE {sub \o PascalCaveatName(a.caveat)}

\* What else a schema must keep to besides what the generator refuses.
Fitting(s, pkg) ==
  LET defs == DefsOf(s, pkg)
  IN  /\ \A d, e \in defs : d.name[1] = e.name[1]
      /\ \A d \in defs :
           /\ Len(WordsOf(d.name[2])) = 1
           /\ PackageName(d.name[2]) \notin {"opa", "wildcards", "caveats", "expirations"}
           /\ \A a \in AllowedIn(d) : a.type \in {e.name : e \in defs}
           /\ d.perms # <<>> => d.rels # <<>> \/ Referencing(s, d.name) # <<>>
      /\ \A d, e \in defs : \A c \in CaveatsIn(d), k \in CaveatsIn(e) : c[2] = k[2] => c = k /\ d = e
      /\ \A d \in defs : \A r \in ToSet(d.rels) : \A a, b \in ToSet(r.types) :
           a.type = b.type /\ a.sub # b.sub => Endings(a) \cap Endings(b) = {}

Sound(s, pkg) == Fitting(s, pkg) /\ Plain(s, pkg)

\* Packages of the current schema that are in order.
SoundPackages == [s \in DOMAIN Catalog |-> {pkg \in Packages(Catalog[s]) : Sound(Catalog[s], pkg)}]
Orderly       == {pkg \in SoundPackages[text] : Tidy(pkg)}

(* What a run reports success for compiles: the fields and types it gave   *)
(* names to are distinct, and what is used is declared and imported.       *)
FinishedCompiles ==
  Finished => \A pkg \in Orderly : Compiles(FilesOf(pkg))

OPAFilesOf(pkg) == {f \in FilesOf(pkg) : f.kind = "opa"}
ChecksOf(pkg)   ==
  UNION {{<<f.name, f.checks[i].name>> : i \in DOMAIN f.checks} :
           f \in {g \in FilesOf(pkg) : g.kind = "object"}}

\* There is one file of builtins, for exactly these checks.
Register(files, checks) ==
  /\ \E opa \in files : /\ files = {opa} /\ opa.globals = opa.options
                         /\ ToSet(opa.options) = checks /\ IsInjective(opa.options)
  /\ \A b, c \in checks : BuiltinName(b) = BuiltinName(c) => b = c

(* Every permission that has a typed check has its builtin, under a name   *)
(* of its own, in both forms of registration.                              *)
BuiltinsMatchChecks ==
  Finished /\ emitOPA => \A pkg \in Orderly : Register(OPAFilesOf(pkg), ChecksOf(pkg))

-----------------------------------------------------------------------------
(* The client that is built from the output, and the live schema.          *)

Live  == Catalog[live]
Drift == VerifySchema(Live, Catalog[disk[SchemaPath].of])

Clients == UNION {{f \in FilesOf(pkg) : f.kind = "object"} : pkg \in Orderly}

\* What SpiceDB is sent by branch b, for the wildcard if star.
Sent(b, star) ==
  [type |-> b.type, star |-> star, sub |-> b.sub,
   caveat   |-> IF b.method = "CreateRelations" THEN NoCaveat ELSE b.caveat,
   expiring |-> b.method \in {"CreateRelationsWithExpiration", "CreateRelationsToUserset"} /\ b.expires]

\* What relation r of the live schema's t takes, with its types named as in Go.
Taken(t, r) ==
  IF <<t, r>> \notin Relations(Live) THEN {}
  ELSE {[type |-> TypeName(a.type), star |-> a.star, sub |-> a.sub, caveat |-> a.caveat,
         expiring |-> a.expiring] : a \in {x \in AllowedTypes(Live, <<t, r>>) : x.type[1] = t[1]}}

(* While VerifySchema finds nothing breaking, SpiceDB takes every kind of  *)
(* relationship the Create methods can send, but for the IDs of a type     *)
(* that is allowed as a wildcard only, for which they have a field too.    *)
WritesAccepted ==
  Finished /\ ~IsBreaking(Drift) =>
    \A f \in Clients : \A i \in DOMAIN f.rels : \A b \in ToSet(f.rels[i].creates) :
      \E star \in {b.star, TRUE} : Sent(b, star) \in Taken(f.name, f.rels[i].name)

(* While VerifySchema finds no drift at all, PurgeRelationsAsSubject goes  *)
(* through every type of the live schema that can hold its object.         *)
CleanPurges ==
  Finished /\ IsClean(Drift) =>
    \A f \in Clients : ToSet(f.purges) =
      {d.name : d \in {x \in ToSet(Live.defs) : \E a \in AllowedIn(x) : a.type = f.name}}

(* A check merges the parameters of all its caveats into one context: no   *)
(* two of them have a parameter of one name.                               *)
KeysArePrivate ==
  Finished =>
    \A f \in Clients : \A i \in DOMAIN f.checks :
      LET args(c) == Named(f.args, c).params
          keys(c) == {args(c)[j][1] : j \in DOMAIN args(c)}
      IN  \A c, d \in ToSet(f.checks[i].caveats) : c # d => keys(c) \cap keys(d) = {}
=============================================================================
