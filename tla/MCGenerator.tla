---------------------------- MODULE MCGenerator ----------------------------
(***************************************************************************)
(* The example, regenerated over the clients that are checked in, and a    *)
(* few schemas of one or two packages that are edited into each other.     *)
(***************************************************************************)
EXTENDS Codegen, MCNames

App(n)   == <<"app", n>>
Other(n) == <<"other", n>>

Schema(defs, caveats) == [defs |-> defs, caveats |-> caveats]

NoCaveats == << >>
Hours  == App("hours") :> << Param("open_hour", <<"int">>) >>
Days   == App("days") :> << Param("open_hour", <<"int">>) >>

User       == OneOf(App("user"))
UserDef    == Definition(App("user"), <<>>, <<>>)
TeamOf(ts) == Definition(App("team"), << Rel("member", ts) >>, << Perm("join", << Ident("member") >>) >>)
DocOf(ts)  == Definition(App("doc"), << Rel("owner", ts) >>, << Perm("view", << Ident("owner") >>) >>)
Team       == TeamOf(<< User >>)
Doc        == DocOf(<< User, OneOf(App("team")), MembersOf(App("team"), "join") >>)
Folder     == Definition(App("folder"), << Rel("holder", << User >>), Rel("items", << OneOf(App("doc")) >>) >>,
                << Perm("view", << Ident("holder"), Functioned("items", "view") >>) >>)

Base == Schema(<< UserDef, Team, Doc >>, NoCaveats)

\* A caveat, a wildcard, an expiration.
Gated == Schema(<< UserDef, Team,
  Definition(App("doc"),
    << Rel("owner", << If(User, App("hours")) >>), Rel("guest", << Everyone(App("user")) >>),
       Rel("temp", << Until(If(User, App("hours"))), MembersOf(App("team"), "join") >>) >>,
    << Perm("view", << Ident("owner"), Nested(<< Ident("guest"), Ident("temp") >>) >>) >>) >>, Hours)

\* One definition more, one definition less.
More  == Schema(<< UserDef, Team, Doc, Folder >>, NoCaveats)
Less  == Schema(<< UserDef, TeamOf(<< User >>) >>, NoCaveats)

\* What the generator takes although the result does not compile: t and t:*, a
\* caveat of two definitions, a subject of several words or of another package,
\* no relation and no purge, two files of one path.
Both   == Schema(<< UserDef, DocOf(<< User, Everyone(App("user")) >>) >>, NoCaveats)
Shared == Schema(<< UserDef, TeamOf(<< If(User, App("hours")) >>), DocOf(<< If(User, App("hours")) >>) >>, Hours)
Snake  == Schema(<< Definition(App("line_item"), <<>>, <<>>), DocOf(<< OneOf(App("line_item")) >>) >>, NoCaveats)
Cross  == Schema(<< UserDef, Team, Definition(Other("note"), << Rel("reader", << User >>) >>, <<>>) >>, NoCaveats)
Alone  == Schema(<< Definition(App("room"), <<>>, << Perm("use", << Self >>) >>) >>, NoCaveats)
Opa    == Schema(<< UserDef, Definition(App("opa"), << Rel("owner", << User >>) >>, << Perm("view", << Ident("owner") >>) >>) >>, NoCaveats)

\* A caveat and a sub-relation of one name.
Twins  == Schema(<< UserDef, Team,
  DocOf(<< If(OneOf(App("team")), App("hours")), If(OneOf(App("team")), App("join")), MembersOf(App("team"), "join") >>) >>,
  Hours @@ (App("join") :> << Param("max_uses", <<"int">>) >>))

\* A name gofmt stumbles over, after another file; and two that are refused.
Word      == Schema(<< UserDef, DocOf(<< User >>), Definition(App("map"), << Rel("owner", << User >>) >>, <<>>), Team >>, NoCaveats)
Ambiguity == Schema(<< UserDef, DocOf(<< User, If(User, App("hours")) >>) >>, Hours)
Collision == Schema(<< UserDef, DocOf(<< If(User, App("hours")), If(User, App("days")) >>) >>, Hours @@ Days)

ByName ==
  [base |-> Base, gated |-> Gated, more |-> More, less |-> Less, opa |-> Opa,
   word |-> Word, ambiguity |-> Ambiguity, collision |-> Collision, example |-> ExampleSchema,
   both |-> Both, twins |-> Twins, shared |-> Shared, snake |-> Snake, cross |-> Cross, alone |-> Alone]

Fresh == {"base", "both", "shared", "snake", "cross", "alone"}

\* TLC keeps the value of a definition, not that of one a constant stands for.
MCCatalog == ByName
MCSchemas == DOMAIN ByName

MCEdits ==
  {<<"base", s>> : s \in {"gated", "more", "less", "word"}} \cup {<<"more", "base">>}
    \cup {<<"less", "opa">>}

MCRendering == Renderings
MCFormatted == WellFormed

\* An empty directory, or the example's.
Beginnings ==
  {[source |-> s, disk |-> << >>] : s \in Fresh \cup {"ambiguity", "collision"}}
    \cup {[source |-> "example",
           disk |-> (SchemaPath :> Renderings["example"].schema.text) @@ Original]}

MCOrigins == Beginnings

\* The wildcard of a type gets its reader only where it is the first allowed type
\* with that subject type: the two relations differ in their order.
ASSUME WildcardReaders ==
  LET members == MembersOf(App("user"), "member")
      public  == Everyone(App("user"))
      name    == TypeName(App("user"))
  IN  /\ Reads(<< public, members >>) = << <<name, TRUE>> >>
      /\ Reads(<< members, public >>) = << <<name, FALSE>> >>

\* Sound asks for nothing the generator sees to: each of these passes it and is
\* no Go.
ASSUME Unsound ==
  \A s \in (Fresh \ {"base"}) \cup {"twins"} : \E pkg \in Packages(ByName[s]) :
    /\ ~Sound(ByName[s], pkg)
    /\ ~Compiles({f.text : f \in {g \in Library[s] : g.path[1] = pkg}})
=============================================================================
