----------------------------- MODULE MCResolver -----------------------------
(* Definitions user, folder and doc with fixed relations, and every choice of *)
(* one or two expressions from a pool for each of their permissions.          *)
EXTENDS Resolver, TLC

Ident(name)        == [kind |-> "ident", left |-> name]
Arrow(left, right) == [kind |-> "arrow", left |-> left, right |-> right]
Self               == [kind |-> "self"]
Allowed(type)      == [type |-> type, sub |-> ""]

Relations ==
  "user"   :> <<>> @@
  "folder" :> ("viewer" :> << Allowed("user"), [type |-> "team", sub |-> "member"] >> @@
               "up"     :> << Allowed("folder"), Allowed("doc") >>) @@
  "doc"    :> ("owner"  :> << Allowed("user") >> @@
               "parent" :> << Allowed("folder") >>)

\* Lists of one or two different expressions.
Lists(pool) == {<<e>> : e \in pool} \cup {l \in pool \X pool : l[1] # l[2]}

Schema(see, read, edit) ==
  [rel  |-> Relations,
   perm |-> "user"   :> <<>> @@
            "folder" :> ("see" :> see) @@
            "doc"    :> ("see" :> read @@ "edit" :> edit)]

ManySchemas ==
  {Schema(see, read, edit) :
     see  \in Lists({Ident("viewer"), Arrow("up", "see"), Arrow("up", "edit"), Self}),
     read \in Lists({Ident("owner"), Ident("edit"), Arrow("parent", "see")}),
     edit \in Lists({Ident("owner"), Ident("see"), Arrow("parent", "viewer"), Self})}

\* folder: see = self + up->see, doc: see = owner + parent->see
FoldersAndDocs ==
  {Schema(<<Self, Arrow("up", "see")>>, <<Ident("owner"), Arrow("parent", "see")>>,
          <<Ident("owner")>>)}
=============================================================================
