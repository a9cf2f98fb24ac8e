---------------------------- MODULE SchemaForms ----------------------------
(***************************************************************************)
(* External: a schema as SpiceDB's compiler hands it to the generator      *)
(* (compiler.CompiledSchema and the core messages in it).                  *)
(*                                                                         *)
(* A schema is a record [defs, caveats]:                                   *)
(*   defs     sequence of Definition, in the order of the source           *)
(*   caveats  function from caveat names to sequences of Param             *)
(* Names of definitions and caveats are pairs <<prefix, local name>>.  The *)
(* operator of a rewrite is left out: the generator does not look at it.   *)
(***************************************************************************)

NoCaveat == <<>>

(* Allowed types: t, t:*, t#sub; with caveat c; with expiration.           *)
OneOf(t)          == [type |-> t, star |-> FALSE, sub |-> "", caveat |-> NoCaveat, expiring |-> FALSE]
Everyone(t)       == [OneOf(t) EXCEPT !.star = TRUE]
MembersOf(t, sub) == [OneOf(t) EXCEPT !.sub = sub]
If(allowed, c)    == [allowed EXCEPT !.caveat = c]
Until(allowed)    == [allowed EXCEPT !.expiring = TRUE]

(* Children of a rewrite.                                                  *)
Ident(n)         == [kind |-> "ident", left |-> n]
Arrow(r, n)      == [kind |-> "arrow", left |-> r, right |-> n]
Functioned(r, n) == [kind |-> "functioned", left |-> r, right |-> n]
Self             == [kind |-> "self"]
Nested(kids)     == [kind |-> "rewrite", kids |-> kids]

Rel(n, types)              == [name |-> n, types |-> types]
Perm(n, kids)              == [name |-> n, rewrite |-> [kids |-> kids]]
Definition(t, rels, perms) == [name |-> t, rels |-> rels, perms |-> perms]

\* A type is a sequence such as <<"list", "list", "int">>; of map<...> only <<"map">> is kept.
Param(n, type)             == [name |-> n, type |-> type]
=============================================================================
