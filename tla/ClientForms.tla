---------------------------- MODULE ClientForms ----------------------------
(***************************************************************************)
(* internal/templates: the forms of which a generated file is put together *)
(* and in which the checked-in clients are written down.  Types, fields    *)
(* and caveats are named as in Go, as sequences of words.                  *)
(***************************************************************************)
EXTENDS SchemaForms, SequencesExt

(* Branches of Create<Rel>Relations: if len(objects.<from>) > 0, or if     *)
(* objects.Wildcards.<from>, call method.                                  *)
Ids(type) == [from |-> type, star |-> FALSE, type |-> type, method |-> "CreateRelations",
              sub |-> "", caveat |-> NoCaveat, expires |-> FALSE]

Caveated(type, c) ==
  [Ids(type) EXCEPT !.method = "CreateRelationsWithCaveat", !.caveat = c]

Expiring(type, c) ==
  [Ids(type) EXCEPT !.method = "CreateRelationsWithExpiration", !.caveat = c, !.expires = TRUE]

ToUserset(type, sub, c, expires) ==
  [Ids(type) EXCEPT !.method = "CreateRelationsToUserset", !.from = type \o <<sub>>,
                    !.sub = sub, !.caveat = c, !.expires = expires]

Public(branch)       == [branch EXCEPT !.star = TRUE]
Apart(branch, field) == [branch EXCEPT !.from = field]

\* Create<Rel>Relations; the types of Read<Rel><Type>Relations, and whether there
\* is a Read<Rel><Type>Wildcard too.
Relation(name, creates, reads) == [name |-> name, creates |-> creates, reads |-> reads]

\* Check<Perm> and Lookup<Perm>...Resources: types and usersets of the inputs,
\* caveats whose parameters go into the context.
CheckWith(name, inputs, usersets, caveats) ==
  [name |-> name, inputs |-> inputs, usersets |-> usersets, caveats |-> caveats]

Check(name, inputs) == CheckWith(name, inputs, <<>>, <<>>)

\* check_<type>_<perm> and lookup_<type>_<perm>_resources, for each permission.
Builtins(type, perms) == [i \in DOMAIN perms |-> <<type, perms[i]>>]

File(path, text) == [path |-> path, text |-> text]
=============================================================================
