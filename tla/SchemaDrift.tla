---------------------------- MODULE SchemaDrift ----------------------------
(***************************************************************************)
(* internal/templates/schema.go.tmpl and authz.SchemaDrift: VerifySchema,  *)
(* by which a client compares the schema it was generated from, the        *)
(* baseline, with the one that is live in SpiceDB.  Doc comments and the   *)
(* expressions of caveats are left out of schemas.                         *)
(***************************************************************************)
EXTENDS Adapter

Types(s)       == NamesOf(s.defs)
Relations(s)   == UNION {{<<d.name, n>> : n \in NamesOf(d.rels)} : d \in ToSet(s.defs)}
Permissions(s) == UNION {{<<d.name, n>> : n \in NamesOf(d.perms)} : d \in ToSet(s.defs)}
AllowedTypes(s, r) == ToSet(TypesOf(Named(s.defs, r[1]).rels, r[2]))
Caveats(s)         == DOMAIN s.caveats
Rewrite(s, p)      == Named(Named(s.defs, p[1]).perms, p[2]).rewrite
ParamType(s, p)    == Named(s.caveats[p[1]], p[2]).type

SubjectTypes(s, rels) == UNION {{<<r, a>> : a \in AllowedTypes(s, r)} : r \in rels}
Params(s, caveats)    == UNION {{<<c, n>> : n \in NamesOf(s.caveats[c])} : c \in caveats}
OfTypes(members, ts)  == {x \in members : x[1] \in ts}

Entry(kind, change, what) == [kind |-> kind, change |-> change, what |-> what]

\* Operations that lead from the elements of the live schema to the baseline's.
Changes(kind, baseline, live) ==
  {Entry(kind, "Added", x) : x \in baseline \ live} \cup {Entry(kind, "Removed", x) : x \in live \ baseline}

\* DiffSchema.  What belongs to something that is added or removed as a whole is
\* not listed.
Diffs(live, base) ==
  LET types   == Types(live) \cap Types(base)
      rels    == OfTypes(Relations(live), types) \cap Relations(base)
      perms   == OfTypes(Permissions(live), types) \cap Permissions(base)
      caveats == Caveats(live) \cap Caveats(base)
      params  == Params(live, caveats) \cap Params(base, caveats)
  IN  Changes("Definition", Types(base), Types(live))
        \cup Changes("Relation", OfTypes(Relations(base), types), OfTypes(Relations(live), types))
        \cup Changes("Permission", OfTypes(Permissions(base), types), OfTypes(Permissions(live), types))
        \cup Changes("RelationSubjectType", SubjectTypes(base, rels), SubjectTypes(live, rels))
        \cup Changes("Caveat", Caveats(base), Caveats(live))
        \cup Changes("CaveatParameter", Params(base, caveats), Params(live, caveats))
        \cup {Entry("PermissionExpr", "Changed", p) :
                p \in {q \in perms : Rewrite(live, q) # Rewrite(base, q)}}
        \cup {Entry("CaveatParameterType", "Changed", p) :
                p \in {q \in params : ParamType(live, q) # ParamType(base, q)}}

\* bucketDrift names the changes from the client's side.
Bucket == [Removed |-> "Added", Added |-> "Removed", Changed |-> "Changed"]

\* Mutant: SpiceDB's names are taken over.
BucketDrift_Literal(diffs) ==
  [b \in {"Added", "Removed", "Changed"} |-> {d \in diffs : d.change = b}]

BucketDrift(diffs) ==
  [b \in {"Added", "Removed", "Changed"} |-> {d \in diffs : Bucket[d.change] = b}]

VerifySchema(live, base) == LET diffs == Diffs(live, base) IN BucketDrift(diffs)

IsBreaking(drift) == drift["Removed"] # {} \/ drift["Changed"] # {}

IsClean(drift) == \A b \in DOMAIN drift : drift[b] = {}
=============================================================================
