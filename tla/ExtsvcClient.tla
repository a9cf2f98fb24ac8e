--------------------------- MODULE ExtsvcClient ---------------------------
(***************************************************************************)
(* example/authzed/extsvc:                                                 *)
(* the client that is checked in for the extsvc package                    *)
(* of example/schema.zed, read method by method.                           *)
(***************************************************************************)
EXTENDS ClientForms

Article == <<"article">>
Document == <<"document">>
Folder == <<"folder">>
Group == <<"group">>
Role == <<"role">>
Team == <<"team">>
User == <<"user">>

(* Caveats, as the methods name them. *)
BeforeDeadline == <<"extsvc", "before_deadline">>
FromSubnet == <<"extsvc", "from_subnet">>
HasToken == <<"extsvc", "has_token">>
MatrixCheck == <<"extsvc", "matrix_check">>
MinScore == <<"extsvc", "min_score">>
QuotaCheck == <<"extsvc", "quota_check">>
TenantMatch == <<"extsvc", "tenant_match">>
VersionCheck == <<"extsvc", "version_check">>
WithinWindow == <<"extsvc", "within_window">>
WithinWindowD == <<"extsvc", "within_window_d">>

-----------------------------------------------------------------------------
(* article.gen.go *)
ArticleAuthor == Relation("author", << Ids(User) >>, << <<User, FALSE>> >>)
ArticleParent == Relation("parent", << Ids(Folder) >>, << <<Folder, FALSE>> >>)
ArticleEditor == Check("editor", << User, Group, Role >>)
ArticleAuthorOnly == Check("author_only", << User, Group, Role >>)
ArticleFile ==
  [kind |-> "object", name |-> <<"extsvc", "article">>, type |-> Article, purges |-> <<>>,
   args |-> <<>>,
   rels |-> << ArticleAuthor, ArticleParent >>,
   checks |-> << ArticleEditor, ArticleAuthorOnly >>]

-----------------------------------------------------------------------------
(* document.gen.go *)
DocumentParent == Relation("parent", << Ids(Folder) >>, << <<Folder, FALSE>> >>)
DocumentOwner ==
  Relation("owner", << Ids(User), Ids(Group) >>,
           << <<User, FALSE>>, <<Group, FALSE>> >>)
DocumentView == Check("view", << User, Group, Role >>)
DocumentEdit == Check("edit", << User, Group, Role >>)
DocumentAdmin == Check("admin", << User, Group, Role >>)
DocumentInheritedCollab == Check("inherited_collab", << User >>)
DocumentFile ==
  [kind |-> "object", name |-> <<"extsvc", "document">>, type |-> Document, purges |-> <<>>,
   args |-> <<>>,
   rels |-> << DocumentParent, DocumentOwner >>,
   checks |-> << DocumentView, DocumentEdit, DocumentAdmin, DocumentInheritedCollab >>]

-----------------------------------------------------------------------------
(* folder.gen.go *)
FolderViewer ==
  Relation("viewer", << Ids(User), Ids(Group), Ids(Role) >>,
           << <<User, FALSE>>, <<Group, FALSE>>, <<Role, FALSE>> >>)
FolderGuest == Relation("guest", << Ids(User), Public(Ids(User)) >>, << <<User, TRUE>> >>)
FolderTenantedViewer ==
  Relation("tenanted_viewer", << Caveated(User, TenantMatch) >>,
           << <<User, FALSE>> >>)
FolderGuardedViewer ==
  Relation("guarded_viewer", << Caveated(User, TenantMatch), Public(Caveated(User, TenantMatch)) >>,
           << <<User, TRUE>> >>)
FolderActor == Relation("actor", << Caveated(User, WithinWindow) >>, << <<User, FALSE>> >>)
FolderCollaborator ==
  Relation("collaborator", << Caveated(User, WithinWindow), Ids(Group) >>,
           << <<User, FALSE>>, <<Group, FALSE>> >>)
FolderRateLimited ==
  Relation("rate_limited", << Caveated(User, QuotaCheck) >>,
           << <<User, FALSE>> >>)
FolderScoredViewer ==
  Relation("scored_viewer", << Caveated(User, MinScore) >>,
           << <<User, FALSE>> >>)
FolderTokenViewer ==
  Relation("token_viewer", << Caveated(User, HasToken) >>,
           << <<User, FALSE>> >>)
FolderVersionedViewer ==
  Relation("versioned_viewer", << Caveated(User, VersionCheck) >>,
           << <<User, FALSE>> >>)
FolderMatrixViewer ==
  Relation("matrix_viewer", << Caveated(User, MatrixCheck) >>,
           << <<User, FALSE>> >>)
FolderDurationViewer ==
  Relation("duration_viewer", << Caveated(User, WithinWindowD) >>,
           << <<User, FALSE>> >>)
FolderDeadlineViewer ==
  Relation("deadline_viewer", << Caveated(User, BeforeDeadline) >>,
           << <<User, FALSE>> >>)
FolderSubnetViewer ==
  Relation("subnet_viewer", << Caveated(User, FromSubnet) >>,
           << <<User, FALSE>> >>)
FolderTenantedUser ==
  Relation("tenanted_user", << Caveated(User, TenantMatch) >>,
           << <<User, FALSE>> >>)
FolderWindowedUser ==
  Relation("windowed_user", << Caveated(User, WithinWindow) >>,
           << <<User, FALSE>> >>)
FolderGatedRoot ==
  Relation("gated_root", << Caveated(Folder, TenantMatch) >>,
           << <<Folder, FALSE>> >>)
FolderExpiringViewer ==
  Relation("expiring_viewer", << Expiring(User, NoCaveat) >>,
           << <<User, FALSE>> >>)
FolderGatedToken ==
  Relation("gated_token", << Expiring(User, TenantMatch) >>,
           << <<User, FALSE>> >>)
FolderPublicUntil ==
  Relation("public_until", << Expiring(User, NoCaveat), Public(Expiring(User, NoCaveat)) >>,
           << <<User, TRUE>> >>)
FolderPublicGated ==
  Relation("public_gated", << Expiring(User, TenantMatch), Public(Expiring(User, TenantMatch)) >>,
           << <<User, TRUE>> >>)
FolderCollab ==
  Relation("collab", << ToUserset(Team, "admin", NoCaveat, FALSE) >>,
           << <<Team, FALSE>> >>)
FolderMixedView ==
  Relation("mixed_view", << Ids(User), ToUserset(Team, "admin", NoCaveat, FALSE) >>,
           << <<User, FALSE>>, <<Team, FALSE>> >>)
FolderGatedCollab ==
  Relation("gated_collab", << ToUserset(Team, "admin", TenantMatch, FALSE) >>,
           << <<Team, FALSE>> >>)
FolderTempCollab ==
  Relation("temp_collab", << ToUserset(Team, "admin", NoCaveat, TRUE) >>,
           << <<Team, FALSE>> >>)
FolderAnyParent == Relation("any_parent", << Ids(Folder) >>, << <<Folder, FALSE>> >>)
FolderAllParent == Relation("all_parent", << Ids(Folder) >>, << <<Folder, FALSE>> >>)
FolderGatedParent ==
  Relation("gated_parent", << Caveated(Folder, TenantMatch) >>,
           << <<Folder, FALSE>> >>)
FolderDirectMember == Relation("direct_member", << Ids(User) >>, << <<User, FALSE>> >>)
FolderParentForSelf == Relation("parent_for_self", << Ids(Folder) >>, << <<Folder, FALSE>> >>)
BeforeDeadlineArgs == [name |-> <<"before", "deadline">>, params |-> << <<"deadline", <<"*", "time.Time">>>> >>]
FromSubnetArgs == [name |-> <<"from", "subnet">>, params |-> << <<"client_ip", <<"*", "string">>>> >>]
HasTokenArgs == [name |-> <<"has", "token">>, params |-> << <<"token", <<"[]byte">>>> >>]
MatrixCheckArgs == [name |-> <<"matrix", "check">>, params |-> << <<"rows", <<"[]", "[]", "string">>>> >>]
MinScoreArgs == [name |-> <<"min", "score">>, params |-> << <<"current", <<"*", "float64">>>>, <<"min_required", <<"*", "float64">>>> >>]
QuotaCheckArgs == [name |-> <<"quota", "check">>, params |-> << <<"max_uses", <<"*", "int">>>>, <<"within_quota", <<"*", "bool">>>> >>]
TenantMatchArgs == [name |-> <<"tenant", "match">>, params |-> << <<"tenant", <<"*", "string">>>> >>]
VersionCheckArgs == [name |-> <<"version", "check">>, params |-> << <<"min_version", <<"*", "uint">>>> >>]
WithinWindowArgs == [name |-> <<"within", "window">>, params |-> << <<"allowed_actions", <<"[]", "string">>>>, <<"requested_action", <<"*", "string">>>> >>]
WithinWindowDArgs == [name |-> <<"within", "window", "d">>, params |-> << <<"window", <<"*", "time.Duration">>>> >>]
FolderBrowse == Check("browse", << User, Group, Role >>)
FolderTenantedBrowse ==
  CheckWith("tenanted_browse", << User >>, <<>>, << <<"tenant", "match">> >>)
FolderGuardedBrowse ==
  CheckWith("guarded_browse", << User >>, <<>>, << <<"tenant", "match">> >>)
FolderAct == CheckWith("act", << User >>, <<>>, << <<"within", "window">> >>)
FolderCollaborate ==
  CheckWith("collaborate", << User, Group >>, <<>>, << <<"within", "window">> >>)
FolderRateCheck == CheckWith("rate_check", << User >>, <<>>, << <<"quota", "check">> >>)
FolderScoreCheck == CheckWith("score_check", << User >>, <<>>, << <<"min", "score">> >>)
FolderTokenCheck == CheckWith("token_check", << User >>, <<>>, << <<"has", "token">> >>)
FolderVersionCheckPerm ==
  CheckWith("version_check_perm", << User >>, <<>>, << <<"version", "check">> >>)
FolderMatrixCheckPerm ==
  CheckWith("matrix_check_perm", << User >>, <<>>, << <<"matrix", "check">> >>)
FolderDurationCheck ==
  CheckWith("duration_check", << User >>, <<>>, << <<"within", "window", "d">> >>)
FolderDeadlineCheck ==
  CheckWith("deadline_check", << User >>, <<>>, << <<"before", "deadline">> >>)
FolderSubnetCheck == CheckWith("subnet_check", << User >>, <<>>, << <<"from", "subnet">> >>)
FolderMultiCheck ==
  CheckWith("multi_check", << User >>, <<>>, << <<"tenant", "match">>, <<"within", "window">> >>)
FolderViaGatedRoot ==
  CheckWith("via_gated_root", << User, Group, Role >>, <<>>, << <<"tenant", "match">> >>)
FolderEliteAccess ==
  CheckWith("elite_access", << User >>, <<>>, << <<"has", "token">>, <<"min", "score">> >>)
FolderScoredMinusToken ==
  CheckWith("scored_minus_token", << User >>, <<>>, << <<"has", "token">>, <<"min", "score">> >>)
FolderExpiringBrowse == Check("expiring_browse", << User >>)
FolderGatedTokenCheck ==
  CheckWith("gated_token_check", << User >>, <<>>, << <<"tenant", "match">> >>)
FolderPublicBrowse == Check("public_browse", << User >>)
FolderPublicGatedCheck ==
  CheckWith("public_gated_check", << User >>, <<>>, << <<"tenant", "match">> >>)
FolderCollabView == CheckWith("collab_view", <<>>, << <<Team, "admin">> >>, <<>>)
FolderMixedBrowse == CheckWith("mixed_browse", << User >>, << <<Team, "admin">> >>, <<>>)
FolderGatedCollabView ==
  CheckWith("gated_collab_view", <<>>, << <<Team, "admin">> >>, << <<"tenant", "match">> >>)
FolderTempCollabView == CheckWith("temp_collab_view", <<>>, << <<Team, "admin">> >>, <<>>)
FolderAnyVia == Check("any_via", << User, Group, Role >>)
FolderAllVia == Check("all_via", << User, Group, Role >>)
FolderGatedAllVia ==
  CheckWith("gated_all_via", << User, Group, Role >>, <<>>, << <<"tenant", "match">> >>)
FolderMixedAll == Check("mixed_all", << User, Group, Role >>)
FolderAncestorOrSelf == Check("ancestor_or_self", << Folder >>)
FolderPurges == << <<"extsvc", "article">>, <<"extsvc", "document">>, <<"extsvc", "folder">> >>
FolderFile ==
  [kind |-> "object", name |-> <<"extsvc", "folder">>, type |-> Folder, purges |-> FolderPurges,
   args |-> << BeforeDeadlineArgs, FromSubnetArgs, HasTokenArgs, MatrixCheckArgs,
               MinScoreArgs, QuotaCheckArgs, TenantMatchArgs, VersionCheckArgs,
               WithinWindowArgs, WithinWindowDArgs >>,
   rels |-> << FolderViewer, FolderGuest, FolderTenantedViewer, FolderGuardedViewer,
                FolderActor, FolderCollaborator, FolderRateLimited, FolderScoredViewer,
                FolderTokenViewer, FolderVersionedViewer, FolderMatrixViewer,
                FolderDurationViewer, FolderDeadlineViewer, FolderSubnetViewer,
                FolderTenantedUser, FolderWindowedUser, FolderGatedRoot,
                FolderExpiringViewer, FolderGatedToken, FolderPublicUntil,
                FolderPublicGated, FolderCollab, FolderMixedView, FolderGatedCollab,
                FolderTempCollab, FolderAnyParent, FolderAllParent, FolderGatedParent,
                FolderDirectMember, FolderParentForSelf >>,
   checks |-> << FolderBrowse, FolderTenantedBrowse, FolderGuardedBrowse, FolderAct,
                FolderCollaborate, FolderRateCheck, FolderScoreCheck, FolderTokenCheck,
                FolderVersionCheckPerm, FolderMatrixCheckPerm, FolderDurationCheck,
                FolderDeadlineCheck, FolderSubnetCheck, FolderMultiCheck,
                FolderViaGatedRoot, FolderEliteAccess, FolderScoredMinusToken,
                FolderExpiringBrowse, FolderGatedTokenCheck, FolderPublicBrowse,
                FolderPublicGatedCheck, FolderCollabView, FolderMixedBrowse,
                FolderGatedCollabView, FolderTempCollabView, FolderAnyVia, FolderAllVia,
                FolderGatedAllVia, FolderMixedAll, FolderAncestorOrSelf >>]

-----------------------------------------------------------------------------
(* group.gen.go *)
GroupPurges == << <<"extsvc", "document">>, <<"extsvc", "folder">> >>
GroupFile ==
  [kind |-> "object", name |-> <<"extsvc", "group">>, type |-> Group, purges |-> GroupPurges,
   args |-> <<>>,
   rels |-> <<>>,
   checks |-> <<>>]

-----------------------------------------------------------------------------
(* role.gen.go *)
RolePurges == << <<"extsvc", "folder">> >>
RoleFile ==
  [kind |-> "object", name |-> <<"extsvc", "role">>, type |-> Role, purges |-> RolePurges,
   args |-> <<>>,
   rels |-> <<>>,
   checks |-> <<>>]

-----------------------------------------------------------------------------
(* team.gen.go *)
TeamOwner == Relation("owner", << Ids(User) >>, << <<User, FALSE>> >>)
TeamManager == Relation("manager", << Ids(User) >>, << <<User, FALSE>> >>)
TeamAdmin == Check("admin", << User >>)
TeamPurges == << <<"extsvc", "folder">> >>
TeamFile ==
  [kind |-> "object", name |-> <<"extsvc", "team">>, type |-> Team, purges |-> TeamPurges,
   args |-> <<>>,
   rels |-> << TeamOwner, TeamManager >>,
   checks |-> << TeamAdmin >>]

-----------------------------------------------------------------------------
(* user.gen.go *)
UserPurges == << <<"extsvc", "article">>, <<"extsvc", "document">>, <<"extsvc", "folder">>,
     <<"extsvc", "team">> >>
UserFile ==
  [kind |-> "object", name |-> <<"extsvc", "user">>, type |-> User, purges |-> UserPurges,
   args |-> <<>>,
   rels |-> <<>>,
   checks |-> <<>>]

-----------------------------------------------------------------------------
(* opa.gen.go *)
ArticleOptions == Builtins(<<"extsvc", "article">>, << "author_only", "editor" >>)
DocumentOptions ==
  Builtins(<<"extsvc", "document">>, << "admin", "edit", "inherited_collab", "view" >>)
FolderOptions ==
  Builtins(<<"extsvc", "folder">>, << "act", "all_via", "ancestor_or_self", "any_via",
       "browse", "collab_view", "collaborate", "deadline_check", "duration_check",
       "elite_access", "expiring_browse", "gated_all_via", "gated_collab_view",
       "gated_token_check", "guarded_browse", "matrix_check_perm", "mixed_all",
       "mixed_browse", "multi_check", "public_browse", "public_gated_check", "rate_check",
       "score_check", "scored_minus_token", "subnet_check", "temp_collab_view",
       "tenanted_browse", "token_check", "version_check_perm", "via_gated_root" >>)
TeamOptions == Builtins(<<"extsvc", "team">>, << "admin" >>)
ArticleGlobals == Builtins(<<"extsvc", "article">>, << "author_only", "editor" >>)
DocumentGlobals ==
  Builtins(<<"extsvc", "document">>, << "admin", "edit", "inherited_collab", "view" >>)
FolderGlobals ==
  Builtins(<<"extsvc", "folder">>, << "act", "all_via", "ancestor_or_self", "any_via",
       "browse", "collab_view", "collaborate", "deadline_check", "duration_check",
       "elite_access", "expiring_browse", "gated_all_via", "gated_collab_view",
       "gated_token_check", "guarded_browse", "matrix_check_perm", "mixed_all",
       "mixed_browse", "multi_check", "public_browse", "public_gated_check", "rate_check",
       "score_check", "scored_minus_token", "subnet_check", "temp_collab_view",
       "tenanted_browse", "token_check", "version_check_perm", "via_gated_root" >>)
TeamGlobals == Builtins(<<"extsvc", "team">>, << "admin" >>)
OPAFile ==
  [kind |-> "opa",
   options |-> FlattenSeq( << ArticleOptions, DocumentOptions, FolderOptions, TeamOptions >>),
   globals |-> FlattenSeq( << ArticleGlobals, DocumentGlobals, FolderGlobals, TeamGlobals >>)]

-----------------------------------------------------------------------------
Files ==
  { File(<<"extsvc", "article">>, ArticleFile),
    File(<<"extsvc", "document">>, DocumentFile),
    File(<<"extsvc", "folder">>, FolderFile),
    File(<<"extsvc", "group">>, GroupFile),
    File(<<"extsvc", "role">>, RoleFile),
    File(<<"extsvc", "team">>, TeamFile),
    File(<<"extsvc", "user">>, UserFile),
    File(<<"extsvc", "opa">>, OPAFile) }
=============================================================================
