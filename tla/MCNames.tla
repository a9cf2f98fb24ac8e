---------------------------- MODULE MCNames ----------------------------
(***************************************************************************)
(* The names of the instance of MCGenerator: those of several words, and   *)
(* all in the order of sort.Strings.                                       *)
(***************************************************************************)
EXTENDS SequencesExt, TLC

Compounds ==
  [all_parent |-> <<"all", "parent">>, all_via |-> <<"all", "via">>,
   allowed_actions |-> <<"allowed", "actions">>,
   ancestor_or_self |-> <<"ancestor", "or", "self">>, any_parent |-> <<"any", "parent">>,
   any_via |-> <<"any", "via">>, author_only |-> <<"author", "only">>,
   before_deadline |-> <<"before", "deadline">>, belongs_brand |-> <<"belongs", "brand">>,
   belongs_company |-> <<"belongs", "company">>, change_owner |-> <<"change", "owner">>,
   client_ip |-> <<"client", "ip">>, close_hour |-> <<"close", "hour">>,
   close_month |-> <<"close", "month">>, collab_view |-> <<"collab", "view">>,
   create_booking |-> <<"create", "booking">>, create_order |-> <<"create", "order">>,
   current_hour |-> <<"current", "hour">>, current_month |-> <<"current", "month">>,
   deadline_check |-> <<"deadline", "check">>, deadline_viewer |-> <<"deadline", "viewer">>,
   direct_member |-> <<"direct", "member">>, dup_typed |-> <<"dup", "typed">>,
   dup_typed_check |-> <<"dup", "typed", "check">>,
   duration_check |-> <<"duration", "check">>, duration_viewer |-> <<"duration", "viewer">>,
   elite_access |-> <<"elite", "access">>, expiring_browse |-> <<"expiring", "browse">>,
   expiring_viewer |-> <<"expiring", "viewer">>, from_subnet |-> <<"from", "subnet">>,
   gated_all_via |-> <<"gated", "all", "via">>, gated_collab |-> <<"gated", "collab">>,
   gated_collab_view |-> <<"gated", "collab", "view">>,
   gated_parent |-> <<"gated", "parent">>, gated_root |-> <<"gated", "root">>,
   gated_token |-> <<"gated", "token">>,
   gated_token_check |-> <<"gated", "token", "check">>,
   guarded_browse |-> <<"guarded", "browse">>, guarded_viewer |-> <<"guarded", "viewer">>,
   has_token |-> <<"has", "token">>, hours_check |-> <<"hours", "check">>,
   hours_keeper |-> <<"hours", "keeper">>, inherited_collab |-> <<"inherited", "collab">>,
   line_item |-> <<"line", "item">>, matrix_check |-> <<"matrix", "check">>,
   matrix_check_perm |-> <<"matrix", "check", "perm">>,
   matrix_viewer |-> <<"matrix", "viewer">>, max_uses |-> <<"max", "uses">>,
   min_required |-> <<"min", "required">>, min_score |-> <<"min", "score">>,
   min_version |-> <<"min", "version">>, mixed_all |-> <<"mixed", "all">>,
   mixed_browse |-> <<"mixed", "browse">>, mixed_view |-> <<"mixed", "view">>,
   multi_check |-> <<"multi", "check">>, multi_temporal |-> <<"multi", "temporal">>,
   multi_temporal_check |-> <<"multi", "temporal", "check">>,
   open_hour |-> <<"open", "hour">>, open_month |-> <<"open", "month">>,
   parent_for_self |-> <<"parent", "for", "self">>,
   public_browse |-> <<"public", "browse">>, public_gated |-> <<"public", "gated">>,
   public_gated_check |-> <<"public", "gated", "check">>,
   public_until |-> <<"public", "until">>, quota_check |-> <<"quota", "check">>,
   rate_check |-> <<"rate", "check">>, rate_limited |-> <<"rate", "limited">>,
   region_match |-> <<"region", "match">>, regional_owner |-> <<"regional", "owner">>,
   regional_write |-> <<"regional", "write">>,
   requested_action |-> <<"requested", "action">>, score_check |-> <<"score", "check">>,
   scored_minus_token |-> <<"scored", "minus", "token">>,
   scored_viewer |-> <<"scored", "viewer">>, shared_cav |-> <<"shared", "cav">>,
   shared_cav_check |-> <<"shared", "cav", "check">>,
   subnet_check |-> <<"subnet", "check">>, subnet_viewer |-> <<"subnet", "viewer">>,
   temp_collab |-> <<"temp", "collab">>, temp_collab_view |-> <<"temp", "collab", "view">>,
   tenant_match |-> <<"tenant", "match">>, tenanted_browse |-> <<"tenanted", "browse">>,
   tenanted_user |-> <<"tenanted", "user">>, tenanted_viewer |-> <<"tenanted", "viewer">>,
   token_check |-> <<"token", "check">>, token_viewer |-> <<"token", "viewer">>,
   version_check |-> <<"version", "check">>,
   version_check_perm |-> <<"version", "check", "perm">>,
   versioned_viewer |-> <<"versioned", "viewer">>,
   via_gated_root |-> <<"via", "gated", "root">>, windowed_user |-> <<"windowed", "user">>,
   within_hours |-> <<"within", "hours">>, within_months |-> <<"within", "months">>,
   within_quota |-> <<"within", "quota">>, within_window |-> <<"within", "window">>,
   within_window_d |-> <<"within", "window", "d">>]

Names == << "account", "act", "actor", "admin", "all_parent", "all_via", "allowed_actions",
   "ancestor_or_self", "any_parent", "any_via", "app", "article", "author", "author_only",
   "before_deadline", "belongs_brand", "belongs_company", "booking", "bookingsvc", "brand",
   "browse", "change_owner", "client_ip", "close_hour", "close_month", "collab",
   "collab_view", "collaborate", "collaborator", "company", "create_booking",
   "create_order", "creator", "current", "current_hour", "current_month", "customer",
   "days", "deadline", "deadline_check", "deadline_viewer", "direct_member", "doc",
   "document", "dup_typed", "dup_typed_check", "duration_check", "duration_viewer", "edit",
   "editor", "elite_access", "employee", "expiring_browse", "expiring_viewer", "extsvc",
   "folder", "from_subnet", "gated_all_via", "gated_collab", "gated_collab_view",
   "gated_parent", "gated_root", "gated_token", "gated_token_check", "group",
   "guarded_browse", "guarded_viewer", "guest", "has_token", "holder", "hours",
   "hours_check", "hours_keeper", "inherited_collab", "items", "join", "line_item",
   "manage", "manager", "map", "matrix_check", "matrix_check_perm", "matrix_viewer",
   "max_uses", "member", "menusvc", "min_required", "min_score", "min_version", "mixed_all",
   "mixed_browse", "mixed_view", "multi_check", "multi_temporal", "multi_temporal_check",
   "note", "opa", "open_hour", "open_month", "order", "other", "owner", "parent",
   "parent_for_self", "pricelist", "product", "public_browse", "public_gated",
   "public_gated_check", "public_until", "quota_check", "rate_check", "rate_limited",
   "reader", "region", "region_match", "regional_owner", "regional_write",
   "requested_action", "role", "room", "rows", "score_check", "scored_minus_token",
   "scored_viewer", "see", "setting", "shared_cav", "shared_cav_check", "subnet_check",
   "subnet_viewer", "table", "team", "temp", "temp_collab", "temp_collab_view", "tenant",
   "tenant_match", "tenanted_browse", "tenanted_user", "tenanted_viewer", "token",
   "token_check", "token_viewer", "use", "user", "version_check", "version_check_perm",
   "versioned_viewer", "via_gated_root", "view", "viewer", "window", "windowed_user",
   "within_hours", "within_months", "within_quota", "within_window", "within_window_d",
   "write" >>

AllWords == Compounds @@ [n \in ToSet(Names) |-> <<n>>]

\* TLC keeps the values of Names and AllWords, not those of the constants.
MCWords    == AllWords
MCAlphabet == Names
=============================================================================
