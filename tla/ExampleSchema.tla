--------------------------- MODULE ExampleSchema ---------------------------
(***************************************************************************)
(* example/schema.zed: the schema the checked-in clients are generated     *)
(* from, caveat by caveat and definition by definition.                    *)
(***************************************************************************)
EXTENDS SchemaForms, TLC

Booking(name) == <<"bookingsvc", name>>
Menu(name)    == <<"menusvc", name>>
Ext(name)     == <<"extsvc", name>>

-----------------------------------------------------------------------------
(* Caveats.                                                                *)

RegionMatchParams == << Param("region", <<"string">>) >>
WithinHoursParams == << Param("open_hour", <<"int">>), Param("close_hour", <<"int">>), Param("current_hour", <<"int">>) >>
WithinMonthsParams == << Param("open_month", <<"int">>), Param("close_month", <<"int">>), Param("current_month", <<"int">>) >>
TenantMatchParams == << Param("tenant", <<"string">>) >>
WithinWindowParams == << Param("allowed_actions", <<"list", "string">>), Param("requested_action", <<"string">>) >>
QuotaCheckParams == << Param("within_quota", <<"bool">>), Param("max_uses", <<"int">>) >>
MinScoreParams == << Param("min_required", <<"double">>), Param("current", <<"double">>) >>
HasTokenParams == << Param("token", <<"bytes">>) >>
VersionCheckParams == << Param("min_version", <<"uint">>) >>
MatrixCheckParams == << Param("rows", <<"list", "list", "string">>) >>
WithinWindowDParams == << Param("window", <<"duration">>) >>
BeforeDeadlineParams == << Param("deadline", <<"timestamp">>) >>
FromSubnetParams == << Param("client_ip", <<"ipaddress">>) >>

ExampleCaveats ==
  Booking("region_match") :> RegionMatchParams @@ Menu("within_hours") :> WithinHoursParams
  @@ Menu("within_months") :> WithinMonthsParams @@ Ext("tenant_match") :> TenantMatchParams
  @@ Ext("within_window") :> WithinWindowParams @@ Ext("quota_check") :> QuotaCheckParams
  @@ Ext("min_score") :> MinScoreParams @@ Ext("has_token") :> HasTokenParams
  @@ Ext("version_check") :> VersionCheckParams @@ Ext("matrix_check") :> MatrixCheckParams
  @@ Ext("within_window_d") :> WithinWindowDParams @@ Ext("before_deadline") :> BeforeDeadlineParams
  @@ Ext("from_subnet") :> FromSubnetParams

-----------------------------------------------------------------------------
(* Definitions.                                                            *)

BookingBooking ==
  Definition(Booking("booking"),
    << Rel("owner", << OneOf(Booking("employee")) >>),
       Rel("creator", << OneOf(Booking("employee")), OneOf(Booking("customer")) >>),
       Rel("regional_owner", << If(OneOf(Booking("employee")), Booking("region_match")) >>) >>,
    << Perm("write", << Ident("creator"), Ident("owner"), Arrow("owner", "manage"), Arrow("creator", "manage") >>),
       Perm("change_owner", << Ident("creator"), Arrow("creator", "manage") >>),
       Perm("regional_write", << Ident("regional_owner") >>) >>)

BookingBrand ==
  Definition(Booking("brand"),
    << Rel("admin", << OneOf(Booking("user")) >>),
       Rel("manager", << OneOf(Booking("employee")) >>),
       Rel("employee", << OneOf(Booking("employee")) >>) >>,
    << Perm("manage", << Ident("manager"), Ident("admin") >>),
       Perm("create_booking", << Ident("manage"), Ident("employee") >>) >>)

BookingCustomer ==
  Definition(Booking("customer"), <<>>, <<>>)

BookingEmployee ==
  Definition(Booking("employee"),
    << Rel("account", << OneOf(Booking("user")) >>),
       Rel("belongs_brand", << OneOf(Booking("brand")) >>),
       Rel("viewer", << Everyone(Booking("user")) >>) >>,
    << Perm("manage", << Ident("account"), Arrow("belongs_brand", "manage") >>),
       Perm("view", << Ident("manage"), Ident("viewer") >>) >>)

BookingUser ==
  Definition(Booking("user"), <<>>, <<>>)

MenuBooking ==
  Definition(Menu("booking"),
    << Rel("owner", << OneOf(Menu("company")) >>),
       Rel("creator", << OneOf(Menu("user")), OneOf(Menu("customer")) >>),
       Rel("hours_keeper", << If(OneOf(Menu("user")), Menu("within_hours")) >>),
       Rel("multi_temporal", << If(OneOf(Menu("user")), Menu("within_hours")), If(OneOf(Menu("customer")), Menu("within_months")) >>),
       Rel("shared_cav", << If(OneOf(Menu("user")), Menu("within_hours")), If(OneOf(Menu("customer")), Menu("within_hours")) >>),
       Rel("dup_typed", << If(OneOf(Menu("user")), Menu("within_hours")), If(OneOf(Menu("user")), Menu("within_months")) >>) >>,
    << Perm("write", << Ident("creator"), Arrow("creator", "manage"), Arrow("owner", "manage") >>),
       Perm("hours_check", << Ident("hours_keeper") >>),
       Perm("multi_temporal_check", << Ident("multi_temporal") >>),
       Perm("shared_cav_check", << Ident("shared_cav") >>),
       Perm("dup_typed_check", << Ident("dup_typed") >>) >>)

MenuUser ==
  Definition(Menu("user"),
    << Rel("belongs_company", << OneOf(Menu("company")) >>) >>,
    << Perm("manage", << Arrow("belongs_company", "manage") >>) >>)

MenuCompany ==
  Definition(Menu("company"),
    << Rel("admin", << OneOf(Menu("user")) >>),
       Rel("manager", << OneOf(Menu("user")) >>),
       Rel("employee", << OneOf(Menu("user")) >>) >>,
    << Perm("manage", << Ident("admin"), Ident("manager") >>),
       Perm("create_booking", << Ident("manage"), Ident("employee") >>),
       Perm("create_order", << Ident("manage"), Ident("employee") >>) >>)

MenuOrder ==
  Definition(Menu("order"),
    << Rel("creator", << OneOf(Menu("user")), OneOf(Menu("customer")) >>),
       Rel("belongs_company", << OneOf(Menu("company")) >>) >>,
    << Perm("write", << Ident("creator"), Arrow("creator", "manage"), Arrow("belongs_company", "manage") >>) >>)

MenuTable ==
  Definition(Menu("table"),
    << Rel("owner", << OneOf(Menu("company")) >>) >>,
    << Perm("write", << Arrow("owner", "manage") >>) >>)

MenuCustomer ==
  Definition(Menu("customer"), <<>>, <<>>)

MenuPricelist ==
  Definition(Menu("pricelist"),
    << Rel("owner", << OneOf(Menu("company")) >>) >>,
    << Perm("write", << Arrow("owner", "manage") >>) >>)

MenuProduct ==
  Definition(Menu("product"), <<>>, <<>>)

MenuSetting ==
  Definition(Menu("setting"),
    << Rel("owner", << OneOf(Menu("company")) >>) >>,
    << Perm("write", << Arrow("owner", "manage") >>) >>)

ExtUser ==
  Definition(Ext("user"), <<>>, <<>>)

ExtGroup ==
  Definition(Ext("group"), <<>>, <<>>)

ExtRole ==
  Definition(Ext("role"), <<>>, <<>>)

ExtTeam ==
  Definition(Ext("team"),
    << Rel("owner", << OneOf(Ext("user")) >>),
       Rel("manager", << OneOf(Ext("user")) >>) >>,
    << Perm("admin", << Ident("owner"), Ident("manager") >>) >>)

ExtFolder ==
  Definition(Ext("folder"),
    << Rel("viewer", << OneOf(Ext("user")), OneOf(Ext("group")), OneOf(Ext("role")) >>),
       Rel("guest", << Everyone(Ext("user")) >>),
       Rel("tenanted_viewer", << If(OneOf(Ext("user")), Ext("tenant_match")) >>),
       Rel("guarded_viewer", << If(Everyone(Ext("user")), Ext("tenant_match")) >>),
       Rel("actor", << If(OneOf(Ext("user")), Ext("within_window")) >>),
       Rel("collaborator", << If(OneOf(Ext("user")), Ext("within_window")), OneOf(Ext("group")) >>),
       Rel("rate_limited", << If(OneOf(Ext("user")), Ext("quota_check")) >>),
       Rel("scored_viewer", << If(OneOf(Ext("user")), Ext("min_score")) >>),
       Rel("token_viewer", << If(OneOf(Ext("user")), Ext("has_token")) >>),
       Rel("versioned_viewer", << If(OneOf(Ext("user")), Ext("version_check")) >>),
       Rel("matrix_viewer", << If(OneOf(Ext("user")), Ext("matrix_check")) >>),
       Rel("duration_viewer", << If(OneOf(Ext("user")), Ext("within_window_d")) >>),
       Rel("deadline_viewer", << If(OneOf(Ext("user")), Ext("before_deadline")) >>),
       Rel("subnet_viewer", << If(OneOf(Ext("user")), Ext("from_subnet")) >>),
       Rel("tenanted_user", << If(OneOf(Ext("user")), Ext("tenant_match")) >>),
       Rel("windowed_user", << If(OneOf(Ext("user")), Ext("within_window")) >>),
       Rel("gated_root", << If(OneOf(Ext("folder")), Ext("tenant_match")) >>),
       Rel("expiring_viewer", << Until(OneOf(Ext("user"))) >>),
       Rel("gated_token", << Until(If(OneOf(Ext("user")), Ext("tenant_match"))) >>),
       Rel("public_until", << Until(Everyone(Ext("user"))) >>),
       Rel("public_gated", << Until(If(Everyone(Ext("user")), Ext("tenant_match"))) >>),
       Rel("collab", << MembersOf(Ext("team"), "admin") >>),
       Rel("mixed_view", << OneOf(Ext("user")), MembersOf(Ext("team"), "admin") >>),
       Rel("gated_collab", << If(MembersOf(Ext("team"), "admin"), Ext("tenant_match")) >>),
       Rel("temp_collab", << Until(MembersOf(Ext("team"), "admin")) >>),
       Rel("any_parent", << OneOf(Ext("folder")) >>),
       Rel("all_parent", << OneOf(Ext("folder")) >>),
       Rel("gated_parent", << If(OneOf(Ext("folder")), Ext("tenant_match")) >>),
       Rel("direct_member", << OneOf(Ext("user")) >>),
       Rel("parent_for_self", << OneOf(Ext("folder")) >>) >>,
    << Perm("browse", << Ident("viewer") >>),
       Perm("tenanted_browse", << Ident("tenanted_viewer") >>),
       Perm("guarded_browse", << Ident("guarded_viewer") >>),
       Perm("act", << Ident("actor") >>),
       Perm("collaborate", << Ident("collaborator") >>),
       Perm("rate_check", << Ident("rate_limited") >>),
       Perm("score_check", << Ident("scored_viewer") >>),
       Perm("token_check", << Ident("token_viewer") >>),
       Perm("version_check_perm", << Ident("versioned_viewer") >>),
       Perm("matrix_check_perm", << Ident("matrix_viewer") >>),
       Perm("duration_check", << Ident("duration_viewer") >>),
       Perm("deadline_check", << Ident("deadline_viewer") >>),
       Perm("subnet_check", << Ident("subnet_viewer") >>),
       Perm("multi_check", << Ident("tenanted_user"), Ident("windowed_user") >>),
       Perm("via_gated_root", << Arrow("gated_root", "browse") >>),
       Perm("elite_access", << Ident("scored_viewer"), Ident("token_viewer") >>),
       Perm("scored_minus_token", << Ident("scored_viewer"), Ident("token_viewer") >>),
       Perm("expiring_browse", << Ident("expiring_viewer") >>),
       Perm("gated_token_check", << Ident("gated_token") >>),
       Perm("public_browse", << Ident("public_until") >>),
       Perm("public_gated_check", << Ident("public_gated") >>),
       Perm("collab_view", << Ident("collab") >>),
       Perm("mixed_browse", << Ident("mixed_view") >>),
       Perm("gated_collab_view", << Ident("gated_collab") >>),
       Perm("temp_collab_view", << Ident("temp_collab") >>),
       Perm("any_via", << Functioned("any_parent", "browse") >>),
       Perm("all_via", << Functioned("all_parent", "browse") >>),
       Perm("gated_all_via", << Functioned("gated_parent", "browse") >>),
       Perm("mixed_all", << Ident("direct_member"), Functioned("all_parent", "browse") >>),
       Perm("ancestor_or_self", << Self, Arrow("parent_for_self", "ancestor_or_self") >>) >>)

ExtDocument ==
  Definition(Ext("document"),
    << Rel("parent", << OneOf(Ext("folder")) >>),
       Rel("owner", << OneOf(Ext("user")), OneOf(Ext("group")) >>) >>,
    << Perm("view", << Arrow("parent", "browse") >>),
       Perm("edit", << Ident("owner"), Arrow("parent", "browse") >>),
       Perm("admin", << Ident("view"), Ident("edit") >>),
       Perm("inherited_collab", << Arrow("parent", "mixed_browse") >>) >>)

ExtArticle ==
  Definition(Ext("article"),
    << Rel("author", << OneOf(Ext("user")) >>),
       Rel("parent", << OneOf(Ext("folder")) >>) >>,
    << Perm("editor", << Ident("author"), Arrow("parent", "browse") >>),
       Perm("author_only", << Ident("author"), Arrow("parent", "browse") >>) >>)

ExampleSchema ==
  [caveats |-> ExampleCaveats,
   defs |-> << BookingBooking, BookingBrand, BookingCustomer, BookingEmployee, BookingUser,
             MenuBooking, MenuUser, MenuCompany, MenuOrder, MenuTable, MenuCustomer,
             MenuPricelist, MenuProduct, MenuSetting, ExtUser, ExtGroup, ExtRole, ExtTeam,
             ExtFolder, ExtDocument, ExtArticle >>]
=============================================================================
