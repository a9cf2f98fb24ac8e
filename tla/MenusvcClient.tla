--------------------------- MODULE MenusvcClient ---------------------------
(***************************************************************************)
(* example/authzed/menusvc:                                                *)
(* the client that is checked in for the menusvc package                   *)
(* of example/schema.zed, read method by method.                           *)
(***************************************************************************)
EXTENDS ClientForms

Booking == <<"booking">>
Company == <<"company">>
Customer == <<"customer">>
Order == <<"order">>
Pricelist == <<"pricelist">>
Product == <<"product">>
Setting == <<"setting">>
Table == <<"table">>
User == <<"user">>

(* Caveats, as the methods name them. *)
WithinHours == <<"menusvc", "within_hours">>
WithinMonths == <<"menusvc", "within_months">>

-----------------------------------------------------------------------------
(* booking.gen.go *)
BookingOwner == Relation("owner", << Ids(Company) >>, << <<Company, FALSE>> >>)
BookingCreator ==
  Relation("creator", << Ids(User), Ids(Customer) >>,
           << <<User, FALSE>>, <<Customer, FALSE>> >>)
BookingHoursKeeper ==
  Relation("hours_keeper", << Caveated(User, WithinHours) >>,
           << <<User, FALSE>> >>)
BookingMultiTemporal ==
  Relation("multi_temporal", << Caveated(User, WithinHours), Caveated(Customer, WithinMonths) >>,
           << <<User, FALSE>>, <<Customer, FALSE>> >>)
BookingSharedCav ==
  Relation("shared_cav", << Caveated(User, WithinHours), Caveated(Customer, WithinHours) >>,
           << <<User, FALSE>>, <<Customer, FALSE>> >>)
BookingDupTyped ==
  Relation("dup_typed", << Apart(Caveated(User, WithinHours), <<"user", "within", "hours">>), Apart(Caveated(User, WithinMonths), <<"user", "within", "months">>) >>,
           << <<User, FALSE>> >>)
WithinHoursArgs == [name |-> <<"within", "hours">>, params |-> << <<"close_hour", <<"*", "int">>>>, <<"current_hour", <<"*", "int">>>>, <<"open_hour", <<"*", "int">>>> >>]
WithinMonthsArgs == [name |-> <<"within", "months">>, params |-> << <<"close_month", <<"*", "int">>>>, <<"current_month", <<"*", "int">>>>, <<"open_month", <<"*", "int">>>> >>]
BookingWrite == Check("write", << User, Customer >>)
BookingHoursCheck == CheckWith("hours_check", << User >>, <<>>, << <<"within", "hours">> >>)
BookingMultiTemporalCheck ==
  CheckWith("multi_temporal_check", << User, Customer >>, <<>>, << <<"within", "hours">>, <<"within", "months">> >>)
BookingSharedCavCheck ==
  CheckWith("shared_cav_check", << User, Customer >>, <<>>, << <<"within", "hours">> >>)
BookingDupTypedCheck ==
  CheckWith("dup_typed_check", << User >>, <<>>, << <<"within", "hours">>, <<"within", "months">> >>)
BookingFile ==
  [kind |-> "object", name |-> <<"menusvc", "booking">>, type |-> Booking, purges |-> <<>>,
   args |-> << WithinHoursArgs, WithinMonthsArgs >>,
   rels |-> << BookingOwner, BookingCreator, BookingHoursKeeper, BookingMultiTemporal,
                BookingSharedCav, BookingDupTyped >>,
   checks |-> << BookingWrite, BookingHoursCheck, BookingMultiTemporalCheck,
                BookingSharedCavCheck, BookingDupTypedCheck >>]

-----------------------------------------------------------------------------
(* company.gen.go *)
CompanyAdmin == Relation("admin", << Ids(User) >>, << <<User, FALSE>> >>)
CompanyManager == Relation("manager", << Ids(User) >>, << <<User, FALSE>> >>)
CompanyEmployee == Relation("employee", << Ids(User) >>, << <<User, FALSE>> >>)
CompanyManage == Check("manage", << User >>)
CompanyCreateBooking == Check("create_booking", << User >>)
CompanyCreateOrder == Check("create_order", << User >>)
CompanyPurges == << <<"menusvc", "booking">>, <<"menusvc", "order">>,
     <<"menusvc", "pricelist">>, <<"menusvc", "setting">>, <<"menusvc", "table">>,
     <<"menusvc", "user">> >>
CompanyFile ==
  [kind |-> "object", name |-> <<"menusvc", "company">>, type |-> Company, purges |-> CompanyPurges,
   args |-> <<>>,
   rels |-> << CompanyAdmin, CompanyManager, CompanyEmployee >>,
   checks |-> << CompanyManage, CompanyCreateBooking, CompanyCreateOrder >>]

-----------------------------------------------------------------------------
(* customer.gen.go *)
CustomerPurges == << <<"menusvc", "booking">>, <<"menusvc", "order">> >>
CustomerFile ==
  [kind |-> "object", name |-> <<"menusvc", "customer">>, type |-> Customer, purges |-> CustomerPurges,
   args |-> <<>>,
   rels |-> <<>>,
   checks |-> <<>>]

-----------------------------------------------------------------------------
(* order.gen.go *)
OrderCreator ==
  Relation("creator", << Ids(User), Ids(Customer) >>,
           << <<User, FALSE>>, <<Customer, FALSE>> >>)
OrderBelongsCompany == Relation("belongs_company", << Ids(Company) >>, << <<Company, FALSE>> >>)
OrderWrite == Check("write", << User, Customer >>)
OrderFile ==
  [kind |-> "object", name |-> <<"menusvc", "order">>, type |-> Order, purges |-> <<>>,
   args |-> <<>>,
   rels |-> << OrderCreator, OrderBelongsCompany >>,
   checks |-> << OrderWrite >>]

-----------------------------------------------------------------------------
(* pricelist.gen.go *)
PricelistOwner == Relation("owner", << Ids(Company) >>, << <<Company, FALSE>> >>)
PricelistWrite == Check("write", << User >>)
PricelistFile ==
  [kind |-> "object", name |-> <<"menusvc", "pricelist">>, type |-> Pricelist, purges |-> <<>>,
   args |-> <<>>,
   rels |-> << PricelistOwner >>,
   checks |-> << PricelistWrite >>]

-----------------------------------------------------------------------------
(* product.gen.go *)
ProductFile ==
  [kind |-> "object", name |-> <<"menusvc", "product">>, type |-> Product, purges |-> <<>>,
   args |-> <<>>,
   rels |-> <<>>,
   checks |-> <<>>]

-----------------------------------------------------------------------------
(* setting.gen.go *)
SettingOwner == Relation("owner", << Ids(Company) >>, << <<Company, FALSE>> >>)
SettingWrite == Check("write", << User >>)
SettingFile ==
  [kind |-> "object", name |-> <<"menusvc", "setting">>, type |-> Setting, purges |-> <<>>,
   args |-> <<>>,
   rels |-> << SettingOwner >>,
   checks |-> << SettingWrite >>]

-----------------------------------------------------------------------------
(* table.gen.go *)
TableOwner == Relation("owner", << Ids(Company) >>, << <<Company, FALSE>> >>)
TableWrite == Check("write", << User >>)
TableFile ==
  [kind |-> "object", name |-> <<"menusvc", "table">>, type |-> Table, purges |-> <<>>,
   args |-> <<>>,
   rels |-> << TableOwner >>,
   checks |-> << TableWrite >>]

-----------------------------------------------------------------------------
(* user.gen.go *)
UserBelongsCompany == Relation("belongs_company", << Ids(Company) >>, << <<Company, FALSE>> >>)
UserManage == Check("manage", << User >>)
UserPurges == << <<"menusvc", "booking">>, <<"menusvc", "company">>, <<"menusvc", "order">> >>
UserFile ==
  [kind |-> "object", name |-> <<"menusvc", "user">>, type |-> User, purges |-> UserPurges,
   args |-> <<>>,
   rels |-> << UserBelongsCompany >>,
   checks |-> << UserManage >>]

-----------------------------------------------------------------------------
(* opa.gen.go *)
BookingOptions ==
  Builtins(<<"menusvc", "booking">>, << "dup_typed_check", "hours_check",
       "multi_temporal_check", "shared_cav_check", "write" >>)
CompanyOptions ==
  Builtins(<<"menusvc", "company">>, << "create_booking", "create_order", "manage" >>)
OrderOptions == Builtins(<<"menusvc", "order">>, << "write" >>)
PricelistOptions == Builtins(<<"menusvc", "pricelist">>, << "write" >>)
SettingOptions == Builtins(<<"menusvc", "setting">>, << "write" >>)
TableOptions == Builtins(<<"menusvc", "table">>, << "write" >>)
UserOptions == Builtins(<<"menusvc", "user">>, << "manage" >>)
BookingGlobals ==
  Builtins(<<"menusvc", "booking">>, << "dup_typed_check", "hours_check",
       "multi_temporal_check", "shared_cav_check", "write" >>)
CompanyGlobals ==
  Builtins(<<"menusvc", "company">>, << "create_booking", "create_order", "manage" >>)
OrderGlobals == Builtins(<<"menusvc", "order">>, << "write" >>)
PricelistGlobals == Builtins(<<"menusvc", "pricelist">>, << "write" >>)
SettingGlobals == Builtins(<<"menusvc", "setting">>, << "write" >>)
TableGlobals == Builtins(<<"menusvc", "table">>, << "write" >>)
UserGlobals == Builtins(<<"menusvc", "user">>, << "manage" >>)
OPAFile ==
  [kind |-> "opa",
   options |-> FlattenSeq( << BookingOptions, CompanyOptions, OrderOptions,
                       PricelistOptions, SettingOptions, TableOptions, UserOptions >>),
   globals |-> FlattenSeq( << BookingGlobals, CompanyGlobals, OrderGlobals,
                       PricelistGlobals, SettingGlobals, TableGlobals, UserGlobals >>)]

-----------------------------------------------------------------------------
Files ==
  { File(<<"menusvc", "booking">>, BookingFile),
    File(<<"menusvc", "company">>, CompanyFile),
    File(<<"menusvc", "customer">>, CustomerFile),
    File(<<"menusvc", "order">>, OrderFile),
    File(<<"menusvc", "pricelist">>, PricelistFile),
    File(<<"menusvc", "product">>, ProductFile),
    File(<<"menusvc", "setting">>, SettingFile),
    File(<<"menusvc", "table">>, TableFile),
    File(<<"menusvc", "user">>, UserFile),
    File(<<"menusvc", "opa">>, OPAFile) }
=============================================================================
