------------------------- MODULE BookingsvcClient -------------------------
(***************************************************************************)
(* example/authzed/bookingsvc:                                             *)
(* the client that is checked in for the bookingsvc package                *)
(* of example/schema.zed, read method by method.                           *)
(***************************************************************************)
EXTENDS ClientForms

Booking == <<"booking">>
Brand == <<"brand">>
Customer == <<"customer">>
Employee == <<"employee">>
User == <<"user">>

(* Caveats, as the methods name them. *)
RegionMatch == <<"bookingsvc", "region_match">>

-----------------------------------------------------------------------------
(* booking.gen.go *)
BookingOwner == Relation("owner", << Ids(Employee) >>, << <<Employee, FALSE>> >>)
BookingCreator ==
  Relation("creator", << Ids(Employee), Ids(Customer) >>,
           << <<Employee, FALSE>>, <<Customer, FALSE>> >>)
BookingRegionalOwner ==
  Relation("regional_owner", << Caveated(Employee, RegionMatch) >>,
           << <<Employee, FALSE>> >>)
RegionMatchArgs == [name |-> <<"region", "match">>, params |-> << <<"region", <<"*", "string">>>> >>]
BookingWrite == Check("write", << Employee, Customer, User >>)
BookingChangeOwner == Check("change_owner", << Employee, Customer, User >>)
BookingRegionalWrite ==
  CheckWith("regional_write", << Employee >>, <<>>, << <<"region", "match">> >>)
BookingFile ==
  [kind |-> "object", name |-> <<"bookingsvc", "booking">>, type |-> Booking, purges |-> <<>>,
   args |-> << RegionMatchArgs >>,
   rels |-> << BookingOwner, BookingCreator, BookingRegionalOwner >>,
   checks |-> << BookingWrite, BookingChangeOwner, BookingRegionalWrite >>]

-----------------------------------------------------------------------------
(* brand.gen.go *)
BrandAdmin == Relation("admin", << Ids(User) >>, << <<User, FALSE>> >>)
BrandManager == Relation("manager", << Ids(Employee) >>, << <<Employee, FALSE>> >>)
BrandEmployee == Relation("employee", << Ids(Employee) >>, << <<Employee, FALSE>> >>)
BrandManage == Check("manage", << Employee, User >>)
BrandCreateBooking == Check("create_booking", << Employee, User >>)
BrandPurges == << <<"bookingsvc", "employee">> >>
BrandFile ==
  [kind |-> "object", name |-> <<"bookingsvc", "brand">>, type |-> Brand, purges |-> BrandPurges,
   args |-> <<>>,
   rels |-> << BrandAdmin, BrandManager, BrandEmployee >>,
   checks |-> << BrandManage, BrandCreateBooking >>]

-----------------------------------------------------------------------------
(* customer.gen.go *)
CustomerPurges == << <<"bookingsvc", "booking">> >>
CustomerFile ==
  [kind |-> "object", name |-> <<"bookingsvc", "customer">>, type |-> Customer, purges |-> CustomerPurges,
   args |-> <<>>,
   rels |-> <<>>,
   checks |-> <<>>]

-----------------------------------------------------------------------------
(* employee.gen.go *)
EmployeeAccount == Relation("account", << Ids(User) >>, << <<User, FALSE>> >>)
EmployeeBelongsBrand == Relation("belongs_brand", << Ids(Brand) >>, << <<Brand, FALSE>> >>)
EmployeeViewer == Relation("viewer", << Ids(User), Public(Ids(User)) >>, << <<User, TRUE>> >>)
EmployeeManage == Check("manage", << User, Employee >>)
EmployeeView == Check("view", << User, Employee >>)
EmployeePurges == << <<"bookingsvc", "booking">>, <<"bookingsvc", "brand">> >>
EmployeeFile ==
  [kind |-> "object", name |-> <<"bookingsvc", "employee">>, type |-> Employee, purges |-> EmployeePurges,
   args |-> <<>>,
   rels |-> << EmployeeAccount, EmployeeBelongsBrand, EmployeeViewer >>,
   checks |-> << EmployeeManage, EmployeeView >>]

-----------------------------------------------------------------------------
(* user.gen.go *)
UserPurges == << <<"bookingsvc", "brand">>, <<"bookingsvc", "employee">> >>
UserFile ==
  [kind |-> "object", name |-> <<"bookingsvc", "user">>, type |-> User, purges |-> UserPurges,
   args |-> <<>>,
   rels |-> <<>>,
   checks |-> <<>>]

-----------------------------------------------------------------------------
(* opa.gen.go *)
BookingOptions ==
  Builtins(<<"bookingsvc", "booking">>, << "change_owner", "regional_write", "write" >>)
BrandOptions == Builtins(<<"bookingsvc", "brand">>, << "create_booking", "manage" >>)
EmployeeOptions == Builtins(<<"bookingsvc", "employee">>, << "manage", "view" >>)
BookingGlobals ==
  Builtins(<<"bookingsvc", "booking">>, << "change_owner", "regional_write", "write" >>)
BrandGlobals == Builtins(<<"bookingsvc", "brand">>, << "create_booking", "manage" >>)
EmployeeGlobals == Builtins(<<"bookingsvc", "employee">>, << "manage", "view" >>)
OPAFile ==
  [kind |-> "opa",
   options |-> FlattenSeq( << BookingOptions, BrandOptions, EmployeeOptions >>),
   globals |-> FlattenSeq( << BookingGlobals, BrandGlobals, EmployeeGlobals >>)]

-----------------------------------------------------------------------------
Files ==
  { File(<<"bookingsvc", "booking">>, BookingFile),
    File(<<"bookingsvc", "brand">>, BrandFile),
    File(<<"bookingsvc", "customer">>, CustomerFile),
    File(<<"bookingsvc", "employee">>, EmployeeFile),
    File(<<"bookingsvc", "user">>, UserFile),
    File(<<"bookingsvc", "opa">>, OPAFile) }
=============================================================================
