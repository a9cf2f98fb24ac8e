----------------------------- MODULE MCQueries -----------------------------
(* permission view on definition doc, with input types employee and customer  *)
(* in the order of the permission tree, and the usersets team#member and      *)
(* employee#deputy.  The relation read is employee:* with office |             *)
(* employee with office | employee with tenant | employee#deputy | customer |  *)
(* team#member.                                                                *)
EXTENDS Queries, TLC

TreeOrder   == <<"employee", "customer">>
SortedOrder == <<"customer", "employee">>
UsersetFields == <<"team#member", "employee#deputy">>

SubjectType ==
  [employee |-> "employee", customer |-> "customer"]
    @@ "team#member" :> "team" @@ "employee#deputy" :> "employee"

Entry(slot, star) == [slot |-> slot, star |-> star]
Viewers ==
  <<Entry("employee", TRUE), Entry("employee", FALSE), Entry("employee", FALSE),
    Entry("employee#deputy", FALSE), Entry("customer", FALSE), Entry("team#member", FALSE)>>

\* What two employees, every employee ("*"), a customer, a team and the deputies
\* of an employee, who have what the customer has, have on d1;
\* on d2 the first employee has a caveated grant and the customer a plain one.
Store(e, f, all, c, t) ==
  [s \in Slots |-> [i \in IDs |-> [d \in Resources |->
     IF d = "d1"
     THEN CASE s = "employee" /\ i = "1" -> e   [] s = "employee" /\ i = "2" -> f
            [] s = "employee" /\ i = "*" -> all [] s = "customer" /\ i = "1" -> c
            [] s = "employee#deputy" /\ i = "1" -> c
            [] s = "team#member" /\ i = "1" -> t [] OTHER -> "no"
     ELSE CASE s = "employee" /\ i = "1" -> "cond" [] s = "customer" /\ i = "1" -> "has"
            [] OTHER -> "no"]]]

YesNo == {"no", "has"}

\* Every choice for the employees; the customer has what the second employee
\* has, and the team has the permission where "*" does not.
SmallStores ==
  {Store(e, f, all, f, IF all = "no" THEN "has" ELSE "no") : e, all \in Perms, f \in YesNo}

Call(op, ctx, full, input) ==
  [op |-> op, on |-> "d1", ctx |-> ctx, full |-> full, input |-> input]

None       == <<>>
Employee   == "employee" :> {"1"}
Employees  == "employee" :> {"1", "2"}
NoEmployee == "employee" :> {}
Customer   == "customer" :> {"1"}
Team       == "team#member" :> {"1"}

\* The methods for one subject type.
OfCustomer == "customer" :> {}
OfTeam     == "team#member" :> {}

TypedInputs == {None, Employees, Employee @@ Customer, Customer @@ Team, Team}
OPAInputs   == {None, NoEmployee, Employees, Employee @@ Customer, NoEmployee @@ Customer}

\* Caveat context sent, and whether ctx carries ConsistencyFullyConsistent.
Ways == {<<"none", FALSE>>, <<"none", TRUE>>, <<"right", FALSE>>, <<"wrong", TRUE>>}

SmallCalls ==
  {Call(op, w[1], w[2], in) : op \in {"Check", "Lookup"}, w \in Ways, in \in TypedInputs}
  \cup {Call(op, w[1], w[2], in) :
          op \in {"OPACheck", "OPALookup"}, w \in Ways, in \in OPAInputs}
  \cup {Call("LookupSubjects", w[1], w[2], NoEmployee) : w \in Ways}
  \cup {Call(op, "none", full, NoEmployee) :
          op \in {"WildcardSubjects", "Read", "ReadWildcard"}, full \in BOOLEAN}
  \cup {Call("Read", "none", FALSE, type) : type \in {OfCustomer, OfTeam}}
=============================================================================
