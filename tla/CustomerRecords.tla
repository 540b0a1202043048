---------------------------- MODULE CustomerRecords ----------------------------
(***************************************************************************)
(* What hangs on a customer: the vehicles and the saved addresses.         *)
(* CustomerService registers and deletes customers and their vehicles,     *)
(* CustomerAddressService keeps one of the addresses the default.          *)
(*                                                                         *)
(* Registering inserts the customer with a first vehicle and then, after   *)
(* that statement has committed, the referral voucher; deleting is one     *)
(* transaction.  The other handlers read, check and write in statements of *)
(* their own.                                                              *)
(***************************************************************************)
EXTENDS FiniteSets

CONSTANTS
  Customer,  \* ids of the customer table
  Vehicle,   \* ids of the customer_vehicle table
  Address,   \* ids of the customer_address table
  Label,     \* labels of addresses: Home, Work
  Request,   \* requests in flight at the same time
  None       \* SQL NULL

VARIABLES
  customers,  \* table customer: whether a row is there, and is_deleted
  vehicles,   \* table customer_vehicle: owner and life
  addresses,  \* table customer_address: owner, label, is_default; None for no row
  vouchers,   \* customers with a referral voucher
  contested,  \* history: customers who were deleted while a vehicle was on its way to them,
              \* or with two requests at the same time that each set a default address
  forsaken,   \* history: customers whose default address was deleted or unset, or whose
              \* addresses a request cleared and then failed
  req         \* handler state of every request

vars == <<customers, vehicles, addresses, vouchers, contested, forsaken, req>>

bookVars == <<addresses, forsaken>>

ownVars == <<customers, vehicles, vouchers>>

-----------------------------------------------------------------------------
(* Rows and requests *)

Life == {"absent", "live", "deleted"}

VehicleRow == [owner : Customer \cup {None}, life : Life]

AddressRow == [owner : Customer, label : Label, default : BOOLEAN]

Stage ==
  {"idle", "register", "voucher", "add", "drop", "close",
   "resolve", "clear", "insert", "update", "remove"}

\* default is the is_default of the body, None where an update leaves it out.
Handler ==
  [at : Stage, who : Customer \cup {None}, of : Vehicle \cup Address \cup {None},
   label : Label \cup {None}, default : BOOLEAN \cup {None}]

Idle == [at |-> "idle", who |-> None, of |-> None, label |-> None, default |-> None]

Addresses(c) == {a \in Address : addresses[a] # None /\ addresses[a].owner = c}

Defaults(c) == {a \in Addresses(c) : addresses[a].default}

\* A handler will clear the customer's default, or has cleared it, and sets another.
SetsDefault(h) == h.at \in {"clear", "insert", "update"} /\ h.default = TRUE

\* A handler goes on as h.
Proceed(r, h) ==
  /\ req' = [req EXCEPT ![r] = h]
  /\ contested' =
       IF SetsDefault(h)
          /\ \E q \in Request \ {r} : SetsDefault(req[q]) /\ req[q].who = h.who
       THEN contested \cup {h.who} ELSE contested

\* A handler begins for a customer.
Enter(r, h) == req[r] = Idle /\ Proceed(r, h)

Goto(r, stage) == req' = [req EXCEPT ![r].at = stage] /\ UNCHANGED contested

Finish(r) == req' = [req EXCEPT ![r] = Idle] /\ UNCHANGED contested

-----------------------------------------------------------------------------
(* Customers *)

\* POST /customer/register: no customer has the email or the number.
RegisterBegin(r, c) ==
  /\ customers[c] = "absent"
  /\ Enter(r, [Idle EXCEPT !.at = "register", !.who = c])
  /\ UNCHANGED <<ownVars, bookVars>>

\* INSERT of the customer and the vehicle, in one nested statement.
Register(r, v) ==
  LET c == req[r].who IN
  /\ req[r].at = "register"
  /\ customers[c] = "absent"
  /\ vehicles[v].life = "absent"
  /\ customers' = [customers EXCEPT ![c] = "live"]
  /\ vehicles' = [vehicles EXCEPT ![v] = [owner |-> c, life |-> "live"]]
  /\ Goto(r, "voucher")
  /\ UNCHANGED <<vouchers, bookVars>>

\* generateVoucherAsync, after the commit.
GiveVoucher(r) ==
  /\ req[r].at = "voucher"
  /\ vouchers' = vouchers \cup {req[r].who}
  /\ Finish(r)
  /\ UNCHANGED <<customers, vehicles, bookVars>>

\* A handler that starts with getByIdAsync.
OwnBegin(r, c, stage) ==
  /\ customers[c] = "live"
  /\ Enter(r, [Idle EXCEPT !.at = stage, !.who = c])
  /\ UNCHANGED <<ownVars, bookVars>>

\* POST /customer/vehicle.
AddVehicle(r, v) ==
  /\ req[r].at = "add"
  /\ vehicles[v].life = "absent"
  /\ vehicles' = [vehicles EXCEPT ![v] = [owner |-> req[r].who, life |-> "live"]]
  /\ Finish(r)
  /\ UNCHANGED <<customers, vouchers, bookVars>>

\* DELETE /customer/vehicle/:id: the vehicle is found with its owner.
DropBegin(r, c, v) ==
  /\ vehicles[v] = [owner |-> c, life |-> "live"]
  /\ Enter(r, [Idle EXCEPT !.at = "drop", !.who = c, !.of = v])
  /\ UNCHANGED <<ownVars, bookVars>>

DropVehicle(r) ==
  /\ req[r].at = "drop"
  /\ vehicles' = [vehicles EXCEPT ![req[r].of].life = "deleted"]
  /\ Finish(r)
  /\ UNCHANGED <<customers, vouchers, bookVars>>

\* A vehicle is on its way to the customer, who was found live.
Expects(c) == \E q \in Request : req[q].at = "add" /\ req[q].who = c

\* Mutant of DeleteCustomer: the vehicles are left.
DeleteCustomerOnly(r) ==
  LET c == req[r].who IN
  /\ req[r].at = "close"
  /\ customers' = [customers EXCEPT ![c] = "deleted"]
  /\ req' = [req EXCEPT ![r] = Idle]
  /\ contested' = IF Expects(c) THEN contested \cup {c} ELSE contested
  /\ UNCHANGED <<vehicles, vouchers, bookVars>>

\* DELETE /customer/me: the transaction deletes the customer and its vehicles, and leaves
\* the addresses.
DeleteCustomer(r) ==
  LET c == req[r].who IN
  /\ req[r].at = "close"
  /\ customers' = [customers EXCEPT ![c] = "deleted"]
  /\ vehicles' = [v \in Vehicle |->
       IF vehicles[v].owner = c THEN [vehicles[v] EXCEPT !.life = "deleted"]
       ELSE vehicles[v]]
  /\ req' = [req EXCEPT ![r] = Idle]
  /\ contested' = IF Expects(c) THEN contested \cup {c} ELSE contested
  /\ UNCHANGED <<vouchers, bookVars>>

-----------------------------------------------------------------------------
(* Addresses *)

\* POST /customer-address: the label is new to the customer; the place is resolved next.
\* Whether the customer is deleted is not looked at.
SaveBegin(r, c, label, default) ==
  /\ customers[c] # "absent"
  /\ \A a \in Addresses(c) : addresses[a].label # label
  /\ Enter(r, [Idle EXCEPT
       !.at = "resolve", !.who = c, !.label = label, !.default = default])
  /\ UNCHANGED <<ownVars, bookVars>>

\* Mutant of CountAddresses: a default address is not made room for.
CountAddressesOnly(r) ==
  LET h == req[r] IN
  /\ h.at = "resolve"
  /\ Proceed(r, [h EXCEPT !.at = "insert", !.default = @ \/ Addresses(h.who) = {}])
  /\ UNCHANGED <<ownVars, bookVars>>

\* The place is resolved and the addresses are counted: the first is the default.
CountAddresses(r) ==
  LET h == req[r]
      default == h.default \/ Addresses(h.who) = {} IN
  /\ h.at = "resolve"
  /\ Proceed(r, [h EXCEPT !.at = IF default THEN "clear" ELSE "insert",
                          !.default = default])
  /\ UNCHANGED <<ownVars, bookVars>>

\* clearDefaults, then the statement that follows in the handler.
ClearDefaults(r) ==
  LET h == req[r] IN
  /\ h.at = "clear"
  /\ addresses' = [a \in Address |->
       IF a \in Addresses(h.who) THEN [addresses[a] EXCEPT !.default = FALSE]
       ELSE addresses[a]]
  /\ Goto(r, IF h.of = None THEN "insert" ELSE "update")
  /\ UNCHANGED <<ownVars, forsaken>>

\* An id is not used again: no handler has that of the new row.
InsertAddress(r, a) ==
  LET h == req[r] IN
  /\ h.at = "insert"
  /\ addresses[a] = None
  /\ \A q \in Request : req[q].of # a
  /\ addresses' = [addresses EXCEPT
       ![a] = [owner |-> h.who, label |-> h.label, default |-> h.default]]
  /\ Finish(r)
  /\ UNCHANGED <<ownVars, forsaken>>

\* PUT /customer-address/:id: the address is the customer's.  Whether another one has the
\* label is not looked at.
UpdateBegin(r, c, a, label, default) ==
  /\ a \in Addresses(c)
  /\ Enter(r, [at |-> IF default = TRUE THEN "clear" ELSE "update",
               who |-> c, of |-> a, label |-> label, default |-> default])
  /\ UNCHANGED <<ownVars, bookVars>>

\* UPDATE ... WHERE id: the columns the body names.
UpdateAddress(r) ==
  LET h == req[r]
      default == IF h.default = None THEN addresses[h.of].default ELSE h.default IN
  /\ h.at = "update"
  /\ addresses[h.of] # None
  /\ addresses' = [addresses EXCEPT ![h.of] =
       [owner |-> @.owner, label |-> IF h.label = None THEN @.label ELSE h.label,
        default |-> default]]
  /\ forsaken' = IF addresses[h.of].default /\ ~default
                 THEN forsaken \cup {h.who} ELSE forsaken
  /\ Finish(r)
  /\ UNCHANGED ownVars

\* DELETE /customer-address/:id: the address is the customer's.
RemoveBegin(r, c, a) ==
  /\ a \in Addresses(c)
  /\ Enter(r, [Idle EXCEPT !.at = "remove", !.who = c, !.of = a])
  /\ UNCHANGED <<ownVars, bookVars>>

RemoveAddress(r) ==
  LET h == req[r] IN
  /\ h.at = "remove"
  /\ addresses[h.of] # None
  /\ addresses' = [addresses EXCEPT ![h.of] = None]
  /\ forsaken' = IF addresses[h.of].default THEN forsaken \cup {h.who} ELSE forsaken
  /\ Finish(r)
  /\ UNCHANGED ownVars

\* The maps provider or a statement throws, as for a row that is gone, or the process
\* stops.
Fail(r) ==
  /\ req[r] # Idle
  /\ forsaken' = IF req[r].at \in {"insert", "update"} /\ req[r].default = TRUE
                 THEN forsaken \cup {req[r].who} ELSE forsaken
  /\ Finish(r)
  /\ UNCHANGED <<ownVars, addresses>>

-----------------------------------------------------------------------------

Init ==
  /\ customers = [c \in Customer |-> "absent"]
  /\ vehicles = [v \in Vehicle |-> [owner |-> None, life |-> "absent"]]
  /\ addresses = [a \in Address |-> None]
  /\ vouchers = {}
  /\ contested = {}
  /\ forsaken = {}
  /\ req = [r \in Request |-> Idle]

OwnNext(r, c) ==
  \/ RegisterBegin(r, c)
  \/ \E stage \in {"add", "close"} : OwnBegin(r, c, stage)
  \/ \E v \in Vehicle : DropBegin(r, c, v)

BookNext(r, c) ==
  \/ \E label \in Label, default \in BOOLEAN : SaveBegin(r, c, label, default)
  \/ \E a \in Address : RemoveBegin(r, c, a)
  \/ \E a \in Address, label \in Label \cup {None}, default \in BOOLEAN \cup {None} :
       UpdateBegin(r, c, a, label, default)

Step(r) ==
  \/ \E v \in Vehicle : Register(r, v) \/ AddVehicle(r, v)
  \/ GiveVoucher(r)
  \/ DropVehicle(r)
  \/ DeleteCustomer(r)
  \/ CountAddresses(r)
  \/ ClearDefaults(r)
  \/ \E a \in Address : InsertAddress(r, a)
  \/ UpdateAddress(r)
  \/ RemoveAddress(r)
  \/ Fail(r)

Next ==
  \E r \in Request : Step(r) \/ \E c \in Customer : OwnNext(r, c) \/ BookNext(r, c)

Spec == Init /\ [][Next]_vars

-----------------------------------------------------------------------------
(* Properties *)

\* Rows and handlers have their types.
TypeOK ==
  /\ customers \in [Customer -> Life]
  /\ vehicles \in [Vehicle -> VehicleRow]
  /\ addresses \in [Address -> AddressRow \cup {None}]
  /\ vouchers \subseteq Customer
  /\ contested \subseteq Customer
  /\ forsaken \subseteq Customer
  /\ req \in [Request -> Handler]

\* createAsync and updateAsync clear the default before they set one, and the first
\* address is the default.  So a customer has at most one, unless two requests set one at
\* the same time, whatever else overlaps; and has one as soon as there are addresses,
\* unless the default was deleted or unset, one is about to be set, or a request that
\* cleared it failed.
OneDefaultUnlessContested ==
  \A c \in Customer :
    /\ c \in contested \/ \A a, b \in Defaults(c) : a = b
    /\ Addresses(c) # {} =>
         \/ Defaults(c) # {} \/ c \in forsaken
         \/ \E r \in Request : SetsDefault(req[r]) /\ req[r].who = c

\* deleteAsync deletes the vehicles with the customer: none is left, or comes later,
\* unless it was on its way when the customer was deleted.
NoVehicleOutlivesCustomer ==
  \A c \in Customer \ contested, v \in Vehicle :
    vehicles[v] = [owner |-> c, life |-> "live"] => customers[c] = "live"
=============================================================================
