----------------------------- MODULE MCBackOffice -----------------------------
(* The records that the back office and the apps keep, for TLC.  The five      *)
(* modules share no table that matters to their properties, so a behaviour     *)
(* runs one of them, part, and leaves the variables of the others alone.       *)
EXTENDS Registry, Integers, TLC

CONSTANTS
  Customer, Vehicle, Address, Label,         \* CustomerRecords
  Service, SubService, Condition, Order,     \* Catalogue
  Applicant, Truck, Document,                \* Onboarding
  Driver, Price, Distance, Percent,          \* Estimates
  Foreign, Straight, Seconds, Limit

VARIABLES
  part,                                               \* the module that runs
  customers, vehicles, addresses, vouchers, forsaken,
  catalogue, images, unlooked,
  drivers, banned, barred,
  price, fleet, estimate, arrival, shown, order,
  overlapped, desk                                    \* contested and req of all but Registry

C == INSTANCE CustomerRecords WITH contested <- overlapped, req <- desk

K == INSTANCE Catalogue WITH rows <- catalogue, contested <- overlapped, req <- desk

O == INSTANCE Onboarding
       WITH Driver <- Applicant, Vehicle <- Truck, contested <- overlapped, req <- desk

E == INSTANCE Estimates

\* SQL NULL is no id, no label, no flag and no row.
ASSUME CustomersAssumption ==
  None \notin Customer \cup Vehicle \cup Address \cup Label \cup C!AddressRow \cup BOOLEAN

\* A row is told from those of other tables, and SQL NULL is none.
ASSUME CatalogueAssumption ==
  /\ None \notin Service \cup SubService \cup Condition \cup Order
  /\ Service \cap (SubService \cup Condition \cup Order) = {}
  /\ SubService \cap (Condition \cup Order) = {}
  /\ Condition \cap Order = {}

\* @Min(0) of the price's columns; a distance or a duration is not negative, and SQL NULL
\* is none.  The drivers are finitely many.  Nothing bounds what a body names.
ASSUME EstimatesAssumption ==
  /\ Price \subseteq [journey : {"FourWay", "ThreeWay"},
                      fixDistance : Nat, fixPrice : Nat, extraPrice : Nat]
  /\ Distance \subseteq Nat /\ Percent \subseteq Nat /\ Seconds \subseteq Nat
  /\ Foreign \subseteq [base : Int, grand : Int]
  /\ Limit \in Nat /\ None \notin Int
  /\ IsFiniteSet(Driver)

\* A price by the kilometre, one for a journey without a drop-off, and one of zero.
MCPrice ==
  {[journey |-> "FourWay", fixDistance |-> 5000, fixPrice |-> 10005, extraPrice |-> 1234],
   [journey |-> "ThreeWay", fixDistance |-> 0, fixPrice |-> 7777, extraPrice |-> 1000],
   [journey |-> "FourWay", fixDistance |-> 0, fixPrice |-> 0, extraPrice |-> 999]}

\* A body without an estimate, and one of less than nothing.
MCForeign == {[base |-> 0, grand |-> 0], [base |-> 50, grand |-> -7]}

customerVars == <<customers, vehicles, addresses, vouchers, forsaken>>
catalogueVars == <<catalogue, images, unlooked>>
driverVars == <<drivers, banned, barred>>
estimateVars == <<price, fleet, estimate, arrival, shown, order>>
deskVars == <<overlapped, desk>>

NoCustomers ==
  customers = None /\ vehicles = None /\ addresses = None /\ vouchers = None /\ forsaken = None
NoCatalogue == catalogue = None /\ images = None /\ unlooked = None
NoDrivers == drivers = None /\ banned = None /\ barred = None
NoEstimates ==
  /\ price = None /\ fleet = None /\ estimate = None
  /\ arrival = None /\ shown = None /\ order = None
NoDesk == overlapped = None /\ desk = None

MCInit ==
  /\ Init
  /\ \/ part = "registry" /\ NoCustomers /\ NoCatalogue /\ NoDrivers /\ NoEstimates /\ NoDesk
     \/ part = "customers" /\ C!Init /\ NoCatalogue /\ NoDrivers /\ NoEstimates
     \/ part = "catalogue" /\ K!Init /\ NoCustomers /\ NoDrivers /\ NoEstimates
     \/ part = "drivers" /\ O!Init /\ NoCustomers /\ NoCatalogue /\ NoEstimates
     \/ part = "estimates" /\ E!Init /\ NoCustomers /\ NoCatalogue /\ NoDrivers /\ NoDesk

RegistryNext ==
  /\ part = "registry" /\ Next
  /\ UNCHANGED <<part, customerVars, catalogueVars, driverVars, estimateVars, deskVars>>

CustomersNext ==
  /\ part = "customers" /\ C!Next
  /\ UNCHANGED <<part, vars, catalogueVars, driverVars, estimateVars>>

CatalogueNext ==
  /\ part = "catalogue" /\ K!Next
  /\ UNCHANGED <<part, vars, customerVars, driverVars, estimateVars>>

DriversNext ==
  /\ part = "drivers" /\ O!Next
  /\ UNCHANGED <<part, vars, customerVars, catalogueVars, estimateVars>>

EstimatesNext ==
  /\ part = "estimates" /\ E!Next
  /\ UNCHANGED <<part, vars, customerVars, catalogueVars, driverVars, deskVars>>

MCNext == RegistryNext \/ CustomersNext \/ CatalogueNext \/ DriversNext \/ EstimatesNext

MCSpec ==
  MCInit /\ [][MCNext]_<<part, vars, customerVars, catalogueVars, driverVars, estimateVars,
                         deskVars>>

-----------------------------------------------------------------------------
(* Bounds *)

Used == {t \in Table : (\E i \in Id : rows[t][i] # NoRow) \/ \E r \in Request : req[r].table = t}

Vendors == {i \in Id : rows["vendor"][i] # NoRow}

\* One table at a time, or drivers beside a vendor who is not renamed; one value overlaps.
RegistryBound ==
  /\ \/ Cardinality(Used) <= 1
     \/ /\ Used = {"vendor", "driver"}
        /\ Cardinality(Vendors) <= 1
        /\ \A r \in Request : ~(req[r].table = "vendor" /\ req[r].at = "write")
  /\ Cardinality(contested) <= 1

\* Requests that overlap are of one customer, and after two that both set a default they
\* are followed to their end.  One customer is not deleted, and who has saved addresses
\* deletes no vehicle any more.
CustomersBound ==
  part = "customers" =>
    /\ \A q, r \in Request : desk[q].who = desk[r].who \/ None \in {desk[q].who, desk[r].who}
    /\ overlapped = {} \/ \E r \in Request : desk[r] # C!Idle
    /\ \E c \in Customer : customers[c] # "deleted"
    /\ (\E a \in Address : addresses[a] # None)
         => \A v \in Vehicle : vehicles[v].life # "deleted"

\* A driver who is deleted stays so; requests that overlap are followed to their end.
DriversBound ==
  part = "drivers" =>
    /\ \A d \in Applicant : drivers[d].life # "deleted"
    /\ overlapped = {} \/ \E r \in Request : desk[r] # O!Idle

\* What follows the order does not touch it.
EstimatesBound == part = "estimates" => order = None

Bound == RegistryBound /\ CustomersBound /\ DriversBound /\ EstimatesBound

\* Two members of a set change places.
Swap(S) == CHOOSE f \in Permutations(S) : Cardinality({m \in S : f[m] # m}) = 2

\* To swap, or not.
OrNot(swap) == {swap, [m \in DOMAIN swap |-> m]}

\* No module tells two members of a set apart.  Sets of different modules are swapped
\* together, as only one of these runs.
Symmetry ==
  {f @@ g @@ h @@ k @@ l :
     f \in OrNot(Swap(Request)), g \in OrNot(Swap(Vehicle)),
     h \in OrNot(Swap(Id) @@ Swap(Customer) @@ Swap(Service)),
     k \in OrNot(Swap(Value) @@ Swap(Label)),
     l \in OrNot(Swap(Document) @@ Swap(Address) @@ Swap(Driver))}

-----------------------------------------------------------------------------
(* Properties of the module that runs *)

\* Rows, handlers, answers and amounts have their types.
TypesOK ==
  /\ TypeOK
  /\ part = "customers" => C!TypeOK
  /\ part = "catalogue" => K!TypeOK
  /\ part = "drivers" => O!TypeOK
  /\ part = "estimates" => E!TypeOK

\* As CustomerRecords states it, of createAsync and updateAsync of the addresses.
OneDefaultUnlessContested == part = "customers" => C!OneDefaultUnlessContested

\* As CustomerRecords states it, of deleteAsync of the customers.
NoVehicleOutlivesCustomer == part = "customers" => C!NoVehicleOutlivesCustomer

\* As Catalogue states it, of the references that no foreign key keeps.
NoOrphanUnlessContested == part = "catalogue" => K!NoOrphanUnlessContested

\* As Onboarding states it, of submitForApprovalAsync and the check after a change.
ReviewedHasDocuments == part = "drivers" => O!ReviewedHasDocuments

\* As Onboarding states it, of banAsync and the vendor's edits.
BanHoldsUnlessContested == part = "drivers" => O!BanHoldsUnlessContested

\* As Estimates states it, of getOrderEstimateAsync.
EstimateIsLinear == part = "estimates" => E!EstimateIsLinear

\* As Estimates states it, of the amounts of createAsync.
ChargedAsEstimated == part = "estimates" => E!ChargedAsEstimated

\* As Estimates states it, of the two phases of DispatchService.
ArrivalIsQuickest == part = "estimates" => E!ArrivalIsQuickest
=============================================================================
