------------------------ MODULE CustomerRecords_Proofs ------------------------
(***************************************************************************)
(* One default address, and no vehicle without its customer, for any       *)
(* number of customers, vehicles, addresses and requests.  Requests of one *)
(* customer may overlap; what that breaks is recorded where it happens.    *)
(* Inv adds what a handler may rely on between its statements, whatever    *)
(* the other requests do.                                                  *)
(***************************************************************************)
EXTENDS CustomerRecords, TLAPS

\* SQL NULL is no id, no label, no flag and no row.
NullIsApart ==
  None \notin Customer \cup Vehicle \cup Address \cup Label \cup AddressRow \cup BOOLEAN

\* The statement that sets the default is the next.
Cleared(h) == h.at \in {"insert", "update"} /\ h.default = TRUE

\* A handler names an address of its customer, or one that is gone.
OwnAddress(h) ==
  h.of \in Address /\ (addresses[h.of] # None => addresses[h.of].owner = h.who)

\* What every handler knows.
ArgsOK(h) ==
  /\ h.at = "idle" => h = Idle
  /\ h.at # "idle" => h.who \in Customer
  /\ h.at = "drop" => h.of \in Vehicle
  /\ h.at = "clear" => h.default = TRUE
  /\ h.at = "clear" /\ h.of # None => OwnAddress(h)
  /\ h.at \in {"update", "remove"} => OwnAddress(h)
  /\ h.at = "resolve" \/ (h.at = "clear" /\ h.of = None) => h.label \in Label
  /\ h.at = "resolve" => h.default \in BOOLEAN /\ h.of = None
  /\ h.at = "insert" => h.label \in Label /\ h.default \in BOOLEAN

Handlers == \A r \in Request : ArgsOK(req[r])

\* Two requests of one customer that set a default are recorded.
Recorded ==
  \A q, r \in Request :
    q # r /\ SetsDefault(req[q]) /\ SetsDefault(req[r]) /\ req[q].who = req[r].who
      => req[q].who \in contested

\* There is a default, or the next statement of a request sets one, or it was given up.
Promised(c) ==
  \/ Defaults(c) # {}
  \/ c \in forsaken
  \/ \E r \in Request : Cleared(req[r]) /\ req[r].who = c

\* Who has an address, or is about to get one, has the promise of a default.
Book(c) ==
  /\ Addresses(c) # {} => Promised(c)
  /\ \A r \in Request : req[r].at = "insert" /\ req[r].who = c => Promised(c)

\* One default, and none while one is about to be set.
Single(c) ==
  /\ \A a, b \in Defaults(c) : a = b
  /\ \A r \in Request : Cleared(req[r]) /\ req[r].who = c => Defaults(c) = {}

\* The vehicles of a customer, and those on their way, are of one who is live.
Owned(c) ==
  /\ \A v \in Vehicle : vehicles[v] = [owner |-> c, life |-> "live"] => customers[c] = "live"
  /\ \A r \in Request : req[r].at = "add" /\ req[r].who = c => customers[c] = "live"

Inv ==
  /\ TypeOK /\ Handlers /\ Recorded
  /\ \A c \in Customer : Book(c) /\ (c \notin contested => Single(c) /\ Owned(c))

-----------------------------------------------------------------------------

LEMMA IdleType ==
  ASSUME NullIsApart
  PROVE  /\ Idle \in Handler /\ ArgsOK(Idle) /\ ~SetsDefault(Idle) /\ ~Cleared(Idle)
         /\ Idle.at = "idle" /\ Idle.who = None /\ Idle.of = None
         /\ Idle.label = None /\ Idle.default = None
         /\ None \notin Customer /\ None \notin Vehicle /\ None \notin Address
         /\ None \notin Label /\ None \notin AddressRow
         /\ TRUE # None /\ FALSE # None
<1>1. /\ Idle.at = "idle" /\ Idle.who = None /\ Idle.of = None
      /\ Idle.label = None /\ Idle.default = None /\ Idle \in Handler
  BY DEF Idle, Handler, Stage
<1>2. /\ None \notin Customer /\ None \notin Vehicle /\ None \notin Address
      /\ None \notin Label /\ None \notin AddressRow
      /\ TRUE # None /\ FALSE # None
  BY DEF NullIsApart
<1> QED BY <1>1, <1>2 DEF ArgsOK, SetsDefault, Cleared

LEMMA InitInv ==
  ASSUME NullIsApart PROVE Init => Inv
<1> SUFFICES ASSUME Init PROVE Inv OBVIOUS
<1>1. TypeOK
  BY IdleType DEF Init, TypeOK, Life, VehicleRow
<1>2. Handlers /\ Recorded
  BY IdleType DEF Init, Handlers, Recorded
<1>3. \A c \in Customer : Addresses(c) = {} /\ Defaults(c) = {}
  BY DEF Init, Addresses, Defaults
<1>4. \A c \in Customer : Owned(c)
  BY IdleType DEF Init, Owned
<1>5. \A c \in Customer : Book(c) /\ Single(c)
  BY <1>3, IdleType DEF Init, Book, Single, Cleared
<1> QED BY <1>1, <1>2, <1>4, <1>5 DEF Inv

-----------------------------------------------------------------------------
(* Steps, by what they write *)

\* A request of the customer c goes on as h.
Works(r, c, h) ==
  /\ req' = [req EXCEPT ![r] = h]
  /\ req[r].who \in {None, c} /\ h.who \in {None, c}
  /\ contested \subseteq contested' /\ contested' \subseteq Customer
  /\ ArgsOK(h)'
  /\ SetsDefault(h) =>
       \A q \in Request \ {r} : SetsDefault(req[q]) /\ req[q].who = c => c \in contested'

\* What it writes leaves the rows of others alone, and the owners.
Spares(c) ==
  /\ customers' \in [Customer -> Life] /\ vehicles' \in [Vehicle -> VehicleRow]
  /\ addresses' \in [Address -> AddressRow \cup {None}]
  /\ vouchers' \subseteq Customer /\ forsaken' \subseteq Customer /\ forsaken \subseteq forsaken'
  /\ \A x \in Customer \ {c} :
       /\ customers'[x] = customers[x]
       /\ \A v \in Vehicle : vehicles'[v] = [owner |-> x, life |-> "live"] =>
                             vehicles[v] = [owner |-> x, life |-> "live"]
  /\ \A a \in Address :
       /\ addresses[a] # None /\ addresses[a].owner # c => addresses'[a] = addresses[a]
       /\ addresses'[a] # None /\ addresses'[a].owner # c => addresses'[a] = addresses[a]
       /\ addresses'[a] # None /\ addresses[a] = None => \A q \in Request : req[q].of # a

\* The addresses of another customer stay.
LEMMA OthersKept ==
  ASSUME Inv, NEW c \in Customer, Spares(c), NEW x \in Customer \ {c}
  PROVE  Addresses(x)' = Addresses(x) /\ Defaults(x)' = Defaults(x)
<1>1. Addresses(x)' = Addresses(x)
  BY DEF Spares, Addresses
<1>2. \A a \in Addresses(x) : addresses'[a] = addresses[a]
  BY DEF Spares, Addresses
<1> QED BY <1>1, <1>2 DEF Defaults

LEMMA StepInv ==
  ASSUME NullIsApart, Inv, NEW r \in Request, NEW c \in Customer, NEW h \in Handler,
         Works(r, c, h), Spares(c), Book(c)', c \notin contested' => Single(c)' /\ Owned(c)'
  PROVE  Inv'
<1>1. /\ req' \in [Request -> Handler] /\ req'[r] = h
      /\ \A q \in Request \ {r} : req'[q] = req[q]
  BY DEF Inv, TypeOK, Works
<1>2. TypeOK'
  BY <1>1 DEF Inv, TypeOK, Works, Spares
<1>3. Handlers'
  <2>1. ArgsOK(req[r])'
    BY <1>1 DEF Works, ArgsOK, OwnAddress
  <2>2. ASSUME NEW q \in Request \ {r} PROVE ArgsOK(req[q])'
    <3>1. PICK g \in Handler : g = req[q] /\ ArgsOK(g) /\ g = req'[q]
      BY <1>1 DEF Inv, TypeOK, Handlers
    <3>2. ASSUME OwnAddress(g), g.who \in Customer PROVE OwnAddress(g)'
      BY <3>1, <3>2 DEF OwnAddress, Spares
    <3>3. ArgsOK(g)'
      BY <3>1, <3>2 DEF ArgsOK
    <3> QED BY <3>1, <3>3 DEF ArgsOK, OwnAddress
  <2> QED BY <2>1, <2>2 DEF Handlers
<1>4. Recorded'
  <2> SUFFICES ASSUME NEW p \in Request, NEW q \in Request, p # q,
                      SetsDefault(req'[p]), SetsDefault(req'[q]), req'[p].who = req'[q].who
               PROVE  req'[p].who \in contested'
    BY DEF Recorded, SetsDefault
  <2>2. req'[p].at # "idle" => req'[p].who \in Customer
    BY <1>3 DEF Handlers, ArgsOK
  <2>3. req'[p].who # None
    BY <2>2, IdleType DEF SetsDefault
  <2>4. CASE p = r
    BY <1>1, <2>3, <2>4 DEF Works
  <2>5. CASE q = r
    BY <1>1, <2>3, <2>5 DEF Works
  <2>6. CASE p # r /\ q # r
    BY <1>1, <2>6 DEF Works, Inv, Recorded
  <2> QED BY <2>4, <2>5, <2>6
<1>5. ASSUME NEW x \in Customer, x # c
      PROVE  Book(x)' /\ (x \notin contested' => Single(x)' /\ Owned(x)')
  <2>1. Book(x) /\ (x \notin contested' => Single(x) /\ Owned(x))
    BY DEF Inv, Works
  <2>2. /\ Addresses(x)' = Addresses(x) /\ Defaults(x)' = Defaults(x)
        /\ x \in forsaken => x \in forsaken'
        /\ customers'[x] = customers[x]
        /\ \A v \in Vehicle : vehicles'[v] = [owner |-> x, life |-> "live"] =>
                              vehicles[v] = [owner |-> x, life |-> "live"]
    BY <1>5, OthersKept DEF Spares
  <2>3. \A q \in Request : req[q].who = x \/ req'[q].who = x => req'[q] = req[q]
    BY <1>1, <1>5, IdleType DEF Works
  <2>4. Promised(x) => Promised(x)'
    BY <2>2, <2>3 DEF Promised, Cleared
  <2>5. Book(x)'
    BY <2>1, <2>2, <2>3, <2>4 DEF Book
  <2>6. Single(x) => Single(x)'
    BY <2>2, <2>3 DEF Single, Cleared
  <2>7. Owned(x) => Owned(x)'
    BY <2>2, <2>3 DEF Owned
  <2> QED BY <2>1, <2>5, <2>6, <2>7
<1> QED BY <1>2, <1>3, <1>4, <1>5 DEF Inv

\* What is known of a request, and of its customer.
LEMMA Working ==
  ASSUME NullIsApart, Inv, NEW r \in Request, req[r].at # "idle"
  PROVE  /\ req[r] \in Handler /\ req[r].who \in Customer /\ ArgsOK(req[r])
         /\ Book(req[r].who)
         /\ req[r].who \notin contested => Single(req[r].who) /\ Owned(req[r].who)
         /\ contested \subseteq Customer /\ forsaken \subseteq Customer
         /\ addresses \in [Address -> AddressRow \cup {None}]
         /\ customers \in [Customer -> Life] /\ vehicles \in [Vehicle -> VehicleRow]
         /\ vouchers \subseteq Customer /\ req \in [Request -> Handler]
<1>1. req[r] \in Handler /\ ArgsOK(req[r])
  BY DEF Inv, TypeOK, Handlers
<1>2. req[r].who \in Customer
  BY <1>1 DEF ArgsOK
<1> QED BY <1>1, <1>2 DEF Inv, TypeOK

\* The addresses are not written: the promise and the one default stay.
LEMMA BookStays ==
  ASSUME NullIsApart, Inv, NEW r \in Request, NEW c \in Customer, NEW h \in Handler,
         req' = [req EXCEPT ![r] = h], contested \subseteq contested',
         addresses' = addresses, forsaken \subseteq forsaken',
         Cleared(req[r]) /\ req[r].who = c => c \in forsaken',
         h.at = "insert" /\ h.who = c => Addresses(c) # {},
         ~Cleared(h)
  PROVE  Book(c)' /\ (c \notin contested' => Single(c)')
<1>1. /\ req'[r] = h /\ \A q \in Request \ {r} : req'[q] = req[q]
      /\ Book(c) /\ (c \notin contested' => Single(c))
  BY DEF Inv, TypeOK
<1>2. Addresses(c)' = Addresses(c) /\ Defaults(c)' = Defaults(c)
  BY DEF Addresses, Defaults
<1>3. Promised(c) => Promised(c)'
  BY <1>1, <1>2 DEF Promised, Cleared
<1>4. Book(c)'
  BY <1>1, <1>2, <1>3 DEF Book
<1>5. c \notin contested' => Single(c)'
  BY <1>1, <1>2 DEF Single, Cleared
<1> QED BY <1>4, <1>5

\* The customers and the vehicles are not written.
LEMMA OwnStays ==
  ASSUME NullIsApart, Inv, NEW r \in Request, NEW c \in Customer, NEW h \in Handler,
         req' = [req EXCEPT ![r] = h], contested \subseteq contested',
         UNCHANGED <<customers, vehicles>>,
         h.at = "add" /\ h.who = c => customers[c] = "live"
  PROVE  c \notin contested' => Owned(c)'
<1>1. /\ req'[r] = h /\ \A q \in Request \ {r} : req'[q] = req[q]
      /\ c \notin contested' => Owned(c)
  BY DEF Inv, TypeOK
<1> QED BY <1>1 DEF Owned

\* No row is written.
LEMMA NothingWritten ==
  ASSUME NullIsApart, Inv, UNCHANGED <<ownVars, addresses>>, forsaken \subseteq forsaken',
         forsaken' \subseteq Customer
  PROVE  /\ \A c \in Customer : Spares(c)
         /\ \A h : OwnAddress(h)' <=> OwnAddress(h)
BY DEF ownVars, Inv, TypeOK, Spares, OwnAddress

-----------------------------------------------------------------------------
(* Statements on the customers and the vehicles *)

LEMMA OwnStep ==
  ASSUME NullIsApart, Inv, NEW r \in Request, NEW h \in Handler, NEW c \in Customer,
         c = req[r].who, req[r].at \in {"register", "add", "voucher", "drop", "close"},
         req' = [req EXCEPT ![r] = h],
         contested \subseteq contested', contested' \subseteq Customer,
         h = Idle \/ (h.who = c /\ h.at = "voucher"),
         UNCHANGED bookVars,
         customers' \in [Customer -> Life], vehicles' \in [Vehicle -> VehicleRow],
         vouchers' \subseteq Customer,
         \A x \in Customer \ {c} : customers'[x] = customers[x],
         \A v \in Vehicle : vehicles'[v].owner # c /\ vehicles'[v].life = "live" =>
                             vehicles'[v] = vehicles[v],
         c \notin contested' => Owned(c)'
  PROVE  Inv'
<1>1. h.who \in {None, c} /\ h.at \in {"idle", "voucher"}
  BY IdleType
<1>2. ArgsOK(h)'
  <2>1. CASE h = Idle
    BY <2>1, IdleType DEF ArgsOK
  <2>2. CASE h.who = c /\ h.at = "voucher"
    BY <2>2 DEF ArgsOK
  <2> QED BY <2>1, <2>2
<1>3. ~SetsDefault(h) /\ ~Cleared(h) /\ h.at # "insert" /\ ~Cleared(req[r])
  BY <1>1 DEF SetsDefault, Cleared
<1>4. Works(r, c, h)
  BY <1>1, <1>2, <1>3 DEF Works
<1>5. Spares(c)
  BY Working DEF bookVars, Spares
<1>6. Book(c)' /\ (c \notin contested' => Single(c)')
  BY <1>3, BookStays DEF bookVars
<1> QED BY <1>4, <1>5, <1>6, StepInv

\* No vehicle is on its way to a customer who has none of the requests that bring one.
LEMMA OwnedAfter ==
  ASSUME NullIsApart, Inv, NEW r \in Request, NEW h \in Handler, NEW c \in Customer,
         req' = [req EXCEPT ![r] = h], h.at # "add", c \notin contested',
         contested \subseteq contested',
         \A v \in Vehicle : vehicles'[v] = [owner |-> c, life |-> "live"] =>
                             \/ customers'[c] = "live"
                             \/ customers'[c] = customers[c] /\ vehicles[v] = vehicles'[v],
         customers'[c] = "live" \/ customers'[c] = customers[c] \/ ~Expects(c)
  PROVE  Owned(c)'
<1>1. /\ req'[r] = h /\ \A q \in Request \ {r} : req'[q] = req[q]
      /\ Owned(c)
  BY DEF Inv, TypeOK
<1>2. ASSUME NEW v \in Vehicle, vehicles'[v] = [owner |-> c, life |-> "live"]
      PROVE  customers'[c] = "live"
  BY <1>1, <1>2 DEF Owned
<1>3. ASSUME NEW q \in Request, req'[q].at = "add", req'[q].who = c
      PROVE  customers'[c] = "live"
  BY <1>1, <1>3 DEF Owned, Expects
<1> QED BY <1>2, <1>3 DEF Owned

LEMMA OwnInv ==
  ASSUME NullIsApart, Inv, NEW r \in Request,
         \/ \E v \in Vehicle : Register(r, v) \/ AddVehicle(r, v)
         \/ GiveVoucher(r) \/ DropVehicle(r) \/ DeleteCustomer(r)
  PROVE  Inv'
<1>1. req[r].at \in {"register", "add", "voucher", "drop", "close"}
  BY DEF Register, AddVehicle, GiveVoucher, DropVehicle, DeleteCustomer
<1>2. PICK c \in Customer : c = req[r].who
  BY <1>1, Working
<1>3. /\ contested \subseteq contested' /\ contested' \subseteq Customer
      /\ UNCHANGED bookVars
  BY <1>2, Working, <1>1
     DEF Register, AddVehicle, GiveVoucher, DropVehicle, DeleteCustomer, Goto, Finish
<1>4. PICK h \in Handler : /\ req' = [req EXCEPT ![r] = h] /\ h.at # "add"
                           /\ h = Idle \/ (h.who = c /\ h.at = "voucher")
  <2>1. CASE req' = [req EXCEPT ![r] = Idle]
    BY <2>1, IdleType
  <2>2. CASE Goto(r, "voucher")
    <3> DEFINE h == [req[r] EXCEPT !.at = "voucher"]
    <3>1. h \in Handler /\ h.who = c /\ h.at = "voucher"
      BY <1>1, <1>2, Working DEF Handler, Stage
    <3>2. req' = [req EXCEPT ![r] = h]
      BY <2>2 DEF Goto
    <3> HIDE DEF h
    <3> QED BY <3>1, <3>2
  <2> QED BY <2>1, <2>2
       DEF Register, AddVehicle, GiveVoucher, DropVehicle, DeleteCustomer, Finish
<1>5. /\ customers \in [Customer -> Life] /\ vehicles \in [Vehicle -> VehicleRow]
      /\ vouchers \subseteq Customer /\ ArgsOK(req[r])
      /\ c \notin contested' => Owned(c)
  BY <1>1, <1>2, <1>3, Working
<1>7. ASSUME NEW v \in Vehicle, Register(r, v) \/ AddVehicle(r, v) PROVE Inv'
  <2> DEFINE row == [owner |-> c, life |-> "live"]
  <2>1. row \in VehicleRow /\ row.owner = c
    BY DEF VehicleRow, Life
  <2>2. vehicles' = [vehicles EXCEPT ![v] = row] /\ vouchers' = vouchers
    BY <1>2, <1>7 DEF Register, AddVehicle, ownVars
  <2>3. customers' = [customers EXCEPT ![c] = "live"] \/ (customers' = customers /\ req[r].at = "add")
    BY <1>2, <1>7 DEF Register, AddVehicle
  <2>4. /\ customers' \in [Customer -> Life]
        /\ \A x \in Customer \ {c} : customers'[x] = customers[x]
        /\ c \notin contested' => customers'[c] = "live"
    BY <1>2, <1>5, <2>3 DEF Life, Owned
  <2> HIDE DEF row
  <2>5. /\ vehicles' \in [Vehicle -> VehicleRow]
        /\ \A w \in Vehicle : vehicles'[w].owner # c => vehicles'[w] = vehicles[w]
    BY <1>5, <2>1, <2>2
  <2>6. c \notin contested' => Owned(c)'
    BY <1>3, <1>4, <2>4, OwnedAfter
  <2> QED BY <1>1, <1>2, <1>3, <1>4, <1>5, <2>2, <2>4, <2>5, <2>6, OwnStep
<1>8. CASE GiveVoucher(r)
  <2>1. customers' = customers /\ vehicles' = vehicles /\ vouchers' \subseteq Customer
    BY <1>2, <1>5, <1>8 DEF GiveVoucher
  <2>2. c \notin contested' => Owned(c)'
    BY <1>3, <1>4, <2>1, OwnedAfter
  <2> QED BY <1>1, <1>2, <1>3, <1>4, <1>5, <2>1, <2>2, OwnStep
<1>9. CASE DropVehicle(r)
  <2>1. PICK w \in Vehicle : w = req[r].of
    BY <1>5, <1>9 DEF DropVehicle, ArgsOK
  <2>2. /\ vehicles' = [vehicles EXCEPT ![w].life = "deleted"]
        /\ customers' = customers /\ vouchers' = vouchers
    BY <1>9, <2>1 DEF DropVehicle
  <2>3. /\ vehicles' \in [Vehicle -> VehicleRow]
        /\ vehicles'[w].life = "deleted" /\ \A v \in Vehicle \ {w} : vehicles'[v] = vehicles[v]
    BY <1>5, <2>2 DEF VehicleRow, Life
  <2>4. \A v \in Vehicle : vehicles'[v] = [owner |-> c, life |-> "live"] =>
                            vehicles[v] = vehicles'[v]
    BY <2>3
  <2>5. c \notin contested' => Owned(c)'
    BY <1>3, <1>4, <2>2, <2>4, OwnedAfter
  <2> QED BY <1>1, <1>2, <1>3, <1>4, <1>5, <2>2, <2>3, <2>5, OwnStep
<1>10. CASE DeleteCustomer(r)
  <2>1. /\ customers' = [customers EXCEPT ![c] = "deleted"] /\ vouchers' = vouchers
        /\ vehicles' = [v \in Vehicle |->
             IF vehicles[v].owner = c THEN [vehicles[v] EXCEPT !.life = "deleted"]
             ELSE vehicles[v]]
        /\ Expects(c) => c \in contested'
    BY <1>2, <1>10 DEF DeleteCustomer
  <2>2. ASSUME NEW v \in Vehicle
        PROVE  /\ vehicles'[v] \in VehicleRow
               /\ vehicles'[v].life = "live" =>
                    vehicles'[v] = vehicles[v] /\ vehicles'[v].owner # c
    BY <1>5, <2>1 DEF VehicleRow, Life
  <2>3. vehicles' \in [Vehicle -> VehicleRow]
    BY <2>1, <2>2
  <2>4. \A v \in Vehicle : vehicles'[v] # [owner |-> c, life |-> "live"]
    BY <2>2
  <2>5. c \notin contested' => Owned(c)'
    BY <1>3, <1>4, <2>1, <2>4, OwnedAfter
  <2>6. /\ customers' \in [Customer -> Life]
        /\ \A x \in Customer \ {c} : customers'[x] = customers[x]
    BY <1>5, <2>1 DEF Life
  <2>7. \A v \in Vehicle : vehicles'[v].owner # c /\ vehicles'[v].life = "live" =>
                            vehicles'[v] = vehicles[v]
    BY <2>2
  <2>8. vouchers' \subseteq Customer
    BY <1>5, <2>1
  <2> QED BY <1>1, <1>2, <1>3, <1>4, <2>3, <2>5, <2>6, <2>7, <2>8, OwnStep
<1> QED BY <1>7, <1>8, <1>9, <1>10

-----------------------------------------------------------------------------
(* Calls *)

\* A call goes on to a statement other than one that sets a default.
LEMMA ProceedInv ==
  ASSUME NullIsApart, Inv, NEW r \in Request, NEW h \in Handler, NEW c \in Customer,
         Proceed(r, h), req[r].who \in {None, c}, ~Cleared(req[r]), h.who = c, ArgsOK(h)',
         ~Cleared(h), h.at = "insert" => Addresses(c) # {},
         h.at = "add" => customers[c] = "live",
         UNCHANGED <<ownVars, bookVars>>
  PROVE  Inv'
<1>1. /\ UNCHANGED <<ownVars, addresses, customers, vehicles>> /\ forsaken' = forsaken
      /\ forsaken \subseteq Customer
  BY DEF bookVars, ownVars, Inv, TypeOK
<1>2. /\ req' = [req EXCEPT ![r] = h]
      /\ contested \subseteq contested' /\ contested' \subseteq Customer
      /\ SetsDefault(h) =>
           \A q \in Request \ {r} : SetsDefault(req[q]) /\ req[q].who = c => c \in contested'
  BY DEF Proceed, Inv, TypeOK
<1>3. Works(r, c, h)
  BY <1>2 DEF Works
<1>4. Book(c)' /\ (c \notin contested' => Single(c)')
  BY <1>1, <1>2, BookStays
<1>5. c \notin contested' => Owned(c)'
  BY <1>1, <1>2, OwnStays
<1> QED BY <1>1, <1>3, <1>4, <1>5, NothingWritten, StepInv

\* A call arrives.
LEMMA EnterInv ==
  ASSUME NullIsApart, Inv, NEW r \in Request, NEW h \in Handler, NEW c \in Customer,
         Enter(r, h), h.who = c, ArgsOK(h)', h.at # "insert", ~Cleared(h),
         h.at = "add" => customers[c] = "live", UNCHANGED <<ownVars, bookVars>>
  PROVE  Inv'
<1>1. Proceed(r, h) /\ req[r].who = None /\ ~Cleared(req[r])
  BY IdleType DEF Enter
<1> QED BY <1>1, ProceedInv

LEMMA OwnBeginInv ==
  ASSUME NullIsApart, Inv, NEW r \in Request, NEW c \in Customer, OwnNext(r, c)
  PROVE  Inv'
<1>1. ASSUME NEW h \in Handler, Enter(r, h), h.who = c,
             h.at \in {"register", "add", "close", "drop"}, h.at = "add" => customers[c] = "live",
             h.at = "drop" => h.of \in Vehicle, UNCHANGED <<ownVars, bookVars>>
      PROVE  Inv'
  <2>1. ArgsOK(h)' /\ ~Cleared(h)
    BY <1>1 DEF ArgsOK, Cleared
  <2> QED BY <1>1, <2>1, EnterInv
<1>2. ASSUME NEW stage \in {"register", "add", "close"},
             Enter(r, [Idle EXCEPT !.at = stage, !.who = c]),
             stage = "add" => customers[c] = "live", UNCHANGED <<ownVars, bookVars>>
      PROVE  Inv'
  <2> DEFINE h == [Idle EXCEPT !.at = stage, !.who = c]
  <2>1. h \in Handler /\ h.at = stage /\ h.who = c
    BY IdleType DEF Handler, Stage, Idle
  <2>2. Enter(r, h)
    BY <1>2
  <2> HIDE DEF h
  <2>3. PICK g \in Handler : g = h
    BY <2>1
  <2> QED BY <1>1, <1>2, <2>1, <2>2, <2>3
<1>3. ASSUME NEW v \in Vehicle, DropBegin(r, c, v)
      PROVE  Inv'
  <2> DEFINE h == [Idle EXCEPT !.at = "drop", !.who = c, !.of = v]
  <2>1. h \in Handler /\ h.at = "drop" /\ h.who = c /\ h.of = v
    BY IdleType DEF Handler, Stage, Idle
  <2>2. Enter(r, h) /\ UNCHANGED <<ownVars, bookVars>>
    BY <1>3 DEF DropBegin
  <2> HIDE DEF h
  <2>3. PICK g \in Handler : g = h
    BY <2>1
  <2> QED BY <1>1, <2>1, <2>2, <2>3
<1> QED BY <1>2, <1>3 DEF OwnNext, RegisterBegin, OwnBegin

LEMMA BookBeginInv ==
  ASSUME NullIsApart, Inv, NEW r \in Request, NEW c \in Customer, BookNext(r, c)
  PROVE  Inv'
<1>1. \A a \in Addresses(c) : a \in Address /\ addresses[a].owner = c
  BY DEF Addresses
<1>2. ASSUME NEW label \in Label, NEW default \in BOOLEAN, SaveBegin(r, c, label, default)
      PROVE  Inv'
  <2> DEFINE h == [Idle EXCEPT !.at = "resolve", !.who = c, !.label = label, !.default = default]
  <2>1. /\ h \in Handler /\ h.at = "resolve" /\ h.who = c /\ h.label = label
        /\ h.default = default /\ h.of = None
    BY IdleType DEF Handler, Stage, Idle
  <2>2. Enter(r, h) /\ UNCHANGED <<ownVars, bookVars>>
    BY <1>2 DEF SaveBegin
  <2> HIDE DEF h
  <2>3. PICK g \in Handler : g = h
    BY <2>1
  <2>4. ArgsOK(g)'
    BY <2>1, <2>3 DEF ArgsOK
  <2>5. ~Cleared(g) /\ g.at \notin {"insert", "add"}
    BY <2>1, <2>3 DEF Cleared
  <2> QED BY <2>1, <2>2, <2>3, <2>4, <2>5, EnterInv
<1>3. ASSUME NEW a \in Address, RemoveBegin(r, c, a)
      PROVE  Inv'
  <2> DEFINE h == [Idle EXCEPT !.at = "remove", !.who = c, !.of = a]
  <2>1. h \in Handler /\ h.at = "remove" /\ h.who = c /\ h.of = a
    BY IdleType DEF Handler, Stage, Idle
  <2>2. Enter(r, h) /\ UNCHANGED <<ownVars, bookVars>> /\ addresses[a].owner = c
    BY <1>1, <1>3 DEF RemoveBegin
  <2> HIDE DEF h
  <2>3. PICK g \in Handler : g = h
    BY <2>1
  <2>4. ArgsOK(g)'
    BY <2>1, <2>2, <2>3 DEF ArgsOK, OwnAddress, bookVars
  <2>5. ~Cleared(g) /\ g.at \notin {"insert", "add"}
    BY <2>1, <2>3 DEF Cleared
  <2> QED BY <2>1, <2>2, <2>3, <2>4, <2>5, EnterInv
<1>4. ASSUME NEW a \in Address, NEW label \in Label \cup {None},
             NEW default \in BOOLEAN \cup {None}, UpdateBegin(r, c, a, label, default)
      PROVE  Inv'
  <2>1. PICK stage \in {"clear", "update"} : stage = (IF default = TRUE THEN "clear" ELSE "update")
    OBVIOUS
  <2> DEFINE h == [at |-> stage, who |-> c, of |-> a, label |-> label, default |-> default]
  <2>2. /\ h \in Handler /\ h.at = stage /\ h.who = c /\ h.of = a /\ h.default = default
    BY DEF Handler, Stage
  <2>3. Enter(r, h) /\ UNCHANGED <<ownVars, bookVars>> /\ addresses[a].owner = c
    BY <1>1, <1>4, <2>1 DEF UpdateBegin
  <2> HIDE DEF h
  <2>4. PICK g \in Handler : g = h
    BY <2>2
  <2>5. /\ stage = "clear" => default = TRUE
        /\ stage = "update" => default # TRUE
    BY <2>1
  <2>6. OwnAddress(g)'
    BY <2>2, <2>3, <2>4 DEF OwnAddress, bookVars
  <2>7. ArgsOK(g)'
    BY <2>2, <2>4, <2>5, <2>6, IdleType DEF ArgsOK
  <2>8. ~Cleared(g) /\ g.at \notin {"insert", "add"}
    BY <2>2, <2>4, <2>5 DEF Cleared
  <2> QED BY <2>2, <2>3, <2>4, <2>7, <2>8, EnterInv
<1> QED BY <1>2, <1>3, <1>4 DEF BookNext

-----------------------------------------------------------------------------
(* Statements on the addresses *)

LEMMA BookStep ==
  ASSUME NullIsApart, Inv, NEW r \in Request, NEW c \in Customer, NEW h \in Handler,
         c = req[r].who, req[r].at # "idle",
         req' = [req EXCEPT ![r] = h], contested' = contested, h = Idle \/ h.who = c,
         h.at # "add", SetsDefault(h) => SetsDefault(req[r]),
         UNCHANGED ownVars,
         addresses' \in [Address -> AddressRow \cup {None}],
         forsaken \subseteq forsaken', forsaken' \subseteq Customer,
         \A a \in Address :
           /\ addresses[a] # None /\ addresses[a].owner # c => addresses'[a] = addresses[a]
           /\ addresses'[a] # None /\ addresses'[a].owner # c => addresses'[a] = addresses[a]
           /\ addresses'[a] # None /\ addresses[a] = None => \A q \in Request : req[q].of # a,
         ArgsOK(h)', Book(c)', c \notin contested => Single(c)'
  PROVE  Inv'
<1>1. h.who \in {None, c} /\ contested \subseteq Customer
  BY IdleType, Working
<1>2. SetsDefault(h) =>
        \A q \in Request \ {r} : SetsDefault(req[q]) /\ req[q].who = c => c \in contested'
  BY DEF Inv, Recorded
<1>3. Works(r, c, h)
  BY <1>1, <1>2 DEF Works
<1>4. Spares(c)
  BY Working DEF ownVars, Spares
<1>5. c \notin contested' => Owned(c)'
  BY OwnStays DEF ownVars
<1> QED BY <1>3, <1>4, <1>5, StepInv

\* The first address, and one that is asked to be, makes room before it is inserted.
LEMMA CountInv ==
  ASSUME NullIsApart, Inv, NEW r \in Request, CountAddresses(r)
  PROVE  Inv'
<1>1. req[r].at = "resolve"
  BY DEF CountAddresses
<1>2. PICK c \in Customer : c = req[r].who
  BY <1>1, Working
<1>3. /\ req[r] \in Handler /\ req[r].label \in Label /\ req[r].default \in BOOLEAN
      /\ req[r].of = None /\ ~Cleared(req[r])
  BY <1>1, <1>2, Working DEF ArgsOK, Cleared
<1>4. PICK t \in BOOLEAN : t = (req[r].default \/ Addresses(c) = {})
  OBVIOUS
<1>5. t = FALSE => Addresses(c) # {}
  BY <1>4
<1>6. PICK stage \in {"clear", "insert"} :
        /\ stage = (IF t THEN "clear" ELSE "insert")
        /\ stage = "clear" => t = TRUE
        /\ stage = "insert" => t = FALSE
  OBVIOUS
<1> DEFINE h == [req[r] EXCEPT !.at = stage, !.default = t]
<1>7. /\ h \in Handler /\ h.at = stage /\ h.default = t /\ h.who = c /\ h.of = None
      /\ h.label = req[r].label
  BY <1>2, <1>3 DEF Handler, Stage
<1>8. Proceed(r, h) /\ UNCHANGED <<ownVars, bookVars>>
  BY <1>2, <1>4, <1>6 DEF CountAddresses
<1> HIDE DEF h
<1>9. PICK g \in Handler : g = h
  BY <1>7
<1>10. ~Cleared(g)
  <2>1. TRUE # FALSE
    OBVIOUS
  <2> QED BY <1>6, <1>7, <1>9, <2>1 DEF Cleared
<1>11. ArgsOK(g)'
  BY <1>3, <1>6, <1>7, <1>9 DEF ArgsOK
<1>12. g.at = "insert" => Addresses(c) # {}
  BY <1>5, <1>6, <1>7, <1>9
<1> QED BY <1>2, <1>3, <1>7, <1>8, <1>9, <1>10, <1>11, <1>12, ProceedInv

\* The addresses lose the default that the next statement sets.
LEMMA ClearInv ==
  ASSUME NullIsApart, Inv, NEW r \in Request, ClearDefaults(r)
  PROVE  Inv'
<1>1. req[r].at = "clear"
  BY DEF ClearDefaults
<1>2. PICK c \in Customer : c = req[r].who
  BY <1>1, Working
<1>3. /\ req[r] \in Handler /\ req[r].default = TRUE
      /\ req[r].of # None => OwnAddress(req[r])
      /\ req[r].of = None => req[r].label \in Label
      /\ addresses \in [Address -> AddressRow \cup {None}]
  BY <1>1, <1>2, Working DEF ArgsOK
<1>4. /\ addresses' = [a \in Address |->
            IF a \in Addresses(c) THEN [addresses[a] EXCEPT !.default = FALSE]
            ELSE addresses[a]]
      /\ contested' = contested /\ UNCHANGED <<ownVars, forsaken>>
  BY <1>2 DEF ClearDefaults, Goto
<1>5. ASSUME NEW a \in Address
      PROVE  /\ addresses'[a] \in AddressRow \cup {None}
             /\ a \in Addresses(c) => /\ addresses'[a] # None /\ addresses'[a].owner = c
                                      /\ ~addresses'[a].default /\ addresses[a] # None
             /\ a \notin Addresses(c) => addresses'[a] = addresses[a]
  <2>1. CASE a \notin Addresses(c)
    BY <1>3, <1>4, <2>1
  <2>2. CASE a \in Addresses(c)
    <3>1. addresses[a] \in AddressRow /\ addresses[a].owner = c /\ addresses[a] # None
      BY <1>3, <2>2 DEF Addresses
    <3>2. addresses'[a] = [addresses[a] EXCEPT !.default = FALSE]
      BY <1>4, <2>2
    <3>3. addresses'[a] \in AddressRow /\ addresses'[a].owner = c /\ ~addresses'[a].default
      BY <3>1, <3>2 DEF AddressRow
    <3> QED BY <2>2, <3>1, <3>3, IdleType
  <2> QED BY <2>1, <2>2
<1>6. addresses' \in [Address -> AddressRow \cup {None}]
  BY <1>4, <1>5
<1>7. /\ Addresses(c)' = Addresses(c) /\ Defaults(c)' = {}
  <2>1. Addresses(c)' = Addresses(c)
    BY <1>5 DEF Addresses
  <2> QED BY <1>5, <2>1 DEF Defaults, Addresses
<1>8. PICK stage \in {"insert", "update"} :
        stage = (IF req[r].of = None THEN "insert" ELSE "update")
  OBVIOUS
<1> DEFINE h == [req[r] EXCEPT !.at = stage]
<1>9. /\ h \in Handler /\ h.at = stage /\ h.default = TRUE /\ h.who = c
      /\ h.of = req[r].of /\ h.label = req[r].label
  BY <1>2, <1>3 DEF Handler, Stage
<1>10. req' = [req EXCEPT ![r] = h]
  BY <1>8 DEF ClearDefaults, Goto
<1> HIDE DEF h
<1>11. PICK g \in Handler : g = h
  BY <1>9
<1>12. \A a \in Address : addresses'[a] # None => addresses[a] # None /\ addresses'[a].owner = addresses[a].owner
  BY <1>5 DEF Addresses
<1>13. ArgsOK(g)'
  <2>1. stage = "update" => OwnAddress(g)'
    BY <1>2, <1>3, <1>8, <1>9, <1>11, <1>12 DEF OwnAddress
  <2> QED BY <1>3, <1>8, <1>9, <1>11, <2>1 DEF ArgsOK
<1>14. Cleared(g) /\ g.at # "add" /\ SetsDefault(req[r])
  BY <1>1, <1>3, <1>9, <1>11 DEF Cleared, SetsDefault
<1>15. Book(c)' /\ (c \notin contested => Single(c)')
  <2>1. req'[r] = g /\ g.who = c
    BY <1>9, <1>10, <1>11 DEF Inv, TypeOK
  <2>2. Promised(c)'
    BY <1>14, <2>1 DEF Promised, Cleared
  <2> QED BY <1>7, <2>2 DEF Book, Single
<1>16. forsaken \subseteq forsaken' /\ forsaken' \subseteq Customer
  BY <1>4 DEF Inv, TypeOK
<1>17. \A a \in Address :
           /\ addresses[a] # None /\ addresses[a].owner # c => addresses'[a] = addresses[a]
           /\ addresses'[a] # None /\ addresses'[a].owner # c => addresses'[a] = addresses[a]
  BY <1>5 DEF Addresses
<1> QED BY <1>1, <1>2, <1>4, <1>6, <1>9, <1>10, <1>11, <1>12, <1>13, <1>14, <1>15, <1>16, <1>17,
           BookStep

\* A last statement keeps the promise if it keeps a default, or sets the one it cleared.
LEMMA PromiseKept ==
  ASSUME NullIsApart, Inv, NEW r \in Request, NEW c \in Customer, c = req[r].who,
         Finish(r), forsaken \subseteq forsaken',
         Defaults(c) # {} \/ Cleared(req[r]) => Defaults(c)' # {} \/ c \in forsaken',
         Addresses(c)' # {} => Addresses(c) # {} \/ req[r].at = "insert"
  PROVE  Book(c)'
<1>1. /\ req'[r] = Idle /\ \A q \in Request \ {r} : req'[q] = req[q]
      /\ Book(c) /\ Idle.at = "idle"
  BY IdleType DEF Inv, TypeOK, Finish
<1>2. Promised(c) => Promised(c)'
  BY <1>1 DEF Promised, Cleared
<1>3. Addresses(c)' # {} => Promised(c)
  BY <1>1 DEF Book
<1>4. ASSUME NEW q \in Request, req'[q].at = "insert", req'[q].who = c PROVE Promised(c)
  BY <1>1, <1>4 DEF Book
<1> QED BY <1>2, <1>3, <1>4 DEF Book

\* And it leaves one default if it only adds one after it cleared the others.
LEMMA OneIsLeft ==
  ASSUME NullIsApart, Inv, NEW r \in Request, NEW c \in Customer, c = req[r].who,
         Finish(r), c \notin contested, NEW a \in Address,
         \/ Defaults(c)' \subseteq Defaults(c)
         \/ Cleared(req[r]) /\ Defaults(c)' = Defaults(c) \cup {a}
  PROVE  Single(c)'
<1>1. /\ req'[r] = Idle /\ \A q \in Request \ {r} : req'[q] = req[q]
      /\ Single(c) /\ ~Cleared(Idle)
  BY IdleType DEF Inv, TypeOK, Finish
<1>2. CASE Defaults(c)' \subseteq Defaults(c)
  BY <1>1, <1>2 DEF Single, Cleared
<1>3. CASE Cleared(req[r]) /\ Defaults(c)' = Defaults(c) \cup {a}
  <2>1. Defaults(c)' = {a}
    BY <1>1, <1>3 DEF Single
  <2>2. ASSUME NEW q \in Request, Cleared(req'[q]), req'[q].who = c PROVE FALSE
    <3>1. q # r /\ SetsDefault(req[q]) /\ SetsDefault(req[r]) /\ req[q].who = c
      BY <1>1, <1>3, <2>2 DEF Cleared, SetsDefault
    <3> QED BY <3>1 DEF Inv, Recorded
  <2> QED BY <2>1, <2>2 DEF Single, Cleared
<1> QED BY <1>2, <1>3

\* The last statement of a handler writes one address, or takes it away.
LEMMA LastStep ==
  ASSUME NullIsApart, Inv, NEW r \in Request, NEW c \in Customer, c = req[r].who,
         req[r].at # "idle", Finish(r), UNCHANGED ownVars,
         forsaken \subseteq forsaken', forsaken' \subseteq Customer,
         NEW a \in Address, NEW row \in AddressRow \cup {None},
         addresses' = [addresses EXCEPT ![a] = row],
         addresses[a] # None => addresses[a].owner = c,
         row # None => row.owner = c /\ (addresses[a] = None => \A q \in Request : req[q].of # a),
         Book(c)', c \notin contested => Single(c)'
  PROVE  Inv'
<1>1. addresses \in [Address -> AddressRow \cup {None}]
  BY DEF Inv, TypeOK
<1>2. ArgsOK(Idle)'
  BY IdleType DEF ArgsOK
<1>3. /\ req' = [req EXCEPT ![r] = Idle] /\ contested' = contested
      /\ addresses' \in [Address -> AddressRow \cup {None}]
      /\ addresses'[a] = row /\ \A b \in Address \ {a} : addresses'[b] = addresses[b]
  BY <1>1 DEF Finish
<1>4. \A b \in Address :
           /\ addresses[b] # None /\ addresses[b].owner # c => addresses'[b] = addresses[b]
           /\ addresses'[b] # None /\ addresses'[b].owner # c => addresses'[b] = addresses[b]
           /\ addresses'[b] # None /\ addresses[b] = None => \A q \in Request : req[q].of # b
  BY <1>3
<1> QED BY <1>2, <1>3, <1>4, IdleType, BookStep

LEMMA InsertInv ==
  ASSUME NullIsApart, Inv, NEW r \in Request, NEW a \in Address, InsertAddress(r, a)
  PROVE  Inv'
<1>1. req[r].at = "insert"
  BY DEF InsertAddress
<1>2. PICK c \in Customer : c = req[r].who
  BY <1>1, Working
<1>3. /\ req[r].label \in Label /\ req[r].default \in BOOLEAN /\ forsaken \subseteq Customer
      /\ addresses \in [Address -> AddressRow \cup {None}]
  BY <1>1, Working DEF ArgsOK
<1>4. PICK t \in BOOLEAN : t = req[r].default
  BY <1>3
<1>5. PICK row \in AddressRow :
        /\ row = [owner |-> c, label |-> req[r].label, default |-> t]
        /\ row.owner = c /\ row.default = t
  <2> DEFINE row == [owner |-> c, label |-> req[r].label, default |-> t]
  <2>1. row \in AddressRow
    BY <1>3 DEF AddressRow
  <2>2. row.owner = c /\ row.default = t
    OBVIOUS
  <2> HIDE DEF row
  <2> QED BY <2>1, <2>2 DEF row
<1>6. /\ addresses[a] = None /\ \A q \in Request : req[q].of # a
      /\ addresses' = [addresses EXCEPT ![a] = row] /\ Finish(r)
      /\ UNCHANGED ownVars /\ forsaken' = forsaken
  BY <1>2, <1>4, <1>5 DEF InsertAddress
<1>7. /\ addresses'[a] = row /\ row # None
      /\ \A b \in Address \ {a} : addresses'[b] = addresses[b]
  BY <1>3, <1>5, <1>6, IdleType
<1>8. /\ Addresses(c)' = Addresses(c) \cup {a}
      /\ t = TRUE => Defaults(c)' = Defaults(c) \cup {a}
      /\ t = FALSE => Defaults(c)' = Defaults(c)
  <2>1. Addresses(c)' = Addresses(c) \cup {a}
    BY <1>5, <1>6, <1>7 DEF Addresses
  <2>2. a \notin Addresses(c)
    BY <1>6 DEF Addresses
  <2> QED BY <1>5, <1>7, <2>1, <2>2 DEF Defaults, Addresses
<1>9. t = TRUE <=> Cleared(req[r])
  BY <1>1, <1>4 DEF Cleared
<1>10. Book(c)'
  <2>1. Defaults(c) # {} \/ Cleared(req[r]) => Defaults(c)' # {}
    BY <1>4, <1>8, <1>9
  <2> QED BY <1>1, <1>2, <1>6, <2>1, PromiseKept
<1>11. c \notin contested => Single(c)'
  <2>1. \/ Defaults(c)' \subseteq Defaults(c)
        \/ Cleared(req[r]) /\ Defaults(c)' = Defaults(c) \cup {a}
    BY <1>4, <1>8, <1>9
  <2> QED BY <1>2, <1>6, <2>1, OneIsLeft
<1> QED BY <1>1, <1>2, <1>3, <1>5, <1>6, <1>10, <1>11, LastStep

LEMMA UpdateInv ==
  ASSUME NullIsApart, Inv, NEW r \in Request, UpdateAddress(r)
  PROVE  Inv'
<1>1. req[r].at = "update" /\ addresses[req[r].of] # None
  BY DEF UpdateAddress
<1>2. PICK c \in Customer : c = req[r].who
  BY <1>1, Working
<1>3. PICK a \in Address : a = req[r].of
  BY <1>1, Working DEF ArgsOK, OwnAddress
<1>4. /\ req[r] \in Handler /\ forsaken \subseteq Customer
      /\ addresses \in [Address -> AddressRow \cup {None}]
      /\ addresses[a] \in AddressRow /\ addresses[a].owner = c /\ addresses[a] # None
  BY <1>1, <1>2, <1>3, Working DEF ArgsOK, OwnAddress
<1>5. PICK was \in BOOLEAN : was = addresses[a].default
  BY <1>4 DEF AddressRow
<1>6. PICK t \in BOOLEAN :
        /\ t = (IF req[r].default = None THEN was ELSE req[r].default)
        /\ req[r].default = None => t = was
        /\ req[r].default # None => t = req[r].default
  BY <1>4 DEF Handler
<1>7. PICK label \in Label : label = (IF req[r].label = None THEN addresses[a].label ELSE req[r].label)
  BY <1>4 DEF Handler, AddressRow
<1>8. PICK row \in AddressRow :
        /\ row = [owner |-> c, label |-> label, default |-> t]
        /\ row.owner = c /\ row.default = t
  <2> DEFINE row == [owner |-> c, label |-> label, default |-> t]
  <2>1. row \in AddressRow
    BY DEF AddressRow
  <2>2. row.owner = c /\ row.default = t
    OBVIOUS
  <2> HIDE DEF row
  <2> QED BY <2>1, <2>2 DEF row
<1>9. /\ addresses' = [addresses EXCEPT ![a] = row] /\ Finish(r) /\ UNCHANGED ownVars
      /\ forsaken' = IF was /\ ~t THEN forsaken \cup {c} ELSE forsaken
  BY <1>2, <1>3, <1>4, <1>5, <1>6, <1>7, <1>8 DEF UpdateAddress
<1>10. /\ addresses'[a] = row /\ row # None
       /\ \A b \in Address \ {a} : addresses'[b] = addresses[b]
  BY <1>4, <1>8, <1>9, IdleType
<1>11. /\ Addresses(c)' = Addresses(c) /\ a \in Addresses(c)
       /\ t = TRUE => Defaults(c)' = Defaults(c) \cup {a}
       /\ t = FALSE => Defaults(c)' = Defaults(c) \ {a}
       /\ was = TRUE <=> a \in Defaults(c)
  <2>1. Addresses(c)' = Addresses(c) /\ a \in Addresses(c)
    BY <1>4, <1>8, <1>10 DEF Addresses
  <2>2. was = TRUE <=> a \in Defaults(c)
    BY <1>5, <2>1 DEF Defaults
  <2> QED BY <1>8, <1>10, <2>1, <2>2 DEF Defaults, Addresses
<1>12. /\ Cleared(req[r]) => t = TRUE
       /\ t = TRUE => Cleared(req[r]) \/ was = TRUE
  BY <1>1, <1>6, IdleType DEF Cleared
<1>13. forsaken \subseteq forsaken' /\ forsaken' \subseteq Customer
  BY <1>4, <1>9
<1>14. Book(c)'
  <2>1. Defaults(c) # {} \/ Cleared(req[r]) => Defaults(c)' # {} \/ c \in forsaken'
    <3>1. CASE t = TRUE
      BY <1>11, <3>1
    <3>2. CASE t = FALSE /\ was = TRUE
      BY <1>9, <3>2
    <3>3. CASE t = FALSE /\ was = FALSE
      BY <1>11, <1>12, <3>3
    <3> QED BY <1>5, <1>6, <3>1, <3>2, <3>3
  <2> QED BY <1>2, <1>9, <1>11, <1>13, <2>1, PromiseKept
<1>15. c \notin contested => Single(c)'
  <2>1. \/ Defaults(c)' \subseteq Defaults(c)
        \/ Cleared(req[r]) /\ Defaults(c)' = Defaults(c) \cup {a}
    BY <1>6, <1>11, <1>12
  <2> QED BY <1>2, <1>9, <2>1, OneIsLeft
<1> QED BY <1>1, <1>2, <1>4, <1>8, <1>9, <1>13, <1>14, <1>15, LastStep

LEMMA RemoveInv ==
  ASSUME NullIsApart, Inv, NEW r \in Request, RemoveAddress(r)
  PROVE  Inv'
<1>1. req[r].at = "remove" /\ addresses[req[r].of] # None
  BY DEF RemoveAddress
<1>2. PICK c \in Customer : c = req[r].who
  BY <1>1, Working
<1>3. PICK a \in Address : a = req[r].of
  BY <1>1, Working DEF ArgsOK, OwnAddress
<1>4. /\ forsaken \subseteq Customer /\ addresses \in [Address -> AddressRow \cup {None}]
      /\ addresses[a].owner = c /\ ~Cleared(req[r])
  BY <1>1, <1>2, <1>3, Working DEF ArgsOK, OwnAddress, Cleared
<1>5. /\ addresses' = [addresses EXCEPT ![a] = None] /\ Finish(r) /\ UNCHANGED ownVars
      /\ forsaken' = IF addresses[a].default THEN forsaken \cup {c} ELSE forsaken
  BY <1>2, <1>3 DEF RemoveAddress
<1>6. addresses'[a] = None /\ \A b \in Address \ {a} : addresses'[b] = addresses[b]
  BY <1>4, <1>5
<1>7. /\ Addresses(c)' = Addresses(c) \ {a} /\ a \in Addresses(c)
      /\ Defaults(c)' = Defaults(c) \ {a}
      /\ a \in Defaults(c) => c \in forsaken'
  <2>1. Addresses(c)' = Addresses(c) \ {a} /\ a \in Addresses(c)
    BY <1>1, <1>3, <1>4, <1>6 DEF Addresses
  <2> QED BY <1>5, <1>6, <2>1 DEF Defaults, Addresses
<1>8. forsaken \subseteq forsaken' /\ forsaken' \subseteq Customer
  BY <1>4, <1>5
<1>9. Book(c)'
  <2>1. Defaults(c) # {} => Defaults(c)' # {} \/ c \in forsaken'
    BY <1>7
  <2> QED BY <1>2, <1>4, <1>5, <1>7, <1>8, <2>1, PromiseKept
<1>10. c \notin contested => Single(c)'
  BY <1>2, <1>5, <1>7, OneIsLeft
<1> QED BY <1>1, <1>2, <1>4, <1>5, <1>8, <1>9, <1>10, LastStep

\* A request that fails after it cleared the default is recorded.
LEMMA FailInv ==
  ASSUME NullIsApart, Inv, NEW r \in Request, Fail(r)
  PROVE  Inv'
<1>1. req[r].at # "idle"
  BY DEF Fail, Inv, Handlers, ArgsOK
<1>2. PICK c \in Customer : c = req[r].who
  BY <1>1, Working
<1>3. /\ UNCHANGED <<ownVars, addresses>> /\ Finish(r) /\ forsaken \subseteq Customer
      /\ addresses \in [Address -> AddressRow \cup {None}]
      /\ forsaken' = IF Cleared(req[r]) THEN forsaken \cup {c} ELSE forsaken
  BY <1>1, <1>2, Working DEF Fail, Cleared
<1>4. forsaken \subseteq forsaken' /\ forsaken' \subseteq Customer
  BY <1>3
<1>5. Book(c)' /\ (c \notin contested => Single(c)')
  <2>1. Addresses(c)' = Addresses(c) /\ Defaults(c)' = Defaults(c)
    BY <1>3 DEF Addresses, Defaults
  <2>2. Cleared(req[r]) => c \in forsaken'
    BY <1>3
  <2>3. Book(c)'
    BY <1>2, <1>3, <1>4, <2>1, <2>2, PromiseKept
  <2>4. ASSUME c \notin contested PROVE Single(c)'
    <3>1. /\ req'[r] = Idle /\ \A q \in Request \ {r} : req'[q] = req[q]
          /\ Single(c) /\ ~Cleared(Idle)
      BY <1>3, <2>4, IdleType DEF Inv, TypeOK, Finish
    <3> QED BY <2>1, <3>1 DEF Single, Cleared
  <2> QED BY <2>3, <2>4
<1>6. ArgsOK(Idle)'
  BY IdleType DEF ArgsOK
<1> QED BY <1>1, <1>2, <1>3, <1>4, <1>5, <1>6, IdleType, BookStep DEF Finish

-----------------------------------------------------------------------------

\* Every step keeps the invariant.
LEMMA NextInv ==
  ASSUME NullIsApart PROVE Inv /\ [Next]_vars => Inv'
<1> SUFFICES ASSUME Inv, [Next]_vars PROVE Inv' OBVIOUS
<1>1. CASE UNCHANGED vars
  BY <1>1 DEF vars, Inv, TypeOK, Handlers, ArgsOK, OwnAddress, Cleared, SetsDefault,
              Recorded, Book, Single, Promised, Owned, Addresses, Defaults
<1>2. ASSUME NEW r \in Request, Step(r) PROVE Inv'
  BY <1>2, OwnInv, CountInv, ClearInv, InsertInv, UpdateInv, RemoveInv, FailInv DEF Step
<1> QED BY <1>1, <1>2, OwnBeginInv, BookBeginInv DEF Next

\* The invariant holds in every state.
THEOREM Invariance ==
  ASSUME NullIsApart PROVE Spec => []Inv
BY InitInv, NextInv, PTL DEF Spec

-----------------------------------------------------------------------------
(* Theorems *)

\* Rows and handlers keep their types.
THEOREM CustomerTypes ==
  ASSUME NullIsApart PROVE Spec => []TypeOK
<1>1. Inv => TypeOK
  BY DEF Inv
<1> QED BY <1>1, Invariance, PTL

\* createAsync and updateAsync keep one default address whatever overlaps, unless two
\* requests set one at the same time; and it is lost only where it was deleted or unset, or
\* a request failed after it cleared it.
THEOREM OneDefaultAddress ==
  ASSUME NullIsApart PROVE Spec => []OneDefaultUnlessContested
<1>1. \A h : Cleared(h) => SetsDefault(h)
  BY DEF Cleared, SetsDefault
<1>2. ASSUME Inv PROVE OneDefaultUnlessContested
  <2> SUFFICES ASSUME NEW c \in Customer
               PROVE  /\ c \in contested \/ \A a, b \in Defaults(c) : a = b
                      /\ Addresses(c) # {} =>
                           \/ Defaults(c) # {} \/ c \in forsaken
                           \/ \E r \in Request : SetsDefault(req[r]) /\ req[r].who = c
    BY DEF OneDefaultUnlessContested
  <2>1. c \in contested \/ \A a, b \in Defaults(c) : a = b
    BY <1>2 DEF Inv, Single
  <2>2. Addresses(c) # {} => Promised(c)
    BY <1>2 DEF Inv, Book
  <2> QED BY <1>1, <2>1, <2>2 DEF Promised
<1> QED BY <1>2, Invariance, PTL

\* deleteAsync takes the vehicles with the customer, and none comes later, unless it was on
\* its way when the customer was deleted.
THEOREM VehiclesGoWithCustomer ==
  ASSUME NullIsApart PROVE Spec => []NoVehicleOutlivesCustomer
<1>1. Inv => NoVehicleOutlivesCustomer
  BY DEF Inv, Owned, NoVehicleOutlivesCustomer
<1> QED BY <1>1, Invariance, PTL
=============================================================================
