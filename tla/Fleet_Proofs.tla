----------------------------- MODULE Fleet_Proofs -----------------------------
(***************************************************************************)
(* What Fleet keeps for any number of drivers, vehicles and requests: its  *)
(* type, and for a vehicle whose reassignments follow each other one       *)
(* driver at most and an availability that says so.                        *)
(***************************************************************************)
EXTENDS Fleet, TLAPS

\* Stages of the handlers that reassign, before and after they write the driver.
Before == {"check", "assign", "clear", "delete"}
After == {"release", "mark"}

-----------------------------------------------------------------------------
(* The inductive invariant *)

\* A driver has the vehicle.
Has(d, v) == drivers[d].life = "live" /\ drivers[d].vehicle = v

\* A driver is created without a vehicle.
AbsentIsBlank == \A d \in Driver : drivers[d].life = "absent" => drivers[d].vehicle = None

\* What a request has in hand at each stage.
HandlerOK(h) ==
  /\ h.at = "idle" => h = Idle
  /\ h.at \in Before \cup After => h.driver \in Driver
  /\ h.at \in {"check", "assign", "mark"} => h.new \in Vehicle
  /\ h.at \in {"clear", "delete"} => h.new = None
  /\ h.at = "release" => h.old \in Vehicle
  /\ h.at \in After => h.old # h.new
  /\ h.at \in {"submit", "ban", "update", "remove"} => h.driver = None /\ h.new \in Vehicle

ArgsOK == \A r \in Request : HandlerOK(req[r])

\* Overlapping reassignments are recorded.
Recorded ==
  \A r, q \in Request : r # q /\ Overlap(req[r], req[q]) =>
    InHand(req[r]) \cup InHand(req[q]) \subseteq contested

\* A request writes a driver who exists, and unless it overlapped, as it was read.
AsRead(h) ==
  h.at \in Before =>
    /\ drivers[h.driver].life # "absent"
    /\ InHand(h) \subseteq contested \/ Has(h.driver, h.old)

ReadIsCurrent == \A r \in Request : AsRead(req[r])

\* Nobody has a vehicle that passed the check, or one that was taken from its driver.
FreeInHand(v) ==
  \A r \in Request :
    (req[r].at = "assign" /\ req[r].new = v) \/ (req[r].at \in After /\ req[r].old = v)
      => \A d \in Driver : ~Has(d, v)

\* A vehicle that a driver has is offered only until the request that gave it to the
\* driver has marked it.
MarkToCome(v) ==
  (\E d \in Driver : Has(d, v)) /\ vehicles[v].availability = "Available" =>
    \E r \in Request : req[r].at \in After /\ req[r].new = v

Serial(v) ==
  /\ \A d, e \in Driver : Has(d, v) /\ Has(e, v) => d = e
  /\ FreeInHand(v)
  /\ MarkToCome(v)

Inv ==
  /\ TypeOK /\ ArgsOK /\ AbsentIsBlank
  /\ Recorded /\ ReadIsCurrent
  /\ \A v \in Vehicle \ contested : Serial(v)

-----------------------------------------------------------------------------
(* Types *)

\* An idle request has its type, no driver and nothing in hand.
LEMMA IdleType ==
  /\ Idle \in Handler /\ HandlerOK(Idle)
  /\ Idle.at = "idle" /\ Idle.driver = None
  /\ InHand(Idle) = {}
  /\ "idle" \notin Before \cup After
  /\ None \notin Driver /\ None \notin Vehicle
BY ConstantsAssumption DEF Idle, Handler, Stage, HandlerOK, InHand, Before, After

\* The invariant holds of empty tables.
LEMMA InitInv == Init => Inv
<1> SUFFICES ASSUME Init PROVE Inv OBVIOUS
<1> USE IdleType
<1>1. TypeOK
  BY DEF Init, TypeOK, DriverRow, VehicleRow, Life, VehicleStatus, AvailabilityStatus
<1>2. ArgsOK /\ AbsentIsBlank
  BY DEF Init, ArgsOK, AbsentIsBlank
<1>3. Recorded
  BY DEF Init, Recorded, Overlap
<1>4. ReadIsCurrent
  BY DEF Init, ReadIsCurrent, AsRead
<1>5. \A d \in Driver : \A v : ~Has(d, v)
  BY DEF Init, Has
<1>6. \A v : Serial(v)
  BY <1>5 DEF Serial, FreeInHand, MarkToCome
<1> QED BY <1>1, <1>2, <1>3, <1>4, <1>6 DEF Inv

\* What a request holds follows from its fields.
LEMMA HandType ==
  ASSUME NEW h \in Handler
  PROVE  /\ InHand(h) \subseteq Vehicle
         /\ h.driver # None =>
              \A v \in Vehicle : v \in InHand(h) <=> v = h.old \/ v = h.new
BY IdleType DEF Handler, InHand

\* A request goes on with what it has in hand, or ends: no overlap is new.
LEMMA GoOn ==
  ASSUME Inv, NEW r \in Request, NEW h \in Handler, HandlerOK(h),
         req' = [req EXCEPT ![r] = h],
         h = Idle \/ (h.driver = req[r].driver /\ InHand(h) \subseteq InHand(req[r])),
         contested \subseteq contested', contested' \subseteq Vehicle
  PROVE  /\ req' \in [Request -> Handler]
         /\ req'[r] = h
         /\ \A q \in Request \ {r} : req'[q] = req[q]
         /\ ArgsOK' /\ Recorded'
<1>1. /\ req' \in [Request -> Handler]
      /\ req'[r] = h
      /\ \A q \in Request \ {r} : req'[q] = req[q]
  BY DEF Inv, TypeOK
<1>2. ArgsOK'
  BY <1>1 DEF Inv, ArgsOK
<1>3. ASSUME NEW g
      PROVE  /\ Overlap(h, g) => Overlap(req[r], g)
             /\ Overlap(g, h) => Overlap(g, req[r])
             /\ InHand(h) \subseteq InHand(req[r])
  BY IdleType DEF Overlap
<1>4. Recorded'
  BY <1>1, <1>3 DEF Inv, Recorded
<1> QED BY <1>1, <1>2, <1>4

-----------------------------------------------------------------------------
(* Steps *)

\* A request arrives: it has read the driver, or concerns a vehicle alone.
LEMMA EnterInv ==
  ASSUME Inv, NEW r \in Request, NEW h \in Handler, HandlerOK(h),
         h.at \notin After, h.at # "assign",
         h.at \in Before => Has(h.driver, h.old),
         Enter(r, h), UNCHANGED <<drivers, vehicles>>
  PROVE  Inv'
<1>1. /\ req[r] = Idle
      /\ req' \in [Request -> Handler]
      /\ req'[r] = h
      /\ \A q \in Request \ {r} : req'[q] = req[q]
  BY DEF Enter, Inv, TypeOK
<1>2. /\ contested \subseteq contested'
      /\ contested' \subseteq Vehicle
      /\ \A q \in Request : Overlap(req[q], h) =>
           InHand(req[q]) \cup InHand(h) \subseteq contested'
  <2>1. \A q \in Request : InHand(req[q]) \subseteq Vehicle
    BY HandType DEF Inv, TypeOK
  <2>2. contested \subseteq Vehicle /\ InHand(h) \subseteq Vehicle
    BY HandType DEF Inv, TypeOK
  <2> QED BY <2>1, <2>2 DEF Enter
<1>3. TypeOK' /\ ArgsOK' /\ AbsentIsBlank'
  BY <1>1, <1>2 DEF Inv, TypeOK, ArgsOK, AbsentIsBlank
<1>4. \A g : Overlap(h, g) <=> Overlap(g, h)
  BY DEF Overlap
<1>5. Recorded'
  BY <1>1, <1>2, <1>4 DEF Inv, Recorded
<1>6. \A d, v : Has(d, v)' <=> Has(d, v)
  BY DEF Has
<1>7. ReadIsCurrent'
  <2>1. AsRead(h)'
    BY <1>6 DEF AsRead, Has
  <2>2. ASSUME NEW q \in Request \ {r} PROVE AsRead(req[q])'
    <3>1. AsRead(req[q]) /\ req'[q] = req[q]
      BY <1>1 DEF Inv, ReadIsCurrent
    <3> QED BY <1>2, <1>6, <3>1 DEF AsRead
  <2> QED BY <1>1, <2>1, <2>2 DEF ReadIsCurrent
<1>8. ASSUME NEW v \in Vehicle \ contested' PROVE Serial(v)'
  <2>1. Serial(v)
    BY <1>2 DEF Inv
  <2>2. FreeInHand(v)'
    BY <1>1, <1>6, <2>1 DEF Serial, FreeInHand
  <2>3. MarkToCome(v)'
    <3>1. \A q \in Request : req[q].at \in After => req'[q] = req[q]
      BY <1>1, IdleType
    <3> QED BY <1>6, <2>1, <3>1 DEF Serial, MarkToCome
  <2> QED BY <1>6, <2>1, <2>2, <2>3 DEF Serial
<1> QED BY <1>3, <1>5, <1>7, <1>8 DEF Inv

\* A step that writes no driver: a check, a refusal, a failure, a write of the vehicle.
LEMMA VehicleStepInv ==
  ASSUME Inv, NEW r \in Request, NEW h \in Handler, HandlerOK(h),
         req' = [req EXCEPT ![r] = h],
         h = Idle \/ (h.driver = req[r].driver /\ InHand(h) \subseteq InHand(req[r])),
         contested \subseteq contested', contested' \subseteq Vehicle,
         drivers' = drivers, vehicles' \in [Vehicle -> VehicleRow],
         h.at \in Before =>
           req[r].at \in Before /\ h.old = req[r].old /\ InHand(h) = InHand(req[r]),
         h.at = "assign" /\ h.new \notin contested' => \A d \in Driver : ~Has(d, h.new),
         h.at \in After => req[r].at \in After /\ h.old = req[r].old,
         \A v \in Vehicle \ contested' :
           (\E d \in Driver : Has(d, v)) /\ vehicles'[v].availability = "Available" =>
             /\ vehicles[v].availability = "Available"
             /\ req[r].at \in After /\ req[r].new = v => h.at \in After /\ h.new = v
  PROVE  Inv'
<1>1. /\ req' \in [Request -> Handler]
      /\ req'[r] = h
      /\ \A q \in Request \ {r} : req'[q] = req[q]
      /\ ArgsOK' /\ Recorded'
  BY GoOn
<1>2. TypeOK' /\ AbsentIsBlank'
  BY <1>1 DEF Inv, TypeOK, AbsentIsBlank
<1>3. \A d, v : Has(d, v)' <=> Has(d, v)
  BY DEF Has
<1>4. ReadIsCurrent'
  <2>1. AsRead(h)'
    <3> SUFFICES ASSUME h.at \in Before
                 PROVE  /\ drivers[h.driver].life # "absent"
                        /\ InHand(h) \subseteq contested' \/ Has(h.driver, h.old)
      BY <1>3 DEF AsRead
    <3>1. AsRead(req[r]) /\ h # Idle
      BY IdleType DEF Inv, ReadIsCurrent
    <3> QED BY <3>1 DEF AsRead
  <2>2. ASSUME NEW q \in Request \ {r} PROVE AsRead(req[q])'
    <3>1. AsRead(req[q]) /\ req'[q] = req[q]
      BY <1>1 DEF Inv, ReadIsCurrent
    <3> QED BY <1>3, <3>1 DEF AsRead
  <2> QED BY <1>1, <2>1, <2>2 DEF ReadIsCurrent
<1>5. ASSUME NEW v \in Vehicle \ contested' PROVE Serial(v)'
  <2>1. Serial(v)
    BY DEF Inv
  <2>2. FreeInHand(v)'
    <3>1. ASSUME (h.at = "assign" /\ h.new = v) \/ (h.at \in After /\ h.old = v)
          PROVE  \A d \in Driver : ~Has(d, v)
      BY <2>1, <3>1 DEF Serial, FreeInHand
    <3> QED BY <1>1, <1>3, <2>1, <3>1 DEF Serial, FreeInHand
  <2>3. MarkToCome(v)'
    BY <1>1, <1>3, <2>1 DEF Serial, MarkToCome
  <2> QED BY <1>3, <2>1, <2>2, <2>3 DEF Serial
<1> QED BY <1>1, <1>2, <1>4, <1>5 DEF Inv

\* A request writes its driver: it takes the old vehicle away and may give the new one.
LEMMA DriverStepInv ==
  ASSUME Inv, NEW r \in Request, NEW d \in Driver, NEW row \in DriverRow,
         NEW h \in Handler, HandlerOK(h),
         req[r].at \in Before, req[r].driver = d,
         drivers' = [drivers EXCEPT ![d] = row],
         row.life # "absent",
         row.life = "live" /\ row.vehicle # None =>
           req[r].at = "assign" /\ row.vehicle = req[r].new,
         req' = [req EXCEPT ![r] = h],
         IF req[r].old = req[r].new
           THEN h = Idle
           ELSE /\ h.at \in After /\ h.driver = d
                /\ h.old = req[r].old /\ h.new = req[r].new,
         UNCHANGED <<vehicles, contested>>
  PROVE  Inv'
<1>1. /\ req \in [Request -> Handler] /\ drivers \in [Driver -> DriverRow]
      /\ contested \subseteq Vehicle /\ d # None
  BY IdleType DEF Inv, TypeOK
<1>2. h = Idle \/ (h.driver = req[r].driver /\ InHand(h) = InHand(req[r]))
  BY DEF InHand
<1>3. /\ req' \in [Request -> Handler]
      /\ req'[r] = h
      /\ \A q \in Request \ {r} : req'[q] = req[q]
      /\ ArgsOK' /\ Recorded'
  BY <1>1, <1>2, GoOn
<1>4. /\ drivers' \in [Driver -> DriverRow]
      /\ drivers'[d] = row
      /\ \A e \in Driver \ {d} : drivers'[e] = drivers[e]
  BY <1>1
<1>5. TypeOK' /\ AbsentIsBlank'
  BY <1>3, <1>4 DEF Inv, TypeOK, AbsentIsBlank
<1>6. ASSUME NEW e \in Driver, NEW v \in Vehicle, Has(e, v)'
      PROVE  \/ e # d /\ Has(e, v)
             \/ e = d /\ req[r].at = "assign" /\ v = req[r].new
  BY <1>4, <1>6, IdleType DEF Has
<1>7. ASSUME NEW q \in Request \ {r}, req[q].driver = d
      PROVE  InHand(req[q]) \subseteq contested
  BY <1>1, <1>7 DEF Inv, Recorded, Overlap
<1>8. ReadIsCurrent'
  <2>1. AsRead(h)'
    BY IdleType DEF AsRead, Before, After
  <2>2. ASSUME NEW q \in Request \ {r} PROVE AsRead(req[q])'
    <3>1. AsRead(req[q]) /\ req'[q] = req[q]
      BY <1>3 DEF Inv, ReadIsCurrent
    <3>2. CASE req[q].driver = d
      BY <1>4, <1>7, <3>1, <3>2 DEF AsRead
    <3>3. CASE req[q].driver # d
      <4>1. req[q].at \in Before => req[q].driver \in Driver \ {d}
        BY <3>3 DEF Inv, ArgsOK, HandlerOK
      <4> QED BY <1>4, <3>1, <4>1 DEF AsRead, Has
    <3> QED BY <3>2, <3>3
  <2> QED BY <1>3, <2>1, <2>2 DEF ReadIsCurrent
<1>9. ASSUME NEW v \in Vehicle \ contested PROVE Serial(v)'
  <2>1. Serial(v)
    BY DEF Inv
  <2>2. v \in InHand(req[r]) <=> v = req[r].old \/ v = req[r].new
    BY <1>1, HandType
  <2>3. req[r].old = v => Has(d, v)
    <3>1. AsRead(req[r])
      BY DEF Inv, ReadIsCurrent
    <3> QED BY <2>2, <3>1 DEF AsRead
  <2>4. req[r].at = "assign" /\ req[r].new = v =>
          req[r].old # v /\ \A e \in Driver : ~Has(e, v)
    BY <2>1, <2>3 DEF Serial, FreeInHand
  <2>5. ASSUME NEW q \in Request \ {r}, req[r].at = "assign", req[r].new = v,
               req[q].driver \in Driver
        PROVE  req[q].new # v /\ req[q].old # v
    <3>1. req[q].driver # None
      BY <2>5, IdleType
    <3>2. v \in InHand(req[q]) <=> v = req[q].old \/ v = req[q].new
      BY <1>1, <3>1, HandType
    <3>3. v \in InHand(req[q]) => v \in contested
      BY <2>2, <2>5 DEF Inv, Recorded, Overlap
    <3> QED BY <3>2, <3>3
  <2>6. \A e, f \in Driver : Has(e, v)' /\ Has(f, v)' => e = f
    BY <1>6, <2>1, <2>4 DEF Serial
  <2>7. FreeInHand(v)'
    <3>1. ASSUME h.at \in After, h.old = v
          PROVE  \A e \in Driver : ~Has(e, v)'
      <4>1. req[r].old = v /\ req[r].new # v
        BY <3>1, IdleType
      <4> QED BY <1>6, <2>1, <2>3, <4>1 DEF Serial
    <3>2. h.at # "assign"
      BY IdleType DEF After
    <3>3. ASSUME NEW q \in Request \ {r},
                 \/ req[q].at = "assign" /\ req[q].new = v
                 \/ req[q].at \in After /\ req[q].old = v
          PROVE  \A e \in Driver : ~Has(e, v)'
      <4>1. \A e \in Driver : ~Has(e, v)
        BY <2>1, <3>3 DEF Serial, FreeInHand
      <4>2. req[q].driver \in Driver
        BY <3>3 DEF Inv, ArgsOK, HandlerOK, Before
      <4> QED BY <1>6, <2>5, <3>3, <4>1, <4>2
    <3> QED BY <1>3, <3>1, <3>2, <3>3 DEF FreeInHand
  <2>8. MarkToCome(v)'
    <3> SUFFICES ASSUME NEW e \in Driver, Has(e, v)', vehicles[v].availability = "Available"
                 PROVE  \E q \in Request : req'[q].at \in After /\ req'[q].new = v
      BY DEF MarkToCome
    <3>1. CASE Has(e, v)
      <4>1. PICK q \in Request : req[q].at \in After /\ req[q].new = v
        BY <2>1, <3>1 DEF Serial, MarkToCome
      <4>2. q # r
        BY <4>1 DEF Before, After
      <4> QED BY <1>3, <4>1, <4>2
    <3>2. CASE e = d /\ req[r].at = "assign" /\ v = req[r].new
      BY <1>3, <2>4, <3>2
    <3> QED BY <1>6, <3>1, <3>2
  <2> QED BY <2>6, <2>7, <2>8 DEF Serial
<1> QED BY <1>3, <1>5, <1>8, <1>9 DEF Inv

\* A driver or a vehicle is created; a vehicle is approved.
LEMMA OutsideInv ==
  ASSUME Inv, UNCHANGED req,
         \/ \E d \in Driver : CreateDriver(d)
         \/ \E v \in Vehicle : CreateVehicle(v) \/ ApproveVehicle(v)
  PROVE  Inv'
<1>1. /\ drivers \in [Driver -> DriverRow] /\ vehicles \in [Vehicle -> VehicleRow]
      /\ contested \subseteq Vehicle
  BY DEF Inv, TypeOK
<1>2. ASSUME NEW d \in Driver, CreateDriver(d)
      PROVE  Inv'
  <2>1. /\ drivers[d].life = "absent" /\ drivers[d].vehicle = None
        /\ drivers' \in [Driver -> DriverRow]
        /\ drivers'[d].life = "live" /\ drivers'[d].vehicle = None
        /\ \A e \in Driver \ {d} : drivers'[e] = drivers[e]
        /\ UNCHANGED <<vehicles, contested, req>>
    BY <1>1, <1>2 DEF CreateDriver, DriverRow, Life, Inv, AbsentIsBlank
  <2>2. TypeOK' /\ ArgsOK' /\ AbsentIsBlank' /\ Recorded'
    BY <2>1 DEF Inv, TypeOK, ArgsOK, AbsentIsBlank, Recorded
  <2>3. \A e \in Driver, v \in Vehicle : Has(e, v)' <=> Has(e, v)
    BY <2>1, IdleType DEF Has
  <2>4. \A e \in Driver : \A v : Has(e, v) => Has(e, v)'
    BY <2>1 DEF Has
  <2>5. ReadIsCurrent'
    <3>1. \A r \in Request : req[r].at \in Before => req[r].driver \in Driver
      BY DEF Inv, ArgsOK, HandlerOK
    <3> QED BY <2>1, <2>4, <3>1 DEF Inv, ReadIsCurrent, AsRead
  <2>6. \A v \in Vehicle \ contested : Serial(v)'
    BY <2>1, <2>3 DEF Inv, Serial, FreeInHand, MarkToCome
  <2> QED BY <2>1, <2>2, <2>5, <2>6 DEF Inv
<1>3. ASSUME NEW w \in Vehicle, CreateVehicle(w) \/ ApproveVehicle(w)
      PROVE  Inv'
  <2>1. /\ drivers' = drivers /\ req' = req
        /\ vehicles' \in [Vehicle -> VehicleRow]
        /\ \A v \in Vehicle \ {w} : vehicles'[v] = vehicles[v]
        /\ contested \subseteq contested' /\ contested' \subseteq Vehicle
    BY <1>1, <1>3 DEF CreateVehicle, ApproveVehicle, VehicleRow, Life, VehicleStatus,
                      AvailabilityStatus
  <2>2. \/ vehicles'[w].availability = vehicles[w].availability
        \/ w \in contested' \/ \A d \in Driver : ~Has(d, w)
    <3>1. CASE CreateVehicle(w)
      BY <1>1, <3>1 DEF CreateVehicle, VehicleRow
    <3>2. CASE ApproveVehicle(w)
      BY <3>2 DEF ApproveVehicle, Holders, Has
    <3> QED BY <1>3, <3>1, <3>2
  <2>3. TypeOK' /\ ArgsOK' /\ AbsentIsBlank' /\ Recorded'
    BY <2>1 DEF Inv, TypeOK, ArgsOK, AbsentIsBlank, Recorded
  <2>4. \A d, v : Has(d, v)' <=> Has(d, v)
    BY <2>1 DEF Has
  <2>5. ReadIsCurrent'
    BY <2>1, <2>4 DEF Inv, ReadIsCurrent, AsRead
  <2>6. \A v \in Vehicle \ contested' : Serial(v)'
    BY <2>1, <2>2, <2>4 DEF Inv, Serial, FreeInHand, MarkToCome
  <2> QED BY <2>3, <2>5, <2>6 DEF Inv
<1> QED BY <1>2, <1>3

\* Arrivals: the driver is read, or the vehicle.
LEMMA ArrivalInv ==
  ASSUME Inv, NEW r \in Request,
         \/ \E d \in Driver, v \in Vehicle : AssignBegin(r, d, v)
         \/ \E d \in Driver : UnassignBegin(r, d) \/ DeleteBegin(r, d)
         \/ \E v \in Vehicle, stage \in {"submit", "ban", "update", "remove"} :
              VehicleBegin(r, v, stage)
  PROVE  Inv'
<1>1. drivers \in [Driver -> DriverRow]
  BY DEF Inv, TypeOK
<1>2. ASSUME NEW d \in Driver, NEW v \in Vehicle, AssignBegin(r, d, v)
      PROVE  Inv'
  <2> DEFINE h == [at |-> "check", driver |-> d, old |-> drivers[d].vehicle, new |-> v]
  <2>1. h \in Handler /\ HandlerOK(h) /\ h.at = "check"
    BY <1>1 DEF Handler, Stage, DriverRow, HandlerOK, Before, After
  <2>2. Has(h.driver, h.old) /\ Enter(r, h) /\ UNCHANGED <<drivers, vehicles>>
    BY <1>2 DEF AssignBegin, Has
  <2> HIDE DEF h
  <2> QED BY <2>1, <2>2, EnterInv DEF Before, After
<1>3. ASSUME NEW d \in Driver, UnassignBegin(r, d) \/ DeleteBegin(r, d)
      PROVE  Inv'
  <2>1. PICK stage \in {"clear", "delete"} :
          /\ drivers[d].life = "live"
          /\ Enter(r, [at |-> stage, driver |-> d, old |-> drivers[d].vehicle, new |-> None])
          /\ UNCHANGED <<drivers, vehicles>>
    BY <1>3 DEF UnassignBegin, DeleteBegin
  <2> DEFINE h == [at |-> stage, driver |-> d, old |-> drivers[d].vehicle, new |-> None]
  <2>2. h \in Handler /\ HandlerOK(h) /\ h.at \in {"clear", "delete"}
    BY <1>1 DEF Handler, Stage, DriverRow, HandlerOK, Before, After
  <2>3. Has(h.driver, h.old) /\ Enter(r, h) /\ UNCHANGED <<drivers, vehicles>>
    BY <2>1 DEF Has
  <2> HIDE DEF h
  <2> QED BY <2>2, <2>3, EnterInv DEF Before, After
<1>4. ASSUME NEW v \in Vehicle, NEW stage \in {"submit", "ban", "update", "remove"},
             VehicleBegin(r, v, stage)
      PROVE  Inv'
  <2> DEFINE h == [Idle EXCEPT !.at = stage, !.new = v]
  <2>1. h \in Handler /\ HandlerOK(h) /\ h.at = stage
    BY DEF Idle, Handler, Stage, HandlerOK, Before, After
  <2>2. Enter(r, h) /\ UNCHANGED <<drivers, vehicles>>
    BY <1>4 DEF VehicleBegin
  <2> HIDE DEF h
  <2> QED BY <2>1, <2>2, EnterInv DEF Before, After
<1> QED BY <1>2, <1>3, <1>4

\* The statement that writes the driver.
LEMMA DriverWriteInv ==
  ASSUME Inv, NEW r \in Request,
         AssignVehicle(r) \/ UnassignVehicle(r) \/ DeleteDriver(r)
  PROVE  Inv'
<1>1. /\ req \in [Request -> Handler] /\ drivers \in [Driver -> DriverRow]
      /\ HandlerOK(req[r])
  BY DEF Inv, TypeOK, ArgsOK
<1>2. req[r].at \in Before
  BY DEF AssignVehicle, UnassignVehicle, DeleteDriver, Before
<1>3. PICK d \in Driver : req[r].driver = d
  BY <1>1, <1>2 DEF HandlerOK
<1>4. /\ req[r].new \in Vehicle \cup {None}
      /\ drivers[d] \in DriverRow /\ drivers[d].life # "absent"
  BY <1>1, <1>2, <1>3 DEF Handler, Inv, ReadIsCurrent, AsRead
<1>5. PICK row \in DriverRow :
        /\ drivers' = [drivers EXCEPT ![d] = row]
        /\ row.life # "absent"
        /\ row.life = "live" /\ row.vehicle # None =>
             req[r].at = "assign" /\ row.vehicle = req[r].new
  <2>1. CASE AssignVehicle(r)
    <3> DEFINE row == [drivers[d] EXCEPT !.vehicle = req[r].new]
    <3>1. row \in DriverRow /\ row.vehicle = req[r].new /\ row.life = drivers[d].life
      BY <1>4 DEF DriverRow
    <3>2. drivers' = [drivers EXCEPT ![d] = row] /\ req[r].at = "assign"
      BY <1>3, <2>1 DEF AssignVehicle
    <3> HIDE DEF row
    <3> QED BY <1>4, <3>1, <3>2
  <2>2. CASE UnassignVehicle(r)
    <3> DEFINE row == [drivers[d] EXCEPT !.vehicle = None]
    <3>1. row \in DriverRow /\ row.vehicle = None /\ row.life = drivers[d].life
      BY <1>4 DEF DriverRow
    <3>2. drivers' = [drivers EXCEPT ![d] = row]
      BY <1>3, <2>2 DEF UnassignVehicle
    <3> HIDE DEF row
    <3> QED BY <1>4, <3>1, <3>2
  <2>3. CASE DeleteDriver(r)
    <3> DEFINE row == [drivers[d] EXCEPT !.life = "deleted"]
    <3>1. row \in DriverRow /\ row.life = "deleted"
      BY <1>4 DEF DriverRow, Life
    <3>2. drivers' = [drivers EXCEPT ![d] = row]
      BY <1>3, <2>3 DEF DeleteDriver
    <3> HIDE DEF row
    <3> QED BY <3>1, <3>2
  <2> QED BY <2>1, <2>2, <2>3
<1>6. PICK h \in Handler :
        /\ HandlerOK(h)
        /\ req' = [req EXCEPT ![r] = h]
        /\ IF req[r].old = req[r].new
             THEN h = Idle
             ELSE /\ h.at \in After /\ h.driver = d
                  /\ h.old = req[r].old /\ h.new = req[r].new
  <2>1. CASE req[r].old = req[r].new
    <3>1. Finish(r)
      BY <1>1, <2>1 DEF AssignVehicle, UnassignVehicle, DeleteDriver, AfterAssign, HandlerOK
    <3> QED BY <2>1, <3>1, IdleType DEF Finish
  <2>2. CASE req[r].old # req[r].new
    <3>1. PICK stage \in After :
            /\ Goto(r, stage)
            /\ stage = "release" => req[r].old \in Vehicle
            /\ stage = "mark" => req[r].new \in Vehicle
      <4>1. req[r].old \in Vehicle \cup {None}
        BY <1>1 DEF Handler
      <4> QED BY <1>1, <2>2, <4>1 DEF AssignVehicle, UnassignVehicle, DeleteDriver,
                                      AfterAssign, HandlerOK, After
    <3> DEFINE h == [req[r] EXCEPT !.at = stage]
    <3>2. /\ h \in Handler /\ h.at = stage /\ h.driver = d
          /\ h.old = req[r].old /\ h.new = req[r].new
      BY <1>1, <1>3 DEF Handler, Stage, After
    <3>3. req' = [req EXCEPT ![r] = h]
      BY <3>1 DEF Goto
    <3> HIDE DEF h
    <3>4. HandlerOK(h)
      BY <2>2, <3>1, <3>2 DEF HandlerOK, Before, After
    <3> QED BY <2>2, <3>2, <3>3, <3>4
  <2> QED BY <2>1, <2>2
<1>7. UNCHANGED <<vehicles, contested>>
  BY DEF AssignVehicle, UnassignVehicle, DeleteDriver
<1> QED BY <1>2, <1>3, <1>5, <1>6, <1>7, DriverStepInv

\* Steps of a reassignment that do not write the driver.
LEMMA ReassignInv ==
  ASSUME Inv, NEW r \in Request,
         AssignCheck(r) \/ AssignRefused(r) \/ ReleaseVehicle(r) \/ MarkVehicle(r) \/ Fail(r)
  PROVE  Inv'
<1>1. /\ req \in [Request -> Handler] /\ vehicles \in [Vehicle -> VehicleRow]
      /\ contested \subseteq Vehicle /\ HandlerOK(req[r])
      /\ InHand(req[r]) \subseteq Vehicle
  BY HandType DEF Inv, TypeOK, ArgsOK
<1>2. ASSUME NEW h \in Handler, h = Idle \/ (h.driver = req[r].driver
                                             /\ h.old = req[r].old /\ h.new = req[r].new)
      PROVE  h = Idle \/ (h.driver = req[r].driver /\ InHand(h) = InHand(req[r]))
  BY <1>2 DEF InHand
<1>3. CASE AssignCheck(r)
  <2> DEFINE h == [req[r] EXCEPT !.at = "assign"]
  <2>1. /\ h \in Handler /\ h.at = "assign" /\ h.driver = req[r].driver
        /\ h.old = req[r].old /\ h.new = req[r].new
    BY <1>1 DEF Handler, Stage
  <2>2. /\ req[r].at = "check" /\ req' = [req EXCEPT ![r] = h]
        /\ vehicles[req[r].new].availability = "Available"
        /\ UNCHANGED <<drivers, vehicles, contested>>
    BY <1>3 DEF AssignCheck, Goto, Assignable
  <2> HIDE DEF h
  <2>3. HandlerOK(h)
    BY <1>1, <2>1, <2>2 DEF HandlerOK, Before, After
  <2>4. ASSUME h.new \notin contested PROVE \A d \in Driver : ~Has(d, h.new)
    <3>1. h.new \in Vehicle /\ req[r].driver # None
      BY <1>1, <2>1, <2>2, IdleType DEF HandlerOK, Before
    <3>2. h.new \in InHand(req[r])
      BY <1>1, <2>1, <3>1, HandType
    <3>3. SUFFICES ASSUME \E d \in Driver : Has(d, h.new) PROVE FALSE
      OBVIOUS
    <3>4. PICK q \in Request : req[q].at \in After /\ req[q].new = h.new
      BY <2>1, <2>2, <2>4, <3>1, <3>3 DEF Inv, Serial, MarkToCome
    <3>5. q # r /\ req[q].driver # None
      BY <2>2, <3>4, IdleType DEF Inv, ArgsOK, HandlerOK, After
    <3>6. h.new \in InHand(req[q])
      BY <1>1, <3>1, <3>4, <3>5, HandType
    <3> QED BY <2>4, <3>2, <3>5, <3>6 DEF Inv, Recorded, Overlap
  <2>5. InHand(h) = InHand(req[r])
    BY <2>1 DEF InHand
  <2>6. req[r].at \in Before /\ req[r].at \notin After /\ h.at \notin After
    BY <2>1, <2>2 DEF Before, After
  <2> QED BY <1>1, <2>1, <2>2, <2>3, <2>4, <2>5, <2>6, VehicleStepInv
<1>4. CASE AssignRefused(r) \/ Fail(r)
  <2>1. /\ req' = [req EXCEPT ![r] = Idle] /\ UNCHANGED <<drivers, vehicles>>
        /\ contested \subseteq contested' /\ contested' \subseteq Vehicle
        /\ req[r].at \in After => InHand(req[r]) \subseteq contested'
    BY <1>1, <1>4 DEF AssignRefused, Fail, Finish, After
  <2>2. ASSUME NEW v \in Vehicle \ contested' PROVE ~(req[r].at \in After /\ req[r].new = v)
    <3>1. req[r].at \in After => req[r].driver # None
      BY <1>1, IdleType DEF HandlerOK
    <3> QED BY <1>1, <2>1, <3>1, HandType
  <2>3. Idle.at \notin Before \cup After /\ Idle.at # "assign"
    BY IdleType
  <2> QED BY <1>1, <2>1, <2>2, <2>3, IdleType, VehicleStepInv
<1>5. CASE ReleaseVehicle(r)
  <2>1. /\ req[r].at = "release" /\ req[r].old \in Vehicle /\ req[r].driver \in Driver
        /\ req[r].new \in Vehicle \cup {None} /\ req[r].old # req[r].new
        /\ UNCHANGED <<drivers, contested>>
        /\ vehicles' = [vehicles EXCEPT ![req[r].old].availability = "Available"]
    BY <1>1, <1>5 DEF ReleaseVehicle, HandlerOK, Handler, After
  <2>2. /\ vehicles' \in [Vehicle -> VehicleRow]
        /\ \A v \in Vehicle \ {req[r].old} : vehicles'[v] = vehicles[v]
    BY <1>1, <2>1 DEF VehicleRow, AvailabilityStatus
  <2>3. ASSUME NEW v \in Vehicle \ contested, \E d \in Driver : Has(d, v)
        PROVE  v # req[r].old
    BY <2>1, <2>3 DEF Inv, Serial, FreeInHand, After
  <2>4. PICK h \in Handler :
          /\ HandlerOK(h) /\ req' = [req EXCEPT ![r] = h]
          /\ IF req[r].new = None THEN h = Idle
              ELSE /\ h.at = "mark" /\ h.driver = req[r].driver
                   /\ h.old = req[r].old /\ h.new = req[r].new
    <3>1. CASE req[r].new = None
      BY <1>5, <3>1, IdleType DEF ReleaseVehicle, Finish
    <3>2. CASE req[r].new # None
      <4> DEFINE h == [req[r] EXCEPT !.at = "mark"]
      <4>1. /\ h \in Handler /\ h.at = "mark" /\ h.driver = req[r].driver
            /\ h.old = req[r].old /\ h.new = req[r].new
        BY <1>1 DEF Handler, Stage
      <4>2. req' = [req EXCEPT ![r] = h]
        BY <1>5, <3>2 DEF ReleaseVehicle, Goto
      <4> HIDE DEF h
      <4>3. HandlerOK(h)
        BY <2>1, <3>2, <4>1 DEF HandlerOK, Before, After
      <4> QED BY <3>2, <4>1, <4>2, <4>3
    <3> QED BY <3>1, <3>2
  <2>5. h.at \notin Before /\ h.at # "assign" /\ req[r].at \in After
    BY <2>1, <2>4, IdleType DEF Before, After
  <2>6. h = Idle \/ (h.driver = req[r].driver /\ InHand(h) = InHand(req[r]))
    BY <1>2, <2>4
  <2>7. h.at \in After => h.old = req[r].old
    BY <2>4, IdleType
  <2>8. \A v \in Vehicle : req[r].new = v => h.at \in After /\ h.new = v
    BY <2>4, IdleType DEF After
  <2>9. \A v \in Vehicle \ contested' :
          (\E d \in Driver : Has(d, v)) /\ vehicles'[v].availability = "Available" =>
            /\ vehicles[v].availability = "Available"
            /\ req[r].at \in After /\ req[r].new = v => h.at \in After /\ h.new = v
    BY <2>1, <2>2, <2>3, <2>8
  <2>10. contested \subseteq contested' /\ contested' \subseteq Vehicle /\ drivers' = drivers
    BY <1>1, <2>1
  <2> QED BY <2>2, <2>4, <2>5, <2>6, <2>7, <2>9, <2>10, VehicleStepInv
<1>6. CASE MarkVehicle(r)
  <2>1. /\ req[r].at = "mark" /\ req[r].new \in Vehicle
        /\ UNCHANGED <<drivers, contested>>
        /\ vehicles' = [vehicles EXCEPT ![req[r].new].availability = "Unavailable"]
        /\ req' = [req EXCEPT ![r] = Idle]
    BY <1>1, <1>6 DEF MarkVehicle, HandlerOK, Finish
  <2>2. /\ vehicles' \in [Vehicle -> VehicleRow]
        /\ vehicles'[req[r].new].availability # "Available"
        /\ \A v \in Vehicle \ {req[r].new} : vehicles'[v] = vehicles[v]
    BY <1>1, <2>1 DEF VehicleRow, AvailabilityStatus
  <2>3. \A v \in Vehicle \ contested' :
          (\E d \in Driver : Has(d, v)) /\ vehicles'[v].availability = "Available" =>
            /\ vehicles[v].availability = "Available"
            /\ req[r].at \in After /\ req[r].new = v => Idle.at \in After /\ Idle.new = v
    BY <2>2
  <2>4. contested \subseteq contested' /\ contested' \subseteq Vehicle /\ drivers' = drivers
    BY <1>1, <2>1
  <2>5. Idle.at \notin Before \cup After /\ Idle.at # "assign"
    BY IdleType
  <2> QED BY <2>1, <2>2, <2>3, <2>4, <2>5, IdleType, VehicleStepInv
<1> QED BY <1>3, <1>4, <1>5, <1>6

\* Operations on a vehicle write its row and never make it Available.
LEMMA VehicleWriteInv ==
  ASSUME Inv, NEW r \in Request,
         \/ SubmitVehicle(r) \/ BanVehicle(r) \/ RemoveVehicle(r)
         \/ \E status \in VehicleStatus : UpdateVehicle(r, status)
  PROVE  Inv'
<1>1. /\ req \in [Request -> Handler] /\ vehicles \in [Vehicle -> VehicleRow]
      /\ contested \subseteq Vehicle /\ HandlerOK(req[r])
  BY DEF Inv, TypeOK, ArgsOK
<1>2. req[r].at \in {"submit", "ban", "update", "remove"}
  BY DEF SubmitVehicle, BanVehicle, RemoveVehicle, UpdateVehicle, WriteVehicle
<1>3. PICK v \in Vehicle : req[r].new = v
  BY <1>1, <1>2 DEF HandlerOK
<1>4. vehicles[v] \in VehicleRow
  BY <1>1
<1>5. PICK row \in VehicleRow :
        /\ row.availability = "Available" => vehicles[v].availability = "Available"
        /\ vehicles' = [vehicles EXCEPT ![v] = row]
        /\ req' = [req EXCEPT ![r] = Idle] /\ UNCHANGED <<drivers, contested>>
  <2>1. CASE SubmitVehicle(r)
    <3> DEFINE row == [vehicles[v] EXCEPT
                         !.status = "UnderApproval", !.availability = "Onboard_Pending"]
    <3>1. row \in VehicleRow /\ row.availability = "Onboard_Pending"
      BY <1>4 DEF VehicleRow, VehicleStatus, AvailabilityStatus
    <3> HIDE DEF row
    <3>2. WriteVehicle(r, "submit", row)
      BY <1>3, <2>1 DEF SubmitVehicle, row
    <3> QED BY <1>3, <3>1, <3>2 DEF WriteVehicle, Finish
  <2>2. CASE BanVehicle(r)
    <3> DEFINE row == [vehicles[v] EXCEPT
                         !.status = "Banned", !.availability = "Unavailable"]
    <3>1. row \in VehicleRow /\ row.availability = "Unavailable"
      BY <1>4 DEF VehicleRow, VehicleStatus, AvailabilityStatus
    <3> HIDE DEF row
    <3>2. WriteVehicle(r, "ban", row)
      BY <1>3, <2>2 DEF BanVehicle, row
    <3> QED BY <1>3, <3>1, <3>2 DEF WriteVehicle, Finish
  <2>3. CASE RemoveVehicle(r)
    <3> DEFINE row == [vehicles[v] EXCEPT !.life = "deleted"]
    <3>1. row \in VehicleRow /\ row.availability = vehicles[v].availability
      BY <1>4 DEF VehicleRow, Life
    <3> HIDE DEF row
    <3>2. WriteVehicle(r, "remove", row)
      BY <1>3, <2>3 DEF RemoveVehicle, row
    <3> QED BY <1>3, <3>1, <3>2 DEF WriteVehicle, Finish
  <2>4. ASSUME NEW status \in VehicleStatus, UpdateVehicle(r, status)
        PROVE  \E row \in VehicleRow :
                 /\ row.availability = "Available" => vehicles[v].availability = "Available"
                 /\ vehicles' = [vehicles EXCEPT ![v] = row]
                 /\ req' = [req EXCEPT ![r] = Idle] /\ UNCHANGED <<drivers, contested>>
    <3> DEFINE row == [vehicles[v] EXCEPT !.status = status]
    <3>1. row \in VehicleRow /\ row.availability = vehicles[v].availability
      BY <1>4 DEF VehicleRow
    <3> HIDE DEF row
    <3>2. WriteVehicle(r, "update", row)
      BY <1>3, <2>4 DEF UpdateVehicle, row
    <3> QED BY <1>3, <3>1, <3>2 DEF WriteVehicle, Finish
  <2> QED BY <2>1, <2>2, <2>3, <2>4
<1>6. /\ vehicles' \in [Vehicle -> VehicleRow] /\ vehicles'[v] = row
      /\ \A w \in Vehicle \ {v} : vehicles'[w] = vehicles[w]
  BY <1>1, <1>5
<1>7. req[r].at \notin After
  BY <1>2 DEF After
<1>8. \A w \in Vehicle \ contested' :
        (\E d \in Driver : Has(d, w)) /\ vehicles'[w].availability = "Available" =>
          /\ vehicles[w].availability = "Available"
          /\ req[r].at \in After /\ req[r].new = w => Idle.at \in After /\ Idle.new = w
  BY <1>5, <1>6, <1>7
<1>9. contested \subseteq contested' /\ contested' \subseteq Vehicle /\ drivers' = drivers
  BY <1>1, <1>5
<1>10. Idle.at \notin Before \cup After /\ Idle.at # "assign"
  BY IdleType
<1> QED BY <1>5, <1>6, <1>8, <1>9, <1>10, IdleType, VehicleStepInv

\* Every step keeps the invariant.
LEMMA NextInv == Inv /\ [Next]_vars => Inv'
<1> SUFFICES ASSUME Inv, [Next]_vars PROVE Inv' OBVIOUS
<1>1. ASSUME NEW r \in Request, DriverNext(r) \/ VehicleNext(r) \/ Fail(r)
      PROVE  Inv'
  BY <1>1, ArrivalInv, DriverWriteInv, ReassignInv, VehicleWriteInv DEF DriverNext, VehicleNext
<1>2. ASSUME \/ \E d \in Driver : CreateDriver(d)
             \/ \E v \in Vehicle : CreateVehicle(v) \/ ApproveVehicle(v)
      PROVE  Inv'
  <2>1. UNCHANGED req
    BY <1>2 DEF CreateDriver, CreateVehicle, ApproveVehicle
  <2> QED BY <1>2, <2>1, OutsideInv
<1>3. CASE UNCHANGED vars
  BY <1>3 DEF vars, Inv, TypeOK, ArgsOK, AbsentIsBlank, Recorded, ReadIsCurrent, AsRead,
              Serial, FreeInHand, MarkToCome, Has
<1> QED BY <1>1, <1>2, <1>3 DEF Next

\* The invariant holds in every state.
THEOREM Invariance == Spec => []Inv
BY InitInv, NextInv, PTL DEF Spec

-----------------------------------------------------------------------------
(* Theorems *)

\* Rows and handlers keep their types: both enums of a vehicle stay apart.
THEOREM FleetTypes == Spec => []TypeOK
<1>1. Inv => TypeOK
  BY DEF Inv
<1> QED BY <1>1, Invariance, PTL

\* assignVehicleAsync gives a vehicle to one driver only, as long as the requests that
\* reassign it follow each other and complete.
THEOREM OneDriverPerVehicle == Spec => []OneHolderUnlessContested
<1>1. Inv => OneHolderUnlessContested
  BY DEF Inv, Serial, OneHolderUnlessContested, Holders, Has
<1> QED BY <1>1, Invariance, PTL

\* With no reassignment under way, a vehicle that a driver has is not offered again.
THEOREM HeldIsNotOffered == Spec => []HeldIsNotAvailable
<1>1. ASSUME Inv PROVE HeldIsNotAvailable
  <2> SUFFICES ASSUME NEW v \in Vehicle \ contested, Holders(v) # {},
                      \A r \in Request : v \notin InHand(req[r]),
                      vehicles[v].availability = "Available"
               PROVE  FALSE
    BY DEF HeldIsNotAvailable
  <2>1. \E d \in Driver : Has(d, v)
    BY DEF Holders, Has
  <2>2. PICK r \in Request : req[r].at \in After /\ req[r].new = v
    BY <1>1, <2>1 DEF Inv, Serial, MarkToCome
  <2>3. req[r] \in Handler /\ req[r].driver # None
    BY <1>1, <2>2, IdleType DEF Inv, TypeOK, ArgsOK, HandlerOK
  <2> QED BY <2>2, <2>3, HandType
<1> QED BY <1>1, Invariance, PTL

\* A vehicle goes from one driver to another over a time when nobody has it: who has it
\* loses it before the next gets it.
FreedBeforeGiven ==
  \A v \in Vehicle \ contested' : Holders(v) # {} => Holders(v)' \subseteq Holders(v)

LEMMA NextFreesFirst == Inv /\ [Next]_vars => FreedBeforeGiven
<1> SUFFICES ASSUME Inv, [Next]_vars,
                    NEW v \in Vehicle \ contested', NEW d \in Driver, Has(d, v),
                    NEW e \in Driver, Has(e, v)', ~Has(e, v)
             PROVE  FALSE
  BY DEF FreedBeforeGiven, Holders, Has
<1>1. v \in Vehicle /\ None \notin Vehicle /\ drivers \in [Driver -> DriverRow]
  BY IdleType DEF Inv, TypeOK
<1>2. drivers'[e] # drivers[e]
  BY DEF Has
<1>3. ASSUME NEW c \in Driver, CreateDriver(c) PROVE FALSE
  <2>1. e = c /\ drivers'[e].vehicle = drivers[c].vehicle /\ drivers[c].life = "absent"
    BY <1>1, <1>2, <1>3 DEF CreateDriver, DriverRow
  <2> QED BY <1>1, <2>1 DEF Inv, AbsentIsBlank, Has
<1>4. ASSUME NEW r \in Request, UnassignVehicle(r) \/ DeleteDriver(r) PROVE FALSE
  <2>1. /\ e = req[r].driver
        /\ drivers'[e].vehicle = None \/ drivers'[e].life = "deleted"
    BY <1>1, <1>2, <1>4 DEF UnassignVehicle, DeleteDriver, DriverRow
  <2> QED BY <1>1, <2>1 DEF Has
<1>5. ASSUME NEW r \in Request, AssignVehicle(r) PROVE FALSE
  <2>1. /\ req[r].at = "assign" /\ e = req[r].driver /\ drivers'[e].vehicle = req[r].new
        /\ contested' = contested
    BY <1>1, <1>2, <1>5 DEF AssignVehicle, DriverRow
  <2>2. FreeInHand(v)
    BY <1>1, <2>1 DEF Inv, Serial
  <2> QED BY <2>1, <2>2 DEF FreeInHand, Has
<1>6. \/ UNCHANGED drivers
      \/ \E c \in Driver : CreateDriver(c)
      \/ \E r \in Request : UnassignVehicle(r) \/ DeleteDriver(r) \/ AssignVehicle(r)
  BY DEF Next, DriverNext, VehicleNext, CreateVehicle, ApproveVehicle, Fail, AssignBegin,
         UnassignBegin, DeleteBegin, AssignCheck, AssignRefused, ReleaseVehicle, MarkVehicle,
         VehicleBegin, SubmitVehicle, BanVehicle, UpdateVehicle, RemoveVehicle, WriteVehicle,
         vars
<1> QED BY <1>2, <1>3, <1>4, <1>5, <1>6

\* assignVehicleAsync never takes a vehicle straight from one driver to another, unless it
\* is contested.
THEOREM HandedOverFree == Spec => [][FreedBeforeGiven]_vars
<1>1. Inv /\ [Next]_vars => [FreedBeforeGiven]_vars
  BY NextFreesFirst
<1> QED BY <1>1, Invariance, PTL DEF Spec
=============================================================================
