-------------------------------- MODULE Fleet --------------------------------
(***************************************************************************)
(* Which driver has which vehicle: DriverService (create, assign, unassign,*)
(* delete) and VehicleService (create, update, submit for approval, ban,   *)
(* delete).                                                                *)
(*                                                                         *)
(* None of these handlers opens a transaction.  Each reads a row, checks   *)
(* it, and then writes by id, so every statement is a step of its own and  *)
(* commits at once; the driver's vehicle_id and the vehicle's              *)
(* availability_status, which mirrors it, are written by different steps.  *)
(***************************************************************************)
EXTENDS Naturals, FiniteSets

CONSTANTS
  Driver,   \* ids of the driver table
  Vehicle,  \* ids of the vehicle table
  Request,  \* requests in flight at the same time
  None      \* SQL NULL

ASSUME ConstantsAssumption == None \notin Driver \cup Vehicle \cup Request

VARIABLES
  drivers,    \* table driver: life and vehicle_id
  vehicles,   \* table vehicle: life, status, availability_status
  contested,  \* history: vehicles of requests that overlapped or were cut short, and
              \* those that were approved while a driver had them
  req         \* handler state of every request

vars == <<drivers, vehicles, contested, req>>

-----------------------------------------------------------------------------
(* Rows and requests *)

\* is_deleted, and whether the row was created.
Life == {"absent", "live", "deleted"}
VehicleStatus == {"Available", "UnderApproval", "Banned"}
AvailabilityStatus == {"Available", "Unavailable", "Onboard_Pending"}

DriverRow == [life : Life, vehicle : Vehicle \cup {None}]

VehicleRow ==
  [life : Life, status : VehicleStatus, availability : AvailabilityStatus]

Stage ==
  {"idle", "check", "assign", "clear", "delete", "release", "mark",
   "submit", "ban", "update", "remove"}

\* old is the vehicle found with the driver; new is the one to be assigned, or the
\* one an operation on a vehicle works on.
Handler ==
  [at : Stage, driver : Driver \cup {None},
   old : Vehicle \cup {None}, new : Vehicle \cup {None}]

Idle == [at |-> "idle", driver |-> None, old |-> None, new |-> None]

\* The vehicles that a handler reassigns.
InHand(h) == IF h.driver = None THEN {} ELSE {h.old, h.new} \ {None}

Holders(v) == {d \in Driver : drivers[d].life = "live" /\ drivers[d].vehicle = v}

\* Two handlers reassign the same driver, or the same vehicle.
Overlap(g, h) ==
  \/ g.driver = h.driver /\ g.driver # None
  \/ InHand(g) \cap InHand(h) # {}

\* A call arrives, and its first read is done.
Enter(r, h) ==
  /\ req[r] = Idle
  /\ req' = [req EXCEPT ![r] = h]
  /\ contested' = contested \cup
       UNION {InHand(req[q]) \cup InHand(h) : q \in {q \in Request : Overlap(req[q], h)}}

Goto(r, stage) == req' = [req EXCEPT ![r].at = stage]

Finish(r) == req' = [req EXCEPT ![r] = Idle]

-----------------------------------------------------------------------------
(* Drivers *)

CreateDriver(d) ==
  /\ drivers[d].life = "absent"
  /\ drivers' = [drivers EXCEPT ![d].life = "live"]
  /\ UNCHANGED <<vehicles, contested, req>>

\* PUT /driver/:id/vehicle: the driver is read.
AssignBegin(r, d, v) ==
  /\ drivers[d].life = "live"
  /\ Enter(r, [at |-> "check", driver |-> d, old |-> drivers[d].vehicle, new |-> v])
  /\ UNCHANGED <<drivers, vehicles>>

\* Mutant of Assignable: availability_status is not looked at.
AssignableByStatus(v) == vehicles[v].life = "live" /\ vehicles[v].status = "Available"

\* _validateVehicleStatus; whether the fleet type fits is left to the caller.
Assignable(v) ==
  /\ vehicles[v].life = "live"
  /\ vehicles[v].status = "Available"
  /\ vehicles[v].availability = "Available"

AssignCheck(r) ==
  /\ req[r].at = "check"
  /\ Assignable(req[r].new)
  /\ Goto(r, "assign")
  /\ UNCHANGED <<drivers, vehicles, contested>>

\* 404 or 400, for this check or for the one on the fleet type.
AssignRefused(r) ==
  /\ req[r].at = "check"
  /\ Finish(r)
  /\ UNCHANGED <<drivers, vehicles, contested>>

\* _updateVehicleAvailabilityAsync: the statement it starts with, if any.
AfterAssign(h) ==
  IF h.old = h.new THEN "idle" ELSE IF h.old # None THEN "release" ELSE "mark"

\* UPDATE driver SET vehicle_id WHERE id.
AssignVehicle(r) ==
  LET h == req[r] IN
  /\ h.at = "assign"
  /\ drivers' = [drivers EXCEPT ![h.driver].vehicle = h.new]
  /\ IF AfterAssign(h) = "idle" THEN Finish(r) ELSE Goto(r, AfterAssign(h))
  /\ UNCHANGED <<vehicles, contested>>

\* PUT /driver/:id/vehicle with vehicle_id 0.
UnassignBegin(r, d) ==
  /\ drivers[d].life = "live"
  /\ Enter(r, [at |-> "clear", driver |-> d, old |-> drivers[d].vehicle, new |-> None])
  /\ UNCHANGED <<drivers, vehicles>>

\* UPDATE driver SET vehicle_id = NULL WHERE id.
UnassignVehicle(r) ==
  LET h == req[r] IN
  /\ h.at = "clear"
  /\ drivers' = [drivers EXCEPT ![h.driver].vehicle = None]
  /\ IF h.old = None THEN Finish(r) ELSE Goto(r, "release")
  /\ UNCHANGED <<vehicles, contested>>

\* DELETE /driver/:id.
DeleteBegin(r, d) ==
  /\ drivers[d].life = "live"
  /\ Enter(r, [at |-> "delete", driver |-> d, old |-> drivers[d].vehicle, new |-> None])
  /\ UNCHANGED <<drivers, vehicles>>

\* UPDATE driver SET is_deleted WHERE id; vehicle_id stays.
DeleteDriver(r) ==
  LET h == req[r] IN
  /\ h.at = "delete"
  /\ drivers' = [drivers EXCEPT ![h.driver].life = "deleted"]
  /\ IF h.old = None THEN Finish(r) ELSE Goto(r, "release")
  /\ UNCHANGED <<vehicles, contested>>

\* UPDATE vehicle SET availability_status = 'Available' WHERE id = oldId.
ReleaseVehicle(r) ==
  LET h == req[r] IN
  /\ h.at = "release"
  /\ vehicles' = [vehicles EXCEPT ![h.old].availability = "Available"]
  /\ IF h.new = None THEN Finish(r) ELSE Goto(r, "mark")
  /\ UNCHANGED <<drivers, contested>>

\* Mutant of MarkVehicle: only the old vehicle's availability is written.
MarkVehicleDropped(r) ==
  /\ req[r].at = "mark"
  /\ Finish(r)
  /\ UNCHANGED <<drivers, vehicles, contested>>

\* UPDATE vehicle SET availability_status = 'Unavailable' WHERE id = newId.
MarkVehicle(r) ==
  LET h == req[r] IN
  /\ h.at = "mark"
  /\ vehicles' = [vehicles EXCEPT ![h.new].availability = "Unavailable"]
  /\ Finish(r)
  /\ UNCHANGED <<drivers, contested>>

-----------------------------------------------------------------------------
(* Vehicles *)

CreateVehicle(v) ==
  /\ vehicles[v].life = "absent"
  /\ vehicles' = [vehicles EXCEPT ![v].life = "live"]
  /\ UNCHANGED <<drivers, contested, req>>

\* PUT /vehicle/:id, .../submit-for-approval, .../ban and DELETE /vehicle/:id read
\* the vehicle; a submission goes on only if the form is complete.
VehicleBegin(r, v, stage) ==
  /\ vehicles[v].life = "live"
  /\ Enter(r, [Idle EXCEPT !.at = stage, !.new = v])
  /\ UNCHANGED <<drivers, vehicles>>

\* UPDATE vehicle SET ... WHERE id: the last statement of these operations.
WriteVehicle(r, stage, row) ==
  /\ req[r].at = stage
  /\ vehicles' = [vehicles EXCEPT ![req[r].new] = row]
  /\ Finish(r)
  /\ UNCHANGED <<drivers, contested>>

SubmitVehicle(r) ==
  WriteVehicle(r, "submit", [vehicles[req[r].new] EXCEPT
    !.status = "UnderApproval", !.availability = "Onboard_Pending"])

\* Mutant of BanVehicle: the two enums are mixed up.
BanVehicleMixed(r) ==
  WriteVehicle(r, "ban", [vehicles[req[r].new] EXCEPT
    !.status = "Unavailable", !.availability = "Unavailable"])

BanVehicle(r) ==
  WriteVehicle(r, "ban", [vehicles[req[r].new] EXCEPT
    !.status = "Banned", !.availability = "Unavailable"])

\* The body of PUT /vehicle/:id may name a status, and never an availability.
UpdateVehicle(r, status) ==
  WriteVehicle(r, "update", [vehicles[req[r].new] EXCEPT !.status = status])

RemoveVehicle(r) ==
  WriteVehicle(r, "remove", [vehicles[req[r].new] EXCEPT !.life = "deleted"])

\* The back office approves what was submitted; no code of the repository does.
ApproveVehicle(v) ==
  /\ vehicles[v].life = "live"
  /\ vehicles[v].status = "UnderApproval"
  /\ vehicles' = [vehicles EXCEPT
       ![v].status = "Available", ![v].availability = "Available"]
  /\ contested' = IF Holders(v) = {} THEN contested ELSE contested \cup {v}
  /\ UNCHANGED <<drivers, req>>

-----------------------------------------------------------------------------

\* The process stops, or a statement throws: what is committed stays.
Fail(r) ==
  /\ req[r] # Idle
  /\ Finish(r)
  /\ contested' = contested \cup InHand(req[r])
  /\ UNCHANGED <<drivers, vehicles>>

Init ==
  /\ drivers = [d \in Driver |-> [life |-> "absent", vehicle |-> None]]
  /\ vehicles = [v \in Vehicle |->
       [life |-> "absent", status |-> "Banned", availability |-> "Onboard_Pending"]]
  /\ contested = {}
  /\ req = [r \in Request |-> Idle]

DriverNext(r) ==
  \/ \E d \in Driver, v \in Vehicle : AssignBegin(r, d, v)
  \/ \E d \in Driver : UnassignBegin(r, d) \/ DeleteBegin(r, d)
  \/ AssignCheck(r)
  \/ AssignRefused(r)
  \/ AssignVehicle(r)
  \/ UnassignVehicle(r)
  \/ DeleteDriver(r)
  \/ ReleaseVehicle(r)
  \/ MarkVehicle(r)

VehicleNext(r) ==
  \/ \E v \in Vehicle, stage \in {"submit", "ban", "update", "remove"} :
       VehicleBegin(r, v, stage)
  \/ SubmitVehicle(r)
  \/ BanVehicle(r)
  \/ \E status \in VehicleStatus : UpdateVehicle(r, status)
  \/ RemoveVehicle(r)

Next ==
  \/ \E d \in Driver : CreateDriver(d)
  \/ \E v \in Vehicle : CreateVehicle(v) \/ ApproveVehicle(v)
  \/ \E r \in Request : DriverNext(r) \/ VehicleNext(r) \/ Fail(r)

Spec == Init /\ [][Next]_vars

-----------------------------------------------------------------------------
(* Properties *)

\* Every row and handler has its type: vehicle.status and availability_status keep
\* to their own enums (schema.prisma) in every statement.
TypeOK ==
  /\ drivers \in [Driver -> DriverRow]
  /\ vehicles \in [Vehicle -> VehicleRow]
  /\ contested \subseteq Vehicle
  /\ req \in [Request -> Handler]

\* assignVehicleAsync gives a vehicle to one driver only, as long as the requests
\* that reassign it follow each other and complete: however the vehicle is banned,
\* resubmitted, edited or deleted in between, it has at most one live holder.
OneHolderUnlessContested ==
  \A v \in Vehicle \ contested : \A d, e \in Holders(v) : d = e

\* The availability that the next assignment relies on mirrors the drivers: with no
\* reassignment under way, a vehicle that a driver holds is not offered again.
HeldIsNotAvailable ==
  \A v \in Vehicle \ contested :
    (Holders(v) # {} /\ \A r \in Request : v \notin InHand(req[r]))
      => vehicles[v].availability # "Available"
=============================================================================
