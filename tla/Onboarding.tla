------------------------------- MODULE Onboarding -------------------------------
(***************************************************************************)
(* How a driver comes to be approved: the documents, the contacts, the     *)
(* vehicle and the status, which DriverService, DriverAuthService and      *)
(* VehicleService read and write.                                          *)
(*                                                                         *)
(* A vendor's edit or upload bans the driver in the same statement.  The   *)
(* driver's own edit or upload is followed by two more: the row is read    *)
(* again and, if the documents are complete, put under approval.           *)
(***************************************************************************)
EXTENDS FiniteSets

CONSTANTS
  Driver,    \* ids of the driver table
  Vehicle,   \* ids of the vehicle table
  Document,  \* the documents that an approval needs
  Request,   \* requests in flight at the same time
  None       \* SQL NULL

VARIABLES
  drivers,    \* table driver: is_deleted, status, documents, verified contacts, vehicle_id,
              \* location
  banned,     \* vehicles whose status is Banned
  barred,     \* history: drivers that the vendor banned, and nobody has since begun to
              \* put under approval
  contested,  \* history: drivers with requests that overlapped
  req         \* handler state of every request

vars == <<drivers, banned, barred, contested, req>>

-----------------------------------------------------------------------------
(* Rows and requests *)

Life == {"absent", "live", "deleted"}

\* Busy is never written.
DriverStatus == {"Available", "Busy", "UnderApproval", "Banned"}

Channel == {"Email", "Number"}

Row ==
  [life : Life, status : DriverStatus, documents : SUBSET Document,
   verified : SUBSET Channel, vehicle : Vehicle \cup {None}, location : BOOLEAN]

NoRow ==
  [life |-> "absent", status |-> "Banned", documents |-> {}, verified |-> {},
   vehicle |-> None, location |-> FALSE]

Stage ==
  {"idle", "profile", "edit", "upload", "ban", "vehicle", "submit", "verify", "remove",
   "recheck", "promote"}

\* own: the caller is the driver; read: the row as submitForApprovalAsync read it.
Handler ==
  [at : Stage, who : Driver \cup {None}, own : BOOLEAN, read : Row]

Idle == [at |-> "idle", who |-> None, own |-> FALSE, read |-> NoRow]

\* Stages that may end with the driver under approval.
Promoting(h) == h.at = "submit" \/ (h.own /\ h.at \in {"profile", "upload"})

Enter(r, h) ==
  /\ req[r] = Idle
  /\ req' = [req EXCEPT ![r] = h]
  /\ contested' = IF \E q \in Request : req[q].who = h.who
                  THEN contested \cup {h.who} ELSE contested
  /\ barred' = IF Promoting(h) THEN barred \ {h.who} ELSE barred
  /\ UNCHANGED <<drivers, banned>>

Finish(r) == req' = [req EXCEPT ![r] = Idle]

\* The driver is found, which is live, and the request goes on to its stage.
Begin(r, d, stage, own) ==
  /\ drivers[d].life = "live"
  /\ Enter(r, [at |-> stage, who |-> d, own |-> own,
               read |-> IF stage = "submit" THEN drivers[d] ELSE NoRow])

Complete(row) == row.documents = Document

\* UPDATE driver ... WHERE id, of the columns that differ in row.
Update(r, row) == drivers' = [drivers EXCEPT ![req[r].who] = row]

\* After a driver's own change comes _checkAndSetUnderApprovalStatusAsync.
ThenRecheck(r) ==
  IF req[r].own THEN req' = [req EXCEPT ![r].at = "recheck"] ELSE Finish(r)

\* The status that a change leaves: a vendor's bans.
Left(r, status) == IF req[r].own THEN status ELSE "Banned"

Bars(r) == barred' = IF req[r].own THEN barred ELSE barred \cup {req[r].who}

-----------------------------------------------------------------------------
(* Drivers *)

\* POST /driver: the status is the column's default.
Create(d) ==
  /\ drivers[d].life = "absent"
  /\ \E located \in BOOLEAN :
       drivers' = [drivers EXCEPT ![d].life = "live", ![d].location = located]
  /\ UNCHANGED <<banned, barred, contested, req>>

\* PUT /driver/profile/me/info, which does not look at is_deleted.
ProfileBegin(r, d) ==
  /\ drivers[d].life # "absent"
  /\ Enter(r, [at |-> "profile", who |-> d, own |-> TRUE, read |-> NoRow])

\* Changed contacts are not verified any more; the location may be set or cleared.
ProfileWrite(r) ==
  /\ req[r].at = "profile"
  /\ \E changed \in SUBSET Channel, located \in BOOLEAN :
       LET row == drivers[req[r].who] IN
       Update(r, [row EXCEPT !.verified = @ \ changed, !.location = located])
  /\ ThenRecheck(r)
  /\ UNCHANGED <<banned, barred, contested>>

\* PUT /driver/:id: contacts may change, and no flag is reset.
EditWrite(r) ==
  /\ req[r].at = "edit"
  /\ \E located \in BOOLEAN :
       Update(r, [drivers[req[r].who] EXCEPT
         !.status = Left(r, @), !.location = located])
  /\ Bars(r)
  /\ Finish(r)
  /\ UNCHANGED <<banned, contested>>

\* Mutant of UploadWrite: the driver's row is looked at again after a vendor's upload, too.
UploadWriteRechecked(r) ==
  /\ req[r].at = "upload"
  /\ \E doc \in Document :
       Update(r, [drivers[req[r].who] EXCEPT
         !.status = Left(r, @), !.documents = @ \cup {doc}])
  /\ req' = [req EXCEPT ![r].at = "recheck"]
  /\ Bars(r)
  /\ UNCHANGED <<banned, contested>>

\* PUT .../document/...: the file is stored, and the column of its URL is written.
UploadWrite(r) ==
  /\ req[r].at = "upload"
  /\ \E doc \in Document :
       Update(r, [drivers[req[r].who] EXCEPT
         !.status = Left(r, @), !.documents = @ \cup {doc}])
  /\ ThenRecheck(r)
  /\ Bars(r)
  /\ UNCHANGED <<banned, contested>>

\* PUT /driver/:id/ban.
Ban(r) ==
  /\ req[r].at = "ban"
  /\ Update(r, [drivers[req[r].who] EXCEPT !.status = "Banned"])
  /\ barred' = barred \cup {req[r].who}
  /\ Finish(r)
  /\ UNCHANGED <<banned, contested>>

\* PUT /driver/:id/vehicle, whose checks and other writes Fleet follows: the vehicle may be
\* banned by now.
AssignVehicle(r) ==
  /\ req[r].at = "vehicle"
  /\ \E v \in Vehicle \cup {None} :
       Update(r, [drivers[req[r].who] EXCEPT !.vehicle = v])
  /\ Finish(r)
  /\ UNCHANGED <<banned, barred, contested>>

\* POST /driver-auth/verification/otp/verify: the codes were right.
Verify(r) ==
  /\ req[r].at = "verify"
  /\ Update(r, [drivers[req[r].who] EXCEPT !.verified = Channel])
  /\ Finish(r)
  /\ UNCHANGED <<banned, barred, contested>>

\* DELETE /driver/:id and /driver/profile/me.
Remove(r) ==
  /\ req[r].at = "remove"
  /\ Update(r, [drivers[req[r].who] EXCEPT !.life = "deleted"])
  /\ Finish(r)
  /\ UNCHANGED <<banned, barred, contested>>

-----------------------------------------------------------------------------
(* Approval *)

\* _checkAndSetUnderApprovalStatusAsync reads the row; contacts, vehicle and location do
\* not matter.
Recheck(r) ==
  /\ req[r].at = "recheck"
  /\ IF Complete(drivers[req[r].who]) THEN req' = [req EXCEPT ![r].at = "promote"]
                                      ELSE Finish(r)
  /\ UNCHANGED <<drivers, banned, barred, contested>>

\* Mutant of Acceptable: one of the documents is not asked for.
AcceptableLenient(row) ==
  /\ \E doc \in Document : Document \ {doc} \subseteq row.documents
  /\ row.verified = Channel
  /\ row.vehicle # None /\ row.vehicle \notin banned
  /\ row.location

\* What submitForApprovalAsync asks of the row it has read and of the vehicle, which it
\* reads next.
Acceptable(row) ==
  /\ Complete(row)
  /\ row.verified = Channel
  /\ row.vehicle # None /\ row.vehicle \notin banned
  /\ row.location

\* PUT /driver/:id/submit-for-approval.
Submit(r) ==
  /\ req[r].at = "submit"
  /\ Acceptable(req[r].read)
  /\ req' = [req EXCEPT ![r].at = "promote", ![r].read = NoRow]
  /\ UNCHANGED <<drivers, banned, barred, contested>>

\* UPDATE driver SET status = 'UnderApproval' WHERE id.
Promote(r) ==
  /\ req[r].at = "promote"
  /\ Update(r, [drivers[req[r].who] EXCEPT !.status = "UnderApproval"])
  /\ Finish(r)
  /\ UNCHANGED <<banned, barred, contested>>

\* The back office approves; no code of the repository does.
Approve(d) ==
  /\ drivers[d].status = "UnderApproval"
  /\ drivers' = [drivers EXCEPT ![d].status = "Available"]
  /\ UNCHANGED <<banned, barred, contested, req>>

\* PUT /vehicle/:id, .../ban and .../submit-for-approval, as Fleet follows them.
VehicleChanges(v) ==
  /\ banned' = IF v \in banned THEN banned \ {v} ELSE banned \cup {v}
  /\ UNCHANGED <<drivers, barred, contested, req>>

\* 404 or 400, storage or a statement throws, or the process stops.
Fail(r) ==
  /\ req[r] # Idle
  /\ Finish(r)
  /\ UNCHANGED <<drivers, banned, barred, contested>>

-----------------------------------------------------------------------------

Init ==
  /\ drivers = [d \in Driver |-> NoRow]
  /\ banned = Vehicle
  /\ barred = {}
  /\ contested = {}
  /\ req = [r \in Request |-> Idle]

Step(r) ==
  \/ \E d \in Driver : ProfileBegin(r, d)
  \/ \E d \in Driver, own \in BOOLEAN : Begin(r, d, "upload", own)
  \/ \E d \in Driver, stage \in {"edit", "ban", "vehicle", "submit", "verify", "remove"} :
       Begin(r, d, stage, FALSE)
  \/ ProfileWrite(r)
  \/ EditWrite(r)
  \/ UploadWrite(r)
  \/ Ban(r)
  \/ AssignVehicle(r)
  \/ Verify(r)
  \/ Remove(r)
  \/ Recheck(r)
  \/ Submit(r)
  \/ Promote(r)
  \/ Fail(r)

Next ==
  \/ \E d \in Driver : Create(d) \/ Approve(d)
  \/ \E v \in Vehicle : VehicleChanges(v)
  \/ \E r \in Request : Step(r)

Spec == Init /\ [][Next]_vars

-----------------------------------------------------------------------------
(* Properties *)

\* Rows and handlers have their types.
TypeOK ==
  /\ drivers \in [Driver -> Row]
  /\ banned \subseteq Vehicle
  /\ barred \subseteq Driver
  /\ contested \subseteq Driver
  /\ req \in [Request -> Handler]

\* By submission or by the check that follows a change, whatever is uploaded, edited or
\* banned meanwhile: who is under approval or available has handed in every document.
ReviewedHasDocuments ==
  \A d \in Driver :
    drivers[d].status \in {"UnderApproval", "Available"} => Complete(drivers[d])

\* A vendor's ban, edit or upload leaves the driver banned until somebody asks anew: only
\* a request that overlapped it can undo it.
BanHoldsUnlessContested == \A d \in barred \ contested : drivers[d].status = "Banned"
=============================================================================
