--------------------------- MODULE OrderLifecycle ---------------------------
(***************************************************************************)
(* The order lifecycle of the Towchen API: OrderService (create, accept,   *)
(* send-otp, verify-otp) together with the voucher redemption that create  *)
(* runs in its transaction and the wallet reward that a completion runs in *)
(* its own.                                                                *)
(*                                                                         *)
(* Every HTTP request is an element of Request that executes one handler.  *)
(* The field "at" of its record names the database statement the handler   *)
(* executes next, so requests interleave between any two awaits.  The      *)
(* database runs at READ COMMITTED: a statement sees what was committed    *)
(* before it, an UPDATE or UPSERT inside $transaction keeps its row locked *)
(* until the transaction ends, and a transaction's writes become visible   *)
(* together, at its commit.  Who holds which row is therefore a function   *)
(* of the stages the requests are at (HoldsOrder, HoldsOtp, HoldsVoucher), *)
(* and a transaction that fails leaves the tables as they were.            *)
(***************************************************************************)
EXTENDS Naturals

CONSTANTS
  Order,        \* ids the order table can hand out
  Customer,     \* callers that create orders and own vouchers
  Driver,       \* callers that accept orders and work on them
  Voucher,      \* voucher codes
  Request,      \* HTTP requests in flight at the same time
  Code,         \* one-time codes
  None,         \* SQL NULL
  PlacesOf,     \* which locations each driver's profile can have when it is read
  MaxAttempts,  \* bound: no verify is started once this many attempts failed
  MaxRewards    \* bound: no verify is started once this many rewards are paid

OtpType == {"START", "COMPLETE"}
DriverPlace == {"Start", "End"}

ASSUME ConstantsAssumption ==
  /\ None \notin Order \cup Customer \cup Driver \cup Voucher \cup Request \cup Code
  /\ PlacesOf \in [Driver -> SUBSET SUBSET DriverPlace]
  /\ MaxAttempts \in Nat
  /\ MaxRewards \in Nat

VARIABLES
  orders,    \* table order, with the Start/End rows of order_location
  otps,      \* table order_otp, unique on (order_id, type)
  vouchers,  \* table voucher
  rewards,   \* rewards[o]: committed wallet credits that o's completion caused
  sent,      \* history: the types of OTP that were sent to o's customer
  req        \* handler state of every request

db == <<orders, otps, vouchers, rewards, sent>>
vars == <<orders, otps, vouchers, rewards, sent, req>>

-----------------------------------------------------------------------------
(* Rows *)

Status == {"Absent", "New", "OtpPending", "InProgress", "Completed"}

OrderRow ==
  [status : Status, customer : Customer \cup {None}, driver : Driver \cup {None},
   voucher : Voucher \cup {None}, started : BOOLEAN, completed : BOOLEAN,
   places : [DriverPlace -> Driver \cup {None}]]

NoOrder ==
  [status |-> "Absent", customer |-> None, driver |-> None, voucher |-> None,
   started |-> FALSE, completed |-> FALSE,
   places |-> [p \in DriverPlace |-> None]]

OtpRow ==
  [code : Code \cup {None}, verified : BOOLEAN, expired : BOOLEAN, attempts : Nat]

FreshOtp(c) == [code |-> c, verified |-> FALSE, expired |-> FALSE, attempts |-> 0]

NoOtp == FreshOtp(None)

\* has_expired and used_by_id are only ever written together, so usedBy stands
\* for both.
VoucherRow == [owner : Customer \cup {None}, usedBy : Customer \cup {None}]

NoVoucher == [owner |-> None, usedBy |-> None]

-----------------------------------------------------------------------------
(* Requests *)

Stage ==
  {"idle",
   "create_validate", "create_recheck", "create_redeem", "create_insert",
   "accept_order", "accept_otp", "accept_send", "accept_commit",
   "send_otp", "send_status",
   "verify_check", "verify_mismatch", "verify_otp", "verify_order", "verify_commit"}

Handler ==
  [at : Stage, order : Order \cup {None}, who : Customer \cup Driver \cup {None},
   type : OtpType, code : Code \cup {None}, voucher : Voucher \cup {None},
   places : SUBSET DriverPlace,  \* accept: the locations of the profile it read
   superseded : BOOLEAN]         \* history of verify-otp, see Superseding

Idle ==
  [at |-> "idle", order |-> None, who |-> None, type |-> "START",
   code |-> None, voucher |-> None, places |-> {}, superseded |-> FALSE]

\* The request r, idle so far, enters a handler with the arguments in h.
Enter(r, h) ==
  /\ req[r] = Idle
  /\ req' = [req EXCEPT ![r] = h]

Goto(r, stage) == req' = [req EXCEPT ![r].at = stage]

\* The handler returns or throws: the request is over.
Finish(r) == req' = [req EXCEPT ![r] = Idle]

-----------------------------------------------------------------------------
(* Row locks *)

HoldsOrder(q, o) ==
  /\ req[q].order = o
  /\ req[q].at \in {"accept_otp", "accept_send", "accept_commit", "verify_commit"}

HoldsOtp(q, o, t) ==
  /\ req[q].order = o
  /\ req[q].type = t
  /\ req[q].at \in {"accept_send", "accept_commit", "verify_order", "verify_commit"}

HoldsVoucher(q, v) ==
  /\ req[q].voucher = v
  /\ req[q].at = "create_insert"

OrderFree(o) == \A q \in Request : ~HoldsOrder(q, o)
OtpFree(o, t) == \A q \in Request : ~HoldsOtp(q, o, t)
VoucherFree(v) == \A q \in Request : ~HoldsVoucher(q, v)

\* r's next statement writes a row that q has locked.
WaitsFor(r, q) ==
  \/ /\ req[r].at \in {"accept_order", "send_status", "verify_order"}
     /\ HoldsOrder(q, req[r].order)
  \/ /\ req[r].at \in {"accept_otp", "send_otp", "verify_mismatch", "verify_otp"}
     /\ HoldsOtp(q, req[r].order, req[r].type)
  \/ /\ req[r].at = "create_redeem"
     /\ HoldsVoucher(q, req[r].voucher)

-----------------------------------------------------------------------------
(* POST /order *)

\* The checks before the transaction: sub_service and the maps lookups either
\* pass or end the request with nothing written, so only the calls that pass
\* are taken.  The id the sequence will hand out is named here; no other
\* request can know it before the commit.
CreateBegin(r, c, o, v) ==
  /\ orders[o].status = "Absent"
  /\ \A q \in Request : req[q].order # o
  /\ Enter(r, [Idle EXCEPT !.at = IF v = None THEN "create_insert" ELSE "create_validate",
                           !.order = o, !.who = c, !.voucher = v])
  /\ UNCHANGED db

\* Mutant of Usable: the self-referral test is missing.
UsableByOwner(v, c) ==
  /\ vouchers[v].owner # None
  /\ vouchers[v].usedBy = None

\* validateVoucherAsync: the code exists, is unused and is not the caller's own.
Usable(v, c) ==
  /\ vouchers[v].owner # None
  /\ vouchers[v].usedBy = None
  /\ vouchers[v].owner # c

\* createAsync validates the code, on a connection outside its transaction.
CreateValidate(r) ==
  /\ req[r].at = "create_validate"
  /\ Usable(req[r].voucher, req[r].who)
  /\ Goto(r, "create_recheck")
  /\ UNCHANGED db

\* redeemVoucherAsync validates it again before it writes.
RedeemValidate(r) ==
  /\ req[r].at = "create_recheck"
  /\ Usable(req[r].voucher, req[r].who)
  /\ Goto(r, "create_redeem")
  /\ UNCHANGED db

\* Mutant of CreateRefused: the handler tries the voucher again.
CreateRefusedRetries(r) ==
  /\ req[r].at \in {"create_validate", "create_recheck"}
  /\ ~Usable(req[r].voucher, req[r].who)
  /\ Goto(r, "create_validate")
  /\ UNCHANGED db

\* 404 or 400: the transaction ends without a write.
CreateRefused(r) ==
  /\ req[r].at \in {"create_validate", "create_recheck"}
  /\ ~Usable(req[r].voucher, req[r].who)
  /\ Finish(r)
  /\ UNCHANGED db

\* Mutant of Unredeemed: the UPDATE finds the row by its code alone.
UnredeemedUnchecked(v) == vouchers[v].owner # None

\* The WHERE clause of the redeeming UPDATE, evaluated once the row is free.
Unredeemed(v) == vouchers[v].usedBy = None

\* Mutant of CreateRedeem: the redemption commits on its own, not in create's
\* transaction.
CreateRedeemOnItsOwn(r) ==
  LET v == req[r].voucher IN
  /\ req[r].at = "create_redeem"
  /\ VoucherFree(v)
  /\ Unredeemed(v)
  /\ vouchers' = [vouchers EXCEPT ![v].usedBy = req[r].who]
  /\ Goto(r, "create_insert")
  /\ UNCHANGED <<orders, otps, rewards, sent>>

\* UPDATE voucher ... WHERE has_expired = false AND used_by_id IS NULL.
CreateRedeem(r) ==
  /\ req[r].at = "create_redeem"
  /\ VoucherFree(req[r].voucher)
  /\ Unredeemed(req[r].voucher)
  /\ Goto(r, "create_insert")
  /\ UNCHANGED db

\* The UPDATE matched no row: 400, and the transaction rolls back.
RedeemLost(r) ==
  /\ req[r].at = "create_redeem"
  /\ VoucherFree(req[r].voucher)
  /\ ~Unredeemed(req[r].voucher)
  /\ Finish(r)
  /\ UNCHANGED db

\* Mutant of CreateInsert: the order is written without its applied_voucher_id.
CreateInsertBare(r) ==
  LET h == req[r] IN
  /\ h.at = "create_insert"
  /\ orders' = [orders EXCEPT ![h.order].status = "New", ![h.order].customer = h.who]
  /\ vouchers' = IF h.voucher = None
                   THEN vouchers
                   ELSE [vouchers EXCEPT ![h.voucher].usedBy = h.who]
  /\ Finish(r)
  /\ UNCHANGED <<otps, rewards, sent>>

\* INSERT order and its locations, then COMMIT: the redemption and the order
\* become visible together.
CreateInsert(r) ==
  LET h == req[r] IN
  /\ h.at = "create_insert"
  /\ orders' = [orders EXCEPT ![h.order] =
                  [NoOrder EXCEPT !.status = "New", !.customer = h.who,
                                  !.voucher = h.voucher]]
  /\ vouchers' = IF h.voucher = None
                   THEN vouchers
                   ELSE [vouchers EXCEPT ![h.voucher].usedBy = h.who]
  /\ Finish(r)
  /\ UNCHANGED <<otps, rewards, sent>>

\* POST /voucher/generate, or the one a registration grants.
GenerateVoucher(v, c) ==
  /\ vouchers[v].owner = None
  /\ vouchers' = [vouchers EXCEPT ![v].owner = c]
  /\ UNCHANGED <<orders, otps, rewards, sent, req>>

-----------------------------------------------------------------------------
(* PUT /order/:id/accept *)

\* Reads the order, which must be New, and then the driver's profile with the
\* locations it has at the moment.
AcceptBegin(r, d, o) ==
  /\ orders[o].status = "New"
  /\ \E P \in PlacesOf[d] :
       Enter(r, [Idle EXCEPT !.at = "accept_order", !.order = o, !.who = d, !.places = P])
  /\ UNCHANGED db

\* UPDATE order SET driver, status ... WHERE id: the status is not looked at again.
AcceptOrder(r) ==
  /\ req[r].at = "accept_order"
  /\ OrderFree(req[r].order)
  /\ Goto(r, "accept_otp")
  /\ UNCHANGED db

\* The code in the record of o and t is replaced by c.  Whoever is between the
\* comparison with the old code and the UPDATE that locks the record goes on
\* with a code that is not the current one any more.
Superseding(o, t, c) ==
  [q \in Request |->
     IF req[q].at = "verify_otp" /\ req[q].order = o /\ req[q].type = t /\ req[q].code # c
       THEN [req[q] EXCEPT !.superseded = TRUE]
       ELSE req[q]]

\* Mutant of AcceptOtp: the upsert runs outside the transaction.
AcceptOtpOnItsOwn(r) ==
  LET o == req[r].order IN
  /\ req[r].at = "accept_otp"
  /\ OtpFree(o, "START")
  /\ \E c \in Code :
       /\ otps' = [otps EXCEPT ![o]["START"] = FreshOtp(c)]
       /\ req' = [Superseding(o, "START", c) EXCEPT ![r].at = "accept_send", ![r].code = c]
  /\ UNCHANGED <<orders, vouchers, rewards, sent>>

\* UPSERT order_otp (order, START) with a new code.
AcceptOtp(r) ==
  /\ req[r].at = "accept_otp"
  /\ OtpFree(req[r].order, "START")
  /\ \E c \in Code : req' = [req EXCEPT ![r].at = "accept_send", ![r].code = c]
  /\ UNCHANGED db

\* The code goes out to the customer inside the transaction: it stays sent, and
\* of no use, when the transaction rolls back.
AcceptSend(r) ==
  /\ req[r].at = "accept_send"
  /\ sent' = [sent EXCEPT ![req[r].order] = @ \cup {"START"}]
  /\ Goto(r, "accept_commit")
  /\ UNCHANGED <<orders, otps, vouchers, rewards>>

\* The Start/End rows of an order that got those of driver d for the places in P.
PlacedBy(d, P) == [p \in DriverPlace |-> IF p \in P THEN d ELSE None]

\* Mutant of Replaced: the old rows are not deleted first.
ReplacedWithoutDelete(places, d, P) ==
  [p \in DriverPlace |-> IF p \in P THEN d ELSE places[p]]

\* The Start/End rows are replaced as a whole, but only if the profile has some.
Replaced(places, d, P) == IF P = {} THEN places ELSE PlacedBy(d, P)

\* DELETE and INSERT the Start/End locations, COMMIT.
AcceptCommit(r) ==
  LET h == req[r] IN
  /\ h.at = "accept_commit"
  /\ orders' = [orders EXCEPT ![h.order].status = "OtpPending",
                              ![h.order].driver = h.who,
                              ![h.order].places = Replaced(@, h.who, h.places)]
  /\ otps' = [otps EXCEPT ![h.order]["START"] = FreshOtp(h.code)]
  /\ req' = [Superseding(h.order, "START", h.code) EXCEPT ![r] = Idle]
  /\ UNCHANGED <<vouchers, rewards, sent>>

-----------------------------------------------------------------------------
(* POST /order/:id/send-otp *)

\* Mutant of Assigned: an order without a driver passes the check.
AssignedOrFree(o, d) == orders[o].driver \in {d, None}

\* The check send-otp and verify-otp make: the caller is the order's driver.
Assigned(o, d) == orders[o].driver = d

SendBegin(r, d, o, t) ==
  /\ orders[o].status # "Absent"
  /\ Assigned(o, d)
  /\ Enter(r, [Idle EXCEPT !.at = "send_otp", !.order = o, !.type = t])
  /\ UNCHANGED db

\* UPSERT order_otp, a statement of its own that commits at once.
SendOtp(r) ==
  LET h == req[r] IN
  /\ h.at = "send_otp"
  /\ OtpFree(h.order, h.type)
  /\ \E c \in Code :
       /\ otps' = [otps EXCEPT ![h.order][h.type] = FreshOtp(c)]
       /\ req' = [Superseding(h.order, h.type, c) EXCEPT ![r].at = "send_status"]
  /\ UNCHANGED <<orders, vouchers, rewards, sent>>

\* UPDATE order SET status, whatever the status is by now.  The code goes out only
\* when the update is confirmed: a failure before, or a lost confirmation, leaves
\* one that was stored and never sent.
SendStatus(r) ==
  LET h == req[r] IN
  /\ h.at = "send_status"
  /\ OrderFree(h.order)
  /\ orders' = [orders EXCEPT ![h.order].status = "OtpPending"]
  /\ \/ sent' = [sent EXCEPT ![h.order] = @ \cup {h.type}]
     \/ UNCHANGED sent
  /\ Finish(r)
  /\ UNCHANGED <<otps, vouchers, rewards>>

\* Ten minutes pass.
Expire(o, t) ==
  /\ otps[o][t].code # None
  /\ ~otps[o][t].expired
  /\ otps' = [otps EXCEPT ![o][t].expired = TRUE]
  /\ UNCHANGED <<orders, vouchers, rewards, sent, req>>

-----------------------------------------------------------------------------
(* POST /order/:id/verify-otp *)

\* Reads the order; the driver must be its driver.
VerifyBegin(r, d, o, t, c) ==
  /\ orders[o].status # "Absent"
  /\ Assigned(o, d)
  /\ otps[o][t].attempts < MaxAttempts
  /\ rewards[o] < MaxRewards
  /\ Enter(r, [Idle EXCEPT !.at = "verify_check", !.order = o, !.type = t,
                           !.code = c])
  /\ UNCHANGED db

\* The OTP record can still be verified: it exists, is unverified, unexpired.
Pending(otp) == otp.code # None /\ ~otp.verified /\ ~otp.expired

\* Mutant of VerifyCheck: the submitted code is not compared.
VerifyCheckAnyCode(r) ==
  /\ req[r].at = "verify_check"
  /\ Pending(otps[req[r].order][req[r].type])
  /\ Goto(r, "verify_otp")
  /\ UNCHANGED db

\* Mutant of VerifyCheck: the record is looked up without its type.
VerifyCheckStartOnly(r) ==
  LET otp == otps[req[r].order]["START"] IN
  /\ req[r].at = "verify_check"
  /\ Pending(otp)
  /\ Goto(r, IF otp.code = req[r].code THEN "verify_otp" ELSE "verify_mismatch")
  /\ UNCHANGED db

\* Reads the OTP record and decides on what it read.
VerifyCheck(r) ==
  LET h == req[r]
      otp == otps[h.order][h.type]
  IN
  /\ h.at = "verify_check"
  /\ Pending(otp)
  /\ Goto(r, IF otp.code = h.code THEN "verify_otp" ELSE "verify_mismatch")
  /\ UNCHANGED db

VerifyRefused(r) ==
  /\ req[r].at = "verify_check"
  /\ ~Pending(otps[req[r].order][req[r].type])
  /\ Finish(r)
  /\ UNCHANGED db

\* UPDATE order_otp SET attempts = attempts + 1, then 400.
VerifyMismatch(r) ==
  LET h == req[r] IN
  /\ h.at = "verify_mismatch"
  /\ OtpFree(h.order, h.type)
  /\ otps' = [otps EXCEPT ![h.order][h.type].attempts = @ + 1]
  /\ Finish(r)
  /\ UNCHANGED <<orders, vouchers, rewards, sent>>

\* Mutant of VerifyOtp: the OTP is marked outside the transaction.
VerifyOtpOnItsOwn(r) ==
  LET h == req[r] IN
  /\ h.at = "verify_otp"
  /\ OtpFree(h.order, h.type)
  /\ otps' = [otps EXCEPT ![h.order][h.type].verified = TRUE]
  /\ Goto(r, "verify_order")
  /\ UNCHANGED <<orders, vouchers, rewards, sent>>

\* BEGIN; UPDATE order_otp SET is_verified WHERE id.
VerifyOtp(r) ==
  /\ req[r].at = "verify_otp"
  /\ OtpFree(req[r].order, req[r].type)
  /\ Goto(r, "verify_order")
  /\ UNCHANGED db

\* UPDATE order SET status, start_time or completion_time WHERE id.
VerifyOrder(r) ==
  /\ req[r].at = "verify_order"
  /\ OrderFree(req[r].order)
  /\ Goto(r, "verify_commit")
  /\ UNCHANGED db

\* Mutant of Advanced: a completion writes the reserved status Closed.
AdvancedToClosed(row, t) ==
  IF t = "START"
    THEN [row EXCEPT !.status = "InProgress", !.started = TRUE]
    ELSE [row EXCEPT !.status = "Closed", !.completed = TRUE]

\* The order row as the verification of type t writes it.
Advanced(row, t) ==
  IF t = "START"
    THEN [row EXCEPT !.status = "InProgress", !.started = TRUE]
    ELSE [row EXCEPT !.status = "Completed", !.completed = TRUE]

\* Mutant of RewardDue: a START verification pays as well.
RewardDueAnyType(o, t) == t \in OtpType /\ orders[o].voucher # None

\* A completion credits the creator of the order's voucher.
RewardDue(o, t) == t = "COMPLETE" /\ orders[o].voucher # None

\* The wallet credit of a completion, then COMMIT.
VerifyCommit(r) ==
  LET h == req[r] IN
  /\ h.at = "verify_commit"
  /\ otps' = [otps EXCEPT ![h.order][h.type].verified = TRUE]
  /\ orders' = [orders EXCEPT ![h.order] = Advanced(@, h.type)]
  /\ rewards' = IF RewardDue(h.order, h.type)
                  THEN [rewards EXCEPT ![h.order] = @ + 1]
                  ELSE rewards
  /\ Finish(r)
  /\ UNCHANGED <<vouchers, sent>>

-----------------------------------------------------------------------------
(* Failures *)

\* The request dies between two statements: its connection drops, its
\* transaction times out, or the server stops.  An open transaction is rolled
\* back; what send-otp committed on its own stays.
Fail(r) ==
  /\ req[r].at # "idle"
  /\ Finish(r)
  /\ UNCHANGED db

\* Two transactions wait for each other's rows; the database aborts one.
DeadlockVictim(r) ==
  /\ \E q \in Request : WaitsFor(r, q) /\ WaitsFor(q, r)
  /\ Finish(r)
  /\ UNCHANGED db

-----------------------------------------------------------------------------
Init ==
  /\ orders = [o \in Order |-> NoOrder]
  /\ otps = [o \in Order |-> [t \in OtpType |-> NoOtp]]
  /\ vouchers = [v \in Voucher |-> NoVoucher]
  /\ rewards = [o \in Order |-> 0]
  /\ sent = [o \in Order |-> {}]
  /\ req = [r \in Request |-> Idle]

\* A new call reaches the server.
Arrive(r) ==
  \E o \in Order :
    \/ \E c \in Customer, v \in Voucher \cup {None} : CreateBegin(r, c, o, v)
    \/ \E d \in Driver :
         \/ AcceptBegin(r, d, o)
         \/ \E t \in OtpType :
              \/ SendBegin(r, d, o, t)
              \/ \E c \in Code : VerifyBegin(r, d, o, t, c)

\* The handler of r executes its next statement.
Step(r) ==
  \/ CreateValidate(r) \/ RedeemValidate(r) \/ CreateRefused(r)
  \/ CreateRedeem(r) \/ RedeemLost(r) \/ CreateInsert(r)
  \/ AcceptOrder(r) \/ AcceptOtp(r) \/ AcceptSend(r) \/ AcceptCommit(r)
  \/ SendOtp(r) \/ SendStatus(r)
  \/ VerifyCheck(r) \/ VerifyRefused(r) \/ VerifyMismatch(r)
  \/ VerifyOtp(r) \/ VerifyOrder(r) \/ VerifyCommit(r)

Next ==
  \/ \E r \in Request : Arrive(r) \/ Step(r) \/ Fail(r) \/ DeadlockVictim(r)
  \/ \E v \in Voucher, c \in Customer : GenerateVoucher(v, c)
  \/ \E o \in Order, t \in OtpType : Expire(o, t)

Spec == Init /\ [][Next]_vars

\* A handler whose statement can run is run: the event loop resumes every
\* await, and the database grants a row lock to those who queue for it.  It
\* also breaks a lock cycle.  Nobody is obliged to call, and nothing to fail.
Fairness ==
  \A r \in Request : SF_vars(Step(r) \/ DeadlockVictim(r))

FairSpec == Spec /\ Fairness

-----------------------------------------------------------------------------
(* Properties *)

\* Every table and every request has its type.
TypeOK ==
  /\ orders \in [Order -> OrderRow]
  /\ otps \in [Order -> [OtpType -> OtpRow]]
  /\ vouchers \in [Voucher -> VoucherRow]
  /\ rewards \in [Order -> Nat]
  /\ sent \in [Order -> SUBSET OtpType]
  /\ req \in [Request -> Handler]

\* However many customers redeem the same code at once, it ends up on one order
\* at most (redeemVoucherAsync's conditional UPDATE inside create's transaction).
VoucherSingleUse ==
  \A o1, o2 \in Order :
    orders[o1].voucher # None /\ orders[o1].voucher = orders[o2].voucher => o1 = o2

\* The voucher on an order was redeemed by that order's customer, and is the
\* referral of somebody else: validation and redemption hold together.
RedeemedByItsOrder ==
  \A o \in Order :
    orders[o].voucher # None =>
      /\ vouchers[orders[o].voucher].usedBy = orders[o].customer
      /\ vouchers[orders[o].voucher].owner \notin {None, orders[o].customer}

\* No voucher is burnt: one that is redeemed is on an order, whatever request
\* failed in between (create's redemption and insert are one transaction).
NoVoucherLost ==
  \A v \in Voucher :
    vouchers[v].usedBy # None => \E o \in Order : orders[o].voucher = v

\* An order nobody accepted carries no trace of a driver, a stored code, a start,
\* a completion or a reward; one that left New has a driver and a START code,
\* and its customer was sent one.  A send-otp or verify-otp that checked the
\* driver earlier cannot break this.
UntouchedUntilAccepted ==
  \A o \in Order :
    IF orders[o].status \in {"Absent", "New"}
      THEN /\ orders[o].driver = None
           /\ otps[o] = [t \in OtpType |-> NoOtp]
           /\ ~orders[o].started /\ ~orders[o].completed
           /\ rewards[o] = 0
      ELSE /\ orders[o].driver # None
           /\ otps[o]["START"].code # None
           /\ "START" \in sent[o]

\* From the comparison to the commit a verification goes with the code that the
\* record has now: a code that a resend or a second accept replaced before the
\* comparison is refused, and none replaces it once the transaction has marked
\* the record.  Only a replacement between these two statements can be
\* overtaken by the old code.
MatchedCodeIsCurrent ==
  \A r \in Request :
    LET h == req[r] IN
    h.at \in {"verify_otp", "verify_order", "verify_commit"} /\ ~h.superseded =>
      otps[h.order][h.type].code = h.code

\* A verified OTP and the time stamp it stands for are written together: no
\* failure inside verify-otp leaves one without the other, and no resend or
\* second accept takes the time stamp back.
VerifiedMeansAdvanced ==
  \A o \in Order :
    /\ otps[o]["START"].verified => orders[o].started
    /\ otps[o]["COMPLETE"].verified => orders[o].completed

\* The Start and End locations of an order are those of one driver's profile, all
\* of them and no others, even if another driver's accept was overwritten; that
\* driver is the order's own unless the order's driver may have come without any
\* location.
PlacesFollowDriver ==
  \A o \in Order :
    LET d == orders[o].driver IN
    d # None =>
      \E e \in Driver : \E P \in PlacesOf[e] :
        /\ orders[o].places = PlacedBy(e, P)
        /\ e = d \/ {} \in PlacesOf[d]

\* accept locks the order row and then the START record, verify-otp the other
\* way round.  They can only meet in a cycle when the accept's check of the
\* status has gone stale: another driver's accept was committed in between.
DeadlockNeedsStaleAccept ==
  \A r, q \in Request :
    WaitsFor(r, q) /\ WaitsFor(q, r) =>
      \E x \in {r, q} :
        /\ req[x].at = "accept_otp"
        /\ orders[req[x].order].status # "New"

\* The reward and the completion are one transaction: an order with a voucher is
\* completed if and only if the voucher's creator was paid for it.
RewardIffCompleted ==
  \A o \in Order :
    rewards[o] > 0 <=> orders[o].completed /\ orders[o].voucher # None

\* Documented, and not so (docs/order-flow.md, step 2): an order is accepted only
\* while it is New.
AcceptOnlyNew ==
  [][\A o \in Order :
       orders'[o].driver # orders[o].driver => orders[o].status = "New"]_vars

\* Documented, and not so (docs/order-flow.md, OTP security rules): a verified
\* OTP is not used again, so no reward is paid on one that is verified already.
OtpOneTimeUse ==
  [][\A o \in Order :
       rewards'[o] # rewards[o] => ~otps[o]["COMPLETE"].verified]_vars

\* Every request comes to an end: lock queues drain and lock cycles are broken.
RequestsFinish ==
  \A r \in Request : req[r] # Idle ~> req[r] = Idle

-----------------------------------------------------------------------------
(* Refinement *)

VP == INSTANCE VoucherPromise WITH
        owner <- [v \in Voucher |-> vouchers[v].owner],
        spender <- [v \in Voucher |-> vouchers[v].usedBy],
        spent <- {p \in Voucher \X Order : orders[p[2]].voucher = p[1]}

\* The create handler, with its two validations outside the transaction, its
\* row lock and its rollbacks, implements the atomic single-use voucher.
ImplementsVoucherPromise == VP!Spec

OP == INSTANCE OrderPromise WITH
        status <- [o \in Order |-> orders[o].status],
        driver <- [o \in Order |-> orders[o].driver],
        carries <- [o \in Order |-> orders[o].voucher # None],
        stored <- [o \in Order |-> {t \in OtpType : otps[o][t].code # None}],
        paid <- rewards

\* The four handlers, in any interleaving and with any failure, implement what
\* an order promises: no driver before the customer was sent a START code and
\* none taken away, no code sent that is not stored for the order except by an
\* accept, no start or completion without a stored code of its type, no reward
\* but with a completion.
ImplementsOrderPromise == OP!Spec
=============================================================================
