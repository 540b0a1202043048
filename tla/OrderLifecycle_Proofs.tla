----------------------- MODULE OrderLifecycle_Proofs -----------------------
(***************************************************************************)
(* Proofs about OrderLifecycle for every set of orders, customers,         *)
(* drivers, vouchers, requests and codes.  The argument is one inductive   *)
(* invariant, Inv, in four layers: the types with the arguments each stage *)
(* carries (Types), what the tables say about each other (Tables), what a  *)
(* request that is under way may rely on (Requests), and what it may rely  *)
(* on of the one-time codes, thanks to their row locks (Codes).            *)
(***************************************************************************)
EXTENDS OrderLifecycle, TLAPS

CreateStage == {"create_validate", "create_recheck", "create_redeem", "create_insert"}
AcceptStage == {"accept_order", "accept_otp", "accept_send", "accept_commit"}
DriverStage ==
  {"send_otp", "send_status",
   "verify_check", "verify_mismatch", "verify_otp", "verify_order", "verify_commit"}

\* A request that is under way has the arguments its handler was called with.
ArgsOK ==
  \A r \in Request :
    /\ req[r].at # "idle" => req[r].order \in Order
    /\ req[r].at \in CreateStage => req[r].who \in Customer
    /\ req[r].at \in CreateStage \ {"create_insert"} => req[r].voucher \in Voucher
    /\ req[r].at \in AcceptStage =>
         /\ req[r].who \in Driver
         /\ req[r].places \in PlacesOf[req[r].who]
         /\ req[r].type = "START"
    /\ req[r].at \in {"accept_send", "accept_commit"} => req[r].code \in Code

Types == TypeOK /\ ArgsOK

\* An id that is not committed yet has no row.
AbsentIsBlank == \A o \in Order : orders[o].status = "Absent" => orders[o] = NoOrder

\* Whoever applied a voucher is the customer of the order.
AppliedByCustomer ==
  \A o \in Order : orders[o].voucher # None => orders[o].customer # None

\* An order that has no driver has no Start or End location.
UnassignedIsUnplaced ==
  \A o \in Order : orders[o].driver = None =>
    orders[o].places = [p \in DriverPlace |-> None]

Tables ==
  /\ AbsentIsBlank /\ AppliedByCustomer /\ UnassignedIsUnplaced
  /\ VoucherSingleUse /\ RedeemedByItsOrder /\ NoVoucherLost
  /\ UntouchedUntilAccepted /\ VerifiedMeansAdvanced
  /\ PlacesFollowDriver /\ RewardIffCompleted

\* A creation has its order id for itself, and no row yet.
CreatesApart ==
  \A r \in Request :
    req[r].at \in CreateStage =>
      /\ orders[req[r].order].status = "Absent"
      /\ \A q \in Request : req[q].order = req[r].order => q = r

\* A voucher that passed a validation is still somebody else's; the redeeming
\* UPDATE holds its row, unused, until the order is inserted.
VoucherHeld ==
  \A r \in Request :
    req[r].at \in CreateStage \ {"create_validate"} /\ req[r].voucher # None =>
      /\ vouchers[req[r].voucher].owner \notin {None, req[r].who}
      /\ req[r].at = "create_insert" =>
           /\ vouchers[req[r].voucher].usedBy = None
           /\ \A q \in Request : HoldsVoucher(q, req[r].voucher) => q = r

\* An accept works on an order that exists; send-otp and verify-otp work on one
\* that has a driver, and go on having one.
OrderExists ==
  \A r \in Request :
    /\ req[r].at \in AcceptStage => orders[req[r].order].status # "Absent"
    /\ req[r].at \in DriverStage => orders[req[r].order].driver # None

Requests == CreatesApart /\ VoucherHeld /\ OrderExists

\* The row lock of an OTP record is held by one transaction at a time.
OtpHeldOnce ==
  \A p, q \in Request, o \in Order, t \in OtpType :
    HoldsOtp(p, o, t) /\ HoldsOtp(q, o, t) => p = q

\* A send-otp that stored a code, and a verification that found one, find one in
\* their record from then on.
CodeStored ==
  \A r \in Request :
    req[r].at \in {"send_status", "verify_otp", "verify_order", "verify_commit"} =>
      otps[req[r].order][req[r].type].code # None

\* An accept has sent its code when it commits.
Announced ==
  \A r \in Request : req[r].at = "accept_commit" => "START" \in sent[req[r].order]

Codes == OtpHeldOnce /\ CodeStored /\ Announced /\ MatchedCodeIsCurrent

Inv == Types /\ Tables /\ Requests /\ Codes
-----------------------------------------------------------------------------
(* Layer 1: types and arguments *)

LEMMA InitTypes == Init => Types
<1> SUFFICES ASSUME Init PROVE Types
  OBVIOUS
<1> USE DEF Init
<1>1. NoOrder \in OrderRow
  BY DEF NoOrder, OrderRow, Status
<1>2. NoOtp \in OtpRow
  BY DEF NoOtp, FreshOtp, OtpRow
<1>3. NoVoucher \in VoucherRow
  BY DEF NoVoucher, VoucherRow
<1>4. Idle \in Handler
  BY DEF Idle, Handler, Stage, OtpType
<1>5. TypeOK
  BY <1>1, <1>2, <1>3, <1>4 DEF TypeOK
<1>6. ArgsOK
  BY DEF ArgsOK, Idle, CreateStage, AcceptStage
<1> QED
  BY <1>5, <1>6 DEF Types

\* Rows and requests keep their type when a column is given a value of its own.
LEMMA RowTypes ==
  /\ \A otp \in OtpRow :
       /\ [otp EXCEPT !.expired = TRUE] \in OtpRow
       /\ [otp EXCEPT !.verified = TRUE] \in OtpRow
       /\ [otp EXCEPT !.attempts = otp.attempts + 1] \in OtpRow
  /\ \A row \in OrderRow : [row EXCEPT !.status = "OtpPending"] \in OrderRow
  /\ \A row \in OrderRow, t \in OtpType : Advanced(row, t) \in OrderRow
  /\ \A row \in OrderRow, d \in Driver, places \in [DriverPlace -> Driver \cup {None}] :
       [row EXCEPT !.status = "OtpPending", !.driver = d, !.places = places] \in OrderRow
  /\ \A h \in Handler, c \in Code :
       [h EXCEPT !.at = "accept_send", !.code = c] \in Handler
  /\ \A h \in Handler : [h EXCEPT !.superseded = TRUE] \in Handler
  /\ \A h \in Handler, s \in Stage : [h EXCEPT !.at = s] \in Handler
<1>1. ASSUME NEW otp \in OtpRow
      PROVE  /\ [otp EXCEPT !.expired = TRUE] \in OtpRow
             /\ [otp EXCEPT !.verified = TRUE] \in OtpRow
             /\ [otp EXCEPT !.attempts = otp.attempts + 1] \in OtpRow
  <2>1. [otp EXCEPT !.expired = TRUE] \in OtpRow
    BY Zenon DEF OtpRow
  <2>2. [otp EXCEPT !.verified = TRUE] \in OtpRow
    BY Zenon DEF OtpRow
  <2>3. [otp EXCEPT !.attempts = otp.attempts + 1] \in OtpRow
    <3>1. otp.attempts + 1 \in Nat
      BY DEF OtpRow
    <3> QED
      BY <3>1, Zenon DEF OtpRow
  <2> QED
    BY <2>1, <2>2, <2>3
<1>2. ASSUME NEW row \in OrderRow PROVE [row EXCEPT !.status = "OtpPending"] \in OrderRow
  BY DEF OrderRow, Status
<1>3. ASSUME NEW row \in OrderRow, NEW t \in OtpType PROVE Advanced(row, t) \in OrderRow
  BY DEF Advanced, OrderRow, Status
<1>4. ASSUME NEW row \in OrderRow, NEW d \in Driver,
             NEW places \in [DriverPlace -> Driver \cup {None}]
      PROVE  [row EXCEPT !.status = "OtpPending", !.driver = d, !.places = places] \in OrderRow
  BY DEF OrderRow, Status
<1>5. ASSUME NEW h \in Handler, NEW c \in Code
      PROVE  [h EXCEPT !.at = "accept_send", !.code = c] \in Handler
  BY DEF Handler, Stage
<1>6. ASSUME NEW h \in Handler PROVE [h EXCEPT !.superseded = TRUE] \in Handler
  BY DEF Handler
<1>7. ASSUME NEW h \in Handler, NEW s \in Stage PROVE [h EXCEPT !.at = s] \in Handler
  BY DEF Handler
<1> QED
  BY <1>1, <1>2, <1>3, <1>4, <1>5, <1>6, <1>7

\* Replacing a code changes nothing but the history of the overtaken requests.
SameArgs(h, g) ==
  /\ h.at = g.at /\ h.order = g.order /\ h.who = g.who /\ h.type = g.type
  /\ h.code = g.code /\ h.voucher = g.voucher /\ h.places = g.places

LEMMA SupersedingEffect ==
  ASSUME Types, NEW o, NEW t, NEW c
  PROVE  /\ Superseding(o, t, c) \in [Request -> Handler]
         /\ \A q \in Request :
              /\ SameArgs(Superseding(o, t, c)[q], req[q])
              /\ req[q].at = "verify_otp" /\ req[q].order = o /\ req[q].type = t
                   /\ req[q].code # c
                 => Superseding(o, t, c)[q].superseded
              /\ ~Superseding(o, t, c)[q].superseded => ~req[q].superseded
<1>1. \A q \in Request : req[q] \in Handler
  BY DEF Types, TypeOK
<1>2. ASSUME NEW h \in Handler
      PROVE  /\ SameArgs([h EXCEPT !.superseded = TRUE], h)
             /\ [h EXCEPT !.superseded = TRUE].superseded
  BY DEF SameArgs, Handler
<1>3. \A q \in Request : Superseding(o, t, c)[q] \in Handler
  BY <1>1, RowTypes DEF Superseding
<1>4. Superseding(o, t, c) \in [Request -> Handler]
  BY <1>3 DEF Superseding
<1>5. \A q \in Request : SameArgs(req[q], req[q])
  BY DEF SameArgs
<1>6. ASSUME NEW q \in Request
      PROVE  /\ SameArgs(Superseding(o, t, c)[q], req[q])
             /\ req[q].at = "verify_otp" /\ req[q].order = o /\ req[q].type = t
                  /\ req[q].code # c
                => Superseding(o, t, c)[q].superseded
             /\ ~Superseding(o, t, c)[q].superseded => ~req[q].superseded
  <2> DEFINE hit == req[q].at = "verify_otp" /\ req[q].order = o /\ req[q].type = t
                      /\ req[q].code # c
  <2>1. Superseding(o, t, c)[q] = IF hit THEN [req[q] EXCEPT !.superseded = TRUE] ELSE req[q]
    BY DEF Superseding
  <2> HIDE DEF hit
  <2>2. CASE hit
    BY <1>1, <1>2, <2>1, <2>2
  <2>3. CASE ~hit
    BY <1>5, <2>1, <2>3 DEF hit
  <2> QED
    BY <2>2, <2>3
<1> QED
  BY <1>4, <1>6

\* A handler that ends leaves a well-typed idle request behind.
LEMMA FinishTypes ==
  ASSUME Types, NEW r \in Request, Finish(r)
  PROVE  req' \in [Request -> Handler] /\ ArgsOK'
<1>1. Idle \in Handler
  BY DEF Idle, Handler, Stage, OtpType
<1>2. req' \in [Request -> Handler]
  BY <1>1 DEF Types, TypeOK, Finish
<1>3. ArgsOK'
  BY DEF Types, TypeOK, ArgsOK, Finish, Idle, CreateStage, AcceptStage
<1> QED
  BY <1>2, <1>3

\* A handler that moves on to a stage its arguments fit stays well-typed.
LEMMA GotoTypes ==
  ASSUME Types, NEW r \in Request, NEW s \in Stage \ {"idle"}, Goto(r, s),
         req[r].at # "idle",
         s \in CreateStage => req[r].at \in CreateStage,
         s \in CreateStage \ {"create_insert"} => req[r].at \in CreateStage \ {"create_insert"},
         s \in AcceptStage => req[r].at \in AcceptStage,
         s # "accept_send",
         s = "accept_commit" => req[r].at = "accept_send"
  PROVE  req' \in [Request -> Handler] /\ ArgsOK'
<1>1. req' = [req EXCEPT ![r].at = s]
  BY DEF Goto
<1>2. req' \in [Request -> Handler]
  <2>1. req \in [Request -> Handler]
    BY DEF Types, TypeOK
  <2>2. [req[r] EXCEPT !.at = s] \in Handler
    BY <2>1, RowTypes
  <2> QED
    BY <1>1, <2>1, <2>2
<1>3. ArgsOK'
  BY <1>1 DEF Types, TypeOK, ArgsOK, Handler
<1> QED
  BY <1>2, <1>3

LEMMA NextTypes == Types /\ [Next]_vars => Types'
<1> SUFFICES ASSUME Types, [Next]_vars PROVE Types'
  OBVIOUS
<1> USE ConstantsAssumption
<1>1. ASSUME NEW r \in Request, NEW c \in Customer, NEW o \in Order,
             NEW v \in Voucher \cup {None}, CreateBegin(r, c, o, v)
      PROVE  Types'
  <2> DEFINE h == [Idle EXCEPT !.at = IF v = None THEN "create_insert" ELSE "create_validate",
                               !.order = o, !.who = c, !.voucher = v]
  <2>1. /\ h \in Handler
        /\ h.at = (IF v = None THEN "create_insert" ELSE "create_validate")
        /\ h.order = o /\ h.who = c /\ h.voucher = v
    BY DEF Idle, Handler, Stage, OtpType
  <2>2. req' = [req EXCEPT ![r] = h]
    BY <1>1 DEF CreateBegin, Enter
  <2> HIDE DEF h
  <2>3. req' \in [Request -> Handler] /\ ArgsOK'
    BY <2>1, <2>2 DEF Types, TypeOK, ArgsOK, CreateStage, AcceptStage
  <2> QED
    BY <1>1, <2>3 DEF Types, TypeOK, CreateBegin, db
<1>2. ASSUME NEW r \in Request, NEW d \in Driver, NEW o \in Order, AcceptBegin(r, d, o)
      PROVE  Types'
  <2>0. PICK P \in PlacesOf[d] :
          Enter(r, [Idle EXCEPT !.at = "accept_order", !.order = o, !.who = d, !.places = P])
    BY <1>2 DEF AcceptBegin
  <2> DEFINE h == [Idle EXCEPT !.at = "accept_order", !.order = o, !.who = d, !.places = P]
  <2>1. /\ h \in Handler
        /\ h.at = "accept_order" /\ h.order = o /\ h.who = d
        /\ h.places \in PlacesOf[d] /\ h.type = "START"
    BY DEF Idle, Handler, Stage, OtpType
  <2>2. req' = [req EXCEPT ![r] = h]
    BY <2>0 DEF Enter
  <2> HIDE DEF h
  <2>3. req' \in [Request -> Handler] /\ ArgsOK'
    BY <2>1, <2>2 DEF Types, TypeOK, ArgsOK, CreateStage, AcceptStage
  <2> QED
    BY <1>2, <2>3 DEF Types, TypeOK, AcceptBegin, db
<1>3. ASSUME NEW r \in Request, NEW d \in Driver, NEW o \in Order, NEW t \in OtpType,
             SendBegin(r, d, o, t)
      PROVE  Types'
  <2> DEFINE h == [Idle EXCEPT !.at = "send_otp", !.order = o, !.type = t]
  <2>1. /\ h \in Handler
        /\ h.at = "send_otp" /\ h.order = o /\ h.type = t
    BY DEF Idle, Handler, Stage, OtpType
  <2>2. req' = [req EXCEPT ![r] = h]
    BY <1>3 DEF SendBegin, Enter
  <2> HIDE DEF h
  <2>3. req' \in [Request -> Handler] /\ ArgsOK'
    BY <2>1, <2>2 DEF Types, TypeOK, ArgsOK, CreateStage, AcceptStage
  <2> QED
    BY <1>3, <2>3 DEF Types, TypeOK, SendBegin, db
<1>4. ASSUME NEW r \in Request, NEW d \in Driver, NEW o \in Order, NEW t \in OtpType,
             NEW c \in Code, VerifyBegin(r, d, o, t, c)
      PROVE  Types'
  <2> DEFINE h == [Idle EXCEPT !.at = "verify_check", !.order = o, !.type = t,
                               !.code = c]
  <2>1. /\ h \in Handler
        /\ h.at = "verify_check" /\ h.order = o /\ h.type = t /\ h.code = c
    BY DEF Idle, Handler, Stage, OtpType
  <2>2. req' = [req EXCEPT ![r] = h]
    BY <1>4 DEF VerifyBegin, Enter
  <2> HIDE DEF h
  <2>3. req' \in [Request -> Handler] /\ ArgsOK'
    BY <2>1, <2>2 DEF Types, TypeOK, ArgsOK, CreateStage, AcceptStage
  <2> QED
    BY <1>4, <2>3 DEF Types, TypeOK, VerifyBegin, db
<1>5. ASSUME NEW r \in Request,
             \/ CreateRefused(r) \/ RedeemLost(r) \/ VerifyRefused(r)
             \/ Fail(r) \/ DeadlockVictim(r)
      PROVE  Types'
  <2>1. Finish(r) /\ UNCHANGED db
    BY <1>5 DEF CreateRefused, RedeemLost, VerifyRefused, Fail, DeadlockVictim
  <2> QED
    BY <2>1, FinishTypes DEF Types, TypeOK, db
<1>6. ASSUME NEW r \in Request,
             \/ CreateValidate(r) \/ RedeemValidate(r) \/ CreateRedeem(r)
             \/ AcceptOrder(r) \/ VerifyCheck(r) \/ VerifyOtp(r) \/ VerifyOrder(r)
      PROVE  Types'
  <2>1. UNCHANGED db
    BY <1>6 DEF CreateValidate, RedeemValidate, CreateRedeem, AcceptOrder, VerifyCheck,
                VerifyOtp, VerifyOrder
  <2>2. \E s \in Stage \ {"idle", "accept_send", "accept_commit"} :
          /\ Goto(r, s)
          /\ req[r].at # "idle"
          /\ s \in CreateStage => req[r].at \in CreateStage
          /\ s \in CreateStage \ {"create_insert"} => req[r].at \in CreateStage \ {"create_insert"}
          /\ s \in AcceptStage => req[r].at \in AcceptStage
    BY <1>6 DEF CreateValidate, RedeemValidate, CreateRedeem, AcceptOrder, VerifyCheck,
                VerifyOtp, VerifyOrder, CreateStage, AcceptStage, Stage
  <2>3. req' \in [Request -> Handler] /\ ArgsOK'
    BY <2>2, GotoTypes
  <2> QED
    BY <2>1, <2>3 DEF Types, TypeOK, db
<1>7. ASSUME NEW r \in Request, CreateInsert(r) PROVE Types'
  <2>1. req' \in [Request -> Handler] /\ ArgsOK'
    BY <1>7, FinishTypes DEF CreateInsert
  <2>2. req[r].order \in Order /\ req[r].who \in Customer
    BY <1>7 DEF Types, ArgsOK, CreateInsert, CreateStage
  <2>3. req[r].voucher \in Voucher \cup {None}
    BY DEF Types, TypeOK, Handler
  <2>4. orders' \in [Order -> OrderRow]
    BY <1>7, <2>2, <2>3 DEF Types, TypeOK, CreateInsert, NoOrder, OrderRow, Status
  <2>5. vouchers' \in [Voucher -> VoucherRow]
    BY <1>7, <2>2, <2>3 DEF Types, TypeOK, CreateInsert, VoucherRow
  <2> QED
    BY <1>7, <2>1, <2>4, <2>5 DEF Types, TypeOK, CreateInsert
<1>8. ASSUME NEW v \in Voucher, NEW c \in Customer, GenerateVoucher(v, c) PROVE Types'
  <2>1. vouchers' \in [Voucher -> VoucherRow]
    BY <1>8 DEF Types, TypeOK, GenerateVoucher, VoucherRow
  <2>2. ArgsOK'
    BY <1>8 DEF Types, ArgsOK, GenerateVoucher
  <2> QED
    BY <1>8, <2>1, <2>2 DEF Types, TypeOK, GenerateVoucher
<1>9. ASSUME NEW r \in Request, AcceptOtp(r) PROVE Types'
  <2>1. PICK c \in Code : req' = [req EXCEPT ![r].at = "accept_send", ![r].code = c]
    BY <1>9 DEF AcceptOtp
  <2>2. req' \in [Request -> Handler]
    <3>1. [req[r] EXCEPT !.at = "accept_send", !.code = c] \in Handler
      BY RowTypes DEF Types, TypeOK
    <3> QED
      BY <2>1, <3>1 DEF Types, TypeOK
  <2>3. ArgsOK'
    BY <1>9, <2>1 DEF Types, TypeOK, Handler, ArgsOK, AcceptOtp, CreateStage, AcceptStage
  <2> QED
    BY <1>9, <2>2, <2>3 DEF Types, TypeOK, AcceptOtp, db
<1>10. ASSUME NEW r \in Request, AcceptCommit(r) PROVE Types'
  <2>1. req' \in [Request -> Handler] /\ ArgsOK'
    <3> DEFINE S == Superseding(req[r].order, "START", req[r].code)
    <3>1. /\ S \in [Request -> Handler]
          /\ \A q \in Request : SameArgs(S[q], req[q])
      BY SupersedingEffect
    <3> HIDE DEF S
    <3>2. Idle \in Handler /\ Idle.at = "idle"
      BY DEF Idle, Handler, Stage, OtpType
    <3>3. req' = [S EXCEPT ![r] = Idle]
      BY <1>10 DEF AcceptCommit, S
    <3>4. req'[r] = Idle /\ \A q \in Request : q # r => SameArgs(req'[q], req[q])
      BY <3>1, <3>3
    <3>5. req' \in [Request -> Handler]
      BY <3>1, <3>2, <3>3
    <3> HIDE DEF Idle
    <3>6. ArgsOK'
      BY <3>2, <3>4 DEF Types, ArgsOK, SameArgs, CreateStage, AcceptStage
    <3> QED
      BY <3>5, <3>6
  <2>2. req[r].order \in Order /\ req[r].who \in Driver /\ req[r].code \in Code
    BY <1>10 DEF Types, ArgsOK, AcceptCommit, AcceptStage
  <2>3. Replaced(orders[req[r].order].places, req[r].who, req[r].places)
          \in [DriverPlace -> Driver \cup {None}]
    BY <2>2 DEF Types, TypeOK, OrderRow, Replaced, PlacedBy
  <2>4. orders' \in [Order -> OrderRow]
    <3> DEFINE row == orders[req[r].order]
    <3>1. [row EXCEPT !.status = "OtpPending", !.driver = req[r].who,
                      !.places = Replaced(row.places, req[r].who, req[r].places)] \in OrderRow
      BY <2>2, <2>3, RowTypes DEF Types, TypeOK
    <3>2. orders' = [orders EXCEPT ![req[r].order] =
                      [row EXCEPT !.status = "OtpPending", !.driver = req[r].who,
                                  !.places = Replaced(row.places, req[r].who, req[r].places)]]
      BY <1>10, <2>2 DEF AcceptCommit, Types, TypeOK
    <3> QED
      BY <3>1, <3>2, <2>2 DEF Types, TypeOK
  <2>5. otps' \in [Order -> [OtpType -> OtpRow]]
    BY <1>10, <2>2 DEF Types, TypeOK, AcceptCommit, FreshOtp, OtpRow, OtpType
  <2> QED
    BY <1>10, <2>1, <2>4, <2>5 DEF Types, TypeOK, AcceptCommit
<1>11. ASSUME NEW r \in Request, SendOtp(r) PROVE Types'
  <2>1. req[r].order \in Order /\ req[r].type \in OtpType
    BY <1>11 DEF Types, TypeOK, Handler, ArgsOK, SendOtp
  <2>2. PICK c \in Code :
          /\ otps' = [otps EXCEPT ![req[r].order][req[r].type] = FreshOtp(c)]
          /\ req' = [Superseding(req[r].order, req[r].type, c) EXCEPT ![r].at = "send_status"]
    BY <1>11 DEF SendOtp
  <2>3. otps' \in [Order -> [OtpType -> OtpRow]]
    BY <2>1, <2>2 DEF Types, TypeOK, FreshOtp, OtpRow
  <2> DEFINE S == Superseding(req[r].order, req[r].type, c)
  <2>4. /\ S \in [Request -> Handler]
        /\ \A q \in Request : SameArgs(S[q], req[q])
    BY SupersedingEffect
  <2>5. req' = [S EXCEPT ![r].at = "send_status"]
    BY <2>2
  <2> HIDE DEF S
  <2>6. req' \in [Request -> Handler]
    BY <2>4, <2>5 DEF Handler, Stage
  <2>7. /\ req'[r].at = "send_status" /\ req'[r].order = req[r].order
        /\ \A q \in Request : q # r => SameArgs(req'[q], req[q])
    BY <2>4, <2>5 DEF Handler, SameArgs
  <2>8. ArgsOK'
    BY <2>1, <2>7 DEF Types, ArgsOK, SameArgs, CreateStage, AcceptStage
  <2> QED
    BY <1>11, <2>3, <2>6, <2>8 DEF Types, TypeOK, SendOtp
<1>12. ASSUME NEW r \in Request, SendStatus(r) PROVE Types'
  <2>1. req' \in [Request -> Handler] /\ ArgsOK'
    BY <1>12, FinishTypes DEF SendStatus
  <2>2. [orders[req[r].order] EXCEPT !.status = "OtpPending"] \in OrderRow
    BY <1>12, RowTypes DEF Types, TypeOK, ArgsOK, SendStatus
  <2>3. orders' \in [Order -> OrderRow]
    BY <1>12, <2>2 DEF Types, TypeOK, SendStatus
  <2>4. sent' \in [Order -> SUBSET OtpType]
    BY <1>12 DEF Types, TypeOK, Handler, SendStatus
  <2> QED
    BY <1>12, <2>1, <2>3, <2>4 DEF Types, TypeOK, SendStatus
<1>13. ASSUME NEW o \in Order, NEW t \in OtpType, Expire(o, t) PROVE Types'
  <2>1. otps' \in [Order -> [OtpType -> OtpRow]]
    <3>1. [otps[o][t] EXCEPT !.expired = TRUE] \in OtpRow
      <4>1. otps[o][t] \in OtpRow
        BY DEF Types, TypeOK
      <4> QED
        BY <4>1, RowTypes, Zenon
    <3> QED
      BY <1>13, <3>1 DEF Types, TypeOK, Expire
  <2>2. ArgsOK'
    BY <1>13 DEF Types, ArgsOK, Expire
  <2> QED
    BY <1>13, <2>1, <2>2 DEF Types, TypeOK, Expire
<1>14. ASSUME NEW r \in Request, VerifyMismatch(r) PROVE Types'
  <2>1. req' \in [Request -> Handler] /\ ArgsOK'
    BY <1>14, FinishTypes DEF VerifyMismatch
  <2>2. otps' \in [Order -> [OtpType -> OtpRow]]
    <3> DEFINE otp == otps[req[r].order][req[r].type]
    <3>1. req[r].order \in Order /\ req[r].type \in OtpType
      BY <1>14 DEF Types, TypeOK, ArgsOK, Handler, VerifyMismatch
    <3>2. [otp EXCEPT !.attempts = otp.attempts + 1] \in OtpRow
      <4>1. otps[req[r].order][req[r].type] \in OtpRow
        BY <3>1 DEF Types, TypeOK
      <4> QED
        BY <4>1, RowTypes, Zenon
    <3> QED
      BY <1>14, <3>1, <3>2 DEF Types, TypeOK, VerifyMismatch
  <2> QED
    BY <1>14, <2>1, <2>2 DEF Types, TypeOK, VerifyMismatch
<1>15. ASSUME NEW r \in Request, VerifyCommit(r) PROVE Types'
  <2>1. req' \in [Request -> Handler] /\ ArgsOK'
    BY <1>15, FinishTypes DEF VerifyCommit
  <2>2. otps' \in [Order -> [OtpType -> OtpRow]]
    <3>1. req[r].order \in Order /\ req[r].type \in OtpType
      BY <1>15 DEF Types, TypeOK, ArgsOK, Handler, VerifyCommit
    <3>2. [otps[req[r].order][req[r].type] EXCEPT !.verified = TRUE] \in OtpRow
      <4>1. otps[req[r].order][req[r].type] \in OtpRow
        BY <3>1 DEF Types, TypeOK
      <4> QED
        BY <4>1, RowTypes, Zenon
    <3> QED
      BY <1>15, <3>1, <3>2 DEF Types, TypeOK, VerifyCommit
  <2>4. orders' \in [Order -> OrderRow]
    <3>1. req[r].order \in Order /\ req[r].type \in OtpType
      BY <1>15 DEF Types, TypeOK, ArgsOK, Handler, VerifyCommit
    <3>2. Advanced(orders[req[r].order], req[r].type) \in OrderRow
      BY <3>1, RowTypes DEF Types, TypeOK
    <3> QED
      BY <1>15, <3>1, <3>2 DEF Types, TypeOK, VerifyCommit
  <2>5. rewards' \in [Order -> Nat]
    <3>1. req[r].order \in Order
      BY <1>15 DEF Types, ArgsOK, VerifyCommit
    <3>2. rewards[req[r].order] + 1 \in Nat
      BY <3>1 DEF Types, TypeOK
    <3> QED
      BY <1>15, <3>1, <3>2 DEF Types, TypeOK, VerifyCommit
  <2> QED
    BY <1>15, <2>1, <2>2, <2>4, <2>5 DEF Types, TypeOK, VerifyCommit
<1>16. CASE UNCHANGED vars
  BY <1>16 DEF Types, TypeOK, ArgsOK, vars
<1>17. ASSUME NEW r \in Request, AcceptSend(r) PROVE Types'
  <2>1. req' \in [Request -> Handler] /\ ArgsOK'
    BY <1>17, GotoTypes DEF AcceptSend, Stage, CreateStage, AcceptStage
  <2>2. sent' \in [Order -> SUBSET OtpType]
    BY <1>17 DEF Types, TypeOK, AcceptSend, OtpType
  <2> QED
    BY <1>17, <2>1, <2>2 DEF Types, TypeOK, AcceptSend
<1> QED
  BY <1>1, <1>2, <1>3, <1>4, <1>5, <1>6, <1>7, <1>8, <1>9, <1>10, <1>11, <1>12, <1>13,
     <1>14, <1>15, <1>16, <1>17
  DEF Next, Arrive, Step

\* Types hold in every reachable state: every handler keeps its tables' columns
\* and its own arguments what they are declared to be.
THEOREM TypeCorrect == Spec => []TypeOK
<1>1. Types => TypeOK
  BY DEF Types
<1> QED
  BY InitTypes, NextTypes, <1>1, PTL DEF Spec
-----------------------------------------------------------------------------
(* Layers 2 and 3: the tables, and what requests rely on *)

LEMMA InitInv == Init => Inv
<1> SUFFICES ASSUME Init PROVE Inv
  OBVIOUS
<1>1. Types
  BY InitTypes
<1>2. /\ \A o \in Order : orders[o] = NoOrder /\ rewards[o] = 0
      /\ \A o \in Order : otps[o] = [t \in OtpType |-> NoOtp]
      /\ \A v \in Voucher : vouchers[v] = NoVoucher
      /\ \A r \in Request : req[r] = Idle
  BY DEF Init
<1>3. /\ NoOrder.status = "Absent" /\ NoOrder.driver = None /\ NoOrder.voucher = None
      /\ ~NoOrder.started /\ ~NoOrder.completed
      /\ NoOrder.places = [p \in DriverPlace |-> None]
      /\ NoOtp.code = None /\ ~NoOtp.verified /\ NoVoucher.usedBy = None
      /\ Idle.at = "idle"
  BY DEF NoOrder, NoOtp, FreshOtp, NoVoucher, Idle
<1>4. Tables
  <2>1. AbsentIsBlank /\ AppliedByCustomer /\ UnassignedIsUnplaced
    BY <1>2, <1>3 DEF AbsentIsBlank, AppliedByCustomer, UnassignedIsUnplaced
  <2>2. VoucherSingleUse /\ RedeemedByItsOrder /\ NoVoucherLost
    BY <1>2, <1>3 DEF VoucherSingleUse, RedeemedByItsOrder, NoVoucherLost
  <2>3. UntouchedUntilAccepted
    BY <1>2, <1>3 DEF UntouchedUntilAccepted
  <2>4. VerifiedMeansAdvanced
    <3>1. \A o \in Order, t \in OtpType : otps[o][t] = NoOtp
      BY <1>2
    <3> QED
      BY <3>1, <1>3 DEF VerifiedMeansAdvanced, OtpType
  <2>5. PlacesFollowDriver /\ RewardIffCompleted
    BY <1>2, <1>3 DEF PlacesFollowDriver, RewardIffCompleted
  <2> QED
    BY <2>1, <2>2, <2>3, <2>4, <2>5 DEF Tables
<1>5. Requests
  BY <1>2, <1>3
  DEF Requests, CreatesApart, VoucherHeld, OrderExists, CreateStage, AcceptStage, DriverStage
<1>6. Codes
  BY <1>2, <1>3
  DEF Codes, OtpHeldOnce, HoldsOtp, CodeStored, Announced, MatchedCodeIsCurrent
<1> QED
  BY <1>1, <1>4, <1>5, <1>6 DEF Inv

LEMMA TablesStutter == Tables /\ UNCHANGED db => Tables'
<1> SUFFICES ASSUME Tables, UNCHANGED db PROVE Tables'
  OBVIOUS
<1>1. UNCHANGED orders /\ UNCHANGED otps /\ UNCHANGED vouchers /\ UNCHANGED rewards
      /\ UNCHANGED sent
  BY DEF db
<1>2. (AbsentIsBlank /\ AppliedByCustomer /\ UnassignedIsUnplaced)'
  BY <1>1 DEF Tables, AbsentIsBlank, AppliedByCustomer, UnassignedIsUnplaced
<1>3. (VoucherSingleUse /\ RedeemedByItsOrder /\ NoVoucherLost)'
  BY <1>1 DEF Tables, VoucherSingleUse, RedeemedByItsOrder, NoVoucherLost
<1>4. UntouchedUntilAccepted'
  BY <1>1 DEF Tables, UntouchedUntilAccepted
<1>5. (VerifiedMeansAdvanced /\ PlacesFollowDriver /\ RewardIffCompleted)'
  BY <1>1 DEF Tables, VerifiedMeansAdvanced, PlacesFollowDriver, RewardIffCompleted
<1> QED
  BY <1>2, <1>3, <1>4, <1>5 DEF Tables

\* After Finish(r) there is one request less to keep promises to.
LEMMA FinishEffect ==
  ASSUME Types, NEW r \in Request, Finish(r)
  PROVE  /\ req'[r] = Idle /\ req'[r].at = "idle" /\ req'[r].order = None
         /\ \A q \in Request : q # r => req'[q] = req[q]
BY DEF Types, TypeOK, Finish, Idle

\* Ending a request that changed no table keeps the promises to the others.
LEMMA FinishStutter ==
  ASSUME Inv, NEW r \in Request, Finish(r), UNCHANGED db
  PROVE  Tables' /\ Requests'
<1>1. Tables'
  BY TablesStutter DEF Inv
<1>2. /\ req'[r].at = "idle" /\ req'[r].order = None
      /\ \A q \in Request : q # r => req'[q] = req[q]
  BY FinishEffect DEF Inv
<1>3. UNCHANGED <<orders, vouchers, sent>>
  BY DEF db
<1>4. \A q \in Request : req'[q].at # "idle" => q # r /\ req'[q].order \in Order
  BY <1>2 DEF Inv, Types, ArgsOK
<1>5. CreatesApart'
  BY <1>2, <1>3, <1>4, ConstantsAssumption DEF Inv, Requests, CreatesApart, CreateStage
<1>6. VoucherHeld'
  BY <1>2, <1>3 DEF Inv, Requests, VoucherHeld, HoldsVoucher, CreateStage
<1>7. OrderExists'
  BY <1>2, <1>3
  DEF Inv, Requests, OrderExists, AcceptStage, DriverStage
<1> QED
  BY <1>1, <1>5, <1>6, <1>7 DEF Requests
\* A new call changes no table, and checks what it relies on.
LEMMA ArriveInv == ASSUME Inv, NEW r \in Request, Arrive(r) PROVE Tables' /\ Requests'
<1> USE ConstantsAssumption
<1>1. UNCHANGED db /\ req[r] = Idle
  BY DEF Arrive, CreateBegin, AcceptBegin, SendBegin, VerifyBegin, Enter
<1>2. Tables'
  BY <1>1, TablesStutter DEF Inv
<1>3. UNCHANGED orders /\ UNCHANGED vouchers /\ UNCHANGED sent
  BY <1>1 DEF db
<1> DEFINE Checked(h) ==
      \/ /\ h.at \in {"create_validate", "create_insert"}
         /\ h.at = "create_insert" => h.voucher = None
         /\ h.order \in Order
         /\ orders[h.order].status = "Absent"
         /\ \A q \in Request : req[q].order # h.order
      \/ /\ h.at = "accept_order"
         /\ h.order \in Order
         /\ orders[h.order].status = "New"
      \/ /\ h.at \in {"send_otp", "verify_check"}
         /\ h.order \in Order
         /\ orders[h.order].driver # None
<1>4. PICK h : req' = [req EXCEPT ![r] = h] /\ Checked(h)
  <2>1. ASSUME NEW c \in Customer, NEW o \in Order, NEW v \in Voucher \cup {None},
               CreateBegin(r, c, o, v)
        PROVE  \E h : req' = [req EXCEPT ![r] = h] /\ Checked(h)
    <3> DEFINE h == [Idle EXCEPT !.at = IF v = None THEN "create_insert" ELSE "create_validate",
                                 !.order = o, !.who = c, !.voucher = v]
    <3>1. /\ h.at = (IF v = None THEN "create_insert" ELSE "create_validate")
          /\ h.order = o /\ h.voucher = v
      BY DEF Idle
    <3>2. req' = [req EXCEPT ![r] = h]
      BY <2>1 DEF CreateBegin, Enter
    <3> HIDE DEF h
    <3> QED
      BY <2>1, <3>1, <3>2 DEF CreateBegin
  <2>2. ASSUME NEW d \in Driver, NEW o \in Order, AcceptBegin(r, d, o)
        PROVE  \E h : req' = [req EXCEPT ![r] = h] /\ Checked(h)
    <3>0. PICK P \in PlacesOf[d] :
            Enter(r, [Idle EXCEPT !.at = "accept_order", !.order = o, !.who = d, !.places = P])
      BY <2>2 DEF AcceptBegin
    <3> DEFINE h == [Idle EXCEPT !.at = "accept_order", !.order = o, !.who = d, !.places = P]
    <3>1. h.at = "accept_order" /\ h.order = o
      BY DEF Idle
    <3>2. req' = [req EXCEPT ![r] = h]
      BY <3>0 DEF Enter
    <3> HIDE DEF h
    <3> QED
      BY <2>2, <3>1, <3>2 DEF AcceptBegin
  <2>3. ASSUME NEW d \in Driver, NEW o \in Order, NEW t \in OtpType, SendBegin(r, d, o, t)
        PROVE  \E h : req' = [req EXCEPT ![r] = h] /\ Checked(h)
    <3> DEFINE h == [Idle EXCEPT !.at = "send_otp", !.order = o, !.type = t]
    <3>1. h.at = "send_otp" /\ h.order = o
      BY DEF Idle
    <3>2. req' = [req EXCEPT ![r] = h]
      BY <2>3 DEF SendBegin, Enter
    <3> HIDE DEF h
    <3> QED
      BY <2>3, <3>1, <3>2 DEF SendBegin, Assigned
  <2>4. ASSUME NEW d \in Driver, NEW o \in Order, NEW t \in OtpType, NEW c \in Code,
               VerifyBegin(r, d, o, t, c)
        PROVE  \E h : req' = [req EXCEPT ![r] = h] /\ Checked(h)
    <3> DEFINE h == [Idle EXCEPT !.at = "verify_check", !.order = o, !.type = t,
                                 !.code = c]
    <3>1. h.at = "verify_check" /\ h.order = o
      BY DEF Idle
    <3>2. req' = [req EXCEPT ![r] = h]
      BY <2>4 DEF VerifyBegin, Enter
    <3> HIDE DEF h
    <3> QED
      BY <2>4, <3>1, <3>2 DEF VerifyBegin, Assigned
  <2> QED
    BY <2>1, <2>2, <2>3, <2>4 DEF Arrive
<1>5. req'[r] = h /\ \A q \in Request : q # r => req'[q] = req[q]
  BY <1>4 DEF Inv, Types, TypeOK
<1>6. \A q \in Request : req[q].at \in CreateStage => orders[req[q].order].status = "Absent"
  BY DEF Inv, Requests, CreatesApart
<1>7. \A o \in Order : orders[o].driver # None => orders[o].status # "Absent"
  BY DEF Inv, Tables, UntouchedUntilAccepted
<1>8. CreatesApart'
  BY <1>3, <1>4, <1>5, <1>6, <1>7 DEF Inv, Requests, CreatesApart, CreateStage
<1>9. VoucherHeld'
  BY <1>3, <1>4, <1>5 DEF Inv, Requests, VoucherHeld, HoldsVoucher, CreateStage
<1>10. OrderExists'
  BY <1>3, <1>4, <1>5
  DEF Inv, Requests, OrderExists, AcceptStage, DriverStage
<1> QED
  BY <1>2, <1>8, <1>9, <1>10 DEF Requests

\* A statement that only moves its handler on: what the next stage relies on is
\* what the statement just found.
LEMMA GotoInv ==
  ASSUME Inv, NEW r \in Request,
         \/ CreateValidate(r) \/ RedeemValidate(r) \/ CreateRedeem(r)
         \/ AcceptOrder(r) \/ AcceptOtp(r) \/ VerifyCheck(r) \/ VerifyOtp(r) \/ VerifyOrder(r)
  PROVE  Tables' /\ Requests'
<1> USE ConstantsAssumption
<1>1. UNCHANGED db
  BY DEF CreateValidate, RedeemValidate, CreateRedeem, AcceptOrder, AcceptOtp, VerifyCheck,
         VerifyOtp, VerifyOrder
<1>2. Tables'
  BY <1>1, TablesStutter DEF Inv
<1>3. UNCHANGED orders /\ UNCHANGED vouchers /\ UNCHANGED sent
  BY <1>1 DEF db
<1>4. /\ \A q \in Request : q # r => req'[q] = req[q]
      /\ req'[r].order = req[r].order
      /\ req'[r].who = req[r].who
      /\ req'[r].type = req[r].type
      /\ req'[r].voucher = req[r].voucher
  BY DEF Inv, Types, TypeOK, Handler, Goto, CreateValidate, RedeemValidate, CreateRedeem,
         AcceptOrder, AcceptOtp, VerifyCheck, VerifyOtp, VerifyOrder
<1>5. \/ /\ req[r].at \in {"create_validate", "create_recheck"}
         /\ req'[r].at \in {"create_recheck", "create_redeem"}
         /\ Usable(req[r].voucher, req[r].who)
      \/ /\ req[r].at = "create_redeem" /\ req'[r].at = "create_insert"
         /\ VoucherFree(req[r].voucher)
         /\ Unredeemed(req[r].voucher)
      \/ /\ req[r].at \in AcceptStage
         /\ req'[r].at \in AcceptStage
      \/ /\ req[r].at = "verify_check"
         /\ req'[r].at = "verify_mismatch"
      \/ /\ req[r].at = "verify_check"
         /\ req'[r].at = "verify_otp"
         /\ Pending(otps[req[r].order][req[r].type])
         /\ otps[req[r].order][req[r].type].code = req[r].code
      \/ /\ req[r].at \in {"verify_otp", "verify_order"}
         /\ req'[r].at \in {"verify_order", "verify_commit"}
  BY DEF Inv, Types, TypeOK, Handler, Goto, CreateValidate, RedeemValidate, CreateRedeem,
         AcceptOrder, AcceptOtp, VerifyCheck, VerifyOtp, VerifyOrder, AcceptStage
<1>6. CreatesApart'
  BY <1>3, <1>4, <1>5 DEF Inv, Requests, CreatesApart, CreateStage, AcceptStage
<1>7. VoucherHeld'
  BY <1>3, <1>4, <1>5
  DEF Inv, Requests, VoucherHeld, HoldsVoucher, VoucherFree, Usable, Unredeemed,
      CreateStage, AcceptStage
<1>8. OrderExists'
  BY <1>3, <1>4, <1>5 DEF Inv, Requests, OrderExists, AcceptStage, DriverStage
<1> QED
  BY <1>2, <1>6, <1>7, <1>8 DEF Requests

\* The code of an accept goes out: no table is written.
LEMMA AcceptSendInv ==
  ASSUME Inv, NEW r \in Request, AcceptSend(r)
  PROVE  Tables' /\ Requests'
<1>1. /\ UNCHANGED orders /\ UNCHANGED otps /\ UNCHANGED vouchers /\ UNCHANGED rewards
      /\ \A o \in Order : sent[o] \subseteq sent'[o]
  BY DEF AcceptSend, Inv, Types, TypeOK
<1>2. /\ req[r].at = "accept_send" /\ req'[r].at = "accept_commit"
      /\ req'[r].order = req[r].order /\ req'[r].voucher = req[r].voucher
      /\ \A q \in Request : q # r => req'[q] = req[q]
  BY DEF AcceptSend, Goto, Inv, Types, TypeOK, Handler
<1>3. (AbsentIsBlank /\ AppliedByCustomer /\ UnassignedIsUnplaced)'
  BY <1>1 DEF Inv, Tables, AbsentIsBlank, AppliedByCustomer, UnassignedIsUnplaced
<1>4. (VoucherSingleUse /\ RedeemedByItsOrder /\ NoVoucherLost)'
  BY <1>1 DEF Inv, Tables, VoucherSingleUse, RedeemedByItsOrder, NoVoucherLost
<1>5. UntouchedUntilAccepted'
  BY <1>1 DEF Inv, Tables, UntouchedUntilAccepted
<1>6. (VerifiedMeansAdvanced /\ PlacesFollowDriver /\ RewardIffCompleted)'
  BY <1>1 DEF Inv, Tables, VerifiedMeansAdvanced, PlacesFollowDriver, RewardIffCompleted
<1>7. CreatesApart'
  BY <1>1, <1>2 DEF Inv, Requests, CreatesApart, CreateStage
<1>8. VoucherHeld'
  BY <1>1, <1>2 DEF Inv, Requests, VoucherHeld, HoldsVoucher, CreateStage
<1>9. OrderExists'
  BY <1>1, <1>2 DEF Inv, Requests, OrderExists, AcceptStage, DriverStage
<1> QED
  BY <1>3, <1>4, <1>5, <1>6, <1>7, <1>8, <1>9 DEF Tables, Requests

LEMMA CreateInsertInv == ASSUME Inv, NEW r \in Request, CreateInsert(r) PROVE Tables' /\ Requests'
<1> USE ConstantsAssumption
<1> DEFINE o0 == req[r].order
           v0 == req[r].voucher
           c0 == req[r].who
<1>1. /\ o0 \in Order /\ c0 \in Customer /\ v0 \in Voucher \cup {None}
      /\ req[r].at = "create_insert"
      /\ UNCHANGED otps /\ UNCHANGED rewards /\ UNCHANGED sent
  BY DEF Inv, Types, TypeOK, Handler, ArgsOK, CreateInsert, CreateStage
<1>2. /\ orders[o0].status = "Absent" /\ orders[o0] = NoOrder
      /\ \A q \in Request : req[q].order = o0 => q = r
  BY <1>1 DEF Inv, Requests, CreatesApart, Tables, AbsentIsBlank, CreateStage
<1>3. /\ orders'[o0].status = "New" /\ orders'[o0].customer = c0
      /\ orders'[o0].voucher = v0 /\ orders'[o0].driver = None
      /\ orders'[o0].places = [p \in DriverPlace |-> None]
      /\ ~orders'[o0].started /\ ~orders'[o0].completed
      /\ \A o \in Order : o # o0 => orders'[o] = orders[o]
  <2>1. orders' = [orders EXCEPT ![o0] = [NoOrder EXCEPT !.status = "New", !.customer = c0,
                                                         !.voucher = v0]]
    BY DEF CreateInsert
  <2> DEFINE row == [NoOrder EXCEPT !.status = "New", !.customer = c0, !.voucher = v0]
  <2>2. /\ row.status = "New" /\ row.customer = c0 /\ row.voucher = v0 /\ row.driver = None
        /\ row.places = [p \in DriverPlace |-> None]
        /\ ~row.started /\ ~row.completed
    BY DEF NoOrder
  <2>3. orders'[o0] = row /\ \A o \in Order : o # o0 => orders'[o] = orders[o]
    BY <1>1, <2>1 DEF Inv, Types, TypeOK
  <2> HIDE DEF row
  <2> QED
    BY <2>2, <2>3
<1>4. /\ \A v \in Voucher : vouchers'[v].owner = vouchers[v].owner
      /\ \A v \in Voucher : v # v0 => vouchers'[v].usedBy = vouchers[v].usedBy
      /\ v0 # None => vouchers'[v0].usedBy = c0
  BY <1>1 DEF CreateInsert, Inv, Types, TypeOK, VoucherRow
<1>5. v0 # None =>
        /\ vouchers[v0].owner \notin {None, c0}
        /\ vouchers[v0].usedBy = None
        /\ \A q \in Request : HoldsVoucher(q, v0) => q = r
  BY <1>1 DEF Inv, Requests, VoucherHeld, CreateStage
<1>6. \A o \in Order : orders[o].voucher \in Voucher \cup {None}
  BY DEF Inv, Types, TypeOK, OrderRow
<1>7. \A o \in Order : orders[o].voucher # None => orders[o].voucher # v0
  BY <1>5, <1>6 DEF Inv, Tables, RedeemedByItsOrder, AppliedByCustomer
<1>8. orders[o0].voucher = None /\ ~orders[o0].started /\ ~orders[o0].completed
  BY <1>2 DEF NoOrder
<1>9. /\ req'[r].at = "idle"
      /\ \A q \in Request : q # r => req'[q] = req[q]
  BY FinishEffect DEF Inv, CreateInsert
<1> HIDE DEF o0, v0, c0
<1>10. (AbsentIsBlank /\ AppliedByCustomer /\ UnassignedIsUnplaced)'
  BY <1>1, <1>3 DEF Inv, Tables, AbsentIsBlank, AppliedByCustomer, UnassignedIsUnplaced
<1>11. VoucherSingleUse'
  BY <1>1, <1>3, <1>7 DEF Inv, Tables, VoucherSingleUse
<1>12. RedeemedByItsOrder'
  BY <1>1, <1>3, <1>4, <1>5, <1>6, <1>7 DEF Inv, Tables, RedeemedByItsOrder
<1>13. NoVoucherLost'
  <2> SUFFICES ASSUME NEW v \in Voucher, vouchers'[v].usedBy # None
               PROVE  \E o \in Order : orders'[o].voucher = v
    BY DEF NoVoucherLost
  <2>1. CASE v = v0
    BY <2>1, <1>1, <1>3
  <2>2. CASE v # v0
    <3>1. PICK o \in Order : orders[o].voucher = v
      BY <2>2, <1>4 DEF Inv, Tables, NoVoucherLost
    <3>2. o # o0
      BY <3>1, <1>8
    <3> QED
      BY <3>1, <3>2, <1>3
  <2> QED
    BY <2>1, <2>2
<1>14. UntouchedUntilAccepted'
  BY <1>1, <1>2, <1>3 DEF Inv, Tables, UntouchedUntilAccepted
<1>15. VerifiedMeansAdvanced'
  BY <1>1, <1>3, <1>8 DEF Inv, Tables, VerifiedMeansAdvanced
<1>16. PlacesFollowDriver'
  BY <1>1, <1>3 DEF Inv, Tables, PlacesFollowDriver
<1>17. RewardIffCompleted'
  BY <1>1, <1>3, <1>8 DEF Inv, Tables, RewardIffCompleted
<1>18. \A q \in Request : req'[q].at # "idle" => q # r /\ req[q].order \in Order \ {o0}
  BY <1>2, <1>9 DEF Inv, Types, ArgsOK, o0
<1>19. CreatesApart'
  <2> SUFFICES ASSUME NEW q \in Request, req'[q].at \in CreateStage
               PROVE  /\ orders'[req'[q].order].status = "Absent"
                      /\ \A p \in Request : req'[p].order = req'[q].order => p = q
    BY DEF CreatesApart
  <2>1. q # r /\ req'[q] = req[q] /\ req[q].order \in Order \ {o0}
    BY <1>9, <1>18 DEF CreateStage
  <2>2. req'[r].order = None
    BY FinishEffect DEF Inv, CreateInsert
  <2> QED
    BY <2>1, <2>2, <1>3, <1>9 DEF Inv, Requests, CreatesApart
<1>20. VoucherHeld'
  <2> SUFFICES ASSUME NEW q \in Request,
                      req'[q].at \in CreateStage \ {"create_validate"}, req'[q].voucher # None
               PROVE  /\ vouchers'[req'[q].voucher].owner \notin {None, req'[q].who}
                      /\ req'[q].at = "create_insert" =>
                           /\ vouchers'[req'[q].voucher].usedBy = None
                           /\ \A p \in Request :
                                req'[p].voucher = req'[q].voucher /\ req'[p].at = "create_insert"
                                  => p = q
    BY DEF VoucherHeld, HoldsVoucher
  <2>1. q # r /\ req'[q] = req[q]
    BY <1>9 DEF CreateStage
  <2>2. req[q].voucher \in Voucher
    BY <2>1 DEF Inv, Types, TypeOK, Handler
  <2>3. req[q].at = "create_insert" => req[q].voucher # v0
    BY <2>1, <1>5 DEF HoldsVoucher
  <2>4. \A p \in Request :
          req'[p].voucher = req'[q].voucher /\ req'[p].at = "create_insert"
            => HoldsVoucher(p, req[q].voucher)
    BY <1>9, <2>1 DEF HoldsVoucher
  <2> QED
    BY <2>1, <2>2, <2>3, <2>4, <1>4 DEF Inv, Requests, VoucherHeld
<1>21. OrderExists'
  BY <1>1, <1>3, <1>9, <1>18
  DEF Inv, Requests, OrderExists, AcceptStage, DriverStage
<1> QED
  BY <1>10, <1>11, <1>12, <1>13, <1>14, <1>15, <1>16, <1>17, <1>19, <1>20, <1>21
  DEF Tables, Requests

LEMMA GenerateVoucherInv ==
  ASSUME Inv, NEW v \in Voucher, NEW c \in Customer, GenerateVoucher(v, c)
  PROVE  Tables' /\ Requests'
<1> USE ConstantsAssumption
<1>1. /\ UNCHANGED orders /\ UNCHANGED otps /\ UNCHANGED rewards /\ UNCHANGED sent
      /\ UNCHANGED req
      /\ vouchers[v].owner = None
  BY DEF GenerateVoucher
<1>2. /\ \A w \in Voucher : vouchers'[w].usedBy = vouchers[w].usedBy
      /\ \A w \in Voucher : w # v => vouchers'[w] = vouchers[w]
  BY DEF GenerateVoucher, Inv, Types, TypeOK, VoucherRow
<1>3. \A o \in Order : orders[o].voucher \in Voucher \cup {None}
  BY DEF Inv, Types, TypeOK, OrderRow
<1>4. (AbsentIsBlank /\ AppliedByCustomer /\ UnassignedIsUnplaced)'
  BY <1>1 DEF Inv, Tables, AbsentIsBlank, AppliedByCustomer, UnassignedIsUnplaced
<1>5. (VoucherSingleUse /\ RedeemedByItsOrder /\ NoVoucherLost)'
  BY <1>1, <1>2, <1>3 DEF Inv, Tables, VoucherSingleUse, RedeemedByItsOrder, NoVoucherLost
<1>6. UntouchedUntilAccepted'
  BY <1>1 DEF Inv, Tables, UntouchedUntilAccepted
<1>7. (VerifiedMeansAdvanced /\ PlacesFollowDriver /\ RewardIffCompleted)'
  BY <1>1 DEF Inv, Tables, VerifiedMeansAdvanced, PlacesFollowDriver, RewardIffCompleted
<1>8. (CreatesApart /\ OrderExists)'
  BY <1>1 DEF Inv, Requests, CreatesApart, OrderExists
<1>9. VoucherHeld'
  <2>1. \A q \in Request : req[q].voucher \in Voucher \cup {None}
    BY DEF Inv, Types, TypeOK, Handler
  <2> QED
    BY <1>1, <1>2, <2>1 DEF Inv, Requests, VoucherHeld, HoldsVoucher
<1> QED
  BY <1>4, <1>5, <1>6, <1>7, <1>8, <1>9 DEF Tables, Requests
\* A handler of a driver ends: no order appears or loses its driver, so the other
\* requests find what they rely on.
LEMMA EndKeeps ==
  ASSUME Inv, NEW r \in Request, UNCHANGED vouchers,
         req'[r].at = "idle", req'[r].order = None,
         \A q \in Request : q # r => SameArgs(req'[q], req[q]),
         \A o \in Order : orders'[o].status = "Absent" <=> orders[o].status = "Absent",
         \A o \in Order : orders[o].driver # None => orders'[o].driver # None
  PROVE  Requests'
<1>1. \A q \in Request : q # r =>
        /\ req'[q].at = req[q].at /\ req'[q].order = req[q].order
        /\ req'[q].who = req[q].who /\ req'[q].voucher = req[q].voucher
  BY DEF SameArgs
<1>2. \A q \in Request : req'[q].at # "idle" => q # r /\ req[q].order \in Order
  BY <1>1 DEF Inv, Types, ArgsOK
<1>3. CreatesApart'
  BY <1>1, <1>2, ConstantsAssumption DEF Inv, Requests, CreatesApart, CreateStage
<1>4. VoucherHeld'
  BY <1>1 DEF Inv, Requests, VoucherHeld, HoldsVoucher, CreateStage
<1>5. OrderExists'
  BY <1>1, <1>2 DEF Inv, Requests, OrderExists, AcceptStage, DriverStage
<1> QED
  BY <1>3, <1>4, <1>5 DEF Requests

LEMMA FinishKeeps ==
  ASSUME Inv, NEW r \in Request, Finish(r), UNCHANGED vouchers,
         \A o \in Order : orders'[o].status = "Absent" <=> orders[o].status = "Absent",
         \A o \in Order : orders[o].driver # None => orders'[o].driver # None
  PROVE  Requests'
<1>1. /\ req'[r].at = "idle" /\ req'[r].order = None
      /\ \A q \in Request : q # r => req'[q] = req[q]
  BY FinishEffect DEF Inv
<1>2. \A q \in Request : q # r => SameArgs(req'[q], req[q])
  BY <1>1 DEF SameArgs
<1> QED
  BY <1>1, <1>2, EndKeeps

LEMMA AcceptCommitInv == ASSUME Inv, NEW r \in Request, AcceptCommit(r) PROVE Tables' /\ Requests'
<1> USE ConstantsAssumption
<1> DEFINE o0 == req[r].order
           d0 == req[r].who
           k0 == req[r].code
           P0 == req[r].places
<1>1. /\ o0 \in Order /\ d0 \in Driver /\ k0 \in Code /\ P0 \in PlacesOf[d0]
      /\ UNCHANGED vouchers /\ UNCHANGED rewards /\ UNCHANGED sent
  BY DEF Inv, Types, ArgsOK, AcceptCommit, AcceptStage
<1>2. orders[o0].status # "Absent" /\ "START" \in sent[o0]
  BY DEF Inv, Requests, OrderExists, Codes, Announced, AcceptCommit, AcceptStage
<1>3. /\ orders'[o0].status = "OtpPending"
      /\ orders'[o0].driver = d0
      /\ orders'[o0].places = Replaced(orders[o0].places, d0, P0)
      /\ orders'[o0].voucher = orders[o0].voucher
      /\ orders'[o0].customer = orders[o0].customer
      /\ orders'[o0].started = orders[o0].started
      /\ orders'[o0].completed = orders[o0].completed
      /\ \A o \in Order : o # o0 => orders'[o] = orders[o]
  BY <1>1 DEF AcceptCommit, Inv, Types, TypeOK, OrderRow
<1>4. /\ otps'[o0]["START"] = FreshOtp(k0)
      /\ otps'[o0]["COMPLETE"] = otps[o0]["COMPLETE"]
      /\ \A o \in Order : o # o0 => otps'[o] = otps[o]
  BY <1>1 DEF AcceptCommit, Inv, Types, TypeOK, OtpType
<1>5. FreshOtp(k0).code = k0 /\ ~FreshOtp(k0).verified
  BY DEF FreshOtp
<1> HIDE DEF o0, d0, k0, P0
<1>6. (AbsentIsBlank /\ AppliedByCustomer)'
  BY <1>1, <1>3 DEF Inv, Tables, AbsentIsBlank, AppliedByCustomer
<1>7. UnassignedIsUnplaced'
  BY <1>1, <1>3 DEF Inv, Tables, UnassignedIsUnplaced
<1>8. (VoucherSingleUse /\ RedeemedByItsOrder)'
  BY <1>1, <1>3 DEF Inv, Tables, VoucherSingleUse, RedeemedByItsOrder
<1>9. NoVoucherLost'
  BY <1>1, <1>3 DEF Inv, Tables, NoVoucherLost
<1>10. UntouchedUntilAccepted'
  BY <1>1, <1>2, <1>3, <1>4, <1>5 DEF Inv, Tables, UntouchedUntilAccepted
<1>11. VerifiedMeansAdvanced'
  BY <1>1, <1>3, <1>4, <1>5 DEF Inv, Tables, VerifiedMeansAdvanced
<1>12. PlacesFollowDriver'
  <2>1. \E e \in Driver : \E P \in PlacesOf[e] :
          /\ orders'[o0].places = PlacedBy(e, P)
          /\ e = d0 \/ {} \in PlacesOf[d0]
    <3>1. CASE P0 # {}
      <4>1. orders'[o0].places = PlacedBy(d0, P0)
        BY <1>3, <3>1 DEF Replaced
      <4> QED
        BY <1>1, <4>1
    <3>2. CASE P0 = {} /\ orders[o0].driver = None
      <4>1. orders'[o0].places = PlacedBy(d0, {})
        BY <1>1, <1>3, <3>2 DEF Replaced, PlacedBy, Inv, Tables, UnassignedIsUnplaced
      <4> QED
        BY <1>1, <3>2, <4>1
    <3>3. CASE P0 = {} /\ orders[o0].driver # None
      <4>1. orders'[o0].places = orders[o0].places
        BY <1>3, <3>3 DEF Replaced
      <4>2. \E e \in Driver : \E P \in PlacesOf[e] : orders[o0].places = PlacedBy(e, P)
        BY <1>1, <3>3 DEF Inv, Tables, PlacesFollowDriver
      <4> QED
        BY <1>1, <3>3, <4>1, <4>2
    <3> QED
      BY <3>1, <3>2, <3>3
  <2> SUFFICES ASSUME NEW o \in Order, orders'[o].driver # None
               PROVE  \E e \in Driver : \E P \in PlacesOf[e] :
                        /\ orders'[o].places = PlacedBy(e, P)
                        /\ e = orders'[o].driver \/ {} \in PlacesOf[orders'[o].driver]
    BY DEF PlacesFollowDriver
  <2>2. CASE o = o0
    BY <1>3, <2>1, <2>2
  <2>3. CASE o # o0
    BY <1>3, <2>3 DEF Inv, Tables, PlacesFollowDriver
  <2> QED
    BY <2>2, <2>3
<1>13. RewardIffCompleted'
  BY <1>1, <1>3 DEF Inv, Tables, RewardIffCompleted
<1>14. Requests'
  <2>1. \A o \in Order : orders'[o].status = "Absent" <=> orders[o].status = "Absent"
    BY <1>2, <1>3 DEF o0
  <2>2. \A o \in Order : orders[o].driver # None => orders'[o].driver # None
    BY <1>1, <1>3
  <2>3. /\ req'[r].at = "idle" /\ req'[r].order = None
        /\ \A q \in Request : q # r => SameArgs(req'[q], req[q])
    <3> DEFINE S == Superseding(req[r].order, "START", req[r].code)
    <3>1. /\ S \in [Request -> Handler]
          /\ \A q \in Request : SameArgs(S[q], req[q])
      BY SupersedingEffect DEF Inv
    <3>2. req' = [S EXCEPT ![r] = Idle]
      BY DEF AcceptCommit
    <3> HIDE DEF S
    <3>3. Idle.at = "idle" /\ Idle.order = None
      BY DEF Idle
    <3> QED
      BY <3>1, <3>2, <3>3
  <2> QED
    BY <1>1, <2>1, <2>2, <2>3, EndKeeps
<1> QED
  BY <1>6, <1>7, <1>8, <1>9, <1>10, <1>11, <1>12, <1>13, <1>14 DEF Tables

\* The steps of send-otp and verify-otp leave the vouchers, and what an order
\* says of them and of its driver, alone.
LEMMA OrderColumnsKept ==
  ASSUME Inv, UNCHANGED vouchers,
         \A o \in Order : /\ orders'[o].voucher = orders[o].voucher
                          /\ orders'[o].customer = orders[o].customer
                          /\ orders'[o].driver = orders[o].driver
                          /\ orders'[o].places = orders[o].places
  PROVE  /\ AppliedByCustomer' /\ VoucherSingleUse' /\ RedeemedByItsOrder'
         /\ NoVoucherLost' /\ PlacesFollowDriver' /\ UnassignedIsUnplaced'
<1>1. (AppliedByCustomer /\ VoucherSingleUse /\ RedeemedByItsOrder)'
  BY DEF Inv, Tables, AppliedByCustomer, VoucherSingleUse, RedeemedByItsOrder
<1>2. NoVoucherLost'
  BY DEF Inv, Tables, NoVoucherLost
<1>3. PlacesFollowDriver'
  BY DEF Inv, Tables, PlacesFollowDriver
<1>4. UnassignedIsUnplaced'
  BY DEF Inv, Tables, UnassignedIsUnplaced
<1> QED
  BY <1>1, <1>2, <1>3, <1>4

LEMMA SendOtpInv == ASSUME Inv, NEW r \in Request, SendOtp(r) PROVE Tables' /\ Requests'
<1> USE ConstantsAssumption
<1> DEFINE o0 == req[r].order
           t0 == req[r].type
<1>1. /\ o0 \in Order /\ t0 \in OtpType /\ req[r].at = "send_otp"
      /\ UNCHANGED orders /\ UNCHANGED vouchers /\ UNCHANGED rewards /\ UNCHANGED sent
  BY DEF Inv, Types, TypeOK, Handler, ArgsOK, SendOtp
<1>2. orders[o0].driver # None
  BY <1>1 DEF Inv, Requests, OrderExists, DriverStage
<1>3. PICK c \in Code :
        /\ otps' = [otps EXCEPT ![o0][t0] = FreshOtp(c)]
        /\ req' = [Superseding(o0, t0, c) EXCEPT ![r].at = "send_status"]
  BY DEF SendOtp
<1>4. /\ otps'[o0][t0] = FreshOtp(c)
      /\ \A t \in OtpType : t # t0 => otps'[o0][t] = otps[o0][t]
      /\ \A o \in Order : o # o0 => otps'[o] = otps[o]
  BY <1>1, <1>3 DEF Inv, Types, TypeOK
<1>5. FreshOtp(c).code = c /\ ~FreshOtp(c).verified
  BY DEF FreshOtp
<1>6. /\ req'[r].at = "send_status" /\ req'[r].order = o0
      /\ \A q \in Request : q # r =>
           /\ req'[q].at = req[q].at /\ req'[q].order = req[q].order
           /\ req'[q].who = req[q].who /\ req'[q].voucher = req[q].voucher
  <2> DEFINE S == Superseding(o0, t0, c)
  <2>1. S \in [Request -> Handler] /\ \A q \in Request : SameArgs(S[q], req[q])
    BY SupersedingEffect DEF Inv
  <2>2. req' = [S EXCEPT ![r].at = "send_status"]
    BY <1>3
  <2> HIDE DEF S
  <2> QED
    BY <2>1, <2>2 DEF Handler, SameArgs
<1> HIDE DEF o0, t0
<1>7. AbsentIsBlank'
  BY <1>1 DEF Inv, Tables, AbsentIsBlank
<1>8. /\ AppliedByCustomer' /\ VoucherSingleUse' /\ RedeemedByItsOrder'
      /\ NoVoucherLost' /\ PlacesFollowDriver' /\ UnassignedIsUnplaced'
  BY <1>1, OrderColumnsKept
<1>9. UntouchedUntilAccepted'
  BY <1>1, <1>2, <1>4, <1>5 DEF Inv, Tables, UntouchedUntilAccepted, OtpType
<1>10. VerifiedMeansAdvanced'
  BY <1>1, <1>4, <1>5 DEF Inv, Tables, VerifiedMeansAdvanced, OtpType
<1>11. RewardIffCompleted'
  BY <1>1 DEF Inv, Tables, RewardIffCompleted
<1>12. CreatesApart'
  BY <1>1, <1>6 DEF Inv, Requests, CreatesApart, CreateStage, o0
<1>13. VoucherHeld'
  BY <1>1, <1>6 DEF Inv, Requests, VoucherHeld, HoldsVoucher, CreateStage
<1>14. OrderExists'
  BY <1>1, <1>2, <1>6 DEF Inv, Requests, OrderExists, AcceptStage, DriverStage
<1> QED
  BY <1>7, <1>8, <1>9, <1>10, <1>11, <1>12, <1>13, <1>14 DEF Tables, Requests

LEMMA SendStatusInv == ASSUME Inv, NEW r \in Request, SendStatus(r) PROVE Tables' /\ Requests'
<1> USE ConstantsAssumption
<1> DEFINE o0 == req[r].order
<1>1. /\ o0 \in Order /\ req[r].at = "send_status"
      /\ UNCHANGED otps /\ UNCHANGED vouchers /\ UNCHANGED rewards
      /\ \A o \in Order : sent[o] \subseteq sent'[o]
  BY DEF Inv, Types, TypeOK, ArgsOK, SendStatus
<1>2. orders[o0].driver # None
  BY <1>1 DEF Inv, Requests, OrderExists, DriverStage
<1>3. /\ orders'[o0].status = "OtpPending"
      /\ \A o \in Order : /\ o # o0 => orders'[o] = orders[o]
                          /\ orders'[o].voucher = orders[o].voucher
                          /\ orders'[o].customer = orders[o].customer
                          /\ orders'[o].driver = orders[o].driver
                          /\ orders'[o].places = orders[o].places
                          /\ orders'[o].started = orders[o].started
                          /\ orders'[o].completed = orders[o].completed
  BY <1>1 DEF SendStatus, Inv, Types, TypeOK, OrderRow
<1> HIDE DEF o0
<1>4. AbsentIsBlank'
  BY <1>1, <1>3 DEF Inv, Tables, AbsentIsBlank
<1>5. /\ AppliedByCustomer' /\ VoucherSingleUse' /\ RedeemedByItsOrder'
      /\ NoVoucherLost' /\ PlacesFollowDriver' /\ UnassignedIsUnplaced'
  BY <1>1, <1>3, OrderColumnsKept
<1>6. UntouchedUntilAccepted'
  BY <1>1, <1>2, <1>3 DEF Inv, Tables, UntouchedUntilAccepted
<1>7. (VerifiedMeansAdvanced /\ RewardIffCompleted)'
  BY <1>1, <1>3 DEF Inv, Tables, VerifiedMeansAdvanced, RewardIffCompleted
<1>8. \A o \in Order : orders'[o].status = "Absent" <=> orders[o].status = "Absent"
  BY <1>1, <1>2, <1>3 DEF Inv, Tables, UntouchedUntilAccepted
<1>9. Requests'
  BY <1>1, <1>3, <1>8, FinishKeeps DEF SendStatus
<1> QED
  BY <1>4, <1>5, <1>6, <1>7, <1>9 DEF Tables

\* Verified OTPs and codes are all the tables say about an OTP row.
LEMMA OtpColumnsKept ==
  ASSUME Inv, UNCHANGED orders, UNCHANGED vouchers, UNCHANGED rewards, UNCHANGED sent,
         NEW o0 \in Order, NEW t0 \in OtpType,
         otps[o0][t0].code # None,
         \A o \in Order : o # o0 => otps'[o] = otps[o],
         \A t \in OtpType : /\ otps'[o0][t].code = otps[o0][t].code
                            /\ otps'[o0][t].verified = otps[o0][t].verified
  PROVE  Tables'
<1>1. (AbsentIsBlank /\ RewardIffCompleted)'
  BY DEF Inv, Tables, AbsentIsBlank, RewardIffCompleted
<1>3. /\ AppliedByCustomer' /\ VoucherSingleUse' /\ RedeemedByItsOrder'
      /\ NoVoucherLost' /\ PlacesFollowDriver' /\ UnassignedIsUnplaced'
  BY OrderColumnsKept
<1>4. orders[o0].status \notin {"Absent", "New"}
  <2>1. NoOtp.code = None
    BY DEF NoOtp, FreshOtp
  <2> QED
    BY <2>1 DEF Inv, Tables, UntouchedUntilAccepted
<1>5. UntouchedUntilAccepted'
  BY <1>4 DEF Inv, Tables, UntouchedUntilAccepted, OtpType
<1>6. VerifiedMeansAdvanced'
  BY DEF Inv, Tables, VerifiedMeansAdvanced, OtpType
<1> QED
  BY <1>1, <1>3, <1>5, <1>6 DEF Tables

LEMMA ExpireInv ==
  ASSUME Inv, NEW o \in Order, NEW t \in OtpType, Expire(o, t)
  PROVE  Tables' /\ Requests'
<1>1. /\ UNCHANGED orders /\ UNCHANGED vouchers /\ UNCHANGED rewards /\ UNCHANGED sent
      /\ UNCHANGED req
      /\ otps[o][t].code # None
  BY DEF Expire
<1>2. /\ \A p \in Order : p # o => otps'[p] = otps[p]
      /\ \A u \in OtpType : /\ otps'[o][u].code = otps[o][u].code
                            /\ otps'[o][u].verified = otps[o][u].verified
  BY DEF Expire, Inv, Types, TypeOK, OtpRow
<1>3. Tables'
  BY <1>1, <1>2, OtpColumnsKept
<1>4. Requests'
  BY <1>1 DEF Inv, Requests, CreatesApart, VoucherHeld, HoldsVoucher, OrderExists
<1> QED
  BY <1>3, <1>4

LEMMA VerifyMismatchInv ==
  ASSUME Inv, NEW r \in Request, VerifyMismatch(r)
  PROVE  Tables' /\ Requests'
<1> DEFINE o0 == req[r].order
           t0 == req[r].type
<1>1. /\ o0 \in Order /\ t0 \in OtpType /\ req[r].at = "verify_mismatch"
      /\ UNCHANGED orders /\ UNCHANGED vouchers /\ UNCHANGED rewards /\ UNCHANGED sent
  BY DEF Inv, Types, TypeOK, Handler, ArgsOK, VerifyMismatch
<1>2. orders[o0].driver # None
  BY <1>1 DEF Inv, Requests, OrderExists, DriverStage
<1>3. otps[o0]["START"].code # None
  BY <1>1, <1>2 DEF Inv, Tables, UntouchedUntilAccepted
<1>4. /\ \A o \in Order : o # o0 => otps'[o] = otps[o]
      /\ \A t \in OtpType : /\ otps'[o0][t].code = otps[o0][t].code
                            /\ otps'[o0][t].verified = otps[o0][t].verified
  BY <1>1 DEF VerifyMismatch, Inv, Types, TypeOK, OtpRow
<1>5. Tables'
  <2> HIDE DEF o0
  <2>1. "START" \in OtpType
    BY DEF OtpType
  <2> QED
    BY <1>1, <1>3, <1>4, <2>1, OtpColumnsKept
<1>6. Requests'
  BY <1>1, FinishKeeps DEF VerifyMismatch
<1> QED
  BY <1>5, <1>6

LEMMA VerifyCommitInv == ASSUME Inv, NEW r \in Request, VerifyCommit(r) PROVE Tables' /\ Requests'
<1> USE ConstantsAssumption
<1> DEFINE o0 == req[r].order
           t0 == req[r].type
<1>1. /\ o0 \in Order /\ t0 \in OtpType /\ req[r].at = "verify_commit"
      /\ UNCHANGED vouchers /\ UNCHANGED sent
  BY DEF Inv, Types, TypeOK, Handler, ArgsOK, VerifyCommit
<1>2. orders[o0].driver # None
  BY <1>1 DEF Inv, Requests, OrderExists, DriverStage
<1>3. orders[o0].status \notin {"Absent", "New"}
  BY <1>1, <1>2 DEF Inv, Tables, UntouchedUntilAccepted
<1>4. /\ orders'[o0] = Advanced(orders[o0], t0)
      /\ \A o \in Order : o # o0 => orders'[o] = orders[o]
  BY <1>1 DEF VerifyCommit, Inv, Types, TypeOK
<1>5. /\ orders'[o0].status \in {"InProgress", "Completed"}
      /\ t0 = "START" => orders'[o0].started /\ orders'[o0].completed = orders[o0].completed
      /\ t0 = "COMPLETE" => orders'[o0].completed /\ orders'[o0].started = orders[o0].started
      /\ \A o \in Order : /\ orders'[o].voucher = orders[o].voucher
                          /\ orders'[o].customer = orders[o].customer
                          /\ orders'[o].driver = orders[o].driver
                          /\ orders'[o].places = orders[o].places
  <2>1. ASSUME NEW row \in OrderRow, NEW t \in OtpType
        PROVE  /\ Advanced(row, t).status \in {"InProgress", "Completed"}
               /\ t = "START" => /\ Advanced(row, t).started
                                 /\ Advanced(row, t).completed = row.completed
               /\ t = "COMPLETE" => /\ Advanced(row, t).completed
                                    /\ Advanced(row, t).started = row.started
               /\ Advanced(row, t).voucher = row.voucher
               /\ Advanced(row, t).customer = row.customer
               /\ Advanced(row, t).driver = row.driver
               /\ Advanced(row, t).places = row.places
    BY DEF Advanced, OrderRow, OtpType
  <2>2. \A o \in Order : orders[o] \in OrderRow
    BY DEF Inv, Types, TypeOK
  <2> HIDE DEF o0, t0
  <2> QED
    BY <1>1, <1>4, <2>1, <2>2
<1>6. /\ otps'[o0][t0].verified
      /\ \A t \in OtpType : /\ otps'[o0][t].code = otps[o0][t].code
                            /\ t # t0 => otps'[o0][t] = otps[o0][t]
      /\ \A o \in Order : o # o0 => otps'[o] = otps[o]
  BY <1>1 DEF VerifyCommit, Inv, Types, TypeOK, OtpRow
<1>7. /\ \A o \in Order : o # o0 => rewards'[o] = rewards[o]
      /\ t0 = "COMPLETE" /\ orders[o0].voucher # None => rewards'[o0] > 0
      /\ t0 = "START" \/ orders[o0].voucher = None => rewards'[o0] = rewards[o0]
  BY <1>1 DEF VerifyCommit, RewardDue, Inv, Types, TypeOK
<1>8. t0 = "START" \/ t0 = "COMPLETE"
  BY <1>1 DEF OtpType
<1> HIDE DEF o0, t0
<1>9. AbsentIsBlank'
  BY <1>1, <1>4, <1>5 DEF Inv, Tables, AbsentIsBlank
<1>11. /\ AppliedByCustomer' /\ VoucherSingleUse' /\ RedeemedByItsOrder'
       /\ NoVoucherLost' /\ PlacesFollowDriver' /\ UnassignedIsUnplaced'
  BY <1>1, <1>5, OrderColumnsKept
<1>12. UntouchedUntilAccepted'
  BY <1>1, <1>2, <1>3, <1>4, <1>5, <1>6, <1>7 DEF Inv, Tables, UntouchedUntilAccepted, OtpType
<1>13. VerifiedMeansAdvanced'
  BY <1>1, <1>4, <1>5, <1>6, <1>8 DEF Inv, Tables, VerifiedMeansAdvanced, OtpType
<1>14. RewardIffCompleted'
  BY <1>1, <1>4, <1>5, <1>7, <1>8 DEF Inv, Tables, RewardIffCompleted
<1>15. \A o \in Order : orders'[o].status = "Absent" <=> orders[o].status = "Absent"
  BY <1>3, <1>4, <1>5
<1>16. Requests'
  BY <1>1, <1>5, <1>15, FinishKeeps DEF VerifyCommit
<1> QED
  BY <1>9, <1>11, <1>12, <1>13, <1>14, <1>16 DEF Tables

-----------------------------------------------------------------------------
(* Layer 4: the one-time codes *)

\* What a step of r must see to for the codes: it replaces no code of a request
\* that holds the record or is not told, forgets none, and finds what its own
\* next stage relies on.
LEMMA CodesKept ==
  ASSUME Inv, NEW r \in Request,
         \A q \in Request : q # r =>
           /\ SameArgs(req'[q], req[q])
           /\ req[q].at \in {"verify_otp", "verify_order", "verify_commit"}
                /\ ~req'[q].superseded
              => otps'[req[q].order][req[q].type].code = req[q].code,
         \A o \in Order, t \in OtpType : otps[o][t].code # None => otps'[o][t].code # None,
         \A o \in Order : sent[o] \subseteq sent'[o],
         \A o \in Order, t \in OtpType :
           HoldsOtp(r, o, t)' => HoldsOtp(r, o, t) \/ OtpFree(o, t),
         req'[r].at \in {"send_status", "verify_otp", "verify_order", "verify_commit"} =>
           otps'[req'[r].order][req'[r].type].code # None,
         req'[r].at = "accept_commit" => "START" \in sent'[req'[r].order],
         req'[r].at \in {"verify_otp", "verify_order", "verify_commit"}
             /\ ~req'[r].superseded =>
           otps'[req'[r].order][req'[r].type].code = req'[r].code
  PROVE  Codes'
<1>1. \A q \in Request : q # r =>
        /\ req'[q].at = req[q].at /\ req'[q].order = req[q].order
        /\ req'[q].type = req[q].type /\ req'[q].code = req[q].code
  BY DEF SameArgs
<1>2. \A q \in Request : req[q].at # "idle" => req[q].order \in Order /\ req[q].type \in OtpType
  BY DEF Inv, Types, TypeOK, ArgsOK, Handler
<1>3. OtpHeldOnce'
  <2> SUFFICES ASSUME NEW p \in Request, NEW q \in Request, NEW o \in Order, NEW t \in OtpType,
                      HoldsOtp(p, o, t)', HoldsOtp(q, o, t)'
               PROVE  p = q
    BY DEF OtpHeldOnce
  <2>1. \A x \in Request : x # r => (HoldsOtp(x, o, t)' <=> HoldsOtp(x, o, t))
    BY <1>1 DEF HoldsOtp
  <2>2. HoldsOtp(r, o, t)' => HoldsOtp(r, o, t) \/ \A x \in Request : ~HoldsOtp(x, o, t)
    BY DEF OtpFree
  <2>3. \A x, y \in Request : HoldsOtp(x, o, t) /\ HoldsOtp(y, o, t) => x = y
    BY DEF Inv, Codes, OtpHeldOnce
  <2> HIDE DEF HoldsOtp
  <2> QED
    BY <2>1, <2>2, <2>3
<1>4. CodeStored'
  BY <1>1, <1>2 DEF Inv, Codes, CodeStored
<1>5. Announced'
  BY <1>1, <1>2 DEF Inv, Codes, Announced
<1>6. MatchedCodeIsCurrent'
  BY <1>1 DEF MatchedCodeIsCurrent
<1> QED
  BY <1>3, <1>4, <1>5, <1>6 DEF Codes

\* A step that leaves the codes in the tables alone.
LEMMA CodesSame ==
  ASSUME Inv, NEW r \in Request,
         \A q \in Request : q # r => req'[q] = req[q],
         \A o \in Order, t \in OtpType : otps'[o][t].code = otps[o][t].code,
         \A o \in Order : sent[o] \subseteq sent'[o],
         \A o \in Order, t \in OtpType :
           HoldsOtp(r, o, t)' => HoldsOtp(r, o, t) \/ OtpFree(o, t),
         req'[r].at \in {"send_status", "verify_otp", "verify_order", "verify_commit"} =>
           otps'[req'[r].order][req'[r].type].code # None,
         req'[r].at = "accept_commit" => "START" \in sent'[req'[r].order],
         req'[r].at \in {"verify_otp", "verify_order", "verify_commit"}
             /\ ~req'[r].superseded =>
           otps'[req'[r].order][req'[r].type].code = req'[r].code
  PROVE  Codes'
<1>1. ASSUME NEW q \in Request, q # r
      PROVE  /\ SameArgs(req'[q], req[q])
             /\ req[q].at \in {"verify_otp", "verify_order", "verify_commit"}
                  /\ ~req'[q].superseded
                => otps'[req[q].order][req[q].type].code = req[q].code
  <2>1. req'[q] = req[q]
    BY <1>1
  <2>2. req[q].at # "idle" => req[q].order \in Order /\ req[q].type \in OtpType
    BY DEF Inv, Types, TypeOK, ArgsOK, Handler
  <2> QED
    BY <2>1, <2>2 DEF SameArgs, Inv, Codes, MatchedCodeIsCurrent
<1> QED
  BY <1>1, CodesKept

\* Storing a new code for o and t, while nobody else holds their record, leaves
\* every other verification with the current code or marked as overtaken.
LEMMA ReplacedCode ==
  ASSUME Inv, NEW r \in Request, NEW o0 \in Order, NEW t0 \in OtpType, NEW c \in Code,
         otps'[o0][t0].code = c,
         \A o \in Order, t \in OtpType : o # o0 \/ t # t0 => otps'[o][t] = otps[o][t],
         \A q \in Request : HoldsOtp(q, o0, t0) => q = r,
         \A q \in Request : q # r => req'[q] = Superseding(o0, t0, c)[q]
  PROVE  /\ \A o \in Order, t \in OtpType : otps[o][t].code # None => otps'[o][t].code # None
         /\ \A q \in Request : q # r =>
              /\ SameArgs(req'[q], req[q])
              /\ req[q].at \in {"verify_otp", "verify_order", "verify_commit"}
                   /\ ~req'[q].superseded
                 => otps'[req[q].order][req[q].type].code = req[q].code
<1>1. \A o \in Order, t \in OtpType : otps[o][t].code # None => otps'[o][t].code # None
  BY ConstantsAssumption
<1>2. ASSUME NEW q \in Request, q # r
      PROVE  /\ SameArgs(req'[q], req[q])
             /\ req[q].at = "verify_otp" /\ req[q].order = o0 /\ req[q].type = t0
                  /\ req[q].code # c
                => req'[q].superseded
             /\ ~req'[q].superseded => ~req[q].superseded
  BY <1>2, SupersedingEffect DEF Inv
<1>3. ASSUME NEW q \in Request, q # r,
             req[q].at \in {"verify_otp", "verify_order", "verify_commit"}, ~req'[q].superseded
      PROVE  otps'[req[q].order][req[q].type].code = req[q].code
  <2>1. req[q].order \in Order /\ req[q].type \in OtpType
    BY <1>3 DEF Inv, Types, TypeOK, ArgsOK, Handler
  <2>2. otps[req[q].order][req[q].type].code = req[q].code
    BY <1>2, <1>3 DEF Inv, Codes, MatchedCodeIsCurrent
  <2>3. CASE req[q].order = o0 /\ req[q].type = t0
    <3>1. ~HoldsOtp(q, o0, t0)
      BY <1>3
    <3>2. req[q].at = "verify_otp"
      BY <1>3, <2>3, <3>1 DEF HoldsOtp
    <3>3. req[q].code = c
      BY <1>2, <1>3, <2>3, <3>2
    <3> QED
      BY <2>3, <3>3
  <2>4. CASE ~(req[q].order = o0 /\ req[q].type = t0)
    BY <2>1, <2>2, <2>4
  <2> QED
    BY <2>3, <2>4
<1> QED
  BY <1>1, <1>2, <1>3

LEMMA SendOtpCodes == ASSUME Inv, NEW r \in Request, SendOtp(r) PROVE Codes'
<1> USE ConstantsAssumption
<1>1. PICK o0 \in Order, t0 \in OtpType : o0 = req[r].order /\ t0 = req[r].type
  BY DEF Inv, Types, TypeOK, Handler, ArgsOK, SendOtp
<1>2. PICK c \in Code :
        /\ otps' = [otps EXCEPT ![o0][t0] = FreshOtp(c)]
        /\ req' = [Superseding(o0, t0, c) EXCEPT ![r].at = "send_status"]
  BY <1>1 DEF SendOtp
<1>3. /\ Superseding(o0, t0, c) \in [Request -> Handler]
      /\ SameArgs(Superseding(o0, t0, c)[r], req[r])
  BY SupersedingEffect DEF Inv
<1>4. /\ \A q \in Request : q # r => req'[q] = Superseding(o0, t0, c)[q]
      /\ req'[r].at = "send_status" /\ req'[r].order = o0 /\ req'[r].type = t0
  BY <1>1, <1>2, <1>3 DEF SameArgs, Handler
<1>5. \A q \in Request : ~HoldsOtp(q, o0, t0)
  BY <1>1 DEF SendOtp, OtpFree
<1>6. /\ otps'[o0][t0].code = c
      /\ \A o \in Order, t \in OtpType : o # o0 \/ t # t0 => otps'[o][t] = otps[o][t]
  BY <1>2 DEF Inv, Types, TypeOK, FreshOtp
<1>7. /\ \A o \in Order, t \in OtpType : otps[o][t].code # None => otps'[o][t].code # None
      /\ \A q \in Request : q # r =>
           /\ SameArgs(req'[q], req[q])
           /\ req[q].at \in {"verify_otp", "verify_order", "verify_commit"}
                /\ ~req'[q].superseded
              => otps'[req[q].order][req[q].type].code = req[q].code
  BY <1>4, <1>5, <1>6, ReplacedCode
<1>8. UNCHANGED sent
  BY DEF SendOtp
<1>9. \A o \in Order, t \in OtpType : ~HoldsOtp(r, o, t)'
  BY <1>4 DEF HoldsOtp
<1> QED
  BY <1>4, <1>7, <1>8, <1>9, <1>6, CodesKept

LEMMA AcceptCommitCodes == ASSUME Inv, NEW r \in Request, AcceptCommit(r) PROVE Codes'
<1> USE ConstantsAssumption
<1>1. PICK o0 \in Order, c \in Code :
        o0 = req[r].order /\ c = req[r].code /\ req[r].type = "START"
  BY DEF Inv, Types, ArgsOK, AcceptCommit, AcceptStage
<1>2. /\ otps' = [otps EXCEPT ![o0]["START"] = FreshOtp(c)]
      /\ req' = [Superseding(o0, "START", c) EXCEPT ![r] = Idle]
      /\ UNCHANGED sent
  BY <1>1 DEF AcceptCommit
<1>3. Superseding(o0, "START", c) \in [Request -> Handler]
  BY SupersedingEffect DEF Inv
<1>4. /\ \A q \in Request : q # r => req'[q] = Superseding(o0, "START", c)[q]
      /\ req'[r].at = "idle"
  BY <1>2, <1>3 DEF Idle
<1>5. "START" \in OtpType
  BY DEF OtpType
<1>6. \A q \in Request : HoldsOtp(q, o0, "START") => q = r
  <2>1. HoldsOtp(r, o0, "START")
    BY <1>1 DEF HoldsOtp, AcceptCommit
  <2> QED
    BY <1>5, <2>1 DEF Inv, Codes, OtpHeldOnce
<1>7. /\ otps'[o0]["START"].code = c
      /\ \A o \in Order, t \in OtpType : o # o0 \/ t # "START" => otps'[o][t] = otps[o][t]
  BY <1>2, <1>5 DEF Inv, Types, TypeOK, FreshOtp
<1>8. /\ \A o \in Order, t \in OtpType : otps[o][t].code # None => otps'[o][t].code # None
      /\ \A q \in Request : q # r =>
           /\ SameArgs(req'[q], req[q])
           /\ req[q].at \in {"verify_otp", "verify_order", "verify_commit"}
                /\ ~req'[q].superseded
              => otps'[req[q].order][req[q].type].code = req[q].code
  BY <1>4, <1>5, <1>6, <1>7, ReplacedCode
<1>9. \A o \in Order, t \in OtpType : ~HoldsOtp(r, o, t)'
  BY <1>4 DEF HoldsOtp
<1> QED
  BY <1>2, <1>4, <1>8, <1>9, CodesKept

\* The steps that read or write no code.
LEMMA EndCodes ==
  ASSUME Inv, NEW r \in Request, Finish(r),
         \A o \in Order, t \in OtpType : otps'[o][t].code = otps[o][t].code,
         \A o \in Order : sent[o] \subseteq sent'[o]
  PROVE  Codes'
<1>1. req'[r].at = "idle" /\ \A q \in Request : q # r => req'[q] = req[q]
  BY FinishEffect DEF Inv
<1>2. \A o \in Order, t \in OtpType : ~HoldsOtp(r, o, t)'
  BY <1>1 DEF HoldsOtp
<1> QED
  BY <1>1, <1>2, CodesSame

LEMMA GotoCodes ==
  ASSUME Inv, NEW r \in Request,
         \/ CreateValidate(r) \/ RedeemValidate(r) \/ CreateRedeem(r)
         \/ AcceptOrder(r) \/ AcceptOtp(r) \/ AcceptSend(r)
         \/ VerifyCheck(r) \/ VerifyOtp(r) \/ VerifyOrder(r)
  PROVE  Codes'
<1> USE ConstantsAssumption
<1> DEFINE o0 == req[r].order
           t0 == req[r].type
<1>1. UNCHANGED otps
  BY DEF CreateValidate, RedeemValidate, CreateRedeem, AcceptOrder, AcceptOtp, AcceptSend,
         VerifyCheck, VerifyOtp, VerifyOrder, db
<1>2. \A o \in Order : sent[o] \subseteq sent'[o]
  <2>1. CASE AcceptSend(r)
    BY <2>1 DEF AcceptSend, Inv, Types, TypeOK
  <2>2. CASE ~AcceptSend(r)
    BY <2>2 DEF CreateValidate, RedeemValidate, CreateRedeem, AcceptOrder, AcceptOtp,
                VerifyCheck, VerifyOtp, VerifyOrder, db
  <2> QED
    BY <2>1, <2>2
<1>3. /\ \A q \in Request : q # r => req'[q] = req[q]
      /\ req'[r].order = o0 /\ req'[r].type = t0 /\ req'[r].superseded = req[r].superseded
      /\ req'[r].at # "accept_send" => req'[r].code = req[r].code
  BY DEF Inv, Types, TypeOK, Handler, Goto, CreateValidate, RedeemValidate, CreateRedeem,
         AcceptOrder, AcceptOtp, AcceptSend, VerifyCheck, VerifyOtp, VerifyOrder
<1>4. \/ req'[r].at \in CreateStage \cup {"accept_otp", "verify_mismatch"}
      \/ /\ req[r].at = "accept_otp" /\ req'[r].at = "accept_send"
         /\ OtpFree(o0, "START") /\ t0 = "START"
      \/ /\ req[r].at = "accept_send" /\ req'[r].at = "accept_commit"
         /\ "START" \in sent'[o0]
      \/ /\ req[r].at = "verify_check" /\ req'[r].at = "verify_otp"
         /\ otps[o0][t0].code # None /\ otps[o0][t0].code = req[r].code
      \/ /\ req[r].at = "verify_otp" /\ req'[r].at = "verify_order"
         /\ OtpFree(o0, t0)
      \/ /\ req[r].at = "verify_order" /\ req'[r].at = "verify_commit"
  <2>1. req \in [Request -> Handler] /\ req[r] \in Handler
    BY DEF Inv, Types, TypeOK
  <2>2. CASE CreateValidate(r) \/ RedeemValidate(r) \/ CreateRedeem(r) \/ AcceptOrder(r)
    BY <2>1, <2>2 DEF Handler, Goto, CreateValidate, RedeemValidate, CreateRedeem, AcceptOrder,
                      CreateStage
  <2>3. CASE AcceptOtp(r)
    <3>1. t0 = "START"
      BY <2>3 DEF AcceptOtp, AcceptStage, Inv, Types, ArgsOK
    <3>2. PICK c \in Code : req' = [req EXCEPT ![r].at = "accept_send", ![r].code = c]
      BY <2>3 DEF AcceptOtp
    <3>3. req'[r].at = "accept_send"
      BY <2>1, <3>2 DEF Handler
    <3>4. req[r].at = "accept_otp" /\ OtpFree(o0, "START")
      BY <2>3 DEF AcceptOtp
    <3> QED
      BY <3>1, <3>3, <3>4
  <2>4. CASE AcceptSend(r)
    <3>1. o0 \in Order
      BY <2>4 DEF AcceptSend, Inv, Types, ArgsOK
    <3> QED
      BY <2>1, <2>4, <3>1 DEF AcceptSend, Goto, Handler, Inv, Types, TypeOK
  <2>5. CASE VerifyCheck(r)
    BY <2>1, <2>5 DEF VerifyCheck, Pending, Goto, Handler
  <2>6. CASE VerifyOtp(r)
    BY <2>1, <2>6 DEF VerifyOtp, Goto, Handler
  <2>7. CASE VerifyOrder(r)
    BY <2>1, <2>7 DEF VerifyOrder, Goto, Handler
  <2> QED
    BY <2>2, <2>3, <2>4, <2>5, <2>6, <2>7
<1>5. ASSUME NEW o \in Order, NEW t \in OtpType, HoldsOtp(r, o, t)'
      PROVE  HoldsOtp(r, o, t) \/ OtpFree(o, t)
  BY <1>3, <1>4, <1>5 DEF HoldsOtp, CreateStage
<1>6. req'[r].at \in {"send_status", "verify_otp", "verify_order", "verify_commit"} =>
        otps'[req'[r].order][req'[r].type].code # None
  BY <1>1, <1>3, <1>4 DEF Inv, Codes, CodeStored, CreateStage
<1>7. req'[r].at = "accept_commit" => "START" \in sent'[req'[r].order]
  BY <1>3, <1>4 DEF CreateStage
<1>8. req'[r].at \in {"verify_otp", "verify_order", "verify_commit"} /\ ~req'[r].superseded =>
        otps'[req'[r].order][req'[r].type].code = req'[r].code
  BY <1>1, <1>3, <1>4 DEF Inv, Codes, MatchedCodeIsCurrent, CreateStage
<1> HIDE DEF o0, t0
<1> QED
  BY <1>1, <1>2, <1>3, <1>5, <1>6, <1>7, <1>8, CodesSame

LEMMA ArriveCodes == ASSUME Inv, NEW r \in Request, Arrive(r) PROVE Codes'
<1>1. UNCHANGED otps /\ UNCHANGED sent
  BY DEF Arrive, CreateBegin, AcceptBegin, SendBegin, VerifyBegin, db
<1>2. /\ \A q \in Request : q # r => req'[q] = req[q]
      /\ req'[r].at \in {"create_insert", "create_validate", "accept_order", "send_otp",
                         "verify_check"}
  <2> DEFINE First == {"create_insert", "create_validate", "accept_order", "send_otp",
                       "verify_check"}
             Entered == req'[r].at \in First /\ \A q \in Request : q # r => req'[q] = req[q]
  <2>1. req \in [Request -> Handler]
    BY DEF Inv, Types, TypeOK
  <2>2. ASSUME NEW c, NEW o, NEW v, CreateBegin(r, c, o, v) PROVE Entered
    BY <2>1, <2>2 DEF CreateBegin, Enter, Idle
  <2>3. ASSUME NEW d, NEW o, AcceptBegin(r, d, o) PROVE Entered
    BY <2>1, <2>3 DEF AcceptBegin, Enter, Idle
  <2>4. ASSUME NEW d, NEW o, NEW t, SendBegin(r, d, o, t) PROVE Entered
    BY <2>1, <2>4 DEF SendBegin, Enter, Idle
  <2>5. ASSUME NEW d, NEW o, NEW t, NEW c, VerifyBegin(r, d, o, t, c) PROVE Entered
    BY <2>1, <2>5 DEF VerifyBegin, Enter, Idle
  <2> QED
    BY <2>2, <2>3, <2>4, <2>5 DEF Arrive
<1>3. \A o \in Order, t \in OtpType : ~HoldsOtp(r, o, t)'
  BY <1>2 DEF HoldsOtp
<1> QED
  BY <1>1, <1>2, <1>3, CodesSame

LEMMA NextCodes == ASSUME Inv, [Next]_vars PROVE Codes'
<1>1. ASSUME NEW r \in Request, Arrive(r) PROVE Codes'
  BY <1>1, ArriveCodes
<1>2. ASSUME NEW r \in Request,
             \/ CreateRefused(r) \/ RedeemLost(r) \/ VerifyRefused(r)
             \/ Fail(r) \/ DeadlockVictim(r)
      PROVE  Codes'
  <2>1. Finish(r) /\ UNCHANGED otps /\ UNCHANGED sent
    BY <1>2 DEF CreateRefused, RedeemLost, VerifyRefused, Fail, DeadlockVictim, db
  <2> QED
    BY <2>1, EndCodes
<1>3. ASSUME NEW r \in Request, CreateInsert(r) PROVE Codes'
  BY <1>3, EndCodes DEF CreateInsert
<1>4. ASSUME NEW r \in Request, SendStatus(r) PROVE Codes'
  <2>1. \A o \in Order : sent[o] \subseteq sent'[o]
    BY <1>4 DEF SendStatus, Inv, Types, TypeOK
  <2> QED
    BY <1>4, <2>1, EndCodes DEF SendStatus
<1>5. ASSUME NEW r \in Request, VerifyMismatch(r) \/ VerifyCommit(r) PROVE Codes'
  <2>1. \A o \in Order, t \in OtpType : otps'[o][t].code = otps[o][t].code
    <3>1. otps \in [Order -> [OtpType -> OtpRow]]
      BY DEF Inv, Types, TypeOK
    <3>2. CASE VerifyMismatch(r)
      BY <3>1, <3>2 DEF VerifyMismatch, OtpRow
    <3>3. CASE VerifyCommit(r)
      BY <3>1, <3>3 DEF VerifyCommit, OtpRow
    <3> QED
      BY <1>5, <3>2, <3>3
  <2> QED
    BY <1>5, <2>1, EndCodes DEF VerifyMismatch, VerifyCommit
<1>6. ASSUME NEW r \in Request, Step(r) PROVE Codes'
  BY <1>2, <1>3, <1>4, <1>5, <1>6, GotoCodes, SendOtpCodes, AcceptCommitCodes DEF Step
<1>7. ASSUME UNCHANGED req, UNCHANGED sent,
             \A o \in Order, t \in OtpType : otps'[o][t].code = otps[o][t].code
      PROVE  Codes'
  <2>1. \A r \in Request : req[r].at # "idle" => req[r].order \in Order /\ req[r].type \in OtpType
    BY DEF Inv, Types, TypeOK, ArgsOK, Handler
  <2>2. OtpHeldOnce' /\ Announced'
    BY <1>7 DEF Inv, Codes, OtpHeldOnce, HoldsOtp, Announced
  <2>3. CodeStored'
    BY <1>7, <2>1 DEF Inv, Codes, CodeStored
  <2>4. MatchedCodeIsCurrent'
    BY <1>7, <2>1 DEF Inv, Codes, MatchedCodeIsCurrent
  <2> QED
    BY <2>2, <2>3, <2>4 DEF Codes
<1>8. ASSUME NEW v \in Voucher, NEW c \in Customer, GenerateVoucher(v, c) PROVE Codes'
  BY <1>7, <1>8 DEF GenerateVoucher
<1>9. ASSUME NEW o \in Order, NEW t \in OtpType, Expire(o, t) PROVE Codes'
  <2>1. \A p \in Order, u \in OtpType : otps'[p][u].code = otps[p][u].code
    BY <1>9 DEF Expire, Inv, Types, TypeOK, OtpRow
  <2> QED
    BY <1>7, <1>9, <2>1 DEF Expire
<1>10. CASE UNCHANGED vars
  BY <1>7, <1>10 DEF vars
<1> QED
  BY <1>1, <1>2, <1>6, <1>8, <1>9, <1>10 DEF Next

LEMMA NextInv == Inv /\ [Next]_vars => Inv'
<1> SUFFICES ASSUME Inv, [Next]_vars PROVE Inv'
  OBVIOUS
<1>1. Types'
  BY NextTypes DEF Inv
<1>2. Tables' /\ Requests'
  <2>1. ASSUME NEW r \in Request, Arrive(r) PROVE Tables' /\ Requests'
    BY <2>1, ArriveInv
  <2>2. ASSUME NEW r \in Request, Step(r) PROVE Tables' /\ Requests'
    <3>1. CASE \/ CreateValidate(r) \/ RedeemValidate(r) \/ CreateRedeem(r)
               \/ AcceptOrder(r) \/ AcceptOtp(r) \/ VerifyCheck(r) \/ VerifyOtp(r)
               \/ VerifyOrder(r)
      BY <3>1, GotoInv
    <3>2. CASE CreateRefused(r) \/ RedeemLost(r) \/ VerifyRefused(r)
      BY <3>2, FinishStutter DEF CreateRefused, RedeemLost, VerifyRefused
    <3>3. CASE CreateInsert(r)
      BY <3>3, CreateInsertInv
    <3>4. CASE AcceptCommit(r)
      BY <3>4, AcceptCommitInv
    <3>5. CASE SendOtp(r)
      BY <3>5, SendOtpInv
    <3>6. CASE SendStatus(r)
      BY <3>6, SendStatusInv
    <3>7. CASE VerifyMismatch(r)
      BY <3>7, VerifyMismatchInv
    <3>8. CASE VerifyCommit(r)
      BY <3>8, VerifyCommitInv
    <3>9. CASE AcceptSend(r)
      BY <3>9, AcceptSendInv
    <3> QED
      BY <2>2, <3>1, <3>2, <3>3, <3>4, <3>5, <3>6, <3>7, <3>8, <3>9 DEF Step
  <2>3. ASSUME NEW r \in Request, Fail(r) \/ DeadlockVictim(r) PROVE Tables' /\ Requests'
    BY <2>3, FinishStutter DEF Fail, DeadlockVictim
  <2>4. ASSUME NEW v \in Voucher, NEW c \in Customer, GenerateVoucher(v, c)
        PROVE  Tables' /\ Requests'
    BY <2>4, GenerateVoucherInv
  <2>5. ASSUME NEW o \in Order, NEW t \in OtpType, Expire(o, t) PROVE Tables' /\ Requests'
    BY <2>5, ExpireInv
  <2>6. CASE UNCHANGED vars
    <3>1. UNCHANGED db /\ UNCHANGED orders /\ UNCHANGED vouchers /\ UNCHANGED sent
          /\ UNCHANGED req
      BY <2>6 DEF vars, db
    <3>2. Requests'
      BY <3>1 DEF Inv, Requests, CreatesApart, VoucherHeld, HoldsVoucher, OrderExists
    <3> QED
      BY <3>1, <3>2, TablesStutter DEF Inv
  <2> QED
    BY <2>1, <2>2, <2>3, <2>4, <2>5, <2>6 DEF Next
<1>3. Codes'
  BY NextCodes
<1> QED
  BY <1>1, <1>2, <1>3 DEF Inv

LEMMA Invariance == Spec => []Inv
BY InitInv, NextInv, PTL DEF Spec
-----------------------------------------------------------------------------
(* What the invariant shows *)

\* A voucher code ends up on one order at most, however many creations redeem it
\* at once: the conditional UPDATE of redeemVoucherAsync inside create's transaction.
THEOREM VoucherUsedOnce == Spec => []VoucherSingleUse
<1>1. Inv => VoucherSingleUse
  BY DEF Inv, Tables
<1> QED
  BY Invariance, <1>1, PTL

\* The voucher on an order was redeemed by the order's customer, whom somebody
\* else referred, although create validates it before its transaction locks it.
THEOREM VoucherRedeemedByCustomer == Spec => []RedeemedByItsOrder
<1>1. Inv => RedeemedByItsOrder
  BY DEF Inv, Tables
<1> QED
  BY Invariance, <1>1, PTL

\* A failing creation burns no voucher: redemption and insert are one transaction.
THEOREM VoucherNeverLost == Spec => []NoVoucherLost
<1>1. Inv => NoVoucherLost
  BY DEF Inv, Tables
<1> QED
  BY Invariance, <1>1, PTL

\* Nothing a driver does reaches an order before a driver has accepted it.
THEOREM AcceptedFirst == Spec => []UntouchedUntilAccepted
<1>1. Inv => UntouchedUntilAccepted
  BY DEF Inv, Tables
<1> QED
  BY Invariance, <1>1, PTL

\* verify-otp goes on to its commit with the current code of the record, unless a
\* resend or a second accept came between its comparison and its row lock.
THEOREM OnlyCurrentCodes == Spec => []MatchedCodeIsCurrent
<1>1. Inv => MatchedCodeIsCurrent
  BY DEF Inv, Codes
<1> QED
  BY Invariance, <1>1, PTL

\* A verified OTP has its time stamp: verify-otp writes both or neither.
THEOREM VerifiedAndAdvanced == Spec => []VerifiedMeansAdvanced
<1>1. Inv => VerifiedMeansAdvanced
  BY DEF Inv, Tables
<1> QED
  BY Invariance, <1>1, PTL

\* However accepts race, the Start and End locations are one driver's profile, and
\* the order's driver's unless that may come without any.
THEOREM PlacesAreTheDrivers == Spec => []PlacesFollowDriver
<1>1. Inv => PlacesFollowDriver
  BY DEF Inv, Tables
<1> QED
  BY Invariance, <1>1, PTL

\* The creator of a voucher is paid if and only if the order it is on was completed.
THEOREM RewardWithCompletion == Spec => []RewardIffCompleted
<1>1. Inv => RewardIffCompleted
  BY DEF Inv, Tables
<1> QED
  BY Invariance, <1>1, PTL

\* accept-order and verify-otp lock the two rows of an order in opposite orders;
\* they form a cycle only if the accept's check of the status has gone stale.
THEOREM DeadlockIsStaleAccept == Spec => []DeadlockNeedsStaleAccept
<1>1. Inv => DeadlockNeedsStaleAccept
  <2> SUFFICES ASSUME Inv, NEW r \in Request, NEW q \in Request,
                      WaitsFor(r, q), WaitsFor(q, r)
               PROVE  \E x \in {r, q} : /\ req[x].at = "accept_otp"
                                        /\ orders[req[x].order].status # "New"
    BY DEF DeadlockNeedsStaleAccept
  <2>1. PICK x \in {r, q}, y \in {r, q} :
          /\ req[x].at = "accept_otp"
          /\ req[y].at = "verify_order"
          /\ req[x].order = req[y].order
    BY DEF WaitsFor, HoldsOrder, HoldsOtp, HoldsVoucher
  <2>2. req[y].order \in Order /\ orders[req[y].order].driver # None
    BY <2>1 DEF Inv, Types, ArgsOK, Requests, OrderExists, DriverStage
  <2>3. orders[req[y].order].status # "New"
    BY <2>2 DEF Inv, Tables, UntouchedUntilAccepted
  <2> QED
    BY <2>1, <2>3
<1> QED
  BY Invariance, <1>1, PTL

-----------------------------------------------------------------------------
(* OrderLifecycle implements VoucherPromise and OrderPromise: each step of a *)
(* handler maps to one step of the abstract specification or to none.  What  *)
(* this needs to know of the other tables and requests is in Inv.            *)

\* The steps that write the order or the voucher table.
LEMMA StepKinds ==
  ASSUME [Next]_vars
  PROVE  \/ UNCHANGED orders /\ UNCHANGED vouchers
         \/ \E r \in Request :
              CreateInsert(r) \/ AcceptCommit(r) \/ SendStatus(r) \/ VerifyCommit(r)
         \/ \E v \in Voucher, c \in Customer : GenerateVoucher(v, c)
<1> DEFINE Quiet == UNCHANGED orders /\ UNCHANGED vouchers
<1>1. ASSUME UNCHANGED db PROVE Quiet
  BY <1>1 DEF db
<1>2. ASSUME NEW r \in Request, Arrive(r) PROVE Quiet
  <2>1. UNCHANGED db
    BY <1>2 DEF Arrive, CreateBegin, AcceptBegin, SendBegin, VerifyBegin
  <2> QED
    BY <2>1, <1>1
<1>3. ASSUME NEW r \in Request, SendOtp(r) \/ VerifyMismatch(r) \/ AcceptSend(r) PROVE Quiet
  BY <1>3 DEF SendOtp, VerifyMismatch, AcceptSend
<1>4. ASSUME NEW r \in Request,
             \/ CreateValidate(r) \/ RedeemValidate(r) \/ CreateRefused(r)
             \/ CreateRedeem(r) \/ RedeemLost(r) \/ AcceptOrder(r) \/ AcceptOtp(r)
             \/ VerifyCheck(r) \/ VerifyRefused(r) \/ VerifyOtp(r) \/ VerifyOrder(r)
             \/ Fail(r) \/ DeadlockVictim(r)
      PROVE  Quiet
  <2>1. UNCHANGED db
    BY <1>4 DEF CreateValidate, RedeemValidate, CreateRefused, CreateRedeem, RedeemLost,
                AcceptOrder, AcceptOtp, VerifyCheck, VerifyRefused, VerifyOtp, VerifyOrder,
                Fail, DeadlockVictim
  <2> QED
    BY <2>1, <1>1
<1>5. ASSUME NEW o \in Order, NEW t \in OtpType, Expire(o, t) PROVE Quiet
  BY <1>5 DEF Expire
<1>6. CASE UNCHANGED vars
  BY <1>6 DEF vars
<1> QED
  BY <1>2, <1>3, <1>4, <1>5, <1>6 DEF Next, Step

-----------------------------------------------------------------------------
(* The voucher promise *)

\* What a step must leave alone for the vouchers to stay as they are.
VoucherView == <<vouchers, [o \in Order |-> orders[o].voucher]>>

LEMMA VoucherStutter == UNCHANGED VoucherView => UNCHANGED VP!vars
<1> SUFFICES ASSUME UNCHANGED VoucherView PROVE UNCHANGED VP!vars
  OBVIOUS
<1>1. UNCHANGED vouchers /\ \A o \in Order : orders'[o].voucher = orders[o].voucher
  <2>1. UNCHANGED vouchers /\ [o \in Order |-> orders[o].voucher]' = [o \in Order |-> orders[o].voucher]
    BY DEF VoucherView
  <2>2. ASSUME NEW o \in Order PROVE orders'[o].voucher = orders[o].voucher
    <3>1. [p \in Order |-> orders'[p].voucher] = [p \in Order |-> orders[p].voucher]
      BY <2>1
    <3> QED
      BY <3>1
  <2> QED
    BY <2>1, <2>2
<1>2. UNCHANGED [v \in Voucher |-> vouchers[v].owner]
  BY <1>1
<1>3. UNCHANGED [v \in Voucher |-> vouchers[v].usedBy]
  BY <1>1
<1>4. UNCHANGED {p \in Voucher \X Order : orders[p[2]].voucher = p[1]}
  BY <1>1
<1> QED
  BY <1>2, <1>3, <1>4 DEF VP!vars

LEMMA VoucherInit == Init => VP!Init
<1> SUFFICES ASSUME Init PROVE VP!Init
  OBVIOUS
<1>1. \A v \in Voucher : vouchers[v].owner = None /\ vouchers[v].usedBy = None
  BY DEF Init, NoVoucher
<1>2. \A o \in Order : orders[o].voucher = None
  BY DEF Init, NoOrder
<1>3. {p \in Voucher \X Order : orders[p[2]].voucher = p[1]} = {}
  BY <1>2, ConstantsAssumption
<1> QED
  BY <1>1, <1>3 DEF VP!Init

\* The commit of a creation is the abstract Spend, or, without a voucher, nothing.
LEMMA InsertSpends ==
  ASSUME Inv, Inv', NEW r \in Request, CreateInsert(r)
  PROVE  VP!Next \/ UNCHANGED VP!vars
<1> USE ConstantsAssumption
<1> DEFINE o0 == req[r].order
           v0 == req[r].voucher
           c0 == req[r].who
<1>1. /\ o0 \in Order /\ c0 \in Customer /\ v0 \in Voucher \cup {None}
      /\ req[r].at = "create_insert"
  BY DEF Inv, Types, TypeOK, Handler, ArgsOK, CreateInsert, CreateStage
<1>2. orders[o0].voucher = None
  BY <1>1 DEF Inv, Requests, CreatesApart, Tables, AbsentIsBlank, CreateStage, NoOrder
<1>3. /\ orders'[o0].voucher = v0
      /\ \A o \in Order : o # o0 => orders'[o] = orders[o]
  <2> DEFINE row == [NoOrder EXCEPT !.status = "New", !.customer = c0, !.voucher = v0]
  <2>1. orders' = [orders EXCEPT ![o0] = row]
    BY DEF CreateInsert
  <2>2. row.voucher = v0
    BY DEF NoOrder
  <2> HIDE DEF row
  <2> QED
    BY <1>1, <2>1, <2>2 DEF Inv, Types, TypeOK
<1>4. CASE v0 = None
  <2>1. UNCHANGED vouchers
    BY <1>4 DEF CreateInsert
  <2>2. \A o \in Order : orders'[o].voucher = orders[o].voucher
    BY <1>2, <1>3, <1>4
  <2>3. UNCHANGED VoucherView
    BY <2>1, <2>2 DEF VoucherView
  <2> QED
    BY <2>3, VoucherStutter
<1>5. CASE v0 # None
  <2>1. /\ v0 \in Voucher
        /\ vouchers[v0].owner \notin {None, c0}
        /\ vouchers[v0].usedBy = None
    BY <1>1, <1>5 DEF Inv, Requests, VoucherHeld, CreateStage
  <2>2. vouchers' = [vouchers EXCEPT ![v0].usedBy = c0]
    BY <1>5 DEF CreateInsert
  <2>3. /\ \A v \in Voucher : vouchers'[v].owner = vouchers[v].owner
        /\ \A v \in Voucher : v # v0 => vouchers'[v].usedBy = vouchers[v].usedBy
        /\ vouchers'[v0].usedBy = c0
    BY <2>1, <2>2 DEF Inv, Types, TypeOK, VoucherRow
  <2>4. \A o \in Order : orders[o].voucher # v0
    BY <2>1 DEF Inv, Tables, RedeemedByItsOrder, AppliedByCustomer
  <2>5. \A p \in {p \in Voucher \X Order : orders[p[2]].voucher = p[1]} :
          p[1] # v0 /\ p[2] # o0
    BY <1>2, <2>4
  <2>6. {p \in Voucher \X Order : orders'[p[2]].voucher = p[1]}
          = {p \in Voucher \X Order : orders[p[2]].voucher = p[1]} \cup {<<v0, o0>>}
    <3>1. ASSUME NEW v \in Voucher, NEW o \in Order
          PROVE  orders'[o].voucher = v <=> orders[o].voucher = v \/ (v = v0 /\ o = o0)
      BY <1>1, <1>2, <1>3, <2>1, <2>4
    <3> QED
      BY <1>1, <2>1, <3>1
  <2>7. [v \in Voucher |-> vouchers'[v].owner] = [v \in Voucher |-> vouchers[v].owner]
    BY <2>3
  <2>8. [v \in Voucher |-> vouchers'[v].usedBy]
          = [[v \in Voucher |-> vouchers[v].usedBy] EXCEPT ![v0] = c0]
    BY <2>1, <2>3
  <2> HIDE DEF o0, v0, c0
  <2>9. ASSUME NEW v \in Voucher, NEW c \in Customer, NEW o \in Order,
               v = v0, c = c0, o = o0
        PROVE  VP!Spend(v, c, o)
    BY <2>1, <2>5, <2>6, <2>7, <2>8, <2>9 DEF VP!Spend
  <2> QED
    <3>1. PICK v \in Voucher, c \in Customer, o \in Order : v = v0 /\ c = c0 /\ o = o0
      BY <1>1, <2>1
    <3>2. VP!Spend(v, c, o)
      BY <2>9, <3>1
    <3> QED
      BY <3>2 DEF VP!Next
<1> QED
  BY <1>4, <1>5

\* Issuing a code is the abstract Issue.
LEMMA GenerateIssues ==
  ASSUME Inv, NEW v \in Voucher, NEW c \in Customer, GenerateVoucher(v, c)
  PROVE  VP!Next
<1>1. /\ vouchers[v].owner = None
      /\ \A w \in Voucher : /\ vouchers'[w].usedBy = vouchers[w].usedBy
                            /\ w # v => vouchers'[w].owner = vouchers[w].owner
      /\ vouchers'[v].owner = c
  BY DEF GenerateVoucher, Inv, Types, TypeOK, VoucherRow
<1>2. UNCHANGED orders
  BY DEF GenerateVoucher
<1>3. [w \in Voucher |-> vouchers'[w].owner]
        = [[w \in Voucher |-> vouchers[w].owner] EXCEPT ![v] = c]
  BY <1>1
<1>4. UNCHANGED [w \in Voucher |-> vouchers[w].usedBy]
  BY <1>1
<1>5. UNCHANGED {p \in Voucher \X Order : orders[p[2]].voucher = p[1]}
  BY <1>2
<1>6. VP!Issue(v, c)
  BY <1>1, <1>3, <1>4, <1>5 DEF VP!Issue
<1> QED
  BY <1>6 DEF VP!Next

\* Every other step leaves the vouchers and the orders' vouchers alone.
LEMMA OthersKeepVouchers ==
  ASSUME Inv, [Next]_vars,
         ~ \E r \in Request : CreateInsert(r),
         ~ \E v \in Voucher, c \in Customer : GenerateVoucher(v, c)
  PROVE  UNCHANGED VP!vars
<1>1. UNCHANGED vouchers /\ \A o \in Order : orders'[o].voucher = orders[o].voucher
  <2>1. CASE UNCHANGED orders /\ UNCHANGED vouchers
    BY <2>1
  <2>2. ASSUME NEW r \in Request, AcceptCommit(r) PROVE \A o \in Order : orders'[o].voucher = orders[o].voucher
    BY <2>2 DEF AcceptCommit, Inv, Types, TypeOK, OrderRow
  <2>3. ASSUME NEW r \in Request, SendStatus(r) PROVE \A o \in Order : orders'[o].voucher = orders[o].voucher
    BY <2>3 DEF SendStatus, Inv, Types, TypeOK, OrderRow
  <2>4. ASSUME NEW r \in Request, VerifyCommit(r) PROVE \A o \in Order : orders'[o].voucher = orders[o].voucher
    <3>1. ASSUME NEW row \in OrderRow, NEW t \in OtpType PROVE Advanced(row, t).voucher = row.voucher
      BY DEF Advanced, OrderRow
    <3>2. orders' = [orders EXCEPT ![req[r].order] = Advanced(orders[req[r].order], req[r].type)]
      BY <2>4 DEF VerifyCommit
    <3>3. req[r].type \in OtpType /\ orders \in [Order -> OrderRow]
      BY DEF Inv, Types, TypeOK, Handler
    <3> QED
      BY <3>1, <3>2, <3>3
  <2>5. (\E r \in Request : AcceptCommit(r) \/ SendStatus(r) \/ VerifyCommit(r)) => UNCHANGED vouchers
    BY DEF AcceptCommit, SendStatus, VerifyCommit
  <2> QED
    BY <2>1, <2>2, <2>3, <2>4, <2>5, StepKinds
<1>2. UNCHANGED VoucherView
  BY <1>1 DEF VoucherView
<1> QED
  BY <1>2, VoucherStutter

\* The create handler, in any interleaving and with any failure, behaves like one
\* atomic spend of a voucher.
THEOREM VoucherRefinement == Spec => ImplementsVoucherPromise
<1>1. Inv /\ Inv' /\ [Next]_vars => [VP!Next]_(VP!vars)
  BY InsertSpends, GenerateIssues, OthersKeepVouchers
<1> QED
  BY Invariance, VoucherInit, <1>1, PTL DEF Spec, ImplementsVoucherPromise, VP!Spec

-----------------------------------------------------------------------------
(* The order promise *)

\* The types of code there are for order o, as OrderPromise sees them.
StoredCodes(o) == {t \in OtpType : otps[o][t].code # None}

LEMMA OrderInit == Init => OP!Init
<1> SUFFICES ASSUME Init PROVE OP!Init
  OBVIOUS
<1>1. \A o \in Order : /\ orders[o].status = "Absent" /\ orders[o].driver = None
                       /\ orders[o].voucher = None
  BY DEF Init, NoOrder
<1>2. \A o \in Order : StoredCodes(o) = {}
  BY DEF Init, NoOtp, FreshOtp, StoredCodes
<1> QED
  BY <1>1, <1>2 DEF OP!Init, Init, StoredCodes

\* A step that writes none of the columns an order's promise is about.
LEMMA OrderStutter ==
  ASSUME UNCHANGED rewards, UNCHANGED sent,
         \A o \in Order : /\ orders'[o].status = orders[o].status
                          /\ orders'[o].driver = orders[o].driver
                          /\ orders'[o].voucher = orders[o].voucher
                          /\ StoredCodes(o)' = StoredCodes(o)
  PROVE  UNCHANGED OP!vars
<1>1. UNCHANGED [o \in Order |-> orders[o].status]
  OBVIOUS
<1>2. UNCHANGED [o \in Order |-> orders[o].driver]
  OBVIOUS
<1>3. UNCHANGED [o \in Order |-> orders[o].voucher # None]
  OBVIOUS
<1>4. UNCHANGED [o \in Order |-> StoredCodes(o)]
  OBVIOUS
<1> QED
  BY <1>1, <1>2, <1>3, <1>4 DEF OP!vars, StoredCodes

\* A step that writes one order changes the abstract state at that order only.
LEMMA OneOrder ==
  ASSUME NEW o \in Order,
         \A p \in Order : p # o => orders'[p] = orders[p] /\ otps'[p] = otps[p]
  PROVE  /\ [p \in Order |-> orders'[p].status]
              = [[p \in Order |-> orders[p].status] EXCEPT ![o] = orders'[o].status]
         /\ [p \in Order |-> orders'[p].driver]
              = [[p \in Order |-> orders[p].driver] EXCEPT ![o] = orders'[o].driver]
         /\ [p \in Order |-> orders'[p].voucher # None]
              = [[p \in Order |-> orders[p].voucher # None] EXCEPT ![o] = (orders'[o].voucher # None)]
         /\ [p \in Order |-> StoredCodes(p)']
              = [[p \in Order |-> StoredCodes(p)] EXCEPT ![o] = StoredCodes(o)']
<1>1. \A p \in Order : p # o => StoredCodes(p)' = StoredCodes(p)
  BY DEF StoredCodes
<1>2. [p \in Order |-> orders'[p].status]
        = [[p \in Order |-> orders[p].status] EXCEPT ![o] = orders'[o].status]
  OBVIOUS
<1>3. [p \in Order |-> orders'[p].driver]
        = [[p \in Order |-> orders[p].driver] EXCEPT ![o] = orders'[o].driver]
  OBVIOUS
<1>4. [p \in Order |-> orders'[p].voucher # None]
        = [[p \in Order |-> orders[p].voucher # None] EXCEPT ![o] = (orders'[o].voucher # None)]
  OBVIOUS
<1>5. [p \in Order |-> StoredCodes(p)']
        = [[p \in Order |-> StoredCodes(p)] EXCEPT ![o] = StoredCodes(o)']
  BY <1>1
<1> QED
  BY <1>2, <1>3, <1>4, <1>5

\* The commit of a creation is the abstract Place.
LEMMA InsertPlaces ==
  ASSUME Inv, NEW r \in Request, CreateInsert(r)
  PROVE  OP!Next
<1>1. PICK o \in Order : o = req[r].order
  BY DEF Inv, Types, ArgsOK, CreateInsert
<1>2. /\ orders[o] = NoOrder
      /\ orders \in [Order -> OrderRow]
  BY <1>1 DEF Inv, Types, TypeOK, Tables, AbsentIsBlank, Requests, CreatesApart, CreateStage,
              CreateInsert
<1>3. PICK row : row = [NoOrder EXCEPT !.status = "New", !.customer = req[r].who,
                                       !.voucher = req[r].voucher]
  OBVIOUS
<1>4. row.status = "New" /\ row.driver = None
  BY <1>3 DEF NoOrder
<1>5. /\ orders' = [orders EXCEPT ![o] = row]
      /\ UNCHANGED otps /\ UNCHANGED sent /\ UNCHANGED rewards
  BY <1>1, <1>3 DEF CreateInsert
<1>6. /\ orders'[o].status = "New" /\ orders'[o].driver = orders[o].driver
      /\ orders[o].status = "Absent"
      /\ \A p \in Order : p # o => orders'[p] = orders[p] /\ otps'[p] = otps[p]
  BY <1>2, <1>4, <1>5 DEF NoOrder
<1>7. OP!Place(o)
  <2>1. /\ [p \in Order |-> orders'[p].status]
             = [[p \in Order |-> orders[p].status] EXCEPT ![o] = "New"]
        /\ [p \in Order |-> orders'[p].driver] = [p \in Order |-> orders[p].driver]
        /\ [p \in Order |-> orders'[p].voucher # None]
             = [[p \in Order |-> orders[p].voucher # None] EXCEPT ![o] = (orders'[o].voucher # None)]
    BY <1>6, OneOrder
  <2>2. UNCHANGED [p \in Order |-> {t \in OtpType : otps[p][t].code # None}]
    BY <1>5
  <2>3. (orders'[o].voucher # None) \in BOOLEAN
    OBVIOUS
  <2>4. [p \in Order |-> orders[p].status][o] = "Absent"
    BY <1>6
  <2> QED
    BY <1>5, <2>1, <2>2, <2>3, <2>4 DEF OP!Place
<1> QED
  BY <1>7 DEF OP!Next

\* The code an accept sends before its commit is the abstract Announce.
LEMMA AcceptSendAnnounces ==
  ASSUME Inv, NEW r \in Request, AcceptSend(r)
  PROVE  OP!Next
<1>1. PICK o \in Order : o = req[r].order
  BY DEF Inv, Types, ArgsOK, AcceptSend
<1>2. orders[o].status # "Absent"
  BY <1>1 DEF Inv, Requests, OrderExists, AcceptSend, AcceptStage
<1>3. /\ sent' = [sent EXCEPT ![o] = sent[o] \cup {"START"}]
      /\ UNCHANGED orders /\ UNCHANGED otps /\ UNCHANGED rewards
  BY <1>1 DEF AcceptSend
<1>4. /\ [p \in Order |-> orders[p].status][o] # "Absent"
      /\ UNCHANGED [p \in Order |-> orders[p].status]
      /\ UNCHANGED [p \in Order |-> orders[p].driver]
      /\ UNCHANGED [p \in Order |-> orders[p].voucher # None]
      /\ UNCHANGED [p \in Order |-> {t \in OtpType : otps[p][t].code # None}]
  BY <1>2, <1>3
<1>5. OP!Announce(o)
  BY <1>3, <1>4 DEF OP!Announce
<1> QED
  BY <1>5 DEF OP!Next

\* The commit of an accept is the abstract Assign.
LEMMA AcceptAssigns ==
  ASSUME Inv, NEW r \in Request, AcceptCommit(r)
  PROVE  OP!Next
<1> USE ConstantsAssumption
<1>1. PICK o \in Order, d \in Driver, k \in Code :
        o = req[r].order /\ d = req[r].who /\ k = req[r].code
  BY DEF Inv, Types, ArgsOK, AcceptCommit, AcceptStage
<1>2. "START" \in sent[o]
  BY <1>1 DEF Inv, Codes, Announced, AcceptCommit
<1>3. PICK row : row = [orders[o] EXCEPT !.status = "OtpPending", !.driver = d,
                                         !.places = Replaced(@, d, req[r].places)]
  OBVIOUS
<1>4. orders \in [Order -> OrderRow] /\ otps \in [Order -> [OtpType -> OtpRow]]
  BY DEF Inv, Types, TypeOK
<1>5. row.status = "OtpPending" /\ row.driver = d /\ row.voucher = orders[o].voucher
  BY <1>3, <1>4 DEF OrderRow
<1>6. /\ orders' = [orders EXCEPT ![o] = row] /\ UNCHANGED rewards /\ UNCHANGED sent
      /\ otps' = [otps EXCEPT ![o]["START"] = FreshOtp(k)]
  BY <1>1, <1>3 DEF AcceptCommit
<1>7. /\ orders'[o] = row
      /\ \A p \in Order : p # o => orders'[p] = orders[p] /\ otps'[p] = otps[p]
  BY <1>4, <1>6
<1>8. StoredCodes(o)' = StoredCodes(o) \cup {"START"}
  <2>1. otps'[o]["START"].code = k /\ otps'[o]["COMPLETE"] = otps[o]["COMPLETE"]
    BY <1>4, <1>6 DEF OtpType, FreshOtp
  <2> QED
    BY <1>1, <2>1 DEF OtpType, StoredCodes
<1>9. OP!Assign(o, d)
  <2>1. /\ [p \in Order |-> orders'[p].status]
             = [[p \in Order |-> orders[p].status] EXCEPT ![o] = "OtpPending"]
        /\ [p \in Order |-> orders'[p].driver]
             = [[p \in Order |-> orders[p].driver] EXCEPT ![o] = d]
        /\ [p \in Order |-> orders'[p].voucher # None] = [p \in Order |-> orders[p].voucher # None]
    <3>1. orders'[o].status = "OtpPending" /\ orders'[o].driver = d
      BY <1>5, <1>7
    <3>2. \A p \in Order : orders'[p].voucher = orders[p].voucher
      BY <1>5, <1>7
    <3>3. [p \in Order |-> orders'[p].voucher # None] = [p \in Order |-> orders[p].voucher # None]
      BY <3>2
    <3>4. /\ [p \in Order |-> orders'[p].status]
               = [[p \in Order |-> orders[p].status] EXCEPT ![o] = orders'[o].status]
          /\ [p \in Order |-> orders'[p].driver]
               = [[p \in Order |-> orders[p].driver] EXCEPT ![o] = orders'[o].driver]
      BY <1>7, OneOrder
    <3> QED
      BY <3>1, <3>3, <3>4
  <2>2. [p \in Order |-> StoredCodes(p)']
          = [[p \in Order |-> StoredCodes(p)] EXCEPT ![o] = StoredCodes(o) \cup {"START"}]
    BY <1>7, <1>8, OneOrder
  <2>3. [p \in Order |-> StoredCodes(p)][o] = StoredCodes(o)
    OBVIOUS
  <2>4. [p \in Order |-> StoredCodes(p)']
          = [[p \in Order |-> StoredCodes(p)] EXCEPT ![o] = @ \cup {"START"}]
    BY <2>2, <2>3
  <2> QED
    BY <1>2, <1>6, <2>1, <2>4 DEF OP!Assign, StoredCodes
<1> QED
  BY <1>9 DEF OP!Next

\* The upsert of a send-otp is the abstract StoreCode.
LEMMA SendOtpStores ==
  ASSUME Inv, NEW r \in Request, SendOtp(r)
  PROVE  OP!Next
<1> USE ConstantsAssumption
<1>1. PICK o \in Order, t \in OtpType : o = req[r].order /\ t = req[r].type
  BY DEF Inv, Types, TypeOK, Handler, ArgsOK, SendOtp
<1>2. orders[o].driver # None
  BY <1>1 DEF Inv, Requests, OrderExists, SendOtp, DriverStage
<1>3. PICK k \in Code : otps' = [otps EXCEPT ![o][t] = FreshOtp(k)]
  BY <1>1 DEF SendOtp
<1>4. UNCHANGED orders /\ UNCHANGED rewards /\ UNCHANGED sent
  BY DEF SendOtp
<1>5. otps \in [Order -> [OtpType -> OtpRow]]
  BY DEF Inv, Types, TypeOK
<1>6. StoredCodes(o)' = StoredCodes(o) \cup {t}
  <2>1. otps'[o][t].code = k /\ \A u \in OtpType : u # t => otps'[o][u] = otps[o][u]
    BY <1>3, <1>5 DEF FreshOtp
  <2> QED
    BY <2>1 DEF StoredCodes
<1>7. OP!StoreCode(o, t)
  <2>1. \A p \in Order : p # o => orders'[p] = orders[p] /\ otps'[p] = otps[p]
    BY <1>3, <1>4, <1>5
  <2>2. [p \in Order |-> StoredCodes(p)']
          = [[p \in Order |-> StoredCodes(p)] EXCEPT ![o] = StoredCodes(o) \cup {t}]
    BY <1>6, <2>1, OneOrder
  <2>3. /\ [p \in Order |-> orders[p].driver][o] # None
        /\ [p \in Order |-> StoredCodes(p)][o] = StoredCodes(o)
    BY <1>2
  <2>4. [p \in Order |-> StoredCodes(p)']
          = [[p \in Order |-> StoredCodes(p)] EXCEPT ![o] = @ \cup {t}]
    BY <2>2, <2>3
  <2>5. /\ UNCHANGED [p \in Order |-> orders[p].status]
        /\ UNCHANGED [p \in Order |-> orders[p].driver]
        /\ UNCHANGED [p \in Order |-> orders[p].voucher # None]
    BY <1>4
  <2> QED
    BY <1>4, <2>3, <2>4, <2>5 DEF OP!StoreCode, StoredCodes
<1> QED
  BY <1>7 DEF OP!Next, OtpType

\* The status update of a send-otp is the abstract AwaitCode: the code it stored is
\* there still.
LEMMA SendStatusAwaits ==
  ASSUME Inv, NEW r \in Request, SendStatus(r)
  PROVE  OP!Next
<1>1. PICK o \in Order, t \in OtpType : o = req[r].order /\ t = req[r].type
  BY DEF Inv, Types, TypeOK, Handler, ArgsOK, SendStatus
<1>2. orders[o].driver # None
  BY <1>1 DEF Inv, Requests, OrderExists, SendStatus, DriverStage
<1>3. /\ orders' = [orders EXCEPT ![o].status = "OtpPending"]
      /\ sent' \in {sent, [sent EXCEPT ![o] = @ \cup {t}]}
      /\ UNCHANGED otps /\ UNCHANGED rewards
  BY <1>1 DEF SendStatus
<1>4. /\ orders'[o].status = "OtpPending" /\ orders'[o].driver = orders[o].driver
      /\ orders'[o].voucher = orders[o].voucher
      /\ \A p \in Order : p # o => orders'[p] = orders[p] /\ otps'[p] = otps[p]
  BY <1>3 DEF Inv, Types, TypeOK, OrderRow
<1>5. t \in {u \in OtpType : otps[o][u].code # None}
  BY <1>1 DEF Inv, Codes, CodeStored, SendStatus
<1>6. OP!AwaitCode(o, t)
  <2>1. /\ [p \in Order |-> orders'[p].status]
             = [[p \in Order |-> orders[p].status] EXCEPT ![o] = "OtpPending"]
        /\ UNCHANGED [p \in Order |-> orders[p].driver]
        /\ UNCHANGED [p \in Order |-> orders[p].voucher # None]
    BY <1>4, OneOrder
  <2>2. UNCHANGED [p \in Order |-> {u \in OtpType : otps[p][u].code # None}]
    BY <1>3
  <2>3. /\ [p \in Order |-> orders[p].driver][o] # None
        /\ t \in [p \in Order |-> {u \in OtpType : otps[p][u].code # None}][o]
    BY <1>2, <1>5
  <2> QED
    BY <1>3, <2>1, <2>2, <2>3 DEF OP!AwaitCode
<1> QED
  BY <1>6 DEF OP!Next, OtpType

\* The commit of a verification is the abstract Start or Complete: there is a code
\* of its type.
LEMMA VerifyAdvances ==
  ASSUME Inv, NEW r \in Request, VerifyCommit(r)
  PROVE  OP!Next
<1>1. PICK o \in Order, t \in OtpType : o = req[r].order /\ t = req[r].type
  BY DEF Inv, Types, TypeOK, Handler, ArgsOK, VerifyCommit
<1>2. otps[o][t].code # None
  BY <1>1 DEF Inv, Codes, CodeStored, VerifyCommit
<1>3. /\ orders' = [orders EXCEPT ![o] = Advanced(orders[o], t)]
      /\ otps' = [otps EXCEPT ![o][t].verified = TRUE]
      /\ rewards' = IF RewardDue(o, t) THEN [rewards EXCEPT ![o] = rewards[o] + 1] ELSE rewards
      /\ UNCHANGED sent
  BY <1>1 DEF VerifyCommit
<1>4. orders \in [Order -> OrderRow] /\ otps \in [Order -> [OtpType -> OtpRow]]
  BY DEF Inv, Types, TypeOK
<1>5. /\ Advanced(orders[o], t).status = IF t = "START" THEN "InProgress" ELSE "Completed"
      /\ Advanced(orders[o], t).driver = orders[o].driver
      /\ Advanced(orders[o], t).voucher = orders[o].voucher
  BY <1>4 DEF Advanced, OrderRow
<1>6. /\ orders'[o] = Advanced(orders[o], t)
      /\ \A p \in Order : p # o => orders'[p] = orders[p] /\ otps'[p] = otps[p]
  BY <1>3, <1>4
<1>7. /\ [p \in Order |-> orders'[p].status]
           = [[p \in Order |-> orders[p].status] EXCEPT ![o] = orders'[o].status]
      /\ UNCHANGED [p \in Order |-> orders[p].driver]
      /\ UNCHANGED [p \in Order |-> orders[p].voucher # None]
  <2>1. /\ orders'[o].driver = orders[o].driver
        /\ orders'[o].voucher = orders[o].voucher
    BY <1>5, <1>6
  <2>2. \A p \in Order : orders'[p].driver = orders[p].driver /\ orders'[p].voucher = orders[p].voucher
    BY <1>6, <2>1
  <2>3. [p \in Order |-> orders'[p].status]
          = [[p \in Order |-> orders[p].status] EXCEPT ![o] = orders'[o].status]
    BY <1>6, OneOrder
  <2> QED
    BY <2>2, <2>3
<1>8. UNCHANGED [p \in Order |-> {u \in OtpType : otps[p][u].code # None}]
  <2>1. \A p \in Order, u \in OtpType : otps'[p][u].code = otps[p][u].code
    BY <1>3, <1>4 DEF OtpRow
  <2> QED
    BY <2>1
<1>9. t \in [p \in Order |-> {u \in OtpType : otps[p][u].code # None}][o]
  BY <1>2
<1>10. CASE t = "START"
  <2>1. orders'[o].status = "InProgress" /\ UNCHANGED rewards
    BY <1>3, <1>5, <1>6, <1>10 DEF RewardDue
  <2>2. OP!Start(o)
    BY <1>3, <1>7, <1>8, <1>9, <1>10, <2>1 DEF OP!Start
  <2> QED
    BY <2>2 DEF OP!Next
<1>11. CASE t = "COMPLETE"
  <2>1. orders'[o].status = "Completed"
    BY <1>5, <1>6, <1>11
  <2>2. rewards' = IF [p \in Order |-> orders[p].voucher # None][o]
                     THEN [rewards EXCEPT ![o] = rewards[o] + 1]
                     ELSE rewards
    BY <1>3, <1>11 DEF RewardDue
  <2>3. OP!Complete(o)
    BY <1>3, <1>7, <1>8, <1>9, <1>11, <2>1, <2>2 DEF OP!Complete
  <2> QED
    BY <2>3 DEF OP!Next
<1> QED
  BY <1>10, <1>11 DEF OtpType

\* Every other step is invisible in an order's promise.
LEMMA OthersKeepPromise ==
  ASSUME Inv, [Next]_vars,
         ~ \E r \in Request :
             \/ CreateInsert(r) \/ AcceptSend(r) \/ AcceptCommit(r)
             \/ SendOtp(r) \/ SendStatus(r) \/ VerifyCommit(r)
  PROVE  UNCHANGED OP!vars
<1> DEFINE Quiet == /\ UNCHANGED orders /\ UNCHANGED rewards /\ UNCHANGED sent
                    /\ \A o \in Order : StoredCodes(o)' = StoredCodes(o)
<1>0. otps \in [Order -> [OtpType -> OtpRow]]
  BY DEF Inv, Types, TypeOK
<1>1. ASSUME UNCHANGED db PROVE Quiet
  BY <1>1 DEF db, StoredCodes
<1>2. ASSUME NEW r \in Request, Arrive(r) PROVE Quiet
  <2>1. UNCHANGED db
    BY <1>2 DEF Arrive, CreateBegin, AcceptBegin, SendBegin, VerifyBegin
  <2> QED
    BY <2>1, <1>1
<1>3. ASSUME NEW r \in Request, Step(r) \/ Fail(r) \/ DeadlockVictim(r) PROVE Quiet
  <2>1. CASE VerifyMismatch(r)
    <3>1. \A o \in Order, t \in OtpType : otps'[o][t].code = otps[o][t].code
      BY <1>0, <2>1 DEF VerifyMismatch, OtpRow
    <3> QED
      BY <2>1, <3>1 DEF VerifyMismatch, StoredCodes
  <2>2. CASE ~VerifyMismatch(r)
    <3>1. UNCHANGED db
      BY <1>3, <2>2 DEF Step, CreateValidate, RedeemValidate, CreateRefused, CreateRedeem,
                        RedeemLost, AcceptOrder, AcceptOtp, VerifyCheck, VerifyRefused,
                        VerifyOtp, VerifyOrder, Fail, DeadlockVictim
    <3> QED
      BY <3>1, <1>1
  <2> QED
    BY <2>1, <2>2
<1>4. ASSUME NEW v \in Voucher, NEW c \in Customer, GenerateVoucher(v, c) PROVE Quiet
  BY <1>4 DEF GenerateVoucher, StoredCodes
<1>5. ASSUME NEW o \in Order, NEW t \in OtpType, Expire(o, t) PROVE Quiet
  <2>1. \A p \in Order, u \in OtpType : otps'[p][u].code = otps[p][u].code
    BY <1>0, <1>5 DEF Expire, OtpRow
  <2> QED
    BY <1>5, <2>1 DEF Expire, StoredCodes
<1>6. ASSUME UNCHANGED vars PROVE Quiet
  BY <1>6 DEF vars, StoredCodes
<1>7. Quiet
  BY <1>2, <1>3, <1>4, <1>5, <1>6 DEF Next
<1> QED
  BY <1>7, OrderStutter

\* The four handlers, in any interleaving and with any failure, keep what an order
\* promises: each commit, and each code sent before one, is one step of the promise.
THEOREM OrderRefinement == Spec => ImplementsOrderPromise
<1>1. Inv /\ [Next]_vars => [OP!Next]_(OP!vars)
  BY InsertPlaces, AcceptSendAnnounces, AcceptAssigns, SendOtpStores, SendStatusAwaits,
     VerifyAdvances, OthersKeepPromise
<1> QED
  BY Invariance, OrderInit, <1>1, PTL DEF Spec, ImplementsOrderPromise, OP!Spec
=============================================================================
