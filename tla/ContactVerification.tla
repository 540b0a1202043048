------------------------- MODULE ContactVerification -------------------------
(***************************************************************************)
(* One-time codes and what they prove: OtpService, DriverAuthService,      *)
(* VendorAuthService, CustomerAuthService, and the updates that change a   *)
(* contact.                                                                *)
(*                                                                         *)
(* All flows share the table otp, which is keyed by the contact alone.     *)
(* A send inserts the row and then delivers the message; a verification    *)
(* reads the account, then the rows, and then writes by the account's id.  *)
(* No handler opens a transaction.                                         *)
(***************************************************************************)
EXTENDS Naturals, Sequences, FiniteSets

CONSTANTS
  Driver, Vendor, Customer,  \* ids of the three account tables
  Email, Number,             \* contacts
  Request,                   \* requests in flight at the same time
  None,                      \* SQL NULL, or a field a body leaves out
  MaxOtps                    \* bound: rows of the table otp

ASSUME ConstantsAssumption ==
  /\ MaxOtps \in Nat
  /\ Email \cap Number = {}
  /\ None \notin Email \cup Number \cup Driver \cup Vendor \cup Customer

VARIABLES
  active,    \* accounts that are not deleted
  contact,   \* their columns email and mobile_number (customer: number)
  verified,  \* drivers: is_email_verified, is_number_verified
  otps,      \* table otp by id: the contact of each row
  expired,   \* rows 1..expired have expired: they all live for five minutes
  inbox,     \* per contact: the row whose message arrived last
  proved,    \* history: contacts for which a right code was submitted
  drifted,   \* history: verified channels whose contact was replaced since
  muddled,   \* history: contacts with overlapping sends, or one that got lost
  req        \* handler state of every request

vars == <<active, contact, verified, otps, expired, inbox,
          proved, drifted, muddled, req>>

accountVars == <<active, contact, verified>>
tableVars == <<otps, expired, inbox>>
historyVars == <<proved, drifted, muddled>>

-----------------------------------------------------------------------------
(* Accounts, rows and requests *)

Account == Driver \cup Vendor \cup Customer
Contact == Email \cup Number

\* OtpType.
Channel == {"Email", "Number"}

Contacts == [Email : Email, Number : Number]

\* The fields of an update's body.
Body == [Email : Email \cup {None}, Number : Number \cup {None}]

Both(c) == {c.Email, c.Number}

Stage == {"idle", "insert", "deliver", "match", "find", "write", "profile"}
Flow == {"none", "confirm", "check", "reset", "vendorReset", "change"}

\* read is the contact columns as the handler read them; rows, the contacts a code
\* will be sent to; ids, the rows whose message is still to be delivered; left, the
\* contacts whose code is still to be checked.
Handler ==
  [at : Stage, flow : Flow, who : Account \cup {None}, read : Contacts \cup {None},
   body : Body \cup {None}, rows : Seq(Contact), ids : SUBSET (1..MaxOtps),
   left : SUBSET Contact]

Idle ==
  [at |-> "idle", flow |-> "none", who |-> None, read |-> None, body |-> None,
   rows |-> <<>>, ids |-> {}, left |-> {}]

Enter(r, h) == req[r] = Idle /\ req' = [req EXCEPT ![r] = h]

Finish(r) == req' = [req EXCEPT ![r] = Idle]

RowsOf(c) == {i \in DOMAIN otps : otps[i] = c}

\* findFirst with orderBy id or created_at descending.
IsLatest(i, c) == i \in RowsOf(c) /\ \A j \in RowsOf(c) : j <= i

\* Contacts to which a message is under way.
UnderWay == {otps[i] : i \in UNION {req[q].ids : q \in Request}}

-----------------------------------------------------------------------------
(* Sending codes *)

\* Any of the senders: what they differ in is the contacts.
SendBegin(r, rows) ==
  /\ Enter(r, [Idle EXCEPT !.at = "insert", !.rows = rows])
  /\ UNCHANGED <<accountVars, tableVars, historyVars>>

\* POST /otp: a code for any contact.
SendOtp(r, c) == SendBegin(r, <<c>>)

\* POST /vendor-auth/register/otp: for the two contacts of somebody who registers.
SendRegistrationOtp(r, n, e) == SendBegin(r, <<n, e>>)

\* POST /driver-auth/verification/otp.
SendVerificationOtp(r, d) ==
  /\ d \in active
  /\ SendBegin(r, <<contact[d].Number, contact[d].Email>>)

\* POST /driver-auth/login/otp and /customer-auth/login/otp.
SendLoginOtp(r, a) ==
  /\ a \in active
  /\ SendBegin(r, <<contact[a].Number>>)

\* POST forgot-password/otp: a driver is sent an SMS, a vendor a mail.
SendForgotPasswordOtp(r, a) ==
  /\ a \in active
  /\ SendBegin(r, <<IF a \in Driver THEN contact[a].Number ELSE contact[a].Email>>)

Sent(h) == {h.rows[i] : i \in DOMAIN h.rows}

\* Mutant of InsertOtps: the messages go out with the codes of rows inserted before.
InsertOtpsReversed(r) ==
  LET h == req[r] IN
  /\ h.at = "insert"
  /\ Len(otps) + Len(h.rows) <= MaxOtps
  /\ otps' = h.rows \o otps
  /\ req' = [req EXCEPT ![r] = [Idle EXCEPT !.at = "deliver", !.ids = DOMAIN h.rows]]
  /\ muddled' = muddled \ Sent(h)
  /\ UNCHANGED <<accountVars, expired, inbox, proved, drifted>>

\* otp.create, or createMany for two contacts: one statement.
InsertOtps(r) ==
  LET h == req[r] IN
  /\ h.at = "insert"
  /\ Len(otps) + Len(h.rows) <= MaxOtps
  /\ otps' = otps \o h.rows
  /\ req' = [req EXCEPT ![r] = [Idle EXCEPT
       !.at = "deliver", !.ids = Len(otps) + 1 .. Len(otps) + Len(h.rows)]]
  /\ muddled' = (muddled \ Sent(h)) \cup (Sent(h) \cap UnderWay)
  /\ UNCHANGED <<accountVars, expired, inbox, proved, drifted>>

\* One of the messages is done with; the other goes on.
Settle(r, i) ==
  /\ i \in req[r].ids
  /\ IF req[r].ids = {i} THEN Finish(r)
                         ELSE req' = [req EXCEPT ![r].ids = @ \ {i}]

\* The SMS or mail arrives.
Deliver(r, i) ==
  /\ Settle(r, i)
  /\ inbox' = [inbox EXCEPT ![otps[i]] = i]
  /\ UNCHANGED <<accountVars, otps, expired, historyVars>>

\* The provider reports a failure (400), or the message is lost: the row stays.
Lose(r, i) ==
  /\ Settle(r, i)
  /\ muddled' = muddled \cup {otps[i]}
  /\ UNCHANGED <<accountVars, tableVars, proved, drifted>>

\* expires_at of the oldest row that has not expired passes.
Expire ==
  /\ expired < Len(otps)
  /\ expired' = expired + 1
  /\ UNCHANGED <<accountVars, otps, inbox, historyVars, req>>

-----------------------------------------------------------------------------
(* Submitting codes *)

\* The handler has read the account and looks for the rows of the contacts in left.
VerifyBegin(r, flow, a, left) ==
  /\ a \in active
  /\ Enter(r, [Idle EXCEPT
       !.at = "match", !.flow = flow, !.who = a, !.read = contact[a], !.left = left])
  /\ UNCHANGED <<accountVars, tableVars, historyVars>>

\* POST /driver-auth/verification/otp/verify.
ConfirmBegin(r, d) == VerifyBegin(r, "confirm", d, {contact[d].Email, contact[d].Number})

\* Mutant of ResetPasswordBegin: the code of the email is asked for.
ResetPasswordBeginByEmail(r, d) == VerifyBegin(r, "reset", d, {contact[d].Email})

\* POST /driver-auth/forgot-password/reset.
ResetPasswordBegin(r, d) == VerifyBegin(r, "reset", d, {contact[d].Number})

\* Verifications that read no account first: POST /otp/verify, the vendor's
\* forgot-password/verify and registration/verify, which is two of them, each without
\* any effect but the answer; and forgot-password/reset of a vendor.
CheckBegin(r, flow, left) ==
  /\ Enter(r, [Idle EXCEPT !.at = "match", !.flow = flow, !.left = left])
  /\ UNCHANGED <<accountVars, tableVars, historyVars>>

\* POST /driver-auth/login/otp/verify and /customer-auth/login/otp/verify: the token that
\* follows a right code is not stored.
LoginBegin(r, a) == a \in active /\ CheckBegin(r, "check", {contact[a].Number})

\* Whether some code can be right.  A driver's reset searches for the code itself and
\* so accepts any row that has not expired; the others compare with the latest row.
Accepted(h, c) ==
  \E i \in RowsOf(c) : i > expired /\ (h.flow = "reset" \/ IsLatest(i, c))

\* What a handler that goes on does once all its codes are right.
AfterMatch(flow) == IF flow = "vendorReset" THEN "find" ELSE "write"

\* The row is read and the submitted code is right.
MatchOtp(r, c) ==
  LET h == req[r] IN
  /\ h.at = "match"
  /\ c \in h.left
  /\ Accepted(h, c)
  /\ proved' = proved \cup {c}
  /\ IF h.left # {c} THEN req' = [req EXCEPT ![r].left = @ \ {c}]
     ELSE IF h.flow = "check" THEN Finish(r)
     ELSE req' = [req EXCEPT ![r].at = AfterMatch(h.flow),
                             ![r].left = IF h.flow = "vendorReset" THEN {c} ELSE {}]
  /\ UNCHANGED <<accountVars, tableVars, drifted, muddled>>

\* No row, another code, or expired: 400.
MatchRefused(r) ==
  /\ req[r].at = "match"
  /\ Finish(r)
  /\ UNCHANGED <<accountVars, tableVars, historyVars>>

\* UPDATE driver SET is_email_verified, is_number_verified WHERE id: the contacts may
\* be others by now.
ConfirmWrite(r) ==
  LET h == req[r]
      stale == {ch \in Channel : contact[h.who][ch] # h.read[ch]} IN
  /\ h.at = "write"
  /\ h.flow = "confirm"
  /\ verified' = [verified EXCEPT ![h.who] = Channel]
  /\ drifted' = [drifted EXCEPT ![h.who] = stale]
  /\ Finish(r)
  /\ UNCHANGED <<active, contact, tableVars, proved, muddled>>

\* resetPasswordAsync of a vendor looks for the account after the code.
FindVendor(r, v) ==
  LET h == req[r] IN
  /\ h.at = "find"
  /\ v \in Vendor \cap active
  /\ contact[v].Email \in h.left
  /\ req' = [req EXCEPT ![r].at = "write", ![r].who = v, ![r].read = contact[v],
                        ![r].left = {}]
  /\ UNCHANGED <<accountVars, tableVars, historyVars>>

\* No active vendor, or the password is the present one: 400.
FindRefused(r) ==
  /\ req[r].at = "find"
  /\ Finish(r)
  /\ UNCHANGED <<accountVars, tableVars, historyVars>>

\* PUT /driver-auth/change-password: the old password was right.  Whether the driver is
\* deleted is not looked at.
ChangePasswordBegin(r, d) ==
  /\ Enter(r, [Idle EXCEPT !.at = "write", !.flow = "change", !.who = d])
  /\ UNCHANGED <<accountVars, tableVars, historyVars>>

\* The contacts whose codes entitle a request to its write.
Entitlement(h) ==
  CASE h.flow = "confirm" -> {h.read.Email, h.read.Number}
    [] h.flow = "reset" -> {h.read.Number}
    [] h.flow = "vendorReset" -> {h.read.Email}
    [] h.flow = "change" -> {}

\* UPDATE driver (or vendor) SET password WHERE id.  The hash is not modelled.
PasswordWrite(r) ==
  /\ req[r].at = "write"
  /\ req[r].flow # "confirm"
  /\ Finish(r)
  /\ UNCHANGED <<accountVars, tableVars, historyVars>>

-----------------------------------------------------------------------------
(* Changing contacts *)

\* Mutant of Applied: the fields a body leaves out are written, too.
AppliedAsSent(old, body) == body

Applied(old, body) ==
  [ch \in Channel |-> IF body[ch] = None THEN old[ch] ELSE body[ch]]

\* PUT /driver/profile/me/info: the driver's row is read, deleted or not.
ProfileBegin(r, d, body) ==
  /\ Enter(r, [Idle EXCEPT
       !.at = "profile", !.who = d, !.read = contact[d], !.body = body])
  /\ UNCHANGED <<accountVars, tableVars, historyVars>>

\* Mutant of Reset: only a change of the email resets its flag.
ResetEmailOnly(h) == {ch \in {"Email"} : h.body[ch] \notin {None, h.read[ch]}}

\* The flags that updateProfileAsync resets: it compares with the row as it was read.
Reset(h) == {ch \in Channel : h.body[ch] \notin {None, h.read[ch]}}

\* UPDATE driver SET ... WHERE id.
ProfileWrite(r) ==
  LET h == req[r]
      old == contact[h.who]
      new == Applied(old, h.body)
      kept == verified[h.who] \ Reset(h) IN
  /\ h.at = "profile"
  /\ contact' = [contact EXCEPT ![h.who] = new]
  /\ verified' = [verified EXCEPT ![h.who] = kept]
  \* Replaced in spite of the comparison: the row has changed since it was read.
  /\ drifted' = [drifted EXCEPT ![h.who] =
       (@ \cap kept) \cup {ch \in kept : new[ch] # old[ch] /\ old[ch] # h.read[ch]}]
  /\ Finish(r)
  /\ UNCHANGED <<active, tableVars, proved, muddled>>

\* PUT /driver/:id by the vendor, PUT /vendor/:id, PUT /customer/me/info: no flag is reset.
\* That of a vendor does not look whether the vendor is deleted.
EditAccount(a, body) ==
  LET new == Applied(contact[a], body) IN
  /\ a \in active \cup Vendor
  /\ contact' = [contact EXCEPT ![a] = new]
  /\ drifted' = [d \in Driver |-> IF d # a THEN drifted[d] ELSE
       drifted[d] \cup {ch \in verified[d] : new[ch] # contact[a][ch]}]
  /\ UNCHANGED <<active, verified, tableVars, proved, muddled, req>>

\* is_deleted is set.
DeleteAccount(a) ==
  /\ a \in active
  /\ active' = active \ {a}
  /\ UNCHANGED <<contact, verified, tableVars, historyVars, req>>

\* The process stops, or a statement throws.
Fail(r) ==
  /\ req[r] # Idle
  /\ Finish(r)
  /\ muddled' = muddled \cup {otps[i] : i \in req[r].ids}
  /\ UNCHANGED <<accountVars, tableVars, proved, drifted>>

-----------------------------------------------------------------------------

Init ==
  /\ active \in SUBSET Account
  /\ contact \in [Account -> Contacts]
  /\ verified = [d \in Driver |-> {}]
  /\ otps = <<>>
  /\ expired = 0
  /\ inbox = [c \in Contact |-> 0]
  /\ proved = {}
  /\ drifted = [d \in Driver |-> {}]
  /\ muddled = {}
  /\ req = [r \in Request |-> Idle]

Send(r) ==
  \/ \E c \in Contact : SendOtp(r, c)
  \/ \E n \in Number, e \in Email : SendRegistrationOtp(r, n, e)
  \/ \E d \in Driver : SendVerificationOtp(r, d)
  \/ \E a \in Driver \cup Customer : SendLoginOtp(r, a)
  \/ \E a \in Driver \cup Vendor : SendForgotPasswordOtp(r, a)
  \/ InsertOtps(r)
  \/ \E i \in req[r].ids : Deliver(r, i) \/ Lose(r, i)

Verify(r) ==
  \/ \E d \in Driver : ConfirmBegin(r, d) \/ ResetPasswordBegin(r, d)
  \/ \E a \in Driver \cup Customer : LoginBegin(r, a)
  \/ \E c \in Contact : CheckBegin(r, "check", {c})
  \/ \E e \in Email : CheckBegin(r, "vendorReset", {e})
  \/ \E c \in req[r].left : MatchOtp(r, c)
  \/ MatchRefused(r)
  \/ ConfirmWrite(r)
  \/ \E v \in Vendor : FindVendor(r, v)
  \/ FindRefused(r)
  \/ \E d \in Driver : ChangePasswordBegin(r, d)
  \/ PasswordWrite(r)

Change(r) ==
  \/ \E d \in Driver, body \in Body : ProfileBegin(r, d, body)
  \/ ProfileWrite(r)

Next ==
  \/ \E r \in Request : Send(r) \/ Verify(r) \/ Change(r) \/ Fail(r)
  \/ \E a \in Account : (\E body \in Body : EditAccount(a, body)) \/ DeleteAccount(a)
  \/ Expire

Spec == Init /\ [][Next]_vars

-----------------------------------------------------------------------------
(* Properties *)

\* Columns, rows and handlers have their types, and a message is of a row of its contact.
TypeOK ==
  /\ active \subseteq Account
  /\ contact \in [Account -> Contacts]
  /\ verified \in [Driver -> SUBSET Channel]
  /\ otps \in Seq(Contact) /\ Len(otps) <= MaxOtps
  /\ expired \in 0..Len(otps)
  /\ inbox \in [Contact -> 0..MaxOtps]
  /\ proved \subseteq Contact
  /\ drifted \in [Driver -> SUBSET Channel]
  /\ muddled \subseteq Contact
  /\ req \in [Request -> Handler]

\* updateProfileAsync resets a flag when its contact changes: a flag that is set is about
\* the present contact, and somebody submitted the code that was sent there.  The
\* vendor's edit, which resets nothing, and the races are what drifted records.
VerifiedContactIsProved ==
  \A d \in Driver : \A ch \in verified[d] \ drifted[d] : contact[d][ch] \in proved

\* Whoever is about to set the flags or a password without the old one has submitted
\* the codes of the account's own contacts, as they were when the handler read them.
WritesAreEntitled ==
  \A r \in Request : req[r].at = "write" => Entitlement(req[r]) \subseteq proved

\* verifyOtp accepts only the latest code: where sends to a contact neither overlapped
\* nor failed, the code that arrived last is the one that is accepted.
LastArrivalIsLatest ==
  \A c \in Contact \ (muddled \cup UnderWay) :
    RowsOf(c) # {} => IsLatest(inbox[c], c)
=============================================================================
