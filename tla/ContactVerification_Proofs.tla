---------------------- MODULE ContactVerification_Proofs ----------------------
(***************************************************************************)
(* What the one-time codes prove, for any number of accounts, contacts,    *)
(* codes and requests.  Inv adds to the properties what a handler may rely *)
(* on although it read the account before: the codes it has seen submitted *)
(* are those of the contacts it read, and the code of a contact whose      *)
(* sends do not overlap is still the latest when it arrives.               *)
(***************************************************************************)
EXTENDS ContactVerification, SequenceTheorems, TLAPS

\* What every handler knows at its stage.
HandlerOK(h) ==
  /\ h.at # "deliver" => h.ids = {}
  /\ h.at = "insert" =>
       \A i, j \in 1..Len(h.rows) : h.rows[i] = h.rows[j] => i = j
  /\ h.at \in {"match", "write"} =>
       /\ h.flow \in {"confirm", "reset"} =>
            h.who \in Driver /\ h.read \in Contacts /\ Entitlement(h) \ h.left \subseteq proved
       /\ h.at = "match" => h.flow \in {"confirm", "check", "reset", "vendorReset"}
  /\ h.at = "find" => h.left \subseteq proved /\ h.flow = "vendorReset"
  /\ h.at = "write" =>
       /\ h.flow \in {"confirm", "reset", "vendorReset", "change"}
       /\ Entitlement(h) \subseteq proved
  /\ h.at = "profile" => h.who \in Driver /\ h.read \in Contacts /\ h.body \in Body

Handlers == \A r \in Request : HandlerOK(req[r])

\* Messages are of rows that were inserted.
Inserted == \A r \in Request : req[r].ids \subseteq 1..Len(otps)

\* A message under way to a contact is of its latest row, unless sends overlapped.
PendingIsLatest ==
  \A r \in Request : \A i \in req[r].ids :
    otps[i] \notin muddled => IsLatest(i, otps[i])

Inv ==
  /\ TypeOK /\ Handlers /\ Inserted /\ PendingIsLatest
  /\ VerifiedContactIsProved /\ LastArrivalIsLatest

-----------------------------------------------------------------------------
(* Types *)

LEMMA IdleType ==
  /\ Idle \in Handler /\ HandlerOK(Idle)
  /\ Idle.at = "idle" /\ Idle.flow = "none" /\ Idle.who = None /\ Idle.read = None
  /\ Idle.body = None /\ Idle.rows = <<>> /\ Idle.ids = {} /\ Idle.left = {}
<1>1. <<>> \in Seq(Contact)
  BY EmptySeq
<1> QED BY <1>1 DEF Idle, Handler, Stage, Flow, HandlerOK

\* Columns of an account.
LEMMA ContactsType ==
  ASSUME NEW c \in Contacts
  PROVE  /\ c.Email \in Email /\ c.Number \in Number
         /\ c["Email"] = c.Email /\ c["Number"] = c.Number
         /\ \A ch \in Channel : c[ch] \in Contact
BY DEF Contacts, Channel, Contact

LEMMA AppliedType ==
  ASSUME NEW old \in Contacts, NEW body \in Body
  PROVE  /\ Applied(old, body) \in Contacts
         /\ \A ch \in Channel :
              Applied(old, body)[ch] = (IF body[ch] = None THEN old[ch] ELSE body[ch])
BY DEF Contacts, Body, Applied, Channel

LEMMA InitInv == Init => Inv
<1> SUFFICES ASSUME Init PROVE Inv OBVIOUS
<1>1. otps \in Seq(Contact) /\ Len(otps) = 0 /\ DOMAIN otps = {}
  BY EmptySeq DEF Init
<1>2. MaxOtps \in Nat
  BY ConstantsAssumption
<1>3. TypeOK
  BY <1>1, <1>2, IdleType DEF Init, TypeOK
<1>4. \A r \in Request : req[r] = Idle
  BY DEF Init
<1>5. Handlers /\ Inserted /\ PendingIsLatest
  BY <1>4, IdleType DEF Handlers, Inserted, PendingIsLatest
<1>6. VerifiedContactIsProved /\ LastArrivalIsLatest
  BY <1>1 DEF Init, VerifiedContactIsProved, LastArrivalIsLatest, RowsOf
<1> QED BY <1>3, <1>5, <1>6 DEF Inv

-----------------------------------------------------------------------------
(* Steps that leave the codes alone *)

\* A handler stays what it is when more codes have been submitted.
LEMMA HandlerKept ==
  ASSUME NEW h \in Handler, HandlerOK(h), proved \subseteq proved'
  PROVE  HandlerOK(h)'
BY DEF HandlerOK, Entitlement

\* A request goes on as h, which delivers nothing; the table otp is left alone, and so
\* is what is said about accounts, or it stays right.
LEMMA AccountStep ==
  ASSUME Inv, NEW r \in Request, NEW h \in Handler, HandlerOK(h)', h.ids = {},
         req[r].ids = {}, req' = [req EXCEPT ![r] = h],
         UNCHANGED <<tableVars, muddled>>,
         proved \subseteq proved', proved' \subseteq Contact,
         active' \subseteq Account, contact' \in [Account -> Contacts],
         verified' \in [Driver -> SUBSET Channel], drifted' \in [Driver -> SUBSET Channel],
         VerifiedContactIsProved'
  PROVE  Inv'
<1>1. /\ req' \in [Request -> Handler] /\ req'[r] = h
      /\ \A q \in Request \ {r} : req'[q] = req[q]
  BY DEF Inv, TypeOK
<1>2. TypeOK'
  BY <1>1 DEF tableVars, Inv, TypeOK
<1>3. Handlers'
  <2>1. ASSUME NEW q \in Request \ {r} PROVE HandlerOK(req[q])'
    <3>1. PICK g \in Handler : g = req[q] /\ HandlerOK(g)
      BY DEF Inv, TypeOK, Handlers
    <3>2. HandlerOK(g)' /\ req'[q] = g
      BY <1>1, <3>1, HandlerKept
    <3> QED BY <3>2
  <2>2. HandlerOK(req[r])'
    BY <1>1
  <2> QED BY <2>1, <2>2 DEF Handlers
<1>4. \A q \in Request : req'[q].ids = req[q].ids
  BY <1>1
<1>5. Inserted' /\ PendingIsLatest'
  BY <1>4 DEF tableVars, Inv, Inserted, PendingIsLatest, IsLatest, RowsOf
<1>6. UnderWay' = UnderWay
  BY <1>4 DEF tableVars, UnderWay
<1>7. LastArrivalIsLatest'
  BY <1>6 DEF tableVars, Inv, LastArrivalIsLatest, IsLatest, RowsOf
<1> QED BY <1>2, <1>3, <1>5, <1>7 DEF Inv

\* A handler that changes no account.
LEMMA HandlerStep ==
  ASSUME Inv, NEW r \in Request, NEW h \in Handler, HandlerOK(h)', h.ids = {},
         req[r].ids = {}, req' = [req EXCEPT ![r] = h],
         UNCHANGED <<accountVars, tableVars, muddled, drifted>>,
         proved \subseteq proved', proved' \subseteq Contact
  PROVE  Inv'
<1>1. /\ active' \subseteq Account /\ contact' \in [Account -> Contacts]
      /\ verified' \in [Driver -> SUBSET Channel] /\ drifted' \in [Driver -> SUBSET Channel]
      /\ UNCHANGED <<tableVars, muddled>>
  BY DEF accountVars, Inv, TypeOK
<1>2. VerifiedContactIsProved'
  BY DEF accountVars, Inv, VerifiedContactIsProved
<1> QED BY <1>1, <1>2, AccountStep

\* A call arrives.
LEMMA EnterStep ==
  ASSUME Inv, NEW r \in Request, NEW h \in Handler, HandlerOK(h)', h.ids = {}, Enter(r, h),
         UNCHANGED <<accountVars, tableVars, historyVars>>
  PROVE  Inv'
<1>1. req[r].ids = {} /\ req' = [req EXCEPT ![r] = h]
  BY IdleType DEF Enter
<1>2. /\ UNCHANGED <<accountVars, tableVars, muddled, drifted>>
      /\ proved \subseteq proved' /\ proved' \subseteq Contact
  BY DEF historyVars, Inv, TypeOK
<1> QED BY <1>1, <1>2, HandlerStep

\* Nothing is under way at this request, and it ends.
LEMMA FinishStep ==
  ASSUME Inv, NEW r \in Request, req[r].at # "deliver", Finish(r),
         UNCHANGED <<accountVars, tableVars, historyVars>>
  PROVE  Inv'
<1>1. req[r].ids = {} /\ req' = [req EXCEPT ![r] = Idle]
  BY DEF Inv, Handlers, HandlerOK, Finish
<1>2. HandlerOK(Idle)'
  BY IdleType DEF HandlerOK
<1>3. /\ UNCHANGED <<accountVars, tableVars, muddled, drifted>>
      /\ proved \subseteq proved' /\ proved' \subseteq Contact
  BY DEF historyVars, Inv, TypeOK
<1> QED BY <1>1, <1>2, <1>3, IdleType, HandlerStep

\* The contacts of a body are written over those of an account, and what was replaced is
\* recorded.
LEMMA EditInv ==
  ASSUME Inv, NEW a \in Account, NEW body \in Body, EditAccount(a, body)
  PROVE  Inv'
<1>1. contact[a] \in Contacts
  BY DEF Inv, TypeOK
<1>2. PICK new \in Contacts : new = Applied(contact[a], body)
  BY <1>1, AppliedType
<1>3. /\ contact' = [contact EXCEPT ![a] = new]
      /\ drifted' = [d \in Driver |-> IF d # a THEN drifted[d] ELSE
           drifted[d] \cup {ch \in verified[d] : new[ch] # contact[a][ch]}]
      /\ UNCHANGED <<active, verified, tableVars, proved, muddled, req>>
  BY <1>2 DEF EditAccount
<1>4. contact' \in [Account -> Contacts] /\ drifted' \in [Driver -> SUBSET Channel]
  <2>1. \A d \in Driver : drifted'[d] \in SUBSET Channel
    BY <1>3 DEF Inv, TypeOK
  <2> QED BY <1>3, <2>1 DEF Inv, TypeOK
<1>5. VerifiedContactIsProved'
  <2> SUFFICES ASSUME NEW d \in Driver, NEW ch \in verified'[d] \ drifted'[d]
               PROVE  contact'[d][ch] \in proved'
    BY DEF VerifiedContactIsProved
  <2>1. d \in Account /\ ch \in verified[d] \ drifted[d]
    BY <1>3 DEF Account
  <2>2. contact'[d][ch] = contact[d][ch]
    BY <1>3, <2>1 DEF Inv, TypeOK
  <2> QED BY <1>3, <2>1, <2>2 DEF Inv, VerifiedContactIsProved
<1>6. TypeOK' /\ Handlers' /\ Inserted' /\ PendingIsLatest' /\ LastArrivalIsLatest'
  BY <1>3, <1>4 DEF tableVars, Inv, TypeOK, Handlers, HandlerOK, Entitlement, Inserted,
                    PendingIsLatest, LastArrivalIsLatest, IsLatest, RowsOf, UnderWay
<1> QED BY <1>5, <1>6 DEF Inv

\* Steps of the environment that touch neither contacts nor requests.
LEMMA OutsideInv ==
  ASSUME Inv, Expire \/ \E a \in Account : DeleteAccount(a)
  PROVE  Inv'
<1>1. /\ active' \subseteq Account
      /\ UNCHANGED <<contact, verified, otps, inbox, historyVars, req>>
  BY DEF Expire, DeleteAccount, accountVars, tableVars, Inv, TypeOK
<1>2. expired' \in 0..Len(otps)
  <2>1. Len(otps) \in Nat
    BY LenProperties DEF Inv, TypeOK
  <2> QED BY <2>1 DEF Expire, DeleteAccount, tableVars, Inv, TypeOK
<1> QED BY <1>1, <1>2 DEF historyVars, Inv, TypeOK, Handlers, HandlerOK, Entitlement, Inserted,
             PendingIsLatest, LastArrivalIsLatest, IsLatest, RowsOf, UnderWay,
             VerifiedContactIsProved

-----------------------------------------------------------------------------
(* Sending codes *)

LEMMA SendInv ==
  ASSUME Inv, NEW r \in Request,
         \/ \E c \in Contact : SendOtp(r, c)
         \/ \E n \in Number, e \in Email : SendRegistrationOtp(r, n, e)
         \/ \E d \in Driver : SendVerificationOtp(r, d)
         \/ \E a \in Driver \cup Customer : SendLoginOtp(r, a)
         \/ \E a \in Driver \cup Vendor : SendForgotPasswordOtp(r, a)
  PROVE  Inv'
<1>1. \A a \in Account : contact[a].Email \in Email /\ contact[a].Number \in Number
  BY ContactsType DEF Inv, TypeOK
<1>2. PICK rows : /\ SendBegin(r, rows)
                  /\ \/ \E c \in Contact : rows = <<c>>
                     \/ \E n \in Number, e \in Email : rows = <<n, e>>
  BY <1>1 DEF SendOtp, SendRegistrationOtp, SendVerificationOtp, SendLoginOtp,
              SendForgotPasswordOtp, Account, Contact
<1>3. /\ rows \in Seq(Contact)
      /\ \A i, j \in 1..Len(rows) : rows[i] = rows[j] => i = j
  <2>1. CASE \E c \in Contact : rows = <<c>>
    BY <2>1
  <2>2. CASE \E n \in Number, e \in Email : rows = <<n, e>>
    <3>1. PICK n \in Number, e \in Email : rows = <<n, e>>
      BY <2>2
    <3>2. n \in Contact /\ e \in Contact /\ n # e
      BY ConstantsAssumption DEF Contact
    <3>3. Len(rows) = 2 /\ rows[1] = n /\ rows[2] = e
      BY <3>1
    <3> QED BY <3>1, <3>2, <3>3
  <2> QED BY <1>2, <2>1, <2>2
<1> DEFINE h == [Idle EXCEPT !.at = "insert", !.rows = rows]
<1>4. /\ h \in Handler /\ h.at = "insert" /\ h.rows = rows /\ h.ids = {}
  BY <1>3, IdleType DEF Handler, Stage, Idle
<1>5. Enter(r, h) /\ UNCHANGED <<accountVars, tableVars, historyVars>>
  BY <1>2 DEF SendBegin
<1> HIDE DEF h
<1>6. PICK g \in Handler : g = h
  BY <1>4
<1>7. HandlerOK(g)'
  BY <1>3, <1>4, <1>6 DEF HandlerOK
<1> QED BY <1>4, <1>5, <1>6, <1>7, EnterStep

\* The rows of a send are the latest of their contacts.
LEMMA InsertInv ==
  ASSUME Inv, NEW r \in Request, InsertOtps(r)
  PROVE  Inv'
<1>1. /\ req \in [Request -> Handler] /\ req[r] \in Handler /\ HandlerOK(req[r])
      /\ req[r].at = "insert" /\ otps \in Seq(Contact)
      /\ UNCHANGED <<accountVars, expired, inbox, proved, drifted>>
  BY DEF Inv, TypeOK, Handlers, InsertOtps
<1>2. PICK rows \in Seq(Contact) : rows = req[r].rows
  BY <1>1 DEF Handler
<1>3. PICK n \in Nat : n = Len(otps)
  BY <1>1, LenProperties
<1>4. PICK m \in Nat : m = Len(rows)
  BY LenProperties
<1>5. /\ \A i, j \in 1..m : rows[i] = rows[j] => i = j
      /\ req[r].ids = {} /\ n + m <= MaxOtps
  BY <1>1, <1>2, <1>3, <1>4 DEF HandlerOK, InsertOtps
<1>6. /\ otps' \in Seq(Contact) /\ Len(otps') = n + m
      /\ \A i \in 1..n : otps'[i] = otps[i]
      /\ \A i \in n + 1 .. n + m : otps'[i] = rows[i - n] /\ i - n \in 1..m
  <2>1. otps' = otps \o rows
    BY <1>2 DEF InsertOtps
  <2> QED BY <1>1, <1>3, <1>4, <2>1, ConcatProperties
<1>7. DOMAIN otps = 1..n /\ DOMAIN otps' = 1 .. n + m /\ DOMAIN rows = 1..m
  BY <1>1, <1>3, <1>4, <1>6, LenProperties
<1> DEFINE h == [Idle EXCEPT !.at = "deliver", !.ids = n + 1 .. n + m]
<1>8. h \in Handler /\ h.at = "deliver" /\ h.ids = n + 1 .. n + m
  <2>1. n + 1 .. n + m \subseteq 1..MaxOtps
    BY <1>5, ConstantsAssumption
  <2> QED BY <2>1, IdleType DEF Handler, Stage, Idle
<1>9. req' = [req EXCEPT ![r] = h]
  BY <1>2, <1>3, <1>4 DEF InsertOtps
<1> HIDE DEF h
<1>10. req' \in [Request -> Handler] /\ req'[r] = h /\ \A q \in Request \ {r} : req'[q] = req[q]
  BY <1>1, <1>8, <1>9
<1>11. /\ Sent(req[r]) \subseteq Contact
       /\ \A c : c \in Sent(req[r]) <=> \E i \in n + 1 .. n + m : otps'[i] = c
  <2>1. \A c : c \in Sent(req[r]) <=> \E i \in 1..m : rows[i] = c
    BY <1>2, <1>7 DEF Sent
  <2>2. \A i \in 1..m : i + n \in n + 1 .. n + m /\ (i + n) - n = i /\ rows[i] \in Contact
    BY <1>3, <1>4, ElementOfSeq
  <2>3. \A i \in 1..m : i + n \in n + 1 .. n + m /\ otps'[i + n] = rows[i]
    BY <1>6, <2>2
  <2>4. ASSUME NEW i \in n + 1 .. n + m PROVE i - n \in 1..m /\ rows[i - n] = otps'[i]
    BY <1>6
  <2>5. \A c : (\E i \in 1..m : rows[i] = c) <=> \E i \in n + 1 .. n + m : otps'[i] = c
    BY <2>3, <2>4
  <2>6. Sent(req[r]) \subseteq Contact
    BY <2>1, <2>2
  <2> QED BY <2>1, <2>5, <2>6
<1>12. muddled' = (muddled \ Sent(req[r])) \cup (Sent(req[r]) \cap UnderWay)
  BY DEF InsertOtps
<1>13. TypeOK'
  <2>1. expired' \in 0..Len(otps') /\ Len(otps') <= MaxOtps
    BY <1>1, <1>3, <1>4, <1>5, <1>6 DEF Inv, TypeOK
  <2> QED BY <1>1, <1>6, <1>10, <1>11, <1>12, <2>1 DEF accountVars, Inv, TypeOK
<1>14. Handlers'
  <2>1. ASSUME NEW q \in Request \ {r} PROVE HandlerOK(req[q])'
    <3>1. PICK g \in Handler : g = req[q] /\ HandlerOK(g)
      BY <1>1 DEF Inv, Handlers
    <3>2. HandlerOK(g)' /\ req'[q] = g
      BY <1>1, <1>10, <3>1, HandlerKept
    <3> QED BY <3>2
  <2>2. PICK g \in Handler : g = h
    BY <1>8
  <2>3. HandlerOK(g)' /\ req'[r] = g
    BY <1>8, <1>10, <2>2 DEF HandlerOK
  <2> QED BY <2>1, <2>3 DEF Handlers
<1>15. Inserted'
  BY <1>3, <1>4, <1>6, <1>8, <1>10 DEF Inv, Inserted
<1>16. \A q \in Request \ {r} : \A i \in req'[q].ids : i \in 1..n /\ i \in req[q].ids
  BY <1>3, <1>10 DEF Inv, Inserted
<1>17. ASSUME NEW i \in n + 1 .. n + m
       PROVE  IsLatest(i, otps[i])'
  <2>1. ASSUME NEW j \in 1 .. n + m, otps'[j] = otps'[i] PROVE j <= i
    <3>1. CASE j \in 1..n
      BY <3>1
    <3>2. CASE j \in n + 1 .. n + m
      <4>1. j - n = i - n
        BY <1>5, <1>6, <2>1, <3>2
      <4> QED BY <3>2, <4>1
    <3> QED BY <3>1, <3>2
  <2> QED BY <1>7, <2>1 DEF IsLatest, RowsOf
<1>18. ASSUME NEW c \in Contact \ Sent(req[r])
       PROVE  /\ RowsOf(c)' = RowsOf(c)
              /\ \A i : IsLatest(i, c)' <=> IsLatest(i, c)
              /\ c \in muddled' <=> c \in muddled
  <2>1. RowsOf(c)' = RowsOf(c)
    BY <1>6, <1>7, <1>11 DEF RowsOf
  <2> QED BY <1>12, <2>1 DEF IsLatest
<1>19. PendingIsLatest'
  <2> SUFFICES ASSUME NEW q \in Request, NEW i \in req'[q].ids, otps'[i] \notin muddled'
               PROVE  IsLatest(i, otps[i])'
    BY DEF PendingIsLatest
  <2>1. CASE q = r
    BY <1>8, <1>10, <1>17, <2>1
  <2>2. CASE q # r
    <3>1. PICK c \in Contact : c = otps[i] /\ c = otps'[i]
      BY <1>1, <1>3, <1>6, <1>16, <2>2, ElementOfSeq
    <3>2. c \in UnderWay
      BY <1>7, <1>16, <2>2, <3>1 DEF UnderWay
    <3>3. c \notin Sent(req[r])
      BY <1>12, <3>1, <3>2
    <3>4. IsLatest(i, c)
      BY <1>16, <1>18, <2>2, <3>1, <3>3 DEF Inv, PendingIsLatest
    <3> QED BY <1>18, <3>1, <3>3, <3>4 DEF IsLatest
  <2> QED BY <2>1, <2>2
<1>20. LastArrivalIsLatest'
  <2> SUFFICES ASSUME NEW c \in Contact, c \notin muddled', c \notin UnderWay', RowsOf(c)' # {}
               PROVE  IsLatest(inbox[c], c)'
    BY DEF LastArrivalIsLatest, IsLatest
  <2>1. c \notin Sent(req[r])
    BY <1>8, <1>10, <1>11 DEF UnderWay
  <2>2. c \notin UnderWay
    <3> SUFFICES ASSUME c \in UnderWay PROVE FALSE
      OBVIOUS
    <3>0. PICK q \in Request : \E i \in req[q].ids : otps[i] = c
      BY DEF UnderWay
    <3>1. PICK i : i \in req[q].ids /\ otps[i] = c
      BY <3>0
    <3>2. q # r /\ i \in 1..n
      BY <1>3, <1>5, <3>1 DEF Inv, Inserted
    <3>3. i \in req'[q].ids /\ otps'[i] = c
      BY <1>6, <1>10, <3>1, <3>2
    <3> QED BY <3>3 DEF UnderWay
  <2>3. IsLatest(inbox[c], c)
    BY <1>18, <2>1, <2>2 DEF Inv, LastArrivalIsLatest
  <2> QED BY <1>1, <1>18, <2>1, <2>3 DEF IsLatest
<1>21. VerifiedContactIsProved'
  BY <1>1 DEF accountVars, Inv, VerifiedContactIsProved
<1> QED BY <1>13, <1>14, <1>15, <1>19, <1>20, <1>21 DEF Inv

\* Messages are done with: one that does not arrive is recorded.
LEMMA SettleStep ==
  ASSUME Inv, NEW r \in Request, NEW h \in Handler, HandlerOK(h)',
         h.ids \subseteq req[r].ids, req' = [req EXCEPT ![r] = h],
         UNCHANGED <<accountVars, otps, expired, proved, drifted>>,
         muddled \subseteq muddled', muddled' \subseteq Contact,
         inbox' \in [Contact -> 0..MaxOtps],
         \A c \in Contact \ muddled' : inbox'[c] = inbox[c] \/ IsLatest(inbox'[c], c),
         \A i \in req[r].ids \ h.ids :
           otps[i] \notin muddled' => IsLatest(inbox'[otps[i]], otps[i])
  PROVE  Inv'
<1>1. /\ req' \in [Request -> Handler] /\ req'[r] = h
      /\ \A q \in Request \ {r} : req'[q] = req[q]
      /\ \A q \in Request : req'[q].ids \subseteq req[q].ids
  BY DEF Inv, TypeOK
<1>2. TypeOK'
  BY <1>1 DEF accountVars, Inv, TypeOK
<1>3. Handlers'
  <2>1. ASSUME NEW q \in Request \ {r} PROVE HandlerOK(req[q])'
    <3>1. PICK g \in Handler : g = req[q] /\ HandlerOK(g)
      BY DEF Inv, TypeOK, Handlers
    <3>2. HandlerOK(g)' /\ req'[q] = g
      BY <1>1, <3>1, HandlerKept
    <3> QED BY <3>2
  <2>2. HandlerOK(req[r])'
    BY <1>1
  <2> QED BY <2>1, <2>2 DEF Handlers
<1>4. Inserted' /\ PendingIsLatest'
  BY <1>1 DEF Inv, Inserted, PendingIsLatest, IsLatest, RowsOf
<1>5. LastArrivalIsLatest'
  <2> SUFFICES ASSUME NEW c \in Contact, c \notin muddled', c \notin UnderWay', RowsOf(c) # {}
               PROVE  IsLatest(inbox'[c], c)
    BY DEF LastArrivalIsLatest, IsLatest, RowsOf
  <2>1. CASE c \in UnderWay
    <3>0. PICK q \in Request : \E i \in req[q].ids : otps[i] = c
      BY <2>1 DEF UnderWay
    <3>1. PICK i : i \in req[q].ids /\ otps[i] = c
      BY <3>0
    <3>2. i \notin req'[q].ids
      BY <3>1 DEF UnderWay
    <3>3. q = r /\ i \notin h.ids
      BY <1>1, <3>1, <3>2
    <3> QED BY <3>1, <3>3
  <2>2. CASE c \notin UnderWay
    BY <2>2 DEF Inv, LastArrivalIsLatest
  <2> QED BY <2>1, <2>2
<1>6. VerifiedContactIsProved'
  BY DEF accountVars, Inv, VerifiedContactIsProved
<1> QED BY <1>2, <1>3, <1>4, <1>5, <1>6 DEF Inv

LEMMA DeliverInv ==
  ASSUME Inv, NEW r \in Request, NEW i \in req[r].ids, Deliver(r, i) \/ Lose(r, i)
  PROVE  Inv'
<1>1. /\ req[r] \in Handler /\ HandlerOK(req[r]) /\ i \in 1..MaxOtps /\ otps[i] \in Contact
  <2>1. i \in 1..Len(otps) /\ otps \in Seq(Contact)
    BY DEF Inv, TypeOK, Inserted
  <2> QED BY <2>1, ElementOfSeq DEF Inv, TypeOK, Handlers, Handler
<1>2. PICK h \in Handler :
        /\ req' = [req EXCEPT ![r] = h] /\ h.ids = req[r].ids \ {i}
        /\ h = Idle \/ h.at = "deliver"
  <2>1. Settle(r, i) /\ req[r].at = "deliver"
    BY <1>1 DEF Deliver, Lose, HandlerOK
  <2>2. CASE req[r].ids = {i}
    BY <2>1, <2>2, IdleType DEF Settle, Finish
  <2>3. CASE req[r].ids # {i}
    <3> DEFINE h == [req[r] EXCEPT !.ids = @ \ {i}]
    <3>1. h \in Handler /\ h.ids = req[r].ids \ {i} /\ h.at = "deliver"
      BY <1>1, <2>1 DEF Handler
    <3>2. req' = [req EXCEPT ![r] = h]
      BY <2>1, <2>3 DEF Settle
    <3> HIDE DEF h
    <3> QED BY <3>1, <3>2
  <2> QED BY <2>2, <2>3
<1>3. HandlerOK(h)'
  BY <1>2, IdleType DEF HandlerOK
<1>4. UNCHANGED <<accountVars, otps, expired, proved, drifted>>
  BY DEF Deliver, Lose, historyVars, tableVars
<1>5. CASE Deliver(r, i)
  <2>1. muddled' = muddled /\ inbox' = [inbox EXCEPT ![otps[i]] = i]
    BY <1>5 DEF Deliver, historyVars
  <2>2. inbox' \in [Contact -> 0..MaxOtps] /\ muddled \subseteq Contact
    BY <1>1, <2>1 DEF Inv, TypeOK
  <2>3. otps[i] \notin muddled => IsLatest(i, otps[i])
    BY DEF Inv, PendingIsLatest
  <2>4. \A c \in Contact \ muddled' : inbox'[c] = inbox[c] \/ IsLatest(inbox'[c], c)
    BY <1>1, <2>1, <2>3 DEF Inv, TypeOK
  <2>5. \A j \in req[r].ids \ h.ids :
          otps[j] \notin muddled' => IsLatest(inbox'[otps[j]], otps[j])
    BY <1>1, <1>2, <2>1, <2>3 DEF Inv, TypeOK
  <2> QED BY <1>2, <1>3, <1>4, <2>1, <2>2, <2>4, <2>5, SettleStep
<1>6. CASE Lose(r, i)
  <2>1. /\ muddled' = muddled \cup {otps[i]} /\ inbox' = inbox
        /\ muddled' \subseteq Contact /\ inbox' \in [Contact -> 0..MaxOtps]
    BY <1>1, <1>6 DEF Lose, tableVars, Inv, TypeOK
  <2>2. \A j \in req[r].ids \ h.ids : otps[j] \in muddled'
    BY <1>2, <2>1
  <2> QED BY <1>2, <1>3, <1>4, <2>1, <2>2, SettleStep
<1> QED BY <1>5, <1>6

LEMMA FailInv ==
  ASSUME Inv, NEW r \in Request, Fail(r)
  PROVE  Inv'
<1>1. \A i \in req[r].ids : otps[i] \in Contact
  BY ElementOfSeq DEF Inv, TypeOK, Inserted
<1>2. /\ req' = [req EXCEPT ![r] = Idle] /\ inbox' = inbox
      /\ muddled' = muddled \cup {otps[i] : i \in req[r].ids}
      /\ UNCHANGED <<accountVars, otps, expired, proved, drifted>>
  BY DEF Fail, Finish, tableVars
<1>3. /\ muddled \subseteq muddled' /\ muddled' \subseteq Contact
      /\ inbox' \in [Contact -> 0..MaxOtps]
      /\ \A i \in req[r].ids : otps[i] \in muddled'
  BY <1>1, <1>2 DEF Inv, TypeOK
<1>4. HandlerOK(Idle)'
  BY IdleType DEF HandlerOK
<1> QED BY <1>2, <1>3, <1>4, IdleType, SettleStep

-----------------------------------------------------------------------------
(* Submitting codes *)

LEMMA BeginInv ==
  ASSUME Inv, NEW r \in Request,
         \/ \E d \in Driver : ConfirmBegin(r, d) \/ ResetPasswordBegin(r, d)
         \/ \E a \in Driver \cup Customer : LoginBegin(r, a)
         \/ \E c \in Contact : CheckBegin(r, "check", {c})
         \/ \E e \in Email : CheckBegin(r, "vendorReset", {e})
         \/ \E d \in Driver : ChangePasswordBegin(r, d)
  PROVE  Inv'
<1>1. \A a \in Account : contact[a] \in Contacts /\ contact[a].Email \in Contact
                          /\ contact[a].Number \in Contact
  BY ContactsType DEF Inv, TypeOK, Contact
<1>2. Driver \subseteq Account /\ Customer \subseteq Account /\ Email \subseteq Contact
  BY DEF Account, Contact
<1>3. ASSUME NEW h \in Handler, Enter(r, h), HandlerOK(h)', h.ids = {},
             UNCHANGED <<accountVars, tableVars, historyVars>>
      PROVE  Inv'
  BY <1>3, EnterStep
<1>4. ASSUME NEW d \in Driver, ConfirmBegin(r, d) \/ ResetPasswordBegin(r, d)
      PROVE  Inv'
  <2>1. PICK flow \in {"confirm", "reset"}, left \in SUBSET Contact :
          /\ VerifyBegin(r, flow, d, left)
          /\ flow = "confirm" => left = {contact[d].Email, contact[d].Number}
          /\ flow = "reset" => left = {contact[d].Number}
    BY <1>1, <1>2, <1>4 DEF ConfirmBegin, ResetPasswordBegin
  <2>2. PICK read \in Contacts : read = contact[d]
    BY <1>1, <1>2
  <2> DEFINE h == [Idle EXCEPT
        !.at = "match", !.flow = flow, !.who = d, !.read = read, !.left = left]
  <2>3. /\ h \in Handler /\ h.at = "match" /\ h.flow = flow /\ h.who = d /\ h.read = read
        /\ h.left = left /\ h.ids = {}
    BY <1>2, IdleType DEF Handler, Stage, Flow, Idle
  <2>4. Enter(r, h) /\ UNCHANGED <<accountVars, tableVars, historyVars>>
    BY <2>1, <2>2 DEF VerifyBegin
  <2> HIDE DEF h
  <2>5. PICK g \in Handler : g = h
    BY <2>3
  <2>6. Entitlement(g) \subseteq g.left
    BY <2>1, <2>2, <2>3, <2>5 DEF Entitlement
  <2>7. Entitlement(g)' = Entitlement(g)
    BY DEF Entitlement
  <2>8. HandlerOK(g)'
    BY <2>3, <2>5, <2>6, <2>7 DEF HandlerOK
  <2> QED BY <1>3, <2>3, <2>4, <2>5, <2>8
<1>5. ASSUME NEW flow \in {"check", "vendorReset"}, NEW left \in SUBSET Contact,
             CheckBegin(r, flow, left)
      PROVE  Inv'
  <2> DEFINE h == [Idle EXCEPT !.at = "match", !.flow = flow, !.left = left]
  <2>1. h \in Handler /\ h.at = "match" /\ h.flow = flow /\ h.ids = {}
    BY IdleType DEF Handler, Stage, Flow, Idle
  <2>2. Enter(r, h) /\ UNCHANGED <<accountVars, tableVars, historyVars>>
    BY <1>5 DEF CheckBegin
  <2> HIDE DEF h
  <2>3. PICK g \in Handler : g = h
    BY <2>1
  <2>4. HandlerOK(g)'
    BY <2>1, <2>3 DEF HandlerOK
  <2> QED BY <1>3, <2>1, <2>2, <2>3, <2>4
<1>6. ASSUME NEW d \in Driver, ChangePasswordBegin(r, d)
      PROVE  Inv'
  <2> DEFINE h == [Idle EXCEPT !.at = "write", !.flow = "change", !.who = d]
  <2>1. h \in Handler /\ h.at = "write" /\ h.flow = "change" /\ h.ids = {}
    BY <1>2, IdleType DEF Handler, Stage, Flow, Idle
  <2>2. Enter(r, h) /\ UNCHANGED <<accountVars, tableVars, historyVars>>
    BY <1>6 DEF ChangePasswordBegin
  <2> HIDE DEF h
  <2>3. PICK g \in Handler : g = h
    BY <2>1
  <2>4. HandlerOK(g)'
    BY <2>1, <2>3 DEF HandlerOK, Entitlement
  <2> QED BY <1>3, <2>1, <2>2, <2>3, <2>4
<1>7. ASSUME NEW a \in Driver \cup Customer, LoginBegin(r, a) PROVE Inv'
  <2>1. {contact[a].Number} \in SUBSET Contact
    BY <1>1, <1>2
  <2> QED BY <1>5, <1>7, <2>1 DEF LoginBegin
<1> QED BY <1>2, <1>4, <1>5, <1>6, <1>7

\* A right code is one more contact proved; the last one entitles to the write.
LEMMA MatchInv ==
  ASSUME Inv, NEW r \in Request, NEW c \in req[r].left, MatchOtp(r, c)
  PROVE  Inv'
<1>1. PICK h \in Handler : h = req[r] /\ HandlerOK(h)
  BY DEF Inv, TypeOK, Handlers
<1>2. /\ h.at = "match" /\ h.ids = {} /\ c \in Contact /\ c \in h.left
      /\ h.flow \in {"confirm", "check", "reset", "vendorReset"}
      /\ proved' = proved \cup {c}
      /\ UNCHANGED <<accountVars, tableVars, muddled, drifted>>
  BY <1>1 DEF MatchOtp, HandlerOK, Handler
<1>3. proved \subseteq proved' /\ proved' \subseteq Contact
  BY <1>2 DEF Inv, TypeOK
<1>4. ASSUME NEW g \in Handler, req' = [req EXCEPT ![r] = g], HandlerOK(g)', g.ids = {}
      PROVE  Inv'
  BY <1>1, <1>2, <1>3, <1>4, HandlerStep
<1>5. CASE h.left # {c}
  <2> DEFINE g == [h EXCEPT !.left = @ \ {c}]
  <2>1. /\ g \in Handler /\ g.at = "match" /\ g.flow = h.flow /\ g.who = h.who /\ g.ids = {}
        /\ g.read = h.read /\ g.left = h.left \ {c}
    BY <1>2 DEF Handler
  <2>2. req' = [req EXCEPT ![r] = g]
    BY <1>1, <1>5 DEF MatchOtp
  <2> HIDE DEF g
  <2>3. PICK k \in Handler : k = g
    BY <2>1
  <2>4. Entitlement(k)' = Entitlement(h)
    BY <2>1, <2>3 DEF Entitlement
  <2>5. HandlerOK(k)'
    BY <1>1, <1>2, <2>1, <2>3, <2>4 DEF HandlerOK
  <2> QED BY <1>4, <2>1, <2>2, <2>3, <2>5
<1>6. CASE h.left = {c} /\ h.flow = "check"
  <2>1. req' = [req EXCEPT ![r] = Idle]
    BY <1>1, <1>6 DEF MatchOtp, Finish
  <2>2. HandlerOK(Idle)'
    BY IdleType DEF HandlerOK
  <2> QED BY <1>4, <2>1, <2>2, IdleType
<1>7. CASE h.left = {c} /\ h.flow = "vendorReset"
  <2> DEFINE g == [h EXCEPT !.at = "find", !.left = {c}]
  <2>1. g \in Handler /\ g.at = "find" /\ g.flow = "vendorReset" /\ g.left = {c} /\ g.ids = {}
    BY <1>2, <1>7 DEF Handler, Stage
  <2>2. req' = [req EXCEPT ![r] = g]
    BY <1>1, <1>7 DEF MatchOtp, AfterMatch
  <2> HIDE DEF g
  <2>3. PICK k \in Handler : k = g
    BY <2>1
  <2>4. HandlerOK(k)'
    BY <1>2, <2>1, <2>3 DEF HandlerOK
  <2> QED BY <1>4, <2>1, <2>2, <2>3, <2>4
<1>8. CASE h.left = {c} /\ h.flow \in {"confirm", "reset"}
  <2> DEFINE g == [h EXCEPT !.at = "write", !.left = {}]
  <2>1. /\ g \in Handler /\ g.at = "write" /\ g.flow = h.flow /\ g.who = h.who /\ g.ids = {}
        /\ g.read = h.read /\ g.left = {}
    BY <1>2 DEF Handler, Stage
  <2>2. req' = [req EXCEPT ![r] = g]
    BY <1>1, <1>8 DEF MatchOtp, AfterMatch
  <2> HIDE DEF g
  <2>3. PICK k \in Handler : k = g
    BY <2>1
  <2>4. Entitlement(k)' = Entitlement(h)
    BY <2>1, <2>3 DEF Entitlement
  <2>5. Entitlement(h) \subseteq proved'
    BY <1>1, <1>2, <1>8 DEF HandlerOK
  <2>6. HandlerOK(k)'
    BY <1>1, <1>2, <1>8, <2>1, <2>3, <2>4, <2>5 DEF HandlerOK
  <2> QED BY <1>4, <2>1, <2>2, <2>3, <2>6
<1> QED BY <1>2, <1>5, <1>6, <1>7, <1>8

\* The vendor's reset finds an account with the contact that was proved.
LEMMA FindInv ==
  ASSUME Inv, NEW r \in Request, NEW v \in Vendor, FindVendor(r, v)
  PROVE  Inv'
<1>1. PICK h \in Handler : h = req[r] /\ HandlerOK(h)
  BY DEF Inv, TypeOK, Handlers
<1>2. PICK read \in Contacts : read = contact[v]
  BY DEF Inv, TypeOK, Account
<1>3. /\ h.at = "find" /\ h.flow = "vendorReset" /\ h.ids = {} /\ read.Email \in proved
      /\ UNCHANGED <<accountVars, tableVars, historyVars>>
  BY <1>1, <1>2 DEF FindVendor, HandlerOK
<1> DEFINE g == [h EXCEPT !.at = "write", !.who = v, !.read = read, !.left = {}]
<1>4. g \in Handler /\ g.at = "write" /\ g.flow = "vendorReset" /\ g.read = read /\ g.ids = {}
  BY <1>3 DEF Handler, Stage, Account
<1>5. req' = [req EXCEPT ![r] = g]
  BY <1>1, <1>2 DEF FindVendor
<1> HIDE DEF g
<1>6. PICK k \in Handler : k = g
  BY <1>4
<1>7. HandlerOK(k)'
  BY <1>3, <1>4, <1>6 DEF HandlerOK, Entitlement, historyVars
<1>8. /\ UNCHANGED <<accountVars, tableVars, muddled, drifted>>
      /\ proved \subseteq proved' /\ proved' \subseteq Contact
  BY <1>3 DEF historyVars, Inv, TypeOK
<1> QED BY <1>1, <1>3, <1>4, <1>5, <1>6, <1>7, <1>8, HandlerStep

\* The flags are set for the contacts that were read; what has changed since is recorded.
LEMMA ConfirmInv ==
  ASSUME Inv, NEW r \in Request, ConfirmWrite(r)
  PROVE  Inv'
<1>1. PICK h \in Handler : h = req[r] /\ HandlerOK(h)
  BY DEF Inv, TypeOK, Handlers
<1>2. /\ h.at = "write" /\ h.flow = "confirm" /\ h.ids = {}
      /\ h.who \in Driver /\ h.read \in Contacts
      /\ Entitlement(h) = {h.read.Email, h.read.Number} /\ Entitlement(h) \subseteq proved
  BY <1>1 DEF ConfirmWrite, HandlerOK, Entitlement
<1>3. PICK stale \in SUBSET Channel :
        stale = {ch \in Channel : contact[h.who][ch] # h.read[ch]}
  OBVIOUS
<1>4. /\ verified' = [verified EXCEPT ![h.who] = Channel]
      /\ drifted' = [drifted EXCEPT ![h.who] = stale]
      /\ req' = [req EXCEPT ![r] = Idle]
      /\ UNCHANGED <<active, contact, tableVars, proved, muddled>>
  BY <1>1, <1>3 DEF ConfirmWrite, Finish
<1>5. VerifiedContactIsProved'
  <2> SUFFICES ASSUME NEW d \in Driver, NEW ch \in verified'[d] \ drifted'[d]
               PROVE  contact[d][ch] \in proved
    BY <1>4 DEF VerifiedContactIsProved
  <2>1. CASE d # h.who
    BY <1>4, <2>1 DEF Inv, TypeOK, VerifiedContactIsProved
  <2>2. CASE d = h.who
    <3>1. ch \in Channel /\ contact[d][ch] = h.read[ch]
      BY <1>3, <1>4, <2>2 DEF Inv, TypeOK
    <3> QED BY <1>2, <2>2, <3>1, ContactsType DEF Channel
  <2> QED BY <2>1, <2>2
<1>6. HandlerOK(Idle)'
  BY IdleType DEF HandlerOK
<1>7. /\ active' \subseteq Account /\ contact' \in [Account -> Contacts]
      /\ verified' \in [Driver -> SUBSET Channel] /\ drifted' \in [Driver -> SUBSET Channel]
      /\ proved \subseteq proved' /\ proved' \subseteq Contact
  BY <1>4 DEF Inv, TypeOK
<1> QED BY <1>1, <1>2, <1>4, <1>5, <1>6, <1>7, IdleType, AccountStep

-----------------------------------------------------------------------------
(* Changing contacts *)

LEMMA ProfileBeginInv ==
  ASSUME Inv, NEW r \in Request, NEW d \in Driver, NEW body \in Body, ProfileBegin(r, d, body)
  PROVE  Inv'
<1>1. PICK read \in Contacts : read = contact[d]
  BY DEF Inv, TypeOK, Account
<1> DEFINE h == [Idle EXCEPT !.at = "profile", !.who = d, !.read = read, !.body = body]
<1>2. /\ h \in Handler /\ h.at = "profile" /\ h.who = d /\ h.read = read /\ h.body = body
      /\ h.ids = {}
  BY IdleType DEF Handler, Stage, Account, Idle
<1>3. Enter(r, h) /\ UNCHANGED <<accountVars, tableVars, historyVars>>
  BY <1>1 DEF ProfileBegin
<1> HIDE DEF h
<1>4. PICK g \in Handler : g = h
  BY <1>2
<1>5. HandlerOK(g)'
  BY <1>2, <1>4 DEF HandlerOK
<1> QED BY <1>2, <1>3, <1>4, <1>5, EnterStep

\* A flag that survives is about a contact that stays, or that was replaced under it.
LEMMA ProfileInv ==
  ASSUME Inv, NEW r \in Request, ProfileWrite(r)
  PROVE  Inv'
<1>1. PICK h \in Handler : h = req[r] /\ HandlerOK(h)
  BY DEF Inv, TypeOK, Handlers
<1>2. /\ h.at = "profile" /\ h.ids = {}
      /\ h.who \in Driver /\ h.who \in Account /\ h.read \in Contacts /\ h.body \in Body
  BY <1>1 DEF ProfileWrite, HandlerOK, Account
<1>3. PICK old \in Contacts : old = contact[h.who]
  BY <1>2 DEF Inv, TypeOK
<1>4. PICK new \in Contacts :
        /\ new = Applied(old, h.body)
        /\ \A ch \in Channel : new[ch] = (IF h.body[ch] = None THEN old[ch] ELSE h.body[ch])
  BY <1>2, AppliedType
<1>5. PICK kept \in SUBSET Channel : kept = verified[h.who] \ Reset(h)
  BY <1>2 DEF Inv, TypeOK
<1>6. PICK gone \in SUBSET Channel :
        gone = {ch \in kept : new[ch] # old[ch] /\ old[ch] # h.read[ch]}
  BY <1>5
<1>7. /\ contact' = [contact EXCEPT ![h.who] = new]
      /\ verified' = [verified EXCEPT ![h.who] = kept]
      /\ drifted' = [drifted EXCEPT ![h.who] = (@ \cap kept) \cup gone]
      /\ req' = [req EXCEPT ![r] = Idle]
      /\ UNCHANGED <<active, tableVars, proved, muddled>>
  BY <1>1, <1>3, <1>4, <1>5, <1>6 DEF ProfileWrite, Finish
<1>8. VerifiedContactIsProved'
  <2> SUFFICES ASSUME NEW d \in Driver, NEW ch \in verified'[d] \ drifted'[d]
               PROVE  contact'[d][ch] \in proved
    BY <1>7 DEF VerifiedContactIsProved
  <2>1. d \in Account /\ contact \in [Account -> Contacts]
    BY DEF Inv, TypeOK, Account
  <2>2. CASE d # h.who
    BY <1>2, <1>7, <2>1, <2>2 DEF Inv, TypeOK, VerifiedContactIsProved
  <2>3. CASE d = h.who
    <3>1. /\ ch \in kept /\ ch \notin gone /\ ch \notin drifted[d] /\ ch \in Channel
          /\ ch \in verified[d] /\ ch \notin Reset(h)
      BY <1>5, <1>7, <2>3 DEF Inv, TypeOK
    <3>2. contact'[d] = new /\ contact[d][ch] = old[ch] /\ old[ch] \in proved
      BY <1>2, <1>3, <1>7, <2>1, <2>3, <3>1 DEF Inv, VerifiedContactIsProved
    <3>3. new[ch] = old[ch]
      <4>1. new[ch] # old[ch] => h.body[ch] # None /\ new[ch] = h.body[ch]
        BY <1>4, <3>1
      <4>2. new[ch] # old[ch] => old[ch] = h.read[ch]
        BY <1>6, <3>1
      <4>3. h.body[ch] # None => h.body[ch] = h.read[ch]
        BY <3>1 DEF Reset
      <4> QED BY <4>1, <4>2, <4>3
    <3> QED BY <3>2, <3>3
  <2> QED BY <2>2, <2>3
<1>9. HandlerOK(Idle)'
  BY IdleType DEF HandlerOK
<1>10. /\ active' \subseteq Account /\ contact' \in [Account -> Contacts]
       /\ verified' \in [Driver -> SUBSET Channel]
       /\ proved \subseteq proved' /\ proved' \subseteq Contact
  BY <1>7 DEF Inv, TypeOK
<1>11. drifted' \in [Driver -> SUBSET Channel]
  <2>1. \A d \in Driver : drifted'[d] \in SUBSET Channel
    BY <1>7 DEF Inv, TypeOK
  <2> QED BY <1>7, <2>1 DEF Inv, TypeOK
<1> QED BY <1>1, <1>2, <1>7, <1>8, <1>9, <1>10, <1>11, IdleType, AccountStep

-----------------------------------------------------------------------------
(* All steps *)

LEMMA RefusedInv ==
  ASSUME Inv, NEW r \in Request, MatchRefused(r) \/ FindRefused(r) \/ PasswordWrite(r)
  PROVE  Inv'
<1>1. /\ req[r].at # "deliver" /\ Finish(r)
      /\ UNCHANGED <<accountVars, tableVars, historyVars>>
  BY DEF MatchRefused, FindRefused, PasswordWrite
<1> QED BY <1>1, FinishStep

\* Every step keeps the invariant.
LEMMA NextInv == Inv /\ [Next]_vars => Inv'
<1> SUFFICES ASSUME Inv, [Next]_vars PROVE Inv' OBVIOUS
<1>1. ASSUME NEW r \in Request, Send(r) PROVE Inv'
  BY <1>1, SendInv, InsertInv, DeliverInv DEF Send
<1>2. ASSUME NEW r \in Request, Verify(r) PROVE Inv'
  BY <1>2, BeginInv, MatchInv, RefusedInv, ConfirmInv, FindInv DEF Verify
<1>3. ASSUME NEW r \in Request, Change(r) PROVE Inv'
  BY <1>3, ProfileBeginInv, ProfileInv DEF Change
<1>4. CASE UNCHANGED vars
  <2>1. UNCHANGED <<accountVars, tableVars, historyVars, req>>
    BY <1>4 DEF vars, accountVars, tableVars, historyVars
  <2>2. TypeOK'
    BY <2>1 DEF accountVars, tableVars, historyVars, Inv, TypeOK
  <2>3. Handlers' /\ Inserted' /\ VerifiedContactIsProved'
    BY <2>1 DEF accountVars, tableVars, historyVars, Inv, Handlers, HandlerOK, Entitlement,
                Inserted, VerifiedContactIsProved
  <2>4. PendingIsLatest' /\ LastArrivalIsLatest'
    BY <2>1 DEF tableVars, historyVars, Inv, PendingIsLatest, LastArrivalIsLatest, IsLatest,
                RowsOf, UnderWay
  <2> QED BY <2>2, <2>3, <2>4 DEF Inv
<1> QED BY <1>1, <1>2, <1>3, <1>4, FailInv, EditInv, OutsideInv DEF Next

\* The invariant holds in every state.
THEOREM Invariance == Spec => []Inv
BY InitInv, NextInv, PTL DEF Spec

-----------------------------------------------------------------------------
(* Theorems *)

\* Accounts, rows and handlers keep their types.
THEOREM AccountTypes == Spec => []TypeOK
<1>1. Inv => TypeOK
  BY DEF Inv
<1> QED BY <1>1, Invariance, PTL

\* A verified flag is about the present contact, and its code was submitted, unless the
\* contact was replaced by an edit that resets nothing or between a read and a write.
THEOREM FlagsAreProved == Spec => []VerifiedContactIsProved
<1>1. Inv => VerifiedContactIsProved
  BY DEF Inv
<1> QED BY <1>1, Invariance, PTL

\* No handler sets the flags or a password without the codes of the account's contacts.
THEOREM OnlyEntitledWrites == Spec => []WritesAreEntitled
<1>1. Inv => WritesAreEntitled
  BY DEF Inv, Handlers, HandlerOK, WritesAreEntitled
<1> QED BY <1>1, Invariance, PTL

\* The code that arrived last is the one verifyOtp accepts, where sends do not overlap.
THEOREM LastCodeWorks == Spec => []LastArrivalIsLatest
<1>1. Inv => LastArrivalIsLatest
  BY DEF Inv
<1> QED BY <1>1, Invariance, PTL
=============================================================================
