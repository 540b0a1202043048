---------------------------- MODULE Wallet_Proofs ----------------------------
(***************************************************************************)
(* What Wallet keeps for any number of users, wallets and requests: its    *)
(* type, no overdraft but from a negative credit, balance and ledger in    *)
(* step, and a ledger without a gap where no two updates overlapped.       *)
(***************************************************************************)
EXTENDS Wallet, TLAPS

Updating == {"write", "commit"}

-----------------------------------------------------------------------------
(* The inductive invariant *)

\* A request under way has a user and a row; an idle one has nothing.
ArgsOK ==
  \A r \in Request :
    IF req[r].at = "idle"
      THEN req[r] = Idle
      ELSE req[r].user \in User /\ req[r].wallet \in WalletId

\* An id that was not handed out has no history.
UnusedIsBlank ==
  \A w \in WalletId :
    wallets[w].user = None => ledger[w] = <<>> /\ wallets[w].balance = 0

\* Two requests name the same row only if it is committed.
RowsApart ==
  \A r, q \in Request :
    r # q /\ req[r].at # "idle" /\ req[q].at # "idle" /\ req[r].wallet = req[q].wallet
      => wallets[req[r].wallet].user # None

\* Before the read, a request has no balance yet, and only an unused id.
ReadsLater ==
  \A r \in Request :
    req[r].at \in {"find", "lookup", "insert"} =>
      wallets[req[r].wallet].user = None /\ req[r].balance = 0

\* The balance h computes with is negative only if the ledger of its wallet,
\* entries, has a negative credit; the one it writes only if h may be one itself.
Covered(h, entries) ==
  /\ h.balance < 0 => HasNegativeCredit(entries)
  /\ h.at = "commit" /\ NewBalance(h) < 0 =>
       HasNegativeCredit(entries) \/ (h.type = "CREDIT" /\ h.amount < 0)

Checked == \A r \in Request : Covered(req[r], ledger[req[r].wallet])

\* Two updates of one row at once are recorded.
RaceRecorded ==
  \A r, q \in Request :
    r # q /\ req[r].at \in Updating /\ req[q].at \in Updating
      /\ req[r].wallet = req[q].wallet
      => req[r].wallet \in raced

\* Where there was none, the balance that was read is still the row's.
ReadIsCurrent ==
  \A r \in Request :
    req[r].at \in Updating /\ req[r].wallet \notin raced =>
      req[r].balance = wallets[req[r].wallet].balance

Inv ==
  /\ TypeOK /\ ArgsOK
  /\ UnusedIsBlank /\ RowsApart /\ ReadsLater
  /\ Checked /\ RaceRecorded /\ ReadIsCurrent
  /\ OverdraftNeedsNegativeCredit /\ BalanceIsLastEntry /\ SerialLedgerChains

-----------------------------------------------------------------------------
(* Types *)

\* None is no wallet and no user, and an idle request has its type.
LEMMA IdleType ==
  /\ Idle \in Handler
  /\ Idle.at = "idle" /\ Idle.user = None /\ Idle.wallet = None /\ Idle.balance = 0
  /\ None \notin User /\ None \notin WalletId
BY ConstantsAssumption DEF Idle, Handler, TransactionType

\* The new balance is a number.
LEMMA NewBalanceType ==
  ASSUME NEW h \in Handler
  PROVE  NewBalance(h) \in Int
<1>1. h.amount \in Amount \cup {0} /\ h.balance \in Int
  BY DEF Handler
<1>2. \A a \in Amount \cup {0} : a \in Int
  <2>1. \A a \in Amount : a \in Int BY ConstantsAssumption, Zenon
  <2> QED BY <2>1
<1>3. h.amount \in Int
  BY <1>1, <1>2
<1> QED BY <1>1, <1>3 DEF NewBalance

\* The invariant holds of empty tables.
LEMMA InitInv == Init => Inv
<1> SUFFICES ASSUME Init PROVE Inv OBVIOUS
<1> USE IdleType
<1>1. TypeOK
  BY DEF Init, TypeOK, NoWallet, WalletRow, Entry
<1>2. ArgsOK /\ RowsApart /\ ReadsLater /\ RaceRecorded /\ ReadIsCurrent
  BY DEF Init, ArgsOK, RowsApart, ReadsLater, RaceRecorded, ReadIsCurrent, Updating
<1>3. Checked
  BY DEF Init, Checked, Covered
<1>4. UnusedIsBlank /\ OverdraftNeedsNegativeCredit /\ BalanceIsLastEntry
  BY DEF Init, UnusedIsBlank, OverdraftNeedsNegativeCredit, BalanceIsLastEntry, NoWallet
<1>5. SerialLedgerChains
  BY DEF Init, SerialLedgerChains, Chained
<1> QED BY <1>1, <1>2, <1>3, <1>4, <1>5 DEF Inv

-----------------------------------------------------------------------------
(* Steps that leave the tables alone *)

\* The properties of the tables alone carry over when the tables do.
LEMMA TablesStutter ==
  ASSUME Inv, UNCHANGED db
  PROVE  UnusedIsBlank' /\ OverdraftNeedsNegativeCredit' /\ BalanceIsLastEntry' /\ SerialLedgerChains'
BY DEF Inv, db, UnusedIsBlank, OverdraftNeedsNegativeCredit, BalanceIsLastEntry, SerialLedgerChains, Chained

\* A request that ends without a write: a refusal, a found row, a failure.
LEMMA FinishInv ==
  ASSUME Inv, NEW r \in Request, Finish(r), UNCHANGED db
  PROVE  Inv'
<1> USE IdleType
<1>1. req' = [req EXCEPT ![r] = Idle] /\ req \in [Request -> Handler]
  BY DEF Finish, Inv, TypeOK
<1>2. /\ req'[r] = Idle
      /\ \A q \in Request \ {r} : req'[q] = req[q]
  BY <1>1
<1>3. wallets' = wallets /\ ledger' = ledger /\ raced' = raced
  BY DEF db
<1>4. TypeOK'
  BY <1>1, <1>3 DEF Inv, TypeOK
<1>5. ArgsOK'
  BY <1>2 DEF Inv, ArgsOK
<1>6. RowsApart'
  BY <1>2, <1>3 DEF Inv, RowsApart
<1>7. ReadsLater'
  BY <1>2, <1>3 DEF Inv, ReadsLater
<1>8. Checked'
  <2>1. \A entries : Covered(Idle, entries)
    BY DEF Covered
  <2> QED BY <1>2, <1>3, <2>1 DEF Inv, Checked
<1>9. RaceRecorded' /\ ReadIsCurrent'
  BY <1>2, <1>3 DEF Inv, RaceRecorded, ReadIsCurrent, Updating
<1> QED BY <1>4, <1>5, <1>6, <1>7, <1>8, <1>9, TablesStutter DEF Inv

\* A request that arrives with a user and an id nobody uses.
LEMMA BeginInv ==
  ASSUME Inv, NEW r \in Request, NEW h \in Handler,
         h.at \in {"find", "lookup"}, h.user \in User, h.balance = 0,
         h.wallet \in WalletId, Unused(h.wallet),
         Enter(r, h), UNCHANGED db
  PROVE  Inv'
<1> USE IdleType
<1>1. req' = [req EXCEPT ![r] = h] /\ req \in [Request -> Handler]
  BY DEF Enter, Inv, TypeOK
<1>2. /\ req'[r] = h
      /\ \A q \in Request \ {r} : req'[q] = req[q]
  BY <1>1
<1>3. wallets' = wallets /\ ledger' = ledger /\ raced' = raced
  BY DEF db
<1>4. /\ wallets[h.wallet].user = None
      /\ \A q \in Request : req[q].wallet # h.wallet
  BY DEF Unused
<1>5. TypeOK'
  BY <1>1, <1>3 DEF Inv, TypeOK
<1>6. ArgsOK'
  BY <1>2 DEF Inv, ArgsOK
<1>7. RowsApart'
  BY <1>2, <1>3, <1>4 DEF Inv, RowsApart
<1>8. ReadsLater'
  BY <1>2, <1>3, <1>4 DEF Inv, ReadsLater
<1>9. Checked'
  <2>1. \A entries : Covered(h, entries)
    BY DEF Covered
  <2> QED BY <1>2, <1>3, <2>1 DEF Inv, Checked
<1>10. RaceRecorded' /\ ReadIsCurrent'
  BY <1>2, <1>3 DEF Inv, RaceRecorded, ReadIsCurrent, Updating
<1> QED BY <1>5, <1>6, <1>7, <1>8, <1>9, <1>10, TablesStutter DEF Inv

\* A request that goes on to its next statement, with the row it had: after
\* CreateWallet, WriteBalance and LookupMissing.
LEMMA GotoInv ==
  ASSUME Inv, NEW r \in Request, NEW s \in {"write", "commit", "insert"},
         req' = [req EXCEPT ![r].at = s], UNCHANGED db,
         \/ req[r].at = "find" /\ s = "write"
         \/ /\ req[r].at = "write" /\ s = "commit"
            /\ NewBalance(req[r]) < 0 =>
                 \/ HasNegativeCredit(ledger[req[r].wallet])
                 \/ req[r].type = "CREDIT" /\ req[r].amount < 0
         \/ req[r].at = "lookup" /\ s = "insert"
  PROVE  Inv'
<1> USE IdleType
<1> DEFINE h == [req[r] EXCEPT !.at = s]
<1>1. req \in [Request -> Handler] /\ req[r] \in Handler
  BY DEF Inv, TypeOK
<1>2. /\ h \in Handler
      /\ h.at = s /\ h.user = req[r].user /\ h.amount = req[r].amount
      /\ h.type = req[r].type /\ h.wallet = req[r].wallet /\ h.balance = req[r].balance
  BY <1>1 DEF Handler
<1>3. req' = [req EXCEPT ![r] = h]
  OBVIOUS
<1> HIDE DEF h
<1>4. /\ req'[r] = h
      /\ \A q \in Request \ {r} : req'[q] = req[q]
  BY <1>1, <1>3
<1>5. wallets' = wallets /\ ledger' = ledger /\ raced' = raced
  BY DEF db
<1>6. h.user \in User /\ h.wallet \in WalletId
  BY <1>2 DEF Inv, ArgsOK
<1>7. TypeOK'
  BY <1>1, <1>2, <1>3, <1>5 DEF Inv, TypeOK
<1>8. ArgsOK'
  BY <1>2, <1>4, <1>6 DEF Inv, ArgsOK
<1>9. RowsApart'
  BY <1>2, <1>4, <1>5 DEF Inv, RowsApart
<1>10. ReadsLater'
  BY <1>2, <1>4, <1>5 DEF Inv, ReadsLater
<1>11. Checked'
  <2>1. NewBalance(h) = NewBalance(req[r])
    BY <1>2 DEF NewBalance
  <2>2. Covered(req[r], ledger[h.wallet])
    BY <1>2 DEF Inv, Checked
  <2>3. Covered(h, ledger[h.wallet])
    BY <1>2, <2>1, <2>2 DEF Covered
  <2> QED BY <1>4, <1>5, <2>3 DEF Inv, Checked
<1>12. ASSUME NEW q \in Request, q # r, req[q].at \in Updating, h.at \in Updating,
              req[q].wallet = h.wallet
       PROVE  h.wallet \in raced
  <2>1. CASE req[r].at = "find"
    BY <1>2, <1>12, <2>1 DEF Inv, RowsApart, ReadsLater, Updating
  <2>2. CASE req[r].at = "write"
    BY <1>2, <1>12, <2>2 DEF Inv, RaceRecorded, Updating
  <2>3. CASE req[r].at = "lookup"
    BY <1>2, <1>12, <2>3 DEF Updating
  <2> QED BY <2>1, <2>2, <2>3
<1>13. RaceRecorded'
  <2> SUFFICES ASSUME NEW p \in Request, NEW q \in Request, p # q,
                      req'[p].at \in Updating, req'[q].at \in Updating,
                      req'[p].wallet = req'[q].wallet
               PROVE  req'[p].wallet \in raced
    BY <1>5 DEF RaceRecorded, Updating
  <2>1. CASE p = r
    BY <1>4, <1>12, <2>1
  <2>2. CASE q = r
    BY <1>4, <1>12, <2>2
  <2>3. CASE p # r /\ q # r
    BY <1>4, <2>3 DEF Inv, RaceRecorded
  <2> QED BY <2>1, <2>2, <2>3
<1>14. h.at \in Updating /\ h.wallet \notin raced => h.balance = wallets[h.wallet].balance
  <2>1. CASE req[r].at = "find"
    BY <1>2, <1>6, <2>1 DEF Inv, ReadsLater, UnusedIsBlank
  <2>2. CASE req[r].at = "write"
    BY <1>2, <2>2 DEF Inv, ReadIsCurrent, Updating
  <2>3. CASE req[r].at = "lookup"
    BY <1>2, <2>3 DEF Updating
  <2> QED BY <2>1, <2>2, <2>3
<1>15. ReadIsCurrent'
  <2> SUFFICES ASSUME NEW q \in Request,
                      req'[q].at \in Updating, req'[q].wallet \notin raced
               PROVE  req'[q].balance = wallets[req'[q].wallet].balance
    BY <1>5 DEF ReadIsCurrent, Updating
  <2>1. CASE q = r
    BY <1>4, <1>14, <2>1
  <2>2. CASE q # r
    BY <1>4, <2>2 DEF Inv, ReadIsCurrent
  <2> QED BY <2>1, <2>2
<1> QED BY <1>7, <1>8, <1>9, <1>10, <1>11, <1>13, <1>15, TablesStutter DEF Inv

\* findFirst found a row: its balance is read, and an overlap is recorded.
LEMMA FindInv ==
  ASSUME Inv, NEW r \in Request, NEW w \in WalletId, FindWallet(r, w)
  PROVE  Inv'
<1> USE IdleType
<1> DEFINE h == [req[r] EXCEPT !.at = "write", !.wallet = w, !.balance = wallets[w].balance]
<1>1. req \in [Request -> Handler] /\ req[r] \in Handler /\ wallets \in [WalletId -> WalletRow]
  BY DEF Inv, TypeOK
<1>2. wallets[w].balance \in Int
  BY <1>1 DEF WalletRow
<1>3. /\ h \in Handler
      /\ h.at = "write" /\ h.user = req[r].user /\ h.amount = req[r].amount
      /\ h.type = req[r].type /\ h.wallet = w /\ h.balance = wallets[w].balance
  BY <1>1, <1>2 DEF Handler
<1>4. req' = [req EXCEPT ![r] = h]
  BY DEF FindWallet
<1> HIDE DEF h
<1>5. /\ req'[r] = h
      /\ \A q \in Request \ {r} : req'[q] = req[q]
  BY <1>1, <1>4
<1>6. /\ wallets' = wallets /\ ledger' = ledger
      /\ raced \subseteq raced' /\ raced' \subseteq WalletId
  BY DEF FindWallet, Inv, TypeOK
<1>7. req[r].at = "find" /\ h.user \in User /\ wallets[w].user = h.user
  BY <1>3 DEF FindWallet, RowsOf, Inv, ArgsOK
<1>8. TypeOK'
  BY <1>1, <1>3, <1>4, <1>6 DEF Inv, TypeOK
<1>9. ArgsOK'
  BY <1>3, <1>5, <1>7 DEF Inv, ArgsOK
<1>10. RowsApart'
  BY <1>3, <1>5, <1>6, <1>7 DEF Inv, RowsApart
<1>11. ReadsLater'
  BY <1>3, <1>5, <1>6 DEF Inv, ReadsLater
<1>12. Checked'
  <2>1. Covered(h, ledger[w])
    BY <1>3 DEF Covered, Inv, OverdraftNeedsNegativeCredit
  <2> QED BY <1>3, <1>5, <1>6, <2>1 DEF Inv, Checked
<1>13. ASSUME NEW q \in Request, q # r, req[q].at \in Updating, req[q].wallet = w
       PROVE  w \in raced'
  BY <1>13 DEF FindWallet, Updating
<1>14. RaceRecorded'
  BY <1>3, <1>5, <1>6, <1>13 DEF Inv, RaceRecorded
<1>15. ReadIsCurrent'
  BY <1>3, <1>5, <1>6 DEF Inv, ReadIsCurrent
<1>16. UnusedIsBlank' /\ OverdraftNeedsNegativeCredit' /\ BalanceIsLastEntry' /\ SerialLedgerChains'
  BY <1>6 DEF Inv, UnusedIsBlank, OverdraftNeedsNegativeCredit, BalanceIsLastEntry, SerialLedgerChains, Chained
<1> QED BY <1>8, <1>9, <1>10, <1>11, <1>12, <1>14, <1>15, <1>16 DEF Inv

-----------------------------------------------------------------------------
(* Commits *)

\* What a ledger is after one more row.
LEMMA AppendEntry ==
  ASSUME NEW s \in Seq(Entry), NEW e \in Entry
  PROVE  /\ Append(s, e) \in Seq(Entry) /\ Append(s, e) # <<>>
         /\ Len(s) \in Nat /\ Len(Append(s, e)) = Len(s) + 1
         /\ DOMAIN Append(s, e) = 1 .. Len(s) + 1
         /\ Append(s, e)[Len(s) + 1] = e
         /\ \A i \in 1 .. Len(s) : Append(s, e)[i] = s[i]
OBVIOUS

\* A negative credit stays in a ledger, and the newest row may be one.
LEMMA AppendNegativeCredit ==
  ASSUME NEW s \in Seq(Entry), NEW e \in Entry,
         HasNegativeCredit(s) \/ (e.type = "CREDIT" /\ e.amount < 0)
  PROVE  HasNegativeCredit(Append(s, e))
<1> DEFINE n == Len(s)
           t == Append(s, e)
<1>1. /\ n \in Nat /\ DOMAIN t = 1 .. n + 1 /\ t[n + 1] = e
      /\ \A i \in 1 .. n : t[i] = s[i]
  BY AppendEntry
<1>2. DOMAIN s = 1 .. n
  OBVIOUS
<1> HIDE DEF t, n
<1>3. CASE HasNegativeCredit(s)
  <2>1. PICK i \in 1 .. n : s[i].type = "CREDIT" /\ s[i].amount < 0
    BY <1>2, <1>3 DEF HasNegativeCredit
  <2>2. i \in DOMAIN t /\ t[i] = s[i]
    BY <1>1
  <2>3. HasNegativeCredit(t)
    BY <2>1, <2>2 DEF HasNegativeCredit
  <2> QED BY <2>3 DEF t
<1>4. CASE e.type = "CREDIT" /\ e.amount < 0
  <2>1. n + 1 \in DOMAIN t
    BY <1>1
  <2>2. HasNegativeCredit(t)
    BY <1>1, <1>4, <2>1 DEF HasNegativeCredit
  <2> QED BY <2>2 DEF t
<1> QED BY <1>3, <1>4

\* A ledger without a gap stays so with a row that starts where the last ended.
LEMMA AppendChained ==
  ASSUME NEW s \in Seq(Entry), NEW e \in Entry, Chained(s),
         e.before = IF s = <<>> THEN 0 ELSE s[Len(s)].after
  PROVE  Chained(Append(s, e))
<1> DEFINE n == Len(s)
           t == Append(s, e)
<1>1. /\ n \in Nat /\ DOMAIN t = 1 .. n + 1 /\ t[n + 1] = e
      /\ \A i \in 1 .. n : t[i] = s[i]
  BY AppendEntry
<1>2. DOMAIN s = 1 .. n /\ (n = 0 <=> s = <<>>)
  OBVIOUS
<1> HIDE DEF t, n
<1> SUFFICES ASSUME NEW i \in 1 .. n + 1
             PROVE  t[i].before = IF i = 1 THEN 0 ELSE t[i - 1].after
  BY <1>1 DEF Chained, t
<1>3. CASE i \in 1 .. n
  <2>1. s[i].before = IF i = 1 THEN 0 ELSE s[i - 1].after
    BY <1>2, <1>3 DEF Chained
  <2>2. i # 1 => i - 1 \in 1 .. n
    BY <1>1, <1>3
  <2> QED BY <1>1, <1>3, <2>1, <2>2
<1>4. CASE i = n + 1
  <2>1. n # 0 => n \in 1 .. n /\ t[n] = s[n] /\ i - 1 = n /\ i # 1
    BY <1>1, <1>4
  <2>2. n = 0 => i = 1
    BY <1>4
  <2> QED BY <1>1, <1>2, <1>4, <2>1, <2>2 DEF n
<1> QED BY <1>1, <1>3, <1>4

\* An update commits: the row takes the balance that was computed, the ledger
\* its row.
LEMMA CommitInv ==
  ASSUME Inv, NEW r \in Request, UpdateCommit(r)
  PROVE  Inv'
<1> USE IdleType
<1> DEFINE w == req[r].wallet
           b == NewBalance(req[r])
           e == LedgerRow(req[r])
<1>1. /\ req \in [Request -> Handler] /\ req[r] \in Handler
      /\ wallets \in [WalletId -> WalletRow] /\ ledger \in [WalletId -> Seq(Entry)]
  BY DEF Inv, TypeOK
<1>2. req[r].at = "commit" /\ req[r].user \in User /\ w \in WalletId
  BY DEF UpdateCommit, Inv, ArgsOK
<1>3. b \in Int /\ req[r].balance \in Int /\ req[r].amount \in Int
      /\ req[r].type \in TransactionType
  <2>1. req[r].amount \in Amount \cup {0} /\ req[r].balance \in Int
        /\ req[r].type \in TransactionType
    BY <1>1 DEF Handler
  <2>2. \A a \in Amount : a \in Int
    BY ConstantsAssumption, Zenon
  <2> QED BY <1>1, <2>1, <2>2, NewBalanceType
<1>4. /\ e \in Entry /\ e.before = req[r].balance /\ e.after = b
      /\ e.type = req[r].type /\ e.amount = req[r].amount
  BY <1>3 DEF Entry, LedgerRow
<1>5. wallets' = [wallets EXCEPT ![w] = [user |-> req[r].user, balance |-> b]]
  BY DEF UpdateCommit, Written
<1>6. ledger' = [ledger EXCEPT ![w] = Append(@, e)]
  BY DEF UpdateCommit
<1>7. req' = [req EXCEPT ![r] = Idle] /\ raced' = raced
  BY DEF UpdateCommit, Finish
<1> HIDE DEF b, e
<1>8. /\ wallets'[w].user = req[r].user /\ wallets'[w].balance = b
      /\ \A x \in WalletId \ {w} : wallets'[x] = wallets[x]
  BY <1>1, <1>2, <1>5
<1>9. /\ ledger'[w] = Append(ledger[w], e) /\ ledger[w] \in Seq(Entry)
      /\ \A x \in WalletId \ {w} : ledger'[x] = ledger[x]
  BY <1>1, <1>2, <1>6
<1>10. /\ req'[r] = Idle
       /\ \A q \in Request \ {r} : req'[q] = req[q]
  BY <1>1, <1>7
<1>11. TypeOK'
  <2>1. [user |-> req[r].user, balance |-> b] \in WalletRow
    BY <1>2, <1>3 DEF WalletRow
  <2>2. wallets' \in [WalletId -> WalletRow]
    BY <1>1, <1>5, <2>1
  <2>3. ledger' \in [WalletId -> Seq(Entry)]
    <3>1. Append(ledger[w], e) \in Seq(Entry)
      BY <1>4, <1>9
    <3> QED BY <1>1, <1>6, <3>1
  <2>4. req' \in [Request -> Handler]
    BY <1>1, <1>7
  <2> QED BY <1>7, <2>2, <2>3, <2>4 DEF Inv, TypeOK
<1>12. ArgsOK'
  BY <1>10 DEF Inv, ArgsOK
<1>13. UnusedIsBlank'
  BY <1>2, <1>8, <1>9 DEF Inv, UnusedIsBlank
<1>14. RowsApart'
  BY <1>2, <1>8, <1>10 DEF Inv, RowsApart, ArgsOK
<1>15. ASSUME NEW q \in Request, q # r, req[q].at \in {"find", "lookup", "insert"}
       PROVE  req[q].wallet # w
  BY <1>2, <1>15 DEF Inv, RowsApart, ReadsLater
<1>16. ReadsLater'
  BY <1>8, <1>10, <1>15 DEF Inv, ReadsLater, ArgsOK
<1>17. Checked'
  <2> SUFFICES ASSUME NEW q \in Request
               PROVE  Covered(req'[q], ledger'[req'[q].wallet])
    BY DEF Checked
  <2>1. CASE q = r
    BY <1>10, <2>1 DEF Covered
  <2>2. CASE q # r /\ req[q].wallet # w
    <3>1. Covered(req[q], ledger[req[q].wallet])
      BY DEF Inv, Checked
    <3>2. req[q].at = "idle" \/ ledger'[req[q].wallet] = ledger[req[q].wallet]
      BY <1>9, <2>2 DEF Inv, ArgsOK
    <3>3. req[q].at = "idle" => req[q] = Idle
      BY DEF Inv, ArgsOK
    <3> QED BY <1>10, <2>2, <3>1, <3>2, <3>3 DEF Covered
  <2>3. CASE q # r /\ req[q].wallet = w
    <3>1. Covered(req[q], ledger[w])
      BY <2>3 DEF Inv, Checked
    <3>2. HasNegativeCredit(ledger[w]) => HasNegativeCredit(ledger'[w])
      BY <1>4, <1>9, AppendNegativeCredit
    <3> QED BY <1>10, <2>3, <3>1, <3>2 DEF Covered
  <2> QED BY <2>1, <2>2, <2>3
<1>18. RaceRecorded'
  BY <1>7, <1>10 DEF Inv, RaceRecorded, Updating
<1>19. ReadIsCurrent'
  <2> SUFFICES ASSUME NEW q \in Request,
                      req'[q].at \in Updating, req'[q].wallet \notin raced
               PROVE  req'[q].balance = wallets'[req'[q].wallet].balance
    BY <1>7 DEF ReadIsCurrent, Updating
  <2>1. q # r /\ req'[q] = req[q]
    BY <1>10 DEF Updating
  <2>2. req[q].wallet \in WalletId \ {w}
    BY <1>2, <2>1 DEF Inv, ArgsOK, RaceRecorded, Updating
  <2> QED BY <1>8, <2>1, <2>2 DEF Inv, ReadIsCurrent
<1>20. OverdraftNeedsNegativeCredit'
  <2>1. b < 0 => HasNegativeCredit(ledger'[w])
    <3>1. b < 0 => HasNegativeCredit(ledger[w]) \/ (e.type = "CREDIT" /\ e.amount < 0)
      BY <1>2, <1>4 DEF Inv, Checked, Covered, b
    <3> QED BY <1>4, <1>9, <3>1, AppendNegativeCredit
  <2> QED BY <1>2, <1>8, <1>9, <2>1 DEF Inv, OverdraftNeedsNegativeCredit
<1>21. BalanceIsLastEntry'
  <2>1. ledger'[w] # <<>> /\ ledger'[w][Len(ledger'[w])] = e
    BY <1>4, <1>9, AppendEntry
  <2> QED BY <1>4, <1>8, <1>9, <2>1 DEF Inv, BalanceIsLastEntry
<1>22. SerialLedgerChains'
  <2> SUFFICES ASSUME NEW x \in WalletId \ raced
               PROVE  Chained(ledger'[x])
    BY <1>7 DEF SerialLedgerChains, Chained
  <2>1. CASE x # w
    BY <1>9, <2>1 DEF Inv, SerialLedgerChains
  <2>2. CASE x = w
    <3>1. Chained(ledger[w])
      BY <2>2 DEF Inv, SerialLedgerChains
    <3>2. e.before = wallets[w].balance
      BY <1>2, <1>4, <2>2 DEF Inv, ReadIsCurrent, Updating
    <3>3. wallets[w].balance = IF ledger[w] = <<>> THEN 0 ELSE ledger[w][Len(ledger[w])].after
      BY <1>2 DEF Inv, BalanceIsLastEntry
    <3>4. Chained(Append(ledger[w], e))
      BY <1>4, <1>9, <3>1, <3>2, <3>3, AppendChained
    <3> QED BY <1>9, <2>2, <3>4
  <2> QED BY <2>1, <2>2
<1> QED BY <1>11, <1>12, <1>13, <1>14, <1>16, <1>17, <1>18, <1>19, <1>20, <1>21, <1>22 DEF Inv

\* GET /wallet/me created the row its request had kept.
LEMMA InsertInv ==
  ASSUME Inv, NEW r \in Request, LookupInsert(r)
  PROVE  Inv'
<1> USE IdleType
<1> DEFINE w == req[r].wallet
<1>1. /\ req \in [Request -> Handler] /\ wallets \in [WalletId -> WalletRow]
  BY DEF Inv, TypeOK
<1>2. req[r].at = "insert" /\ req[r].user \in User /\ w \in WalletId
  BY DEF LookupInsert, Inv, ArgsOK
<1>3. wallets[w].user = None /\ ledger[w] = <<>> /\ wallets[w].balance = 0
  BY <1>2 DEF Inv, ReadsLater, UnusedIsBlank
<1>4. wallets' = [wallets EXCEPT ![w] = [user |-> req[r].user, balance |-> 0]]
  BY DEF LookupInsert
<1>5. req' = [req EXCEPT ![r] = Idle] /\ ledger' = ledger /\ raced' = raced
  BY DEF LookupInsert, Finish
<1>6. /\ wallets'[w].user = req[r].user
      /\ \A x \in WalletId \ {w} : wallets'[x] = wallets[x]
      /\ \A x \in WalletId : wallets'[x].balance = wallets[x].balance
  BY <1>1, <1>2, <1>3, <1>4
<1>7. /\ req'[r] = Idle
      /\ \A q \in Request \ {r} : req'[q] = req[q]
  BY <1>1, <1>5
<1>8. \A q \in Request \ {r} : req[q].at # "idle" => req[q].wallet \in WalletId \ {w}
  BY <1>2, <1>3 DEF Inv, RowsApart, ArgsOK
<1>9. TypeOK'
  <2>1. [user |-> req[r].user, balance |-> 0] \in WalletRow
    BY <1>2 DEF WalletRow
  <2> QED BY <1>1, <1>4, <1>5, <2>1 DEF Inv, TypeOK
<1>10. ArgsOK'
  BY <1>7 DEF Inv, ArgsOK
<1>11. UnusedIsBlank'
  BY <1>2, <1>5, <1>6 DEF Inv, UnusedIsBlank
<1>12. RowsApart'
  BY <1>6, <1>7, <1>8 DEF Inv, RowsApart
<1>13. ReadsLater'
  BY <1>6, <1>7, <1>8 DEF Inv, ReadsLater
<1>14. Checked'
  <2>1. \A entries : Covered(Idle, entries)
    BY DEF Covered
  <2> QED BY <1>5, <1>7, <2>1 DEF Inv, Checked
<1>15. RaceRecorded'
  BY <1>5, <1>7 DEF Inv, RaceRecorded, Updating
<1>16. ReadIsCurrent'
  BY <1>5, <1>6, <1>7, <1>8 DEF Inv, ReadIsCurrent, Updating
<1>17. OverdraftNeedsNegativeCredit' /\ BalanceIsLastEntry' /\ SerialLedgerChains'
  BY <1>5, <1>6 DEF Inv, OverdraftNeedsNegativeCredit, BalanceIsLastEntry, SerialLedgerChains, Chained
<1> QED BY <1>9, <1>10, <1>11, <1>12, <1>13, <1>14, <1>15, <1>16, <1>17 DEF Inv

-----------------------------------------------------------------------------
(* The invariant *)

\* Every step keeps the invariant.
LEMMA NextInv == Inv /\ [Next]_vars => Inv'
<1> SUFFICES ASSUME Inv, [Next]_vars PROVE Inv' OBVIOUS
<1> USE IdleType
<1>1. ASSUME NEW r \in Request, NEW u \in User, NEW w \in WalletId, LookupBegin(r, u, w)
      PROVE  Inv'
  <2> DEFINE h == [Idle EXCEPT !.at = "lookup", !.user = u, !.wallet = w]
  <2>1. /\ h \in Handler /\ h.at = "lookup" /\ h.user = u /\ h.balance = 0 /\ h.wallet = w
    BY DEF Idle, Handler, TransactionType
  <2>2. Enter(r, h) /\ Unused(w) /\ UNCHANGED db
    BY <1>1 DEF LookupBegin
  <2> HIDE DEF h
  <2> QED BY <2>1, <2>2, BeginInv
<1>2. ASSUME NEW r \in Request, NEW u \in User, NEW w \in WalletId,
             NEW a \in Amount, NEW t \in TransactionType, UpdateBegin(r, u, a, t, w)
      PROVE  Inv'
  <2> DEFINE h == [Idle EXCEPT !.at = "find", !.user = u, !.amount = a, !.type = t,
                               !.wallet = w]
  <2>1. /\ h \in Handler /\ h.at = "find" /\ h.user = u /\ h.balance = 0 /\ h.wallet = w
    BY DEF Idle, Handler, TransactionType
  <2>2. Enter(r, h) /\ Unused(w) /\ UNCHANGED db
    BY <1>2 DEF UpdateBegin
  <2> HIDE DEF h
  <2> QED BY <2>1, <2>2, BeginInv
<1>3. ASSUME NEW r \in Request, CreateWallet(r) PROVE Inv'
  <2>1. req[r].at = "find" /\ req' = [req EXCEPT ![r].at = "write"] /\ UNCHANGED db
    BY <1>3 DEF CreateWallet
  <2> QED BY <2>1, GotoInv
<1>4. ASSUME NEW r \in Request, WriteBalance(r) PROVE Inv'
  <2>1. req[r].at = "write" /\ req' = [req EXCEPT ![r].at = "commit"] /\ UNCHANGED db
    BY <1>4 DEF WriteBalance
  <2>2. NewBalance(req[r]) < 0 =>
          \/ HasNegativeCredit(ledger[req[r].wallet])
          \/ req[r].type = "CREDIT" /\ req[r].amount < 0
    <3>1. ~Insufficient(req[r])
      BY <1>4 DEF WriteBalance
    <3>2. req[r] \in Handler
      BY DEF Inv, TypeOK
    <3>3. /\ req[r].balance \in Int /\ req[r].type \in TransactionType
          /\ req[r].amount \in Amount \cup {0}
      BY <3>2 DEF Handler
    <3>4. req[r].amount \in Int
      <4>1. \A a \in Amount : a \in Int BY ConstantsAssumption, Zenon DEF ConstantsAssumption
      <4> QED BY <3>3, <4>1
    <3>5. CASE req[r].type = "DEBIT"
      BY <3>1, <3>5 DEF Insufficient
    <3>6. CASE req[r].type = "CREDIT"
      <4>1. req[r].balance < 0 => HasNegativeCredit(ledger[req[r].wallet])
        BY DEF Inv, Checked, Covered
      <4>2. NewBalance(req[r]) = req[r].balance + req[r].amount
        BY <3>6 DEF NewBalance
      <4> QED BY <3>3, <3>4, <3>6, <4>1, <4>2
    <3> QED BY <3>3, <3>5, <3>6 DEF TransactionType
  <2> QED BY <2>1, <2>2, GotoInv
<1>5. ASSUME NEW r \in Request, LookupMissing(r) PROVE Inv'
  <2>1. req[r].at = "lookup" /\ req' = [req EXCEPT ![r].at = "insert"] /\ UNCHANGED db
    BY <1>5 DEF LookupMissing
  <2> QED BY <2>1, GotoInv
<1>6. ASSUME NEW r \in Request, UpdateRefused(r) \/ LookupFound(r) \/ Fail(r) PROVE Inv'
  BY <1>6, FinishInv DEF UpdateRefused, LookupFound, Fail
<1>7. CASE UNCHANGED vars
  <2>1. /\ wallets' = wallets /\ ledger' = ledger /\ raced' = raced /\ req' = req
        /\ UNCHANGED db
    BY <1>7 DEF vars, db
  <2>2. TypeOK' /\ ArgsOK' /\ RowsApart' /\ ReadsLater'
    BY <2>1 DEF Inv, TypeOK, ArgsOK, RowsApart, ReadsLater
  <2>3. Checked' /\ RaceRecorded' /\ ReadIsCurrent'
    BY <2>1 DEF Inv, Checked, RaceRecorded, ReadIsCurrent
  <2> QED BY <2>1, <2>2, <2>3, TablesStutter DEF Inv
<1> QED BY <1>1, <1>2, <1>3, <1>4, <1>5, <1>6, <1>7, FindInv, CommitInv, InsertInv DEF Next

\* The invariant holds in every reachable state.
LEMMA Invariance == Spec => []Inv
BY InitInv, NextInv, PTL DEF Spec

-----------------------------------------------------------------------------
(* Theorems *)

\* The wallet rows, the ledger and the requests of WalletService keep their types.
THEOREM WalletTypes == Spec => []TypeOK
<1>1. Inv => TypeOK BY DEF Inv
<1> QED BY <1>1, Invariance, PTL

\* However updates overlap, and whatever signs their amounts have, a wallet is below
\* zero only if updateWallet credited it with a negative amount: a debit writes the
\* value it checked.
THEOREM OnlyCreditsOverdraw == Spec => []OverdraftNeedsNegativeCredit
<1>1. Inv => OverdraftNeedsNegativeCredit BY DEF Inv
<1> QED BY <1>1, Invariance, PTL

\* The wallet row and its newest ledger row agree: updateWallet writes both in
\* one transaction under the row's lock.
THEOREM BalanceAndLedgerAgree == Spec => []BalanceIsLastEntry
<1>1. Inv => BalanceIsLastEntry BY DEF Inv
<1> QED BY <1>1, Invariance, PTL

\* The ledger of a wallet on which no two updates overlapped has no gap, whatever
\* failed: updateWallet is right as long as it is alone.
THEOREM SerialUpdatesChain == Spec => []SerialLedgerChains
<1>1. Inv => SerialLedgerChains BY DEF Inv
<1> QED BY <1>1, Invariance, PTL
=============================================================================
