------------------------------- MODULE Wallet -------------------------------
(***************************************************************************)
(* WalletService: the wallet rows of the users, the wallet_transaction     *)
(* ledger, and the requests that read and write them: GET /wallet/me, and  *)
(* updateWallet as PUT /wallet and a completed order run it.               *)
(*                                                                         *)
(* updateWallet reads a row, computes the new balance in the process and   *)
(* writes it back as an absolute value.  At READ COMMITTED nothing locks   *)
(* the row before that write; from it to the commit the row is locked      *)
(* (HoldsWallet).  Inserted rows are visible to others at the commit.      *)
(***************************************************************************)
EXTENDS Integers, Sequences

CONSTANTS
  User,       \* owners of wallets
  WalletId,   \* ids the wallet table can hand out
  Request,    \* requests in flight at the same time
  Amount,     \* amounts of an update: the DTO checks no sign
  None,       \* SQL NULL
  MaxEntries  \* bound: no update starts once a ledger is this long

ASSUME ConstantsAssumption ==
  /\ None \notin User \cup WalletId \cup Request
  /\ Amount \subseteq Int
  /\ MaxEntries \in Nat

VARIABLES
  wallets,  \* table wallet: owner and balance by id
  ledger,   \* table wallet_transaction: committed rows by wallet, in commit order
  raced,    \* history: wallets on which two updates were under way at once
  req       \* handler state of every request

db == <<wallets, ledger, raced>>
vars == <<wallets, ledger, raced, req>>

TransactionType == {"CREDIT", "DEBIT"}
WalletRow == [user : User \cup {None}, balance : Int]
NoWallet == [user |-> None, balance |-> 0]
Entry == [amount : Int, type : TransactionType, before : Int, after : Int]

\* "find" and "lookup" read the user's row, "write" updates it, "insert" creates it.
Handler ==
  [at : {"idle", "find", "write", "commit", "lookup", "insert"},
   user : User \cup {None}, amount : Amount \cup {0}, type : TransactionType,
   wallet : WalletId \cup {None}, balance : Int]

Idle ==
  [at |-> "idle", user |-> None, amount |-> 0, type |-> "CREDIT",
   wallet |-> None, balance |-> 0]

\* The rows findFirst may return for u; without ORDER BY any of them.
RowsOf(u) == {w \in WalletId : wallets[w].user = u}

\* The id the sequence hands to r if r has to insert a row.
Unused(w) ==
  /\ wallets[w].user = None
  /\ \A q \in Request : req[q].wallet # w

Enter(r, h) ==
  /\ req[r] = Idle
  /\ req' = [req EXCEPT ![r] = h]

Finish(r) == req' = [req EXCEPT ![r] = Idle]

HoldsWallet(q, w) == req[q].at = "commit" /\ req[q].wallet = w

-----------------------------------------------------------------------------
(* updateWallet *)

UpdateBegin(r, u, a, t, w) ==
  /\ Unused(w)
  /\ \A x \in WalletId : Len(ledger[x]) < MaxEntries
  /\ Enter(r, [Idle EXCEPT !.at = "find", !.user = u, !.amount = a, !.type = t,
                           !.wallet = w])
  /\ UNCHANGED db

\* findFirst finds a row of the user: its balance is the one to compute with.
FindWallet(r, w) ==
  /\ req[r].at = "find"
  /\ w \in RowsOf(req[r].user)
  /\ req' = [req EXCEPT ![r].at = "write", ![r].wallet = w,
                        ![r].balance = wallets[w].balance]
  /\ raced' = IF \E q \in Request : /\ req[q].at \in {"write", "commit"}
                                    /\ req[q].wallet = w
                THEN raced \cup {w}
                ELSE raced
  /\ UNCHANGED <<wallets, ledger>>

\* No row yet: one with balance 0 is inserted, and seen by others at the commit.
CreateWallet(r) ==
  /\ req[r].at = "find"
  /\ RowsOf(req[r].user) = {}
  /\ req' = [req EXCEPT ![r].at = "write"]
  /\ UNCHANGED db

NewBalance(h) == IF h.type = "DEBIT" THEN h.balance - h.amount ELSE h.balance + h.amount

\* Mutant of Insufficient: the test is off by one.
InsufficientOffByOne(h) == h.type = "DEBIT" /\ NewBalance(h) < -1

Insufficient(h) == h.type = "DEBIT" /\ NewBalance(h) < 0

\* 400, and the transaction rolls back, the row it created included.
UpdateRefused(r) ==
  /\ req[r].at = "write"
  /\ Insufficient(req[r])
  /\ Finish(r)
  /\ UNCHANGED db

\* The row updateWallet adds to the ledger.
LedgerRow(h) ==
  [amount |-> h.amount, type |-> h.type, before |-> h.balance, after |-> NewBalance(h)]

\* Mutant of WriteBalance: the ledger row is inserted outside the transaction.
WriteBalanceLogged(r) ==
  LET h == req[r] IN
  /\ h.at = "write"
  /\ ~Insufficient(h)
  /\ \A q \in Request : ~HoldsWallet(q, h.wallet)
  /\ req' = [req EXCEPT ![r].at = "commit"]
  /\ ledger' = [ledger EXCEPT ![h.wallet] = Append(@, LedgerRow(h))]
  /\ UNCHANGED <<wallets, raced>>

\* INSERT wallet_transaction, then UPDATE wallet: the row is locked.
WriteBalance(r) ==
  LET h == req[r] IN
  /\ h.at = "write"
  /\ ~Insufficient(h)
  /\ \A q \in Request : ~HoldsWallet(q, h.wallet)
  /\ req' = [req EXCEPT ![r].at = "commit"]
  /\ UNCHANGED db

\* Mutant of Written: the UPDATE adds to the balance the row has by now.
WrittenRelative(row, h) ==
  [user |-> h.user, balance |-> row.balance + (NewBalance(h) - h.balance)]

\* The row as the UPDATE leaves it: an absolute value.
Written(row, h) == [user |-> h.user, balance |-> NewBalance(h)]

\* Mutant of UpdateCommit: the ledger row does not say what it started from.
UpdateCommitNoBefore(r) ==
  LET h == req[r] IN
  /\ h.at = "commit"
  /\ wallets' = [wallets EXCEPT ![h.wallet] = Written(@, h)]
  /\ ledger' = [ledger EXCEPT ![h.wallet] = Append(@, [type |-> h.type, after |-> NewBalance(h)])]
  /\ Finish(r)
  /\ UNCHANGED raced

\* COMMIT: the balance and its ledger row become visible together.
UpdateCommit(r) ==
  LET h == req[r] IN
  /\ h.at = "commit"
  /\ wallets' = [wallets EXCEPT ![h.wallet] = Written(@, h)]
  /\ ledger' = [ledger EXCEPT ![h.wallet] = Append(@, LedgerRow(h))]
  /\ Finish(r)
  /\ UNCHANGED raced

-----------------------------------------------------------------------------
(* GET /wallet/me *)

LookupBegin(r, u, w) ==
  /\ Unused(w)
  /\ Enter(r, [Idle EXCEPT !.at = "lookup", !.user = u, !.wallet = w])
  /\ UNCHANGED db

LookupFound(r) ==
  /\ req[r].at = "lookup"
  /\ RowsOf(req[r].user) # {}
  /\ Finish(r)
  /\ UNCHANGED db

LookupMissing(r) ==
  /\ req[r].at = "lookup"
  /\ RowsOf(req[r].user) = {}
  /\ req' = [req EXCEPT ![r].at = "insert"]
  /\ UNCHANGED db

\* INSERT wallet, a statement of its own: user_id is not unique, so it never fails.
LookupInsert(r) ==
  /\ req[r].at = "insert"
  /\ wallets' = [wallets EXCEPT ![req[r].wallet] =
                   [user |-> req[r].user, balance |-> 0]]
  /\ Finish(r)
  /\ UNCHANGED <<ledger, raced>>

-----------------------------------------------------------------------------
\* The request dies between two statements; an open transaction is rolled back.
Fail(r) ==
  /\ req[r].at # "idle"
  /\ Finish(r)
  /\ UNCHANGED db

Init ==
  /\ wallets = [w \in WalletId |-> NoWallet]
  /\ ledger = [w \in WalletId |-> <<>>]
  /\ raced = {}
  /\ req = [r \in Request |-> Idle]

Next ==
  \E r \in Request :
    \/ \E u \in User, w \in WalletId :
         \/ LookupBegin(r, u, w)
         \/ \E a \in Amount, t \in TransactionType : UpdateBegin(r, u, a, t, w)
    \/ \E w \in WalletId : FindWallet(r, w)
    \/ CreateWallet(r) \/ UpdateRefused(r) \/ WriteBalance(r) \/ UpdateCommit(r)
    \/ LookupFound(r) \/ LookupMissing(r) \/ LookupInsert(r)
    \/ Fail(r)

Spec == Init /\ [][Next]_vars

-----------------------------------------------------------------------------
(* Properties *)

TypeOK ==
  /\ wallets \in [WalletId -> WalletRow]
  /\ ledger \in [WalletId -> Seq(Entry)]
  /\ raced \subseteq WalletId
  /\ req \in [Request -> Handler]

\* A CREDIT takes its amount as it comes, and no check looks at what is left.
HasNegativeCredit(entries) ==
  \E i \in DOMAIN entries : entries[i].type = "CREDIT" /\ entries[i].amount < 0

\* A balance below zero goes back to a credit of a negative amount on the same
\* wallet: no interleaving of debits makes one, although each checks a balance that
\* may be stale by the time it writes, and no later update hides where it came from.
OverdraftNeedsNegativeCredit ==
  \A w \in WalletId : wallets[w].balance < 0 => HasNegativeCredit(ledger[w])

\* The balance is what the last committed ledger row of the wallet says: the row
\* and the balance are one transaction, and the row lock orders the commits.
BalanceIsLastEntry ==
  \A w \in WalletId :
    wallets[w].balance =
      IF ledger[w] = <<>> THEN 0 ELSE ledger[w][Len(ledger[w])].after

\* Every ledger row starts from the amount the previous one ended with.
Chained(entries) ==
  \A i \in DOMAIN entries :
    entries[i].before = IF i = 1 THEN 0 ELSE entries[i - 1].after

\* As long as no two updates of a wallet were under way at once, its ledger
\* replays to its balance without a gap, whatever failed in between.
SerialLedgerChains == \A w \in WalletId \ raced : Chained(ledger[w])
=============================================================================
