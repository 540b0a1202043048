# Towchen API: verification project

TLA+ models of the Towchen API (a NestJS server over PostgreSQL through Prisma 7),
TLC runs that check them on small instances, and TLAPS proofs of what matters
most for every size. Paths are relative to the repository.

Contents: 1 the system · 2 modules and the code · 3 runs · 4 fairness ·
5 proofs · 6 disagreements with the documentation · 7 assumptions and what is
left out · 8 what is left.

## 1. The system

One Node.js process (or several behind a balancer) serves HTTP requests. A
handler is a sequence of `await`s; between two of them every other request may
run. State lives in PostgreSQL, at READ COMMITTED, with `relationMode =
"prisma"`: the database knows primary keys and unique indexes but no foreign
keys. A statement outside `$transaction` commits on its own. So the questions
worth asking are the same everywhere: what was read before an `await` and used
after it, what is written in separate statements, what a failure in between
leaves, and which row locks wait for which.

| Component | State it keeps | Operations | Interacts with | What is hard | What makes it correct | Modelled in |
|---|---|---|---|---|---|---|
| Orders (`modules/order`) | `order`, `order_location`, `order_otp` | create, accept, send-otp, verify-otp, details, list | redeems vouchers and credits wallets inside its transactions; reads drivers; sends SMS | check outside the transaction and update by id (accept, verify-otp); two locks in two orders; send-otp is two statements | one driver takes an order; each start and completion has its cause (a stored code, of the right type, that was submitted); the reward is paid with a completion, once | `OrderLifecycle`, `OrderPromise`, `Estimates` |
| Vouchers (`modules/voucher`) | `voucher` | generate, validate, redeem, calculate discount | called by create-order and by registration | many requests validate one code at once; redemption is part of the caller's transaction | a voucher is spent once, by somebody else than its owner, and never without an order | `OrderLifecycle`, `VoucherPromise`, `Estimates` |
| Wallet (`modules/wallet`) | `wallet`, `wallet_transaction` | get-or-create, update | called by a completion | balance read, computed, written as an absolute value; `wallet.user_id` not unique | a balance is below zero only by a negative credit; ledger and balance agree | `Wallet` |
| Drivers (`modules/driver`) | `driver`, documents | create, update, assign vehicle, ban, delete, upload, submit for approval | flips `vehicle.availability_status`; contacts of vendors | driver and vehicle are written in separate statements; the status is set after a second read | a vehicle has one driver; who is under approval has the documents; a ban holds | `Fleet`, `Onboarding`, `Registry`, `ContactVerification` |
| Vehicles (`modules/vehicle`) | `vehicle`, documents | create, update, upload, submit for approval, ban, delete | owned by a vendor, assigned to a driver | deletion or ban against a concurrent assignment | what a driver has is not offered; numbers are unique | `Fleet`, `Registry` (in part) |
| Vendors (`modules/vendor`) | `vendor`, `vendor_services`, documents | create, agreement, update, delete | services, storage, OTP | duplicate look-ups in statements of their own | one vendor per contact | `Registry`, `ContactVerification` (in part) |
| Contact OTP (`modules/otp`) | `otp` | send, verify | mail and SMS; authentication, contact change | not consumed on use; latest by `created_at`; messages late, lost, out of order | the code that arrived last is the one that works | `ContactVerification` |
| Authentication (`modules/auth`) | verified flags, passwords | register, log in, verify contacts, reset password | OTP, accounts | several steps of several requests; contacts change between them | a flag or a password is written only for somebody who submitted the account's codes | `ContactVerification` |
| Customers (`modules/customer`) | `customer`, `customer_vehicle` | register, update, delete, vehicles | OTP, voucher (referral) | registration writes outside a transaction; a vehicle is added while the customer is deleted | one customer per contact; vehicles go with their customer | `CustomerRecords`, `Registry` |
| Addresses (`modules/customer-address`) | `customer_address` | create, update, delete | customers, maps | the default is counted, cleared and set in three statements | one default address, however requests overlap, unless two set one at once | `CustomerRecords` |
| Request log (`modules/log`, `core/response`) | `logs`, timers and queues in memory | write after the answer, retry, list, delete | guards, interceptors, exception filter | deferred twice, retried with a back-off, lost with the process | every answer becomes one true row or a reported loss | `RequestLog` |
| Estimates (`modules/location`) | none | distance, price, tax | sub-services, dispatch, vouchers | metres and kilometres, rounding, a three-way journey | what is quoted is what is charged | `Estimates` |
| Dispatch, driver locations | latest position per driver | nearest drivers, arrival | drivers, vehicles, maps | two phases: nearest in a straight line, then quickest on the road | of the drivers asked the quickest is told | `Estimates` (in part) |
| Service catalogue | `service`, `sub_service`, conditions | create, update, move, delete | orders | references without foreign keys; an order's service and a moved sub-service's are not looked up | what a row refers to stays there | `Catalogue`, `Registry` |
| JWT and guards | none | per request | all | none of its own | what the log says of the caller | `RequestLog` (in part) |
| Mail, SMS, maps, storage | external services | send, look up, upload | all | may fail or be slow | external | outcomes only |
| Configuration, responses, Prisma client; vendor bank details (an empty service) | none | — | — | — | — | not modelled |

`PROJECT.json` lists the components with what is modelled of each, and under
`hazards` everything in the code that is hard to test, at its line.

## 2. Modules and the code

| Module | Role |
|---|---|
| `OrderLifecycle` | the order handlers with voucher redemption and reward, one action per database statement |
| `VoucherPromise` | abstract: a voucher is issued and spent, each in one step |
| `OrderPromise` | abstract: what an order promises when handlers, locks and failures are hidden |
| `Wallet` | wallet rows, ledger, and the requests on them |
| `Fleet` | drivers, vehicles, and who has which; one action per statement |
| `ContactVerification` | the table of one-time codes, the flows that share it, and the updates that change a contact |
| `RequestLog` | guards, interceptor, exception filter and the background writer with its retries and stops |
| `Registry` | the look-up-then-write by which contacts, numbers and names are kept unique in six tables |
| `CustomerRecords` | customers with their vehicles, referral voucher and saved addresses |
| `Catalogue` | services, sub-services, conditions and orders, with Prisma's emulated references |
| `Onboarding` | a driver's documents, submission, review and ban |
| `Estimates` | estimate, arrival, voucher price and the amounts of an order |
| `MCOrderLifecycle`, `MCWallet`, `MCFleet`, `MCContactVerification`, `MCRequestLog`, `MCEstimates` | instances for TLC: bounds, profiles, symmetry |
| `MCBackOffice` | instance of `Registry`, `CustomerRecords`, `Catalogue`, `Onboarding` and `Estimates` together |
| `OrderLifecycle_Proofs` | its inductive invariant, the theorems on its safety properties, and that it implements `VoucherPromise` and `OrderPromise` |
| `Wallet_Proofs`, `Fleet_Proofs`, `Registry_Proofs`, `RequestLog_Proofs`, `ContactVerification_Proofs`, `CustomerRecords_Proofs` | inductive invariant of each module and the theorems on its safety properties |
| `BackOffice_Proofs` | the same for `Catalogue`, `Onboarding` and `Estimates`, and for their composition in `MCBackOffice` |

### OrderLifecycle

A request is an element of `Request`; its record in `req` is the handler's
parameters and locals, and `at` is the statement it executes next. The
correspondence, with `order.service.ts` unless another file is named:

| Handler | Actions, in the order the code runs them |
|---|---|
| `createAsync` 183–317 | `CreateBegin`, then with a voucher `CreateValidate` (`validateVoucherAsync`, outside the transaction), `RedeemValidate` (again, in `redeemVoucherAsync`), `CreateRedeem` or `RedeemLost` (the `update` whose WHERE repeats the tests), and `CreateInsert` (inserts and COMMIT); `CreateRefused` is a refused validation |
| `acceptOrderAsync` 371–516 | `AcceptBegin` (status and profile read), `AcceptOrder` (`order.update`), `AcceptOtp` (`order_otp.upsert`), `AcceptSend` (the START code goes out, inside the transaction), `AcceptCommit` (Start/End locations replaced, COMMIT) |
| `sendOrderOtpAsync` 26–81 | `SendBegin`, `SendOtp` (commits on its own), `SendStatus` (commits on its own; then the code goes out, or does not when its confirmation is lost) |
| `verifyOrderOtpAsync` 86–176 | `VerifyBegin`, `VerifyCheck` / `VerifyRefused` (record read, tests), `VerifyMismatch` (attempts, 400), or the transaction `VerifyOtp`, `VerifyOrder`, `VerifyCommit` (reward, COMMIT) |
| `generateVoucherAsync` (`voucher.service.ts` 11–41) | `GenerateVoucher` |
| time, failures, the database | `Expire`, `Fail`, `DeadlockVictim` |

*Transactions.* What a transaction writes appears in the tables in its commit
action, together; until then its rows are locked. Nothing stores the locks: who
holds a row follows from the stages (`HoldsOrder`, `HoldsOtp`, `HoldsVoucher`),
and a statement that writes a row is guarded by the row being free. A
transaction that fails just finishes, which is its rollback. A conditional
`UPDATE` is evaluated once the row is free, as PostgreSQL re-evaluates it.

*Data left out.* Amounts, addresses, names and the Breakdown and Drop locations
are written once, with the order, and no later step depends on them. The
Start and End rows are kept as "which driver's location is there", because
accept replaces them conditionally. `has_expired` and `used_by_id` of a voucher
are always written together and are one field. An order's `vehicle_id` and
`vendor_id` are a function of the driver and go with it. Two histories: `sent[o]`, the
types of code that went out to `o`'s customer, which is not the same as the codes in
`otps` (a failure after the upsert leaves one that was stored and never sent, and one that an
accept sent may never be stored); and `superseded` of a verification, whose code a resend
or a second accept replaced between the comparison (line 125) and the UPDATE that locks the
record (line 145). `rewards[o]` counts the committed
wallet credits of `o`'s completions; how a credit reaches a balance is `Wallet`.
The codes a driver may submit are exactly those of `Code`, the right one among them.

### Wallet

`UpdateBegin`, `FindWallet` or `CreateWallet` (`getOrCreateWalletByUserId` in the
transaction: any row of the user, for `findFirst` has no order), `UpdateRefused`,
`WriteBalance` (ledger row and `UPDATE`; the row is locked) and `UpdateCommit`
are `updateWallet`; `LookupBegin`, `LookupFound`, `LookupMissing` and
`LookupInsert` are `GET /wallet/me`, where the row is created in a statement of its
own. A user may end up with two wallets. `ledger[w]` lists the
`wallet_transaction` rows in commit order; the ids are drawn at the INSERT and may
be in another order when two updates overlap. Amounts are integers of either sign, for
`WalletUpdateDto` asks no more than that there is one; only a DEBIT tests what it leaves. `raced` is a history variable: the
wallets on which two updates were under way at once.

### Fleet

`driver.vehicle_id` and `vehicle.availability_status` say the same thing twice, and no
handler opens a transaction: every statement is an action that commits at once, and a
`Fail` between two of them leaves what was written.

| Handler | Actions, in the order the code runs them |
|---|---|
| `assignVehicleAsync` (`driver.service.ts` 341–400) | `AssignBegin` (driver read), `AssignCheck` / `AssignRefused` (`_validateVehicleStatus`), `AssignVehicle`, `ReleaseVehicle` (if the driver had another vehicle), `MarkVehicle`; with `vehicle_id` 0 `UnassignBegin`, `UnassignVehicle`, `ReleaseVehicle` |
| `deleteAsync` (432–448) | `DeleteBegin`, `DeleteDriver`, `ReleaseVehicle` |
| `submitForApprovalAsync`, `banAsync`, `updateAsync`, `deleteAsync` (`vehicle.service.ts`) | `VehicleBegin` (vehicle read), then `SubmitVehicle`, `BanVehicle`, `UpdateVehicle` or `RemoveVehicle` |
| `createAsync` of both | `CreateDriver`, `CreateVehicle` |
| the back office | `ApproveVehicle`: external, for no code under `src/` turns a vehicle `Available` |

`contested` is a history variable: the vehicles of requests that overlapped (one driver or
one vehicle in common), that were cut short, or that were approved while a driver had
them. The properties are about the other vehicles; of contested ones little
holds: a second assignment passes the check of line 382 before the first has marked the
vehicle, and two drivers have it. The vehicle's own operations never make one contested:
they may come at any moment. Ownership, the fleet type and a vehicle's documents are left out (the driver's documents
and status are in `Onboarding`); a refusal may always happen.

### ContactVerification

All flows share the table `otp`, keyed by the contact alone; `otps` is that table in the
order of `created_at`, and a code is the index of its row: that two codes are equal by
chance is left out. The message of a row arrives (`Deliver`), at any time and in any order,
or is lost (`Lose`); rows expire in their order (`Expire`).

| Handler | Actions |
|---|---|
| every sender (`otp.service.ts` 34–76, `driver-auth` 108–142, 191–275, 367–403, `vendor-auth` 49–111, 178–236, `customer-auth` 33–71) | `SendOtp`, `SendRegistrationOtp`, `SendVerificationOtp`, `SendLoginOtp`, `SendForgotPasswordOtp`, then `InsertOtps` (one statement, also for two contacts), then `Deliver` or `Lose` per message |
| `verifyVerificationOtpAsync` (`driver-auth` 282–361) | `ConfirmBegin` (driver read), `MatchOtp` per contact or `MatchRefused`, `ConfirmWrite` (both flags, by id) |
| `resetPasswordAsync` of a driver | `ResetPasswordBegin`, `MatchOtp` (any unexpired row with the code), `PasswordWrite` |
| `resetPasswordAsync` of a vendor | `CheckBegin`, `MatchOtp` (the latest row), `FindVendor` or `FindRefused`, `PasswordWrite` |
| verifications without an effect of their own, logins | `CheckBegin`, `LoginBegin`, `MatchOtp` |
| `changePasswordAsync` | `ChangePasswordBegin`, `PasswordWrite` |
| `updateProfileAsync` (`driver.service.ts` 220–266) | `ProfileBegin` (driver read), `ProfileWrite` (contacts written, flags reset by comparison with what was read) |
| the other edits, deletions | `EditAccount`, `DeleteAccount` |

Histories: `proved`, the contacts for which a right code was submitted; `drifted`, the
channels whose contact was replaced under a set flag by a vendor's edit (which resets
nothing) or by a race; `muddled`, the contacts with overlapping or lost sends. Whether the
new contact of an edit is taken is a possible refusal here and modelled in `Registry`.

### RequestLog

A request passes `Arrive`, `Pass` (the guards) or `Catch` (the filter, from `Throw`),
`Return` and then `Reply`, or `ReplyThrows` when formatting or serialising the answer
fails after the interceptor's tap has run. What is to be logged is a callback in `queue`
(`setImmediate` in the interceptor or filter): `Dispatch` builds the entry and hands it to
`saveLog`, which defers once more; `Persist` starts the first attempt. `Stored`, `Rejected`
(`_handlePersistError`: next attempt after a timer, or dropped), `Unconfirmed` (the commit
happened, its answer did not arrive) and `Retry` (the timer) are `_persist`
(`log.service.ts` 203–284). `Stop` is a stop and restart of the process: queue, timers and
open requests are gone. The order of interceptors is that of their registration, so the
answer is formatted outside the logging one. The filter gets a host without handler and
class, so `@NoLog` is never found there: an error on a quiet route is logged. An entry is
named by its request and by whether the success or the error path built it.

### Registry

Six tables (vendor, driver, customer, vehicle, service, sub-service) keep values unique by
the same two statements: look the value up (`CreateBegin`, `UpdateBegin`), then write it
(`Insert`, `Write`). Which rows a look-up sees (`Found`, `Unused`) and which row an update
may leave out follow each table's own code; `service` and `sub_service` have a unique index
besides (`Admitted`). `ProfileBegin` is the driver's own edit, which looks nothing up.
`contested` are the values of requests that overlapped, or that nobody looked up. A row has
one value: what is checked of one unique column is checked of the others of its table.

### CustomerRecords

| Handler | Actions |
|---|---|
| `registerCustomerAsync` (`customer.service.ts` 21–77) | `RegisterBegin`, `Register` (customer and first vehicle, one nested statement), `GiveVoucher` (after the commit) |
| `addVehicleAsync`, `deleteVehicleAsync`, `deleteAsync` | `OwnBegin`, `AddVehicle`; `DropBegin`, `DropVehicle`; `OwnBegin`, `DeleteCustomer` (one transaction) |
| `createAsync` (`customer-address.service.ts` 20–71) | `SaveBegin` (label), `CountAddresses`, `ClearDefaults`, `InsertAddress` |
| `updateAsync`, `deleteAsync` of an address | `UpdateBegin`, `ClearDefaults`, `UpdateAddress`; `RemoveBegin`, `RemoveAddress` |

Requests of one customer overlap at every statement. `contested`: customers who were deleted
with a vehicle on its way to them, or two of whose requests set a default address at the same
time (`SetsDefault`: from the clearing to the write); `forsaken`: customers whose default was
deleted or unset, or cleared by a request that then failed.

### Catalogue

`relationMode = "prisma"` makes the references the handlers' business. An insertion finds
its parent (`AddBegin`) and inserts later (`Insert`, `SetImage`); a deletion finds the row
(`RemoveBegin`), Prisma looks for rows that need it (`Check`) and deletes it, with the
nullable references of the orders it found set to NULL (`Remove`). An order has two
references: its sub-service is looked up (`AddOrderBegin`) and nullable, its service is
whatever the body says and required, so that an order lets a sub-service go but not its service
(`Needed`). A change of service does not look for the new one either (`MoveBegin`, `Move`).
`contested`: rows removed with another on its way below them; `unlooked`: rows whose
reference, which nobody looked up, led nowhere when it was written.

### Onboarding

A vendor's edit, upload or ban sets `Banned` in the statement that writes (`EditWrite`,
`UploadWrite`, `Ban`); the driver's own edit or upload is followed by a second read and, if
the documents are complete, by `UnderApproval` (`ProfileWrite` or `UploadWrite`, `Recheck`,
`Promote`). `submitForApprovalAsync` is `Begin`, `Submit`, `Promote`. `Approve` is the back
office (external: no code under `src/` does it). The vehicle's side is `VehicleChanges`,
which may come at any moment. `barred` are drivers that a vendor banned and nobody has since
begun to put under approval; `contested` those with overlapping requests.

### Estimates

`GetEstimate` is `getOrderEstimateAsync` with `mapToPricedSubServices` and the two phases of
`DispatchService`; `CalculateDiscount` is `calculateDiscountAsync`; `CreateOrder` and
`CreateOrderWithVoucher` are the amounts of `createAsync`, for what the app was answered
(`Answered`) and for totals of its own (`Foreign`: the DTO takes any object or none), and
`SetPrice` changes the sub-service in between. Amounts are in paise, distances in
metres, `Rounded` is `toFixed(2)`: a tie, which binary floating point may round either way,
is rounded up, and the properties leave half a paisa of room for it.

### The abstract specifications

`VoucherPromise` has two steps, `Issue` and `Spend`; `Spend` marks the voucher and
puts it on an order at once. The mapping takes both from the tables
(`VP == INSTANCE VoucherPromise WITH ...`). `OrderPromise` says which changes of
status, driver, codes and reward an order may see, and from where: an order gets a
driver only after a START code was sent for it (`Announce`, `Assign`) and is never left without
one, it is started only when a START code is stored for it and completed only when a
COMPLETE code is, and a reward comes with a completion of an order that carries a voucher. It
keeps `stored` and `sent` apart, as a code is stored (`StoreCode`) before it is sent, if it is
(`AwaitCode`). It deliberately promises no order among the statuses, because the code
keeps none, and not that a code that verifies was sent (section 6).

## 3. Runs

| Run | Instance | States | What it shows |
|---|---|---|---|
| `order_lifecycle` | 1 order, 2 drivers with different profiles, 2 codes, 2 requests | 1 539 508 | accept, send-otp and verify-otp at every interleaving of statements, with expiry, failure and lock cycles: the row stays consistent, `OrderPromise` is implemented, and a lock cycle needs a stale accept. Deadlock of the model is checked |
| `order_vouchers` | 3 orders, 3 customers, 2 vouchers, 3 requests | 3 953 (symmetry) | three creations race for two codes: single use, no loss, `VoucherPromise` is implemented |
| `order_rewards` | 1 order, 1 driver, 1 voucher, 2 requests | 266 679 | the reward is paid exactly with a completion; under fairness every request ends |
| `wallet` | 1 user, 2 requests, 4 ids, amounts −1 and 1, 3 entries | 884 529 (symmetry) | a balance falls below zero only by a negative credit, balance and ledger agree, and without overlap the ledger replays |
| `fleet` | 2 drivers, 2 vehicles, 2 requests | 1 615 310 (symmetry) | a vehicle whose reassignments follow each other has one driver, and is not offered while it has; bans, edits, approvals and deletions come at any point |
| `accounts` | 1 driver or 1 vendor, 1 email, 2 numbers, 2 requests, 2 codes | 1 078 466 (symmetry) | flags and passwords are written only for submitted codes, a set flag is about the present contact, the code that arrived last is the one that works |
| `request_log` | 2 requests (one guarded, one quiet), 3 attempts, 1 stop | 168 723 | a row tells the answer that was given, once; nothing is dropped early, and no entry vanishes between callbacks, timers and table; under fairness every answer is told |
| `back_office` | 2 requests in each of five modules | 610 773 (symmetry) | what the two-statement handlers keep, and which overlaps of two requests break it: unique values, one default address, vehicles with their customer, references, bans and reviews; and the arithmetic of estimates over bounded inputs |
| `accept_race`, `otp_reuse`, `wallet_race`, `voucher_price` | as above | stops at the counterexample | the disagreements of section 6 |

*Bounds.* `MaxAttempts` and `MaxRewards` stop new verifications (never one under
way) once an order saw that many failures or rewards; the code has no limit on
either, so the bounds only cut off repetition of what happened already. Two
requests are enough for every race between two handlers, and three creations on
two vouchers let one lose a voucher and another take the next. Requests on
different orders meet only in vouchers, and for those there are three
orders. Two codes let a resend change the code. Two drivers, one with both
locations and one whose profile has a start only, or nothing, when it is read, give all the
ways in which `Replaced` can differ. `MaxRewards` is 1, and two verifications that are both
under way go beyond it. `MCAmount` has one amount of each sign. `MaxEntries` 3 lets a balance be
paid in, drawn on by two overlapping debits, and used again. Two drivers and two
vehicles let a vehicle change hands while its driver changes vehicles; `SomeUncontested`
stops the `fleet` run where every vehicle is contested, as `contested` never shrinks and
its invariants say nothing about such states.

`accounts` has one active account at a time, since what another account does
cannot be told from what strangers to this one do, and two rows of `otp` (`MaxOtps`): an
earlier and a later code of one contact, or one of each of two. `DeletedKept` leaves a deleted account
alone. A third attempt (`MaxRetries` is the code's own 3) and one stop are in `request_log`;
a second stop would find the same memory to lose. `back_office` is the union of five
specifications that share no table that matters to their properties: `part` says which
one a behaviour runs, the variables of the others are None, and `Bound` limits each:
one table of `Registry` at a time, or drivers beside one vendor; customers of whom one makes
requests at a time, two of them at any statement, and one stays (`CustomersBound`); drivers until they are deleted; estimates until the
order is placed. Of `Registry`, `Catalogue` and `CustomerRecords` two ids per table suffice
for two rows to clash; three drivers let two be near and one be left out by the limit of 2.
Prices, distances and percentages are chosen so that roundings happen, the fixed distance is
exceeded and not, and a discount of 100 % is taken; `MCForeign` has the body without totals and
one with a total below zero; the drivers' distances (`Straight`) and
the durations of their routes (`Seconds`) need two values each to be told apart or tie.

*Symmetry* is used in safety runs only, over sets the specification never
tells apart; the drivers of an order are not symmetric, as their profiles differ.
`MCBackOffice` swaps two members of each set (`Swap`), those of different modules together.
`order_vouchers` does not check deadlock, for without drivers
nothing is left to do once every id is used; neither do `fleet` and `back_office`, where
nothing is left once everything is deleted, `accounts`, where the table is full in the end,
nor `request_log`, where every request has been answered.

Every property of a passing run has a mutant of the mapped code in `PROJECT.json`
which violates it in the run's own configuration. Most are plausible edits: the WHERE
condition of the redeeming UPDATE dropped, a statement moved out of its transaction,
a missing DELETE, a test off by one, a relative instead of an absolute write.

## 4. Fairness

`RequestsFinish` is checked under `FairSpec`: strong fairness of `Step(r) \/ DeadlockVictim(r)`,
for every request. The event loop resumes every
`await` whose result is there, so a statement that can run is run; it is strong,
not weak, because a row lock may be taken and released repeatedly by others while a
statement queues for it, and PostgreSQL serves the queue of a row lock in turn. A
lock cycle persists until it is broken, and PostgreSQL's deadlock detector does
break it. Nothing is assumed about calls arriving, codes expiring or requests failing.

`EveryAnswerIsTold` is checked under weak fairness of `Settle(r)` (the answer that follows a
handler's return), of `RunCallback` (the event loop runs what is in its queue) and of some
`RunAttempt` (a timer fires, and an insert succeeds or fails in the end). Weak fairness is
enough, for nothing but a stop, after which the entry is lost and told as such, takes these
steps away again. Nothing is assumed of clients, of handlers, or of what the
database answers: it may refuse all attempts.

## 5. Proofs

The only assumptions are the modules' named ones on their constants: `None` is not one of
the other values, `PlacesOf` says for each driver which locations its profile may have when it
is read, amounts are integers and bounds are naturals. The sets may be infinite or empty. `CustomerRecords`, which no module
extends, has no assumption of its own; there the theorems state `NullIsApart` as their
hypothesis. `MCBackOffice` names what its modules rely on: SQL NULL is no id and no row
(`CustomersAssumption`), the tables' ids are told apart (`CatalogueAssumption`, for rows
carry the table's name in the code), and prices, distances, durations and percentages are not
negative, as the DTOs' `@Min(0)` and the maps provider have it, of finitely many drivers
(`EstimatesAssumption`; the totals that a body names, `Foreign`, are any integers). The invariants were checked with TLC on the runs' instances before
they were proved.

Every safety property that a passing run checks is proved.

### Orders

`Inv == Types /\ Tables /\ Requests /\ Codes` is inductive (`Invariance`):

- `Types`: `TypeOK`, and that a request at a stage has the arguments its handler has
  (`ArgsOK`); needed to know that what a commit writes has its type.
- `Tables`: the properties about committed rows, with what they need to be inductive:
  an id not handed out has a blank row (`AbsentIsBlank`), a voucher on an order
  was redeemed by its customer (`AppliedByCustomer`), an order without a driver has no
  Start or End location (`UnassignedIsUnplaced`).
- `Requests`: what a request under way may rely on although it read before an `await`:
  no two creations have one id and nobody else can name it (`CreatesApart`), a creation
  about to insert holds the lock of an unused voucher that is somebody else's
  (`VoucherHeld`), the order of any other request exists, and is past New when its
  handler checked the driver (`OrderExists`).
- `Codes`: what it may rely on of the one-time codes: a record is locked by one transaction
  (`OtpHeldOnce`), a code that was stored or compared stays in some form (`CodeStored`),
  an accept has sent its code when it commits (`Announced`), and a verification goes with the
  current one (`MatchedCodeIsCurrent`).

No safety property is inductive alone. `VoucherSingleUse`, for one, needs
`VoucherHeld`, which needs the row lock: another request cannot redeem between
`CreateRedeem` and the commit. `UntouchedUntilAccepted` needs `OrderExists`: the
`UPDATE ... WHERE id` of a late send-otp is harmless because an order never goes
back to New. `MatchedCodeIsCurrent` needs `OtpHeldOnce`: whoever writes a record finds it
free, so no verification is between its UPDATE and its COMMIT, and one that is before
becomes `superseded`.

| Theorem | Property |
|---|---|
| `TypeCorrect` | `TypeOK` |
| `VoucherUsedOnce`, `VoucherRedeemedByCustomer`, `VoucherNeverLost` | `VoucherSingleUse`, `RedeemedByItsOrder`, `NoVoucherLost` |
| `AcceptedFirst`, `OnlyCurrentCodes`, `VerifiedAndAdvanced` | `UntouchedUntilAccepted`, `MatchedCodeIsCurrent`, `VerifiedMeansAdvanced` |
| `PlacesAreTheDrivers`, `RewardWithCompletion` | `PlacesFollowDriver`, `RewardIffCompleted` |
| `DeadlockIsStaleAccept` | `DeadlockNeedsStaleAccept` |
| `VoucherRefinement` | `ImplementsVoucherPromise` |
| `OrderRefinement` | `ImplementsOrderPromise` |
| `WalletTypes` | `TypeOK` of `Wallet` |
| `OnlyCreditsOverdraw`, `BalanceAndLedgerAgree`, `SerialUpdatesChain` | `OverdraftNeedsNegativeCredit`, `BalanceIsLastEntry`, `SerialLedgerChains` |

The deadlock theorem is a case analysis of who waits for whom: a creation, a send-otp
and a verify-otp that has not locked yet hold nothing others wait for while they wait,
so a cycle has an accept at its second statement and a verification, which cannot be
there while the order is still New.

The refinements use one mapping of steps each. Vouchers: `GenerateVoucher` is `Issue`,
`CreateInsert` with a voucher is `Spend` (its guard holds by `VoucherHeld` and
`RedeemedByItsOrder`), everything else leaves the three abstract variables alone. Orders:
`CreateInsert` is `Place`, `AcceptSend` is `Announce`, `AcceptCommit` is `Assign`
(`Announced`), `SendOtp` is `StoreCode`, `SendStatus` is `AwaitCode`, `VerifyCommit` is `Start` or
`Complete` (the code is stored: `CodeStored`).

### Wallet

`Inv` of `Wallet_Proofs` adds to the three properties what a request may rely on between
its read and its commit: an id not handed out has no history (`UnusedIsBlank`), two
requests name the same row only if it is committed (`RowsApart`, `ReadsLater`), the balance
a request computes with, or the one it is about to write, is negative only if the ledger has a
credit of a negative amount or the request is one (`Checked`), two updates of
one row are recorded as such (`RaceRecorded`), and where there was no other the balance
that was read is still the row's (`ReadIsCurrent`). `OverdraftNeedsNegativeCredit` needs only
`Checked`: a debit leaves no negative balance because the write is absolute and was itself
checked, not because the read was current, which is why `DebitsCovered` fails all the same; and
ledger rows are never taken back, so the credit that began it is found however many updates
followed. `LookupInsert` keeps
`BalanceIsLastEntry` because of `UnusedIsBlank` and `RowsApart`: the inserted row has no
ledger yet.

### Fleet

`Inv` of `Fleet_Proofs`: reassignments that overlap are recorded (`Recorded`); so the driver
that a handler read is, unless contested, as it was read when the handler writes
(`ReadIsCurrent`); nobody has a vehicle that passed the check or was taken from its driver
(`FreeInHand`); and a held vehicle that is still Available is about to be marked
(`MarkToCome`). The last two carry the argument: an assignment gives a vehicle that nobody
holds, and with no handler under way nobody is left to mark. Bans, edits and deletions of
the vehicle disturb none of it, as they write other columns; an approval of a held
vehicle makes it contested.

| Theorem | Property |
|---|---|
| `FleetTypes` | `TypeOK` of `Fleet` |
| `OneDriverPerVehicle`, `HeldIsNotOffered` | `OneHolderUnlessContested`, `HeldIsNotAvailable` |
| `HandedOverFree` | `FreedBeforeGiven`, an action property: a vehicle is given only when nobody has it |

`FreedBeforeGiven` is stated in `Fleet_Proofs` and follows from `FreeInHand`. The runs
leave it out: without the symmetry that action properties do not allow, TLC needs all
12 293 829 states of the instance, where it finds it true.

### Registry

For a value that is not contested: at most one live row has it (`AtMostOne`), at most one
request is about to write it (`Sole`), and no live row has what such a request will write,
except the row it updates (`StillFree`: the look-up is still true). An indexed table needs
only `AtMostOne`, which the index keeps whatever overlaps. `RegistryTypes`, `RegisteredOnce`
[`UniqueUnlessContested`].

### RequestLog

An entry exists in one place at a time: before it is deferred it is nowhere (`Unopened`,
`Fresh`), then in one callback (`Callbacks`), then in one attempt (`Attempts`, where the
failures are one less than the attempt's number), then in the table, dropped or lost. A
done request's answer does not change (`EntryOK`), which is why an entry built after the
answer from the request's own objects still tells it. `LogTypes`, `RowsTellTheAnswer`
[`RowTellsAnswer`], `OneRowPerEntry` [`NoDuplicateRow`], `GivenUpLast` [`DroppedAfterRetries`].

`EntriesAccountedFor` [`NoEntryVanishes`] is the safety half of `EveryAnswerIsTold`: an entry
that was handed in is in memory, stored, dropped or lost, at every moment. A step may move it
but not lose sight of it (`AccountedStays`): a callback leaves the next callback or an
attempt behind, an attempt the next one, a row or a report, and a stop counts what it takes.
The property needs `HandedIn` to be inductive: while the answer is on its way the entry has
been deferred already, for the tap runs before the response. What is left to fairness is
that callbacks, timers and inserts come to an end.

### Contact verification

What a handler knows at its stage (`HandlerOK`): the codes of the contacts it read that it
no longer waits for are proved (`Entitlement \ left`), whatever became of the account since.
A message under way is of the latest row of its contact unless sends overlapped
(`PendingIsLatest`), so the one that arrives is. `FlagsAreProved` then needs that
`ProfileWrite` resets every flag whose contact it changes as far as it can see, and that
`drifted` records what it cannot. `AccountTypes`, `FlagsAreProved`
[`VerifiedContactIsProved`], `OnlyEntitledWrites` [`WritesAreEntitled`], `LastCodeWorks`
[`LastArrivalIsLatest`].

### Customers

`Inv` holds for requests that overlap. A handler knows its arguments and that the address it
names is its customer's or gone (`Handlers`); two requests that set a default of one customer
are recorded (`Recorded`). Then, unless the customer is contested, there is one default at most
and none between the clearing and the write that sets one (`Single`), and every live vehicle,
and every one on its way, is of a live customer (`Owned`). Contested or not, a customer with an
address, or about to get one, has a default, one that the next statement of some request sets, or
has forsaken it (`Book`): a request that finds no address clears and sets a default, and one
that finds some relies on this promise to whoever wrote them. `CustomerTypes`, `OneDefaultAddress`, `VehiclesGoWithCustomer` state the properties of
`CustomerRecords` that `back_office` checks on its instance.

### Catalogue

`CatalogueInv`: a handler about to insert has seen the row above, and if that row is gone
by now, its removal was recorded (`CatalogueHandlerOK`); a removal of a sub-service has found
nothing below but orders, and one of a service nothing at all, as an order's service is
required. `K!NoOrphanUnlessContested` alone is not inductive: it says nothing of the parent that
an insertion read before its `await`. The hard step is `CatalogueRemove`: each row that
still refers to the removed one either was among those that Prisma found, and lost its
reference with it, or came later, and then the removal sees that they differ
(`Below(on) # below`) and the row is contested. `CatalogueKeepsReferences` for the module by
itself, `BackOfficeReferences` [`NoOrphanUnlessContested`].

### Onboarding

`DriversInv`: what a handler read of the documents is still there (`ReadingOK`: a document
may be replaced but none is taken back), so that `Promote`, which tests nothing, promotes only
a driver who is complete; two handlers at one driver are recorded (`OverlapsRecorded`);
and a ban that stands has no handler under way that would undo it (`BanStands`). The last is
what makes `BanHoldsUnlessContested` inductive: a request for a review ends the claim on the
ban when it begins, not when it writes. `ApprovalIsEarned` for the module by itself,
`BackOfficeReviews` [`ReviewedHasDocuments`], `BackOfficeBans` [`BanHoldsUnlessContested`].

### Estimates

The arithmetic is lemmas about the operators, for all naturals: `RoundedPercent`
bounds the error of a rounding, `TotalIsLinear` that of the total,
`NetIsDue` says that what is charged and the discount make up the estimate, never less
than zero, `BestIsLeast` that the least duration of a finite set of routed drivers is
found, `NearestAreCloser` that who was not asked has `Limit` others no farther away.
`EstimatesInv` ties the steps together: an estimate is a price of its own base (`Whole`),
and what the voucher calculation shows is that estimate reduced, so an order with something
that was answered has one of the two. Of an order with other totals the invariant keeps the type
only: what it charges with a voucher is a natural number, and without one what the body says. `EstimatesAreKept` for the module by itself,
`BackOfficeEstimates` [`EstimateIsLinear`], `BackOfficeCharges` [`ChargedAsEstimated`],
`BackOfficeArrivals` [`ArrivalIsQuickest`].

### The back office together

`BackOfficeInv` is `Registry`'s invariant and that of the module `part` names
(`BackOfficeInvariance`); `CustomerRecords_Proofs` is instantiated with the composition's
variables, so its proofs are used and not repeated. With it every property of `back_office`
is proved for all values of the constants and without the run's `Bound`:
`BackOfficeTypes` [`TypesOK`], `BackOfficeUnique` [`UniqueUnlessContested`],
`BackOfficeDefaults` [`OneDefaultUnlessContested`], `BackOfficeVehicles`
[`NoVehicleOutlivesCustomer`] and those named above.

### Only model-checked

`RequestsFinish` and `EveryAnswerIsTold`: liveness under fairness is beyond the prover. The four
disagreements of section 6 are counterexamples, which TLC finds.

## 6. Disagreements with the documentation

Four runs end in a counterexample that the code really has:

- `accept_race`: `docs/order-flow.md` has accept check that the order is New. The
  check is outside the transaction and the update is by id, so of two drivers who both
  saw New the second replaces the first, and both are told they got the order.
- `otp_reuse`: "Once verified, the OTP cannot be re-used." `is_verified` is tested
  before the transaction; two verifications of one COMPLETE code both commit, and the
  creator of the voucher is paid twice.
- `wallet_race`: the "Insufficient balance" check reads a balance that another debit is
  about to lower; both debits enter the ledger, the balance falls once.
- `voucher_price`: "Calculate final price and taxes when a voucher is applied". The
  calculation taxes what the discount leaves; the order subtracts the discount from a total
  taxed in full. For 104.82 before taxes and 50 % the app shows 61.85 and the order charges
  71.27.

Met while modelling, and part of the modules, but without a run of their own:

- "Requesting a new OTP ... replaces the old one" (`docs/order-flow.md`, line 178): a code
  that is replaced between the comparison of line 125 and the UPDATE of line 145 still verifies,
  and marks the record of the new code. `MatchedCodeIsCurrent` says that there is no other way.
- A failure of `send-otp` between its two statements (line 73) leaves a code that verifies and was
  never sent, and the one that the customer has is gone. An accept that fails after line 498 has
  sent a code that was never stored.
- `wallet-update.dto.ts` checks no sign: a "credit" of a negative amount takes the balance
  below zero past the check for "Insufficient balance".
- A START verification is documented as `OtpPending` to `InProgress`
  (`order.controller.ts`, line 187); it sets `InProgress` whatever the status is.
- "Cannot assign vehicle. It is currently Unavailable.": the check is before the write, and
  two assignments may both pass it.
- The comment of `response.module.ts` calls the logging interceptor the outermost; the date
  formatter, registered before it, is. An answer that fails there has a success row and an
  error row. `no-log.decorator.ts` is to "disable API logging" of a route; its errors are
  logged. A stop loses queued entries, where `log.service.ts`, line 272, has it that "nothing is
  silently lost".
- `service.service.ts`, line 247, refuses the deletion of a sub-service with "dependent
  orders"; `order.sub_service_id` is optional, so they only lose their reference. Line 102 has
  the deletion of a service fail if there are "dependent sub-services or orders"; it does, but
  `createAsync` (`order.service.ts`, line 247) writes a `service_id` that nobody looked up, so an
  order may refer to a service that was deleted before, or never was, or is not its sub-service's.
- `create-order.dto.ts`, lines 60–65: the estimate is "passed directly from the estimate API
  response"; any object is taken, and its total is stored as the order's.
- `driver.service.ts`, lines 595–599, says that documents and verified contacts lead to a
  review; after a driver's own change only documents are looked at. `vehicle.service.ts`,
  line 340, says a submission makes the vehicle `Available`; it becomes `UnderApproval`.
- Drivers are compared with vendors, "across active drivers and vendors"; a vendor's
  registration does not look at drivers. `rollbackVendorCreation` is never called.
- The voucher calculation returns the old base price with the new taxes: an app that sends
  this object with the order has the discount taken from it a second time. A total of zero is
  stored as NULL.

## 7. Assumptions and what is left out

- Wallet amounts are integers, not floats, of either sign. The totals a body names are numbers.
- Ids are unique and not reused (sequences). Codes of an order's `generateOtp` may repeat: a
  fresh code is any element of `Code`; codes of `otp` are told apart by their rows.
- `CreateBegin` of an order is a call whose checks before the transaction pass; one that
  fails writes nothing.
- The wait for a wallet row inside a completion is not in `OrderLifecycle`: a wallet
  transaction waits for nothing else while it holds that row, so no cycle goes through it.
- The connection pool is unbounded. `createAsync` needs a second connection while it
  holds one, so a small pool can stall until the transaction times out; the pool's size is
  configuration outside the repository.
- `created_at` orders the codes as the inserts do; all codes live equally long.
- Prisma leaves an undefined member out of a condition, so a look-up without an email
  compares the number alone.

Not modelled:

- document uploads of vehicles and the vendor's agreement: each writes one URL, and no
  other step reads it before it acts;
- the links of vendors to services, and the `customer_vehicle_id` of an order, which is written
  unlooked as its service is but may be NULL;
- the saved locations of drivers (independent rows), bank details (an empty service);
- signing and decoding of tokens (a library's) and the roles' guards, which keep no state;
- mail, SMS, maps and storage beyond their outcomes, bulk mail, place searches;
- DTOs, configuration, migrations, formatting of answers, and the handlers that only read.

## 8. What is left

- Abstract specifications for the new modules as there are for orders and vouchers: an
  atomic assignment that `Fleet` implements for uncontested vehicles, an atomic register.
- A composition of `OrderLifecycle` with `Wallet` for the reward's credit, and of `Fleet`
  with `Onboarding` for the vehicle that a submission looks at.
- `createAsync` against a pool of a given size.
