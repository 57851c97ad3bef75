# SudoSOS in TLA+

A verification project for SudoSOS, the point-of-sale and ledger system of the
study association GEWIS. The modules model the back end (`src/backend/src`), a
Node.js program (Express, TypeORM) on MariaDB with Stripe as its payment
provider, and the part of the point-of-sale front end that takes card payments
and QR logins. TLC checks them on small instances; TLAPS proves the central
theorems for every value of the constants.

Paths below are relative to `src/backend/src` unless they say otherwise.

## 1. The system

One Node.js process serves the API, a second one (`cron.ts`) runs the nightly
tasks. Both work on one database. There is no in-process lock: what is
atomic is a single SQL statement, or a database transaction where the code
opens one. It does so in few places: the Stripe webhook, the three calls on a
terminal payment, invoices, the handout of fines, files, and accepting the
terms of service. Everywhere else each `await` of a query is a point at which
any other request, a webhook, a nightly task or a crash may come between.
MariaDB's default isolation (repeatable read) is never changed; a transaction
reads a snapshot and its writes appear at commit. Browsers are told of
changes through Socket.IO rooms, which keep nothing for a socket that is away.

| Part | State | Operations | Talks to |
|---|---|---|---|
| Transactions, transfers (`transaction-service`, `transfer-service`) | tables `transaction`, `transfer`: the ledger | create, update, delete | balances, subscribers, WebSocket |
| Balances (`balance-service`, `entity/transactions/balance`) | table `balance`: cached sum and two cursors per user | read (now or at a date), refresh, clear | the ledger; everyone who checks a balance |
| Stripe settlement (`stripe-*`, `payment-request-*`) | intents, their status rows, deposits, payment requests and attempts | create intents, webhook, cancel and fulfil requests | Stripe; creates transfers |
| Terminal payments (`terminal-payment-*`) | temporary transaction, reader, final transaction, transfer | create, process, cancel, webhook | Stripe and card readers; creates transactions and transfers |
| Card payment dialog (`terminalPayment.store.ts`, `TerminalPaymentModal.vue` in `src/frontend`) | payment, phase, what it listens for | start, cancel, close, reconcile | the API; the room of the payment |
| Payout requests (`payout-request-*`) | request, append-only statuses, link to a transfer | create, approve, deny, cancel | balances; creates transfers |
| Write-offs, closing of accounts (`write-off-service`, `user-service`, sync and expiry) | a write-off and its transfer; `deleted` and `active` of a user | write off, delete, patch, sync, expire | balances |
| Inactive administrative costs | a cost and its transfer, `inactiveNotificationSend` | notify, hand out, delete | ledger, balances |
| Seller payouts | a row and its transfer | create, change, delete | ledger, balances |
| Fines (`debtor-service`, `subscriber/transfer-subscriber`) | fines, groups, waivers, `user.currentFines` | hand out, delete, waive; cleared by a credit | ledger, balances |
| Invoices (`invoice-service`) | invoice, statuses, invoiced rows, transfers | create, update, delete | ledger |
| Products, containers, points of sale | numbered revisions | update, propagate, delete | transactions refer to revisions |
| QR login (`qr-service`, and `useQrAuth` in the front end) | sessions, rooms, what a screen shows | generate, confirm, cancel | WebSocket |
| Connection pool (`database/database.ts`) | four connections | take, give back | every query |
| Authentication, roles, notifications, files, banners, vouchers, settings | rows, tokens | CRUD, tasks | mail, LDAP |
| The other front ends (`src/frontend`) | none of the ledger | call the API | |

What makes each part correct:

- **settlement**: captured money is credited once, never twice, never without
  capture, and not lost; a request that says PAID was credited;
- **terminal payments**: a payment shown as cancelled is not charged, a paid
  one has one transaction and one transfer, final states are final;
- **dialog**: what the cashier reads is what happened to this payment;
- **balances**: a read is the sum of the stored rows, however the cache is;
- **payout requests**: decided once, paid exactly when approved, within the
  balance;
- **accounts**: a deleted account is settled and stays deleted; whoever was
  warned or charged for inactivity is warned once per period of inactivity;
- **purchases**: nobody who may not go into debt does, debt is noticed, and a
  stored purchase stays stored;
- **fines**: a waiver gives back at most the fines, what is owed is what the
  user sees, a credit clears the fines exactly when it settles the debt;
- **invoices**: a purchase is credited by one invoice, and a deleted invoice is
  undone once and in full;
- **revisions**: history does not change, and what is on sale is up to date;
- **QR login**: the screen logs in whoever confirmed;
- **pool**: everyone gets a connection in the end.

The hard behaviours: webhooks that are concurrent, duplicated, reordered and
acknowledged before they are handled; entities loaded early and saved late;
statements of one operation with anything in between; decisions inside a
transaction on what another connection reads; external effects inside a
transaction that may still roll back; replies and socket events that arrive in
any order; and a cache that others invalidate. `PROJECT.json` lists them as
hazards, each at its line.

## 2. Modules

| Module | What it is |
|---|---|
| `IntentStates` | statuses of a payment intent and which may follow which |
| `CreditLedger` | abstract: every captured payment is credited at most once, never uncaptured |
| `StripeSettlement` | top-ups: creation, webhooks, payment requests; refines `CreditLedger` |
| `TerminalPayments` | card payments; its transactions refine `CreditLedger`, too |
| `PaymentDialog` | the browser's side of a card payment |
| `BalanceCache` | the cache, the writes that should clear it, and reads |
| `Revisions` | edits of the catalogue and their propagation |
| `PayoutRequests` | payout requests, statement by statement |
| `AccountClosing` | write-offs, deletion, sync and expiry of one user |
| `InactiveCosts` | notices and costs of an inactive user |
| `Purchases` | purchases of one user, terminal sales, the debt notice |
| `Fines` | fines of one user |
| `Invoices` | invoices of one user |
| `QrLogin` | QR sessions and the screen that shows one |
| `ConnectionPool` | connections, and transactions that need two of them |
| `StripeSettlementProofs`, `BalanceCacheProofs`, `FinesProofs` | theorems about the module they are named after |
| `TerminalAndPoolProofs` | about `TerminalPayments`, `ConnectionPool` |
| `PayoutsAndPurchasesProofs` | about `PayoutRequests`, `Purchases` |
| `AccountsProofs` | about `InactiveCosts`, `AccountClosing`, `MCAccounts` |
| `OfficeProofs` | about `Invoices`, `QrLogin`, `MCOffice` |
| `ShopProofs` | about `Revisions`, `PaymentDialog`, `MCShop` |
| `MC...` | instances for TLC (symmetry, state constraints) |

Components that only share the ledger are checked side by side: `MCAccounts`,
`MCOffice`, `MCShop` and `MCLiveness` each extend several of them and add a
variable `part`, chosen in the initial state, that says whose steps are taken.
A behaviour of such a suite is a behaviour of one component, with the others at
rest in their initial states; no property ranges over two of them. What one
component does to another is in the module: a deposit is an action of
`Purchases`, a purchase one of `AccountClosing`.

Definitions named `X_Something` next to a definition `X` are mutants: the bug
a slip in that code would be, which the named property catches.

Variables that a comment calls history record what happened and are read by no
guard. A property that says "unless two calls overlapped" names such a
variable; the exception is what the code allows, and the property says that
nothing else does.

### StripeSettlement

`call` is the progress of the handler that creates an intent (`StartDeposit` or
`StartPayment`, `CreateAtStripe`, `SaveIntent`, `SaveConsumer`), one step per
awaited effect. `hook` are webhook tasks. `Receive` is the controller, which
answers before the task has run; `Load` is the snapshot of its transaction;
`RejectStatus`, `RecordStatus`, `SettleDeposit`, `SettleRequest` and
`SettlementFails` are its commit, of which the unique index on (intent, state)
lets at most one succeed. The status row is saved before the settlement, and an
error of the settlement is logged and swallowed while the transaction commits
(`service/stripe-webhook-service.ts:104-127`, `:194`): after `SettlementFails` a
success is recorded that is not credited, or credited with a transfer that
nothing refers to. `swallowed` is history: those intents. `admin` are
`cancelPaymentRequest` and `markFulfilledExternally`, each with the entity the
policy loaded before the handler ran and the row that `save` selects: `Save`
models that TypeORM writes the columns in which those two differ, so stale
columns can overwrite newer ones. The row's status is derived (`Status`), as in
the code. `due` are events Stripe still sends, `events` all it may ever repeat.
`Crash`, `AbortHook` (the transaction rolls back) and `SettlementFails` are the
faults.

### TerminalPayments and PaymentDialog

Each call is a database transaction that talks to Stripe before it commits, so
`RecordReader`, `SendToReader` and `CommitStart` (and the steps of cancel) are
separate, with the row locks they hold (`RowLocked`, `IntentLocked`) and the
deadlock between cancel and webhook that InnoDB breaks (`RollBackHook`,
`RollBackCancel`). The payment's state is derived from its columns (`State`).
`SettleHalf` is a conversion for a buyer with `inactiveNotificationSend`, which
a nightly task may have set meanwhile (`Notified` are the payments of which that
can be true): the
nested update through another connection times out and the task commits half.

`PaymentDialog` takes the payment's state as given and models the store:
`requests` are the browser's calls with their replies, in any order; `news` are
the reports of the back end, which read the state after the commit and send it
later; `socket` has the rooms it is in and those it is still joining, because
`subscribe` waits for a policy. `starter` is how far `startPayment` has come;
`OpenDialog` shows that a dialog opened while an earlier one is still starting
does nothing. `RefuseLook` is a look-up that ends in 403 or 404: the POS lost its
role, or the payment went with its transfer. The store shows that as cancelled.
`latest`, `cleared`, `givenUp`, `unheard` and `misled` (told of a cancellation
that was not, or not of this payment) are history.

### BalanceCache

A sum is represented by the set of rows it sums, so a balance is right exactly
when it sums the stored rows and each once; no arithmetic can hide an error.
`Delta`, `UsesCache` and `CursorAt` are the SQL of `getBalances`, `LastId`,
`Refresh` that of `updateBalances`; `Cascade` is the foreign key. `calls` are
deletions and updates of rows statement by statement. `silent` is history: the
users whose cached past was changed by something that clears nothing
(`ChangeAmount`, `RemoveTransfer`, dated inserts, a crash).

### Revisions

`revisions[x]` is the sequence of stored revisions of an item: a price, or the
set of parts with their revisions. A call works through `todo`: it reads the
current revision (`ReadBase`), the parts (`ReadParts`), saves the next revision
(`SaveRevision`, or `OverwriteRevision` and `DenyUpdate` when another call has
stored that number already), moves `currentRevision` (`BumpRevision`) and finds
the parents that list an older one (`Propagate`), in any order. The save that
moves `currentRevision` is of an item loaded before, so it writes `deletedAt`
back, too: an item deleted meanwhile is on sale again, though a propagation may
have passed it over. `revived` is history: those items. `Sell` is what
`verifyTransaction` accepts. Creation of items is the initial state.

### PayoutRequests, AccountClosing, InactiveCosts, Purchases

A payout call is loaded, checked (twice, as in the code), records its status,
creates the transfer and links it, all in separate steps. `raced` is history
(two calls past the check), `stale` too (the user was debited since the balance
was read).

`AccountClosing` has one user. Its write-off is `BeginWriteOff`,
`StoreWriteOff`, `PayWriteOff`, `LinkWriteOff` and then `closeUser`
(`CheckClose`, `RefuseClose`, `SaveClose`), which the DELETE handler and the
sync use as well. `BeginUserUpdate`, `BeginExpiry` and `SaveUser` are all the
calls that load a user and save it later; `Patch` is an update of columns.

`InactiveCosts` has one user and counts years. `YearsSinceLastActivity` is the
query of the last transaction and transfer, which leaves out transfers that a
cost refers to, so the moments at which cost and transfer come apart matter.
Users are listed for a notice or a cost (`ListForNotice`, `ListForHandout`) some
time before it is made, which does not check again. `BeginSave` and `FinishSave`
are all the calls that load the user, change something else and save the row
with the flag as it was: the synchronisation (which waits for GEWISDB in
between), expiry, `updateUser`, `closeUser` and `acceptToS`; `UpdateFlag` is a
PATCH that contains the flag. `restored` is history: one of them set the flag
after it was reset.

`Purchases` keeps the rows of the ledger in the order of their ids.
`VerifyBalance` and `InsertPurchase` are apart; `NoticeDebt` is the subscriber,
which computes the balance on a connection that does not see the new row and
corrects it if no later transaction is in it; the balance before is that of a
millisecond ago, so `first`, any position up to the new row's own, is the first
row of that millisecond. Users of some types get no notice (`getsNotices`, from
`NotifyDebtUserTypes`). `BeginReplace`, `DeleteOld`, `InsertNew` are an update;
`InsertSale`, `CommitSale` the webhook's. The other rows of the balance are
`Deposit`, `Sell` (somebody buys of the user), `Debit` (fines, payouts, costs,
transfers by hand) and `RemoveEntry` (a transfer or a sale is deleted; with the
transfer of a terminal payment goes the payment, and the purchase is no longer
protected by it). None of these looks at the balance or sends a notice, which
`unchecked` and `unnoticed` record for as long as the debt lasts. An update of
what others bought is a deletion and a sale.

### Fines, Invoices

A handout is one transaction (`OpenHandout`, `CommitHandout`) on a balance
read before it. A credit (`InsertCredit`, `Judge`, `CommitCredit`) is judged
by the subscriber from another connection. A waiver (`Weigh` ... `LinkWaiver`,
`ForgetWaived`) and a deletion (`Choose` ... `RemoveGroup` or `Spare`) are
statement by statement. `LinkWaiver` saves a group that was loaded with its
fines; a fine handed out since would lose its group, which its column does not
allow, so the save fails (`LinkFails`). The new waiver then is a transfer that no
group refers to, and the next waiver of the group gives back again. `stranded` is
history: those waivers. `contended` is history: groups on which such calls
overlapped, were cut short, or came after a waiver.

Every call on an invoice is a transaction with a snapshot: a `Begin` action
decides on what it reads, a `Commit` action writes to what is there by then.
`MaxUndone` bounds a loop only with rows gone (`bare`).

### QrLogin

A call holds the row that it loaded (`phone`), and `SaveSession` writes it
back. `asks` and `tokens` are the two directions of the screen's socket, which
keep their order; `LoseConnection` empties the rooms, and nothing asks for them
again. `raced` and `missed` are history.

### ConnectionPool

A request takes a connection; a transaction takes a second one for each query
it sends through the global manager (`handleWebhookEvent`'s first query and the
balance reads of the subscribers). The pool serves in order and has no timeout.

## 3. Runs

| Run | Shows |
|---|---|
| `settlement_webhooks` | two webhook tasks, duplicates, reordering, one fault at any point, swallowed errors of a settlement among them: credited at most once and never unrecorded; recorded without a credit only where the settlement itself failed; lost only behind a decline or a fault; credited in the end; refines `CreditLedger` |
| `settlement_requests` | two administrators with stale copies against a webhook, whose settlement may fail half-way, and the clock: PAID has its credit, fulfilled its transfer, and nothing reopens |
| `terminal_calls` | two calls, two readers, two webhook tasks, a crash: cancelled is never charged, paid is balanced, and captured money is transacted at most once (`CreditLedger`) |
| `accounts` | payouts: decided once, paid as approved, within the balance. Closing: a deleted account is settled and stays deleted, a write-off settles. Inactivity: the notice follows activity. Purchases: debt is explained and noticed, what is stored survives |
| `office` | fines: waived within the fines, owed is current, a credit clears them. Invoices: a row is credited once, a deletion undoes once and in full. QR login: the screen logs in who confirmed |
| `shop` | balances: reads are right, a refresh repairs. Revisions: a sale keeps its listing, an edit propagates, prices have a history. Dialog: "nothing has been charged" is true, a payment is shown |
| `liveness` | a cancellation at Stripe arrives in spite of deadlocks; the pool halts exactly when it is saturated, until then everyone is served |
| `doc_success_credits` | violation: a declined, then successful payment is never credited |
| `doc_terminal_done` | violation: a payment captured before the process call commits is never transacted |
| `doc_balance_changes` | violation: changing an invoice's amount leaves the balance wrong |
| `doc_payout_locked` | violation: two concurrent status calls give one request two terminal statuses |
| `doc_failed_start` | violation: a payment that cannot be created leaves the dialog preparing, without a reason |

**Bounds.** One intent, payment or user is enough for the races on it: intents
share nothing but the request they pay, users nothing but the pool. Two tasks,
administrators, calls, desks or editors are the smallest number that races, and
every hazard listed is a race of two. One fault forgets everything in progress,
so a second adds a second run of the first. `settlement_webhooks` has deposits,
`settlement_requests` requests with one webhook task and one fault; the theorems
cover all together. Where the suites would be too large, a constraint named
`Bound` in the MC module keeps them to one exception at a time:

- `MCTerminalPayments`: with two tasks busy, one call and one reader;
- `MCAccounts`: one payout request that two calls raced on, or a crash; after
  a crash, one call on administrative costs or on purchases at a time, and one on
  the purchases of a user who gets no notices.
  Two payout requests, two write-offs and two costs; a balance of -1 to 1 or 2
  around amounts of 1 and 2; three rows of the ledger, enough for a deposit, a
  purchase and one that overtakes it;
- `MCOffice`: one contended group, and then one waiver at a time, or a crash,
  and then one call on fines at a time; one overlap of invoices; one
  overlap or lost token of logins. Two groups, two fines of -5 euros of debt
  and less than that (`MCRefBalances`, either side of the first euro), two
  waivers; two invoices over two rows;
- `MCShop`: at most three edits, crashes and sales, of which the third edit is
  alone unless an item was deleted; one lost connection or reply, or a second
  payment; three messages on their way. Two products in one container in one
  point of sale, so a change propagates over both levels and two changes can
  meet on the container. Two transactions and one transfer at three instants: a
  transaction can be away for its update while a refresh moves the cursor to the
  other one, and a transfer can be dated before, at and after a cursor.
  `BeginUpdate` of `BalanceCache` admits one update of a transaction at a time;
  `Purchases` has the deletion during an update.

The pool has two connections where the code has four; the theorem covers the
four. The model values of the components of a suite are shared, so that one
permutation is a symmetry of all of them at once. Symmetry is used for safety
only.

**Deadlock** is checked where the system always has something to do. The
settlement and terminal runs end when every intent is final and all events are
acknowledged, a saturated pool stops for good, and the suites end where a
component has used up its ids, rows or edits, which are bounds of the model;
those configurations switch the check off.

**Fairness.** The event loop runs a call it has begun (weak fairness of the
steps of handlers and tasks); InnoDB grants locks in order and breaks
deadlocks, so calls and tasks of terminal payments are strongly fair; Stripe
repeats an event until it has a 204 (strong fairness of its delivery, because
the number of task slots is a bound of the model; of terminal payments, only
cancellations need it); a transaction has only so
many queries (strong fairness of the end of each). No fairness for payers,
points of sale, administrators, nightly tasks or faults. `LivenessSpec` has the
fairness of both its components: the one at rest has no step it must take.

## 4. What is proved

For any number of intents, payments, requests, tasks, administrators and
faults, and any sizes of the other models:

- `StripeSettlement`: type correctness, `CreditedWhenRecorded`,
  `CapturedHasConsumer`, `PaidHasCredit`, `FulfilledHasTransfer`,
  `LossNeedsDeclineOrFault`, `NeverReopens`, and that every step is a step of
  `CreditLedger` or a stutter, all with settlements that fail half-way. The
  properties are not inductive: the invariant adds what a task or a call in
  progress knows. What a task saw is still committed (statuses only grow), its
  intent has a row, an entity loaded by an administrator differs from the stored
  columns only in ways whose credit is already in the ledger, and an event that
  is neither due nor in a task was recorded, refused for a reason that is
  stored, or lost to a fault.
- `TerminalPayments`: type correctness, `CancelledNeverCharged`,
  `PaidIsBalanced`, and that terminal payments implement `CreditLedger`, too.
  The invariant: a reader collects only an intent that is still open; an event
  tells what Stripe has done; a cancel call past Stripe has cancelled there;
  two tasks never hold the same uncommitted status, nor one that is stored; and
  nothing is in the ledger before SUCCEEDED is recorded.
- `PaymentDialog`: type correctness, `NothingCharged`, `PaidIsShown`. The
  invariant: a report or a reply that says paid or cancelled is true and stays
  so; the requests of `startPayment` are made one by one; unless something came
  late, what is shown is about the payment that was made last; who listens is in
  the room or about to be; and a payment that can still be paid is followed: it
  is the one in the store, and if it was paid behind the store's back, a lost
  connection, a reply or a report is still to come that makes the store look.
- `BalanceCache`: type correctness (a cursor never dangles), `ReadIsTruth`,
  `RefreshRepairs`. The invariant: ids below `nextId` only, a cursor is the
  latest row of its sum, and for every user outside `silent` and `Pending` the
  cached sum is exactly the stored rows up to the cursor; the only place where a
  stale cache may exist is named by those two sets.
- `Revisions`: type correctness, `PriceHistory`, `SaleKeepsItsListing`,
  `Propagated`. The first two follow from what is stored; the last needs to know
  who is going to repair a list that is out of date (`ListsGetUpdated`): a call
  that is about to look for the parents of the part, or that has the list in its
  `todo`. The list that a call is about to save is such a list, too
  (`ComingGetsUpdated`), no list is ahead of the parts in it (`ListsAreBehind`),
  nor does a coming list fall behind the current one (`ComingIsNewer`), and
  `Propagated` leaves out what an edit brought back (`revived`), outside
  `adrift` revisions are made one by one (`OneReviser`): the last revision is
  the current one, or exactly one call is about to make it that.
- `PayoutRequests`: type correctness, `DecidedOnce`, `PaidAsApproved`,
  `PayoutWithinBalance`. The invariant: on a request without a race one call at
  most is past its check and what it checked still holds; transfers plus the
  calls that owe one are at most the approvals, and equal them until a crash;
  the balance covers every approval whose user was not debited since.
- `Purchases`: type correctness, `DebtIsExplained`, `PurchaseSurvives`. The
  balance is the sum of the ledger up to a position, so the proof begins with
  laws of that sum: it depends on the rows it sums only, and a row more or less
  changes it by that row. The invariant: what lies beyond the last entry is
  empty; a stored row is expected, and an expected one is stored unless a fault,
  an overlap or an update between its two steps explains it; a call knows the
  position of its row; and the balance it computed is the sum of the rows it saw.
- `AccountClosing`: type correctness, `DeletedIsSettled`, `DeletedStaysDeleted`,
  `WriteOffSettles`. The invariant is what a call in progress knows: the deletion
  it checked still finds a balance of zero, what its write-off left of the balance
  is what is there, both unless money moved meanwhile; and a call that can bring a
  deleted user back began before.
- `InactiveCosts`: type correctness (with it, that a cost never deducts a negative
  amount nor more than its value), `NoticeFollowsActivity`. The invariant: until a
  fault, a transfer of no stored cost is between two steps of a call; a call that
  acts has read the flag as it is unless `missed`; and a flag that outlives an
  activity is about to be reset, was not read, or was restored.
- `Fines`: type correctness, `WaivedWithinFines`, `OwedIsCurrent`,
  `CreditClearsFines`. Again laws of a sum come first: what a group amounts to,
  when a fine or a waiver is stored or removed. The invariant says which rows a
  call has (`CallsHaveTheirRows`, `WaiversAreHeld`), that groups refer to
  waivers of their own, that overlaps are in `contended`, and what the only call
  on a group knows of it (`Knows`): between deleting the old waiver and storing
  the new one the group has none but stranded ones, and the new one is at most
  the total it read.
- `Invoices`: type correctness, `RowCreditedOnce`, `UndoMatchesState`.
  The invariant: rows and standing invoices refer to each other; rows that a
  creation has read are credited by nobody else unless they are in `shared`; a
  deletion has read at least the rows that are still on its invoice; and of two
  deletions of one invoice one has read all rows the other has, so the second
  meets the first at the primary key, unless there is no row at all (`bare`).
- `QrLogin`: type correctness, `LoginIsConfirmed`. The invariant: the row
  a call holds is the stored one unless two calls overlapped (`raced`); the
  screen is in the room of its session or has asked for it, until that session
  logged somebody in; and a confirmation is with its call, in the queue of the
  socket, or received, unless it is in `missed`. A session still on its way to
  the screen is in no queue and no room, which makes this inductive.
- `ConnectionPool`: type correctness, `StuckIsSaturated`, and that with
  fewer transactions than connections the back end never halts. The invariant
  counts: free connections, owners and nested owners add up to the pool.
- The suites: `AccountsTypeOK`, `OfficeTypeOK` and `ShopTypeOK` hold, as a step of
  one component is a stutter of the others.

Each inductive invariant was model-checked on instances like those of the runs
before it was proved. Attempts that failed were instructive:
the one about `Fines` showed, with a third fine, that forgetting what a user owes
must not forget a fine handed out while the call was at work.

The sums are recursive functions over finite sets and sequences of rows. Induction
as a rule takes a predicate as a parameter, which is out of the provers' reach
here, but its instances are not: a law that fails, fails for a least number or a
least set, by the theorems on well-founded orders, and one row less is a
contradiction.

Assumptions: only the named `ASSUME`s of the modules (names differ, bounds are
natural numbers, the requests of the pool, the payout calls, fines, waivers and
items of the catalogue are finite sets, amounts are integers).

**Only model-checked**: liveness and everything under fairness
(`EventuallyCredited`, `CancellationArrives`, `EveryoneServed`), which are out of
the prover's reach. Every other property of a passing run is a theorem.

## 5. Where the code and its documentation disagree

Run as violations: the five `doc_` runs. The models reproduce more of them,
which no run shows:

- a stale `cancelPaymentRequest` erases `paidAt` of a request paid meanwhile
  (`service/payment-request-service.ts:452`), so PAID is not final;
- two administrators can both fulfil one request, or fulfil one that a webhook
  settles, and the member is credited twice (`:503`);
- an error in the settlement of a captured payment is swallowed: the success is
  recorded, the credit missing for good, and no redelivery repairs it
  (`service/stripe-webhook-service.ts:126`);
- a request cancelled after its payment was captured is credited and shown as
  CANCELLED (the code says so and logs it);
- a payment session started before a request is paid stays payable after it,
  so a request can be paid twice;
- cancelling a payment stops whatever its last reader is doing
  (`service/terminal-payment-service.ts:240`), and two payments can be sent to
  one reader;
- a transfer dated before the cursor is not shown until the next refresh
  (`service/seller-payout-service.ts:123`);
- `updateTransaction` deletes a row before it saves it again: a crash in
  between loses the transaction (`service/transaction-service.ts:1100`), and
  neither it nor a check that was overtaken keeps a user out of debt;
- a fine handed out during a waiver strands the new waiver, which is given back
  twice by the next one (`service/debtor-service.ts:426`);
- the save of a user or an item loaded earlier writes back what changed since: the
  flag of a notice, a deletion (`service/user-service.ts:446`,
  `service/product-service.ts:289`);
- `transaction:created` is emitted from inside the webhook's transaction, so it
  can announce a sale that is rolled back (`service/transaction-service.ts:1035`);
- an approved payout request whose process dies before the transfer can
  neither be paid nor decided again (`service/payout-request-service.ts:252`);
- PATCH deletes a user whatever the balance is, which DELETE refuses, and a
  user saved by a call that loaded it before its deletion is back;
- two handouts of one inactive cost charge it twice, and a purchase that read
  the flag before a notice was saved leaves it set, which costs the user the
  next notice;
- an edit that dies between storing a revision and moving `currentRevision`
  leaves a product that can never be edited again: its next number is taken;
- the phase `declined` of the card dialog is never reached: a payment is never
  reported as failed (`terminalPayment.store.ts:18`);
- the store's comment that looking a payment up covers the window before the
  room is joined (`:178`) does not hold: the answer can be read before the
  join ends, and a report in between is lost (`unheard`);
- a late reply to a cancellation overwrites the next payment's dialog (`misled`),
  and a dialog reopened while the last one is still starting stays idle;
- a start whose reply is lost shows an error although the payment may be taken;
- a QR session that one person cancels while another confirms ends as
  whichever saves last, although "sessions can be cancelled to prevent
  unauthorized access"; and after a lost connection the screen is in no room,
  so a confirmed login does not reach it.

## 6. What is not modelled

Amounts where only identity matters, permissions (every handler is taken past
its policy), validation of requests, HTTP, wording, logging, PDFs and mail.
Components without state worth checking (single-row CRUD, reports, hashing,
the other front ends) are listed in `PROJECT.json` with their reason. Of the
source, the largest part is generated API clients, migrations, views and
controllers that translate between HTTP and the services: they hold no state
that a property could be about.

## 7. Plan

1. `TerminalPayments` and `PaymentDialog` as one composition, with `state` of
   the dialog a refinement mapping of the payment's columns.
2. Maintenance mode and `transaction:created` over the sockets.
3. Larger instances of the suites, one component at a time.
