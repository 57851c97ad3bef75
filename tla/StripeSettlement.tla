-------------------------- MODULE StripeSettlement --------------------------
(***************************************************************************)
(* Top-ups through Stripe: deposits and payment requests, from the call    *)
(* that creates a payment intent to the webhook that credits the user.     *)
(*                                                                         *)
(* Processes                                                               *)
(*   - one API call per payment intent (POST /stripe/deposit and the two   *)
(*     .../start endpoints of a payment request): Stripe first, then the   *)
(*     intent row, then the row of its consumer, no database transaction;  *)
(*   - webhook tasks, each one database transaction that the controller    *)
(*     starts but does not await, so Stripe has its 204 beforehand;        *)
(*   - admin calls that cancel a payment request or mark it fulfilled,     *)
(*     which act on the entity loaded when the call came in;               *)
(*   - Stripe and the payer (external).                                    *)
(*                                                                         *)
(* A database transaction reads a snapshot (InnoDB REPEATABLE READ, the    *)
(* default the code never changes) in one step and takes effect when it    *)
(* commits in a later one, with what its statements did until one failed:  *)
(* handleWebhookEvent swallows every error, so the transaction commits.    *)
(* Outside a transaction every awaited statement is a step.  Amounts are left out: a payment intent is credited with the *)
(* amount it was created with.  Refused calls (wrong amount, unpayable     *)
(* beneficiary, missing permission) change nothing and are not steps.      *)
(***************************************************************************)
EXTENDS Integers, FiniteSets, IntentStates

CONSTANTS
    Intents,    \* Stripe payment intents, one per API call that creates one
    Requests,   \* payment requests
    Hooks,      \* webhook tasks that can be in progress at once
    Admins,     \* calls on payment requests that can be in progress at once
    Deposit,    \* the owner of an intent that pays a StripeDeposit
    NoOwner,    \* the owner of an intent not created yet
    MaxFaults   \* bound on crashes, rollbacks and failing statements

ASSUME OwnersAssumption ==
    Deposit \notin Requests /\ NoOwner \notin Requests /\ Deposit # NoOwner
ASSUME FaultsAssumption == MaxFaults \in Nat

VARIABLES
    stripe,     \* Stripe's own status of each payment intent
    events,     \* events Stripe has emitted; any may be delivered again
    due,        \* events Stripe has not had a 204 for
    call,       \* progress of the API call that creates each intent
    owner,      \* what each intent pays: Deposit or a payment request
    linked,     \* intents whose StripeDeposit or PaymentRequestAttempt exists
    statuses,   \* rows of stripe_payment_intent_status, per intent
    credited,   \* void -> user transfers created for each intent
    attached,   \* intents whose StripeDeposit refers to its transfer
    swallowed,  \* history: intents whose settlement failed half-way
    issued,     \* payment requests that exist
    row,        \* the stored columns of each payment request
    expired,    \* payment requests whose expiresAt has passed
    external,   \* void -> user transfers created by mark-fulfilled
    hook,       \* webhook tasks
    admin,      \* calls on payment requests
    faults      \* faults so far

stripeVars == <<stripe, events>>
callVars == <<call, owner, linked>>
requestVars == <<issued, row, expired, external>>
settledVars == <<statuses, credited, attached, swallowed>>
vars == <<stripe, events, due, call, owner, linked, statuses, credited,
          attached, swallowed, issued, row, expired, external, hook, admin, faults>>

-----------------------------------------------------------------------------
(* Payment requests *)

Columns == {"paid", "cancelled", "fulfilled"}
Rows == [Columns -> BOOLEAN]
NewRow == [c \in Columns |-> FALSE]

\* PaymentRequest.status, derived from the columns and the clock
Status(cols, late) ==
    CASE cols["paid"]      -> "PAID"
      [] ~cols["paid"] /\ cols["cancelled"] -> "CANCELLED"
      [] ~cols["paid"] /\ ~cols["cancelled"] /\ late -> "EXPIRED"
      [] OTHER -> "PENDING"

(***************************************************************************)
(* Repository.save of an entity that has an id: it selects the row again   *)
(* and then updates the columns in which the entity differs from what it   *)
(* selected.  A fresh timestamp always differs, hence own.                 *)
(***************************************************************************)
Save(db, entity, selected, own) ==
    [c \in Columns |->
        IF c \in own \/ entity[c] # selected[c] THEN entity[c] ELSE db[c]]

Late(r) == r \in expired

-----------------------------------------------------------------------------
(* Types *)

Events == Intents \X States
CallSteps == {"unused", "started", "created", "saved", "done", "dead", "orphan"}
StripeStates == {"none", "open", "succeeded", "canceled"}

IdleHook == [pc |-> "idle"]
HookTasks ==
    {IdleHook}
      \cup [pc : {"received"}, intent : Intents, state : States]
      \cup [pc : {"loaded"}, intent : Intents, state : States,
            seen : SUBSET States, linked : BOOLEAN, cols : Rows]

IdleAdmin == [pc |-> "idle"]
Operations == {"cancel", "fulfil"}
AdminCalls ==
    {IdleAdmin}
      \cup [pc : {"loaded", "credited"}, op : Operations, req : Requests,
            cols : Rows]
      \cup [pc : {"selected"}, op : Operations, req : Requests,
            cols : Rows, selected : Rows]

\* Every variable stays within its type.
TypeOK ==
    /\ stripe \in [Intents -> StripeStates]
    /\ events \subseteq Events
    /\ due \subseteq events
    /\ call \in [Intents -> CallSteps]
    /\ owner \in [Intents -> Requests \cup {Deposit, NoOwner}]
    /\ linked \subseteq Intents
    /\ statuses \in [Intents -> SUBSET States]
    /\ credited \in [Intents -> Nat]
    /\ attached \subseteq Intents
    /\ swallowed \subseteq Intents
    /\ issued \subseteq Requests
    /\ row \in [Requests -> Rows]
    /\ expired \subseteq Requests
    /\ external \in [Requests -> Nat]
    /\ hook \in [Hooks -> HookTasks]
    /\ admin \in [Admins -> AdminCalls]
    /\ faults \in 0 .. MaxFaults

Init ==
    /\ stripe = [i \in Intents |-> "none"]
    /\ events = {}
    /\ due = {}
    /\ call = [i \in Intents |-> "unused"]
    /\ owner = [i \in Intents |-> NoOwner]
    /\ linked = {}
    /\ statuses = [i \in Intents |-> {}]
    /\ credited = [i \in Intents |-> 0]
    /\ attached = {}
    /\ swallowed = {}
    /\ issued = {}
    /\ row = [r \in Requests |-> NewRow]
    /\ expired = {}
    /\ external = [r \in Requests |-> 0]
    /\ hook = [h \in Hooks |-> IdleHook]
    /\ admin = [a \in Admins |-> IdleAdmin]
    /\ faults = 0

-----------------------------------------------------------------------------
(* The API call that creates intent i *)

\* POST /stripe/deposit, its amount checked
StartDeposit(i) ==
    /\ call[i] = "unused"
    /\ call' = [call EXCEPT ![i] = "started"]
    /\ owner' = [owner EXCEPT ![i] = Deposit]
    /\ UNCHANGED <<stripeVars, due, linked, settledVars, requestVars,
                   hook, admin, faults>>

\* startPayment: only a PENDING request
StartPayment(i, r) ==
    /\ call[i] = "unused"
    /\ r \in issued
    /\ Status(row[r], Late(r)) = "PENDING"
    /\ call' = [call EXCEPT ![i] = "started"]
    /\ owner' = [owner EXCEPT ![i] = r]
    /\ UNCHANGED <<stripeVars, due, linked, settledVars, requestVars,
                   hook, admin, faults>>

Emit(i, s) ==
    /\ events' = events \cup {<<i, s>>}
    /\ due' = due \cup {<<i, s>>}

\* stripe.paymentIntents.create, the first half of createStripePaymentIntent
CreateAtStripe(i) ==
    /\ call[i] = "started"
    /\ call' = [call EXCEPT ![i] = "created"]
    /\ stripe' = [stripe EXCEPT ![i] = "open"]
    /\ Emit(i, "CREATED")
    /\ UNCHANGED <<owner, linked, settledVars, requestVars, hook,
                   admin, faults>>

\* mutant: the client secret is returned before the consumer is stored
SaveIntent_RepliesEarly(i) ==
    /\ call[i] = "created"
    /\ call' = [call EXCEPT ![i] = "done"]
    /\ UNCHANGED <<stripeVars, due, owner, linked, settledVars,
                   requestVars, hook, admin, faults>>

\* the second half: the intent row, without statuses
SaveIntent(i) ==
    /\ call[i] = "created"
    /\ call' = [call EXCEPT ![i] = "saved"]
    /\ UNCHANGED <<stripeVars, due, owner, linked, settledVars,
                   requestVars, hook, admin, faults>>

\* the StripeDeposit or PaymentRequestAttempt row, and the reply that hands
\* the client secret to the payer
SaveConsumer(i) ==
    /\ call[i] = "saved"
    /\ call' = [call EXCEPT ![i] = "done"]
    /\ linked' = linked \cup {i}
    /\ UNCHANGED <<stripeVars, due, owner, settledVars, requestVars,
                   hook, admin, faults>>

\* The intent row is stored.  A call that died before SaveIntent leaves at most
\* an intent only Stripe knows ("dead"), one that died after it a row without
\* a consumer ("orphan").
HasRow(i) == call[i] \in {"saved", "done", "orphan"}

-----------------------------------------------------------------------------
(* Stripe and the payer (external).  Only who has the client secret pays.  *)

Payable(i) == stripe[i] = "open" /\ call[i] = "done"

StripeProcesses(i) ==
    /\ Payable(i)
    /\ Emit(i, "PROCESSING")
    /\ UNCHANGED <<stripe, callVars, settledVars, requestVars, hook,
                   admin, faults>>

\* A declined attempt leaves the intent open for another one.
StripeDeclines(i) ==
    /\ Payable(i)
    /\ Emit(i, "FAILED")
    /\ UNCHANGED <<stripe, callVars, settledVars, requestVars, hook,
                   admin, faults>>

StripeCaptures(i) ==
    /\ Payable(i)
    /\ stripe' = [stripe EXCEPT ![i] = "succeeded"]
    /\ Emit(i, "SUCCEEDED")
    /\ UNCHANGED <<callVars, settledVars, requestVars, hook, admin,
                   faults>>

StripeCancels(i) ==
    /\ stripe[i] = "open"
    /\ stripe' = [stripe EXCEPT ![i] = "canceled"]
    /\ Emit(i, "CANCELLED")
    /\ UNCHANGED <<callVars, settledVars, requestVars, hook, admin,
                   faults>>

-----------------------------------------------------------------------------
(* Webhooks *)

(***************************************************************************)
(* The webhook controller receives event e: 400 when the intent has no row *)
(* (nothing changes and Stripe retries), otherwise the task is started and *)
(* 204 is sent without waiting for it.                                     *)
(***************************************************************************)
Receive(h, e) ==
    /\ hook[h] = IdleHook
    /\ HasRow(e[1])
    /\ due' = due \ {e}
    /\ hook' = [hook EXCEPT ![h] =
                   [pc |-> "received", intent |-> e[1], state |-> e[2]]]
    /\ UNCHANGED <<stripeVars, callVars, settledVars, requestVars,
                   admin, faults>>

Deliver(h, e) == e \in due /\ Receive(h, e)
Redeliver(h, e) == e \in events \ due /\ Receive(h, e)

\* mutant: the relations to the consumer are not loaded
Load_WithoutRelations(h) ==
    /\ hook[h].pc = "received"
    /\ hook' = [hook EXCEPT ![h] =
           [pc |-> "loaded", intent |-> hook[h].intent,
            state |-> hook[h].state, seen |-> statuses[hook[h].intent],
            linked |-> FALSE, cols |-> NewRow]]
    /\ UNCHANGED <<stripeVars, due, callVars, settledVars, requestVars,
                   admin, faults>>

\* the first read of the transaction: intent, statuses, consumer
Load(h) ==
    /\ hook[h].pc = "received"
    /\ LET i == hook[h].intent IN
       hook' = [hook EXCEPT ![h] =
           [pc |-> "loaded", intent |-> i, state |-> hook[h].state,
            seen |-> statuses[i], linked |-> i \in linked,
            cols |-> IF owner[i] \in Requests THEN row[owner[i]] ELSE NewRow]]
    /\ UNCHANGED <<stripeVars, due, callVars, settledVars, requestVars,
                   admin, faults>>

Done(h) == hook' = [hook EXCEPT ![h] = IdleHook]

\* mutant: no unique index on (intent, state)
Inserts_NoUniqueIndex(h) ==
    /\ hook[h].pc = "loaded"
    /\ Recordable(hook[h].seen, hook[h].state)

(***************************************************************************)
(* The status row is inserted: createNewPaymentIntentStatus accepts the    *)
(* state, judged by what the transaction read, and the unique index on     *)
(* (intent, state), judged by what is committed, has no such row.          *)
(***************************************************************************)
Inserts(h) ==
    /\ hook[h].pc = "loaded"
    /\ Recordable(hook[h].seen, hook[h].state)
    /\ hook[h].state \notin statuses[hook[h].intent]

\* Either one fails: handleWebhookEvent logs the error and the transaction
\* commits without having written anything.
RejectStatus(h) ==
    /\ hook[h].pc = "loaded"
    /\ ~Inserts(h)
    /\ Done(h)
    /\ UNCHANGED <<stripeVars, due, callVars, settledVars, requestVars,
                   admin, faults>>

Record(h) ==
    statuses' = [statuses EXCEPT ![hook[h].intent] = @ \cup {hook[h].state}]

\* mutant: a payment still processing is settled too
Settles_WhileProcessing(h) ==
    hook[h].state \in {"SUCCEEDED", "PROCESSING"} /\ hook[h].linked

Settles(h) == hook[h].state = "SUCCEEDED" /\ hook[h].linked

\* a status without side effects
RecordStatus(h) ==
    /\ Inserts(h)
    /\ ~Settles(h)
    /\ Record(h)
    /\ Done(h)
    /\ UNCHANGED <<stripeVars, due, callVars, credited, attached, swallowed,
                   requestVars, admin, faults>>

Credit(i) == credited' = [credited EXCEPT ![i] = @ + 1]

\* handleStripeDepositPaid: the transfer, then the deposit that refers to it
SettleDeposit(h) ==
    /\ Inserts(h)
    /\ Settles(h)
    /\ owner[hook[h].intent] = Deposit
    /\ Record(h)
    /\ Credit(hook[h].intent)
    /\ attached' = attached \cup {hook[h].intent}
    /\ Done(h)
    /\ UNCHANGED <<stripeVars, due, callVars, swallowed, requestVars, admin,
                   faults>>

\* markPaid leaves a PAID request alone and throws on a CANCELLED one.
MarksPaid(h) ==
    LET r == owner[hook[h].intent] IN
    /\ r \in Requests
    /\ Status(hook[h].cols, Late(r)) \notin {"PAID", "CANCELLED"}

\* The save of markPaid, on the request as the transaction read it.
MarkPaid(h) ==
    LET cols == hook[h].cols IN
    row' = [row EXCEPT ![owner[hook[h].intent]] =
               Save(@, [cols EXCEPT !["paid"] = TRUE], cols, {"paid"})]

(***************************************************************************)
(* settlePaidStripeIntent: the transfer, then markPaid.  What markPaid     *)
(* throws is caught by the webhook service, so the transfer and the status *)
(* stay; an EXPIRED request is paid.                                       *)
(***************************************************************************)
SettleRequest(h) ==
    /\ Inserts(h)
    /\ Settles(h)
    /\ owner[hook[h].intent] \in Requests
    /\ Record(h)
    /\ Credit(hook[h].intent)
    /\ IF MarksPaid(h) THEN MarkPaid(h) ELSE UNCHANGED row
    /\ Done(h)
    /\ UNCHANGED <<stripeVars, due, callVars, attached, swallowed, issued,
                   expired, external, admin, faults>>

\* mutant: the request is marked paid before the transfer is created
SettlementFails_PaidFirst(h) ==
    LET i == hook[h].intent IN
    /\ faults < MaxFaults
    /\ Inserts(h)
    /\ Settles(h)
    /\ Record(h)
    /\ \/ UNCHANGED row
       \/ MarksPaid(h) /\ MarkPaid(h)
    /\ swallowed' = swallowed \cup {i}
    /\ faults' = faults + 1
    /\ Done(h)
    /\ UNCHANGED <<stripeVars, due, callVars, credited, attached, issued,
                   expired, external, admin>>

(***************************************************************************)
(* A statement of the settlement fails, after the status was saved: the    *)
(* creation of the transfer, or what follows it, the save of the deposit   *)
(* or of the request.  The error is logged and the transaction commits.    *)
(* The event has its 204, and delivered again it is refused as recorded.   *)
(***************************************************************************)
SettlementFails(h) ==
    LET i == hook[h].intent IN
    /\ faults < MaxFaults
    /\ Inserts(h)
    /\ Settles(h)
    /\ Record(h)
    /\ \/ UNCHANGED credited
       \/ (owner[i] = Deposit \/ MarksPaid(h)) /\ Credit(i)
    /\ swallowed' = swallowed \cup {i}
    /\ faults' = faults + 1
    /\ Done(h)
    /\ UNCHANGED <<stripeVars, due, callVars, attached, requestVars, admin>>

-----------------------------------------------------------------------------
(* Payment requests: creation, expiry and the calls of administrators      *)

\* createPaymentRequest: expiresAt is in the future
IssueRequest(r) ==
    /\ r \notin issued
    /\ issued' = issued \cup {r}
    /\ UNCHANGED <<stripeVars, due, callVars, settledVars, row,
                   expired, external, hook, admin, faults>>

Expire(r) ==
    /\ r \in issued \ expired
    /\ expired' = expired \cup {r}
    /\ UNCHANGED <<stripeVars, due, callVars, settledVars, issued, row,
                   external, hook, admin, faults>>

\* loadPaymentRequest, in the policy that runs before the handler
LoadRequest(a, op, r) ==
    /\ admin[a] = IdleAdmin
    /\ r \in issued
    /\ admin' = [admin EXCEPT ![a] =
                    [pc |-> "loaded", op |-> op, req |-> r, cols |-> row[r]]]
    /\ UNCHANGED <<stripeVars, due, callVars, settledVars, requestVars,
                   hook, faults>>

IsPending(a) ==
    Status(admin[a].cols, Late(admin[a].req)) = "PENDING"

\* IllegalPaymentRequestTransitionError, a 409
RefuseTransition(a) ==
    /\ admin[a].pc = "loaded"
    /\ ~IsPending(a)
    /\ admin' = [admin EXCEPT ![a] = IdleAdmin]
    /\ UNCHANGED <<stripeVars, due, callVars, settledVars, requestVars,
                   hook, faults>>

\* save selects the row that it is about to update
Select(a, cols) ==
    admin' = [admin EXCEPT ![a] =
                 [pc |-> "selected", op |-> admin[a].op, req |-> admin[a].req,
                  cols |-> cols, selected |-> row[admin[a].req]]]

\* cancelPaymentRequest up to its save
CancelRequest(a) ==
    /\ admin[a].pc = "loaded"
    /\ admin[a].op = "cancel"
    /\ IsPending(a)
    /\ Select(a, [admin[a].cols EXCEPT !["cancelled"] = TRUE])
    /\ UNCHANGED <<stripeVars, due, callVars, settledVars, requestVars,
                   hook, faults>>

\* mutant: the transfer is forgotten
FulfilRequest_NoTransfer(a) ==
    /\ admin[a].pc = "loaded"
    /\ admin[a].op = "fulfil"
    /\ IsPending(a)
    /\ admin' = [admin EXCEPT ![a].pc = "credited"]
    /\ UNCHANGED <<stripeVars, due, callVars, settledVars, requestVars,
                   hook, faults>>

\* markFulfilledExternally: the transfer comes first ...
FulfilRequest(a) ==
    /\ admin[a].pc = "loaded"
    /\ admin[a].op = "fulfil"
    /\ IsPending(a)
    /\ external' = [external EXCEPT ![admin[a].req] = @ + 1]
    /\ admin' = [admin EXCEPT ![a].pc = "credited"]
    /\ UNCHANGED <<stripeVars, due, callVars, settledVars, issued, row,
                   expired, hook, faults>>

\* mutant: paidAt is left to the caller
MarkFulfilled_NoPaidAt(a) ==
    /\ admin[a].pc = "credited"
    /\ Select(a, [admin[a].cols EXCEPT !["fulfilled"] = TRUE])
    /\ UNCHANGED <<stripeVars, due, callVars, settledVars, requestVars,
                   hook, faults>>

\* ... then the save of paidAt and fulfilledBy
MarkFulfilled(a) ==
    /\ admin[a].pc = "credited"
    /\ Select(a, [admin[a].cols EXCEPT !["paid"] = TRUE, !["fulfilled"] = TRUE])
    /\ UNCHANGED <<stripeVars, due, callVars, settledVars, requestVars,
                   hook, faults>>

\* the columns that the operation itself assigns
Assigned(op) ==
    IF op = "cancel" THEN {"cancelled"} ELSE {"paid", "fulfilled"}

SaveRequest(a) ==
    LET r == admin[a].req IN
    /\ admin[a].pc = "selected"
    /\ row' = [row EXCEPT ![r] = Save(@, admin[a].cols, admin[a].selected,
                                      Assigned(admin[a].op))]
    /\ admin' = [admin EXCEPT ![a] = IdleAdmin]
    /\ UNCHANGED <<stripeVars, due, callVars, settledVars, issued,
                   expired, external, hook, faults>>

-----------------------------------------------------------------------------
(* Faults *)

\* The process dies: every call and every uncommitted transaction is gone.
Crash ==
    /\ faults < MaxFaults
    /\ faults' = faults + 1
    /\ hook' = [h \in Hooks |-> IdleHook]
    /\ admin' = [a \in Admins |-> IdleAdmin]
    /\ call' = [i \in Intents |->
                   CASE call[i] \in {"started", "created"} -> "dead"
                     [] call[i] = "saved" -> "orphan"
                     [] OTHER -> call[i]]
    /\ UNCHANGED <<stripeVars, due, owner, linked, settledVars,
                   requestVars>>

\* The database rolls a whole webhook transaction back (lost connection,
\* deadlock, failing commit); the controller only logs it.
AbortHook(h) ==
    /\ faults < MaxFaults
    /\ hook[h] # IdleHook
    /\ faults' = faults + 1
    /\ Done(h)
    /\ UNCHANGED <<stripeVars, due, callVars, settledVars, requestVars,
                   admin>>

-----------------------------------------------------------------------------

CallStep(i) ==
    \/ StartDeposit(i)
    \/ \E r \in Requests : StartPayment(i, r)
    \/ CreateAtStripe(i) \/ SaveIntent(i) \/ SaveConsumer(i)

StripeStep(i) ==
    \/ StripeProcesses(i) \/ StripeDeclines(i)
    \/ StripeCaptures(i) \/ StripeCancels(i)

HookStep(h) ==
    \/ Load(h) \/ RejectStatus(h) \/ RecordStatus(h)
    \/ SettleDeposit(h) \/ SettleRequest(h)

AdminStep(a) ==
    \/ \E op \in Operations, r \in Requests : LoadRequest(a, op, r)
    \/ RefuseTransition(a) \/ CancelRequest(a)
    \/ FulfilRequest(a) \/ MarkFulfilled(a) \/ SaveRequest(a)

Next ==
    \/ \E i \in Intents : CallStep(i) \/ StripeStep(i)
    \/ \E h \in Hooks : \/ \E e \in Events : Deliver(h, e) \/ Redeliver(h, e)
                        \/ HookStep(h) \/ SettlementFails(h) \/ AbortHook(h)
    \/ \E r \in Requests : IssueRequest(r) \/ Expire(r)
    \/ \E a \in Admins : AdminStep(a)
    \/ Crash

Spec == Init /\ [][Next]_vars

(***************************************************************************)
(* Fairness: the event loop runs every call that was taken in to its end,  *)
(* and Stripe keeps sending an event until it has a 204.  Delivery is      *)
(* strongly fair because the number of webhook slots is a bound of the     *)
(* model.  Nothing makes a payer pay, an administrator act or a fault      *)
(* happen.                                                                 *)
(***************************************************************************)
Fairness ==
    /\ \A i \in Intents : WF_vars(SaveIntent(i) \/ SaveConsumer(i))
    /\ \A h \in Hooks : WF_vars(HookStep(h))
    /\ \A e \in Events : SF_vars(\E h \in Hooks : Deliver(h, e))

FairSpec == Spec /\ Fairness

-----------------------------------------------------------------------------
(* Properties *)

Captured(i) == stripe[i] = "succeeded"

\* A credit and the SUCCEEDED status go together: a duplicate or concurrent
\* delivery of payment_intent.succeeded never credits again, nothing is credited
\* without the status, and a recorded success is credited, and attached to its
\* deposit, unless an error inside its settlement was swallowed.  A deposit never
\* refers to a transfer that is not there.
CreditedWhenRecorded ==
    \A i \in Intents :
        /\ credited[i] <= 1
        /\ credited[i] = 1 => "SUCCEEDED" \in statuses[i]
        /\ "SUCCEEDED" \in statuses[i] /\ i \notin swallowed =>
               credited[i] = 1 /\ (owner[i] = Deposit => i \in attached)
        /\ i \in attached => credited[i] = 1

\* Whatever Stripe captured has a consumer to credit: the client secret leaves
\* the server only after the deposit or attempt row is stored, crashes included.
CapturedHasConsumer ==
    \A i \in Intents : Captured(i) => i \in linked /\ owner[i] # NoOwner

\* A payment request shown as PAID was credited, by a captured intent of its
\* own or by mark-fulfilled, whatever stale copies of it were saved since and
\* whichever statement of a settlement failed and was swallowed.
PaidHasCredit ==
    \A r \in Requests :
        row[r]["paid"] =>
            \/ external[r] > 0
            \/ \E i \in Intents : owner[i] = r /\ credited[i] > 0

\* Only mark-fulfilled sets fulfilledBy, and never without its own transfer.
FulfilledHasTransfer ==
    \A r \in Requests : row[r]["fulfilled"] => external[r] > 0

\* Nobody works on the SUCCEEDED event of i any more.
Acknowledged(i) ==
    /\ <<i, "SUCCEEDED">> \notin due
    /\ \A h \in Hooks : hook[h] # IdleHook =>
           ~(hook[h].intent = i /\ hook[h].state = "SUCCEEDED")

\* A captured payment whose event was acknowledged is credited, unless an
\* earlier decline is recorded or a fault hit the task after its 204.
LossNeedsDeclineOrFault ==
    \A i \in Intents :
        Captured(i) /\ Acknowledged(i) =>
            credited[i] = 1 \/ "FAILED" \in statuses[i] \/ faults > 0

\* A payment request that was paid or cancelled is never open again, although
\* saves of stale copies overwrite each other's columns.
NeverReopens ==
    [][\A r \in Requests :
          row[r]["paid"] \/ row[r]["cancelled"] =>
              row'[r]["paid"] \/ row'[r]["cancelled"]]_vars

\* Every captured payment is eventually credited, unless it lies behind a
\* recorded decline or a fault hit a task after its 204.
EventuallyCredited ==
    \A i \in Intents :
        Captured(i) ~>
            (credited[i] = 1 \/ "FAILED" \in statuses[i] \/ faults > 0)

\* Settlement implements the abstract ledger of credits.
Ledger == INSTANCE CreditLedger
              WITH Payments <- Intents,
                   captured <- {i \in Intents : Captured(i)},
                   credit <- credited
CreditsOnceWhatWasCaptured == Ledger!Spec

-----------------------------------------------------------------------------
(* What the documentation says and the code does not do                     *)

\* "A successful payment always credits the recipient's balance": once nobody
\* works on the SUCCEEDED event of a captured payment, it is credited.
SuccessAlwaysCredits ==
    \A i \in Intents : Captured(i) /\ Acknowledged(i) => credited[i] = 1
=============================================================================
