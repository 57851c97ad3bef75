-------------------------- MODULE TerminalPayments --------------------------
(***************************************************************************)
(* Card payments on a Stripe Terminal reader: the three calls of the point *)
(* of sale (create, process, cancel), each one database transaction that   *)
(* calls Stripe before it commits, and the webhook that turns a captured   *)
(* payment into a transaction and the transfer that pays for it.           *)
(*                                                                         *)
(* A database transaction reads a snapshot (InnoDB REPEATABLE READ) and    *)
(* its writes appear when it commits, column by column, because an entity  *)
(* read and saved in one transaction differs from what save selects only   *)
(* where the code assigned it.  The row locks its updates take are part of *)
(* the model: they order the calls, and they can deadlock with the lock a  *)
(* new status takes on its payment intent.                                 *)
(***************************************************************************)
EXTENDS Integers, FiniteSets, IntentStates

CONSTANTS
    Payments,   \* terminal payments, each with a payment intent of its own
    Readers,    \* Stripe Terminal readers
    Calls,      \* process and cancel calls that can be in progress at once
    Hooks,      \* webhook tasks that can be in progress at once
    Notified,   \* payments whose buyer may have inactiveNotificationSend set
    NoPayment,  \* what an idle reader collects
    NoReader,   \* processedByTerminal of a payment never started
    MaxFaults   \* bound on crashes and aborted webhook transactions

ASSUME NamesAssumption == NoPayment \notin Payments /\ NoReader \notin Readers
ASSUME NotifiedAssumption == Notified \subseteq Payments
ASSUME FaultsAssumption == MaxFaults \in Nat

VARIABLES
    stripe,       \* Stripe's own status of each payment intent
    events,       \* events Stripe has emitted; any may be delivered again
    due,          \* events Stripe has not had a 204 for
    reader,       \* the payment each reader is collecting
    row,          \* the stored columns of each terminal payment
    statuses,     \* rows of stripe_payment_intent_status, per intent
    transactions, \* transactions created for each payment
    transfers,    \* void -> buyer transfers created for each payment
    invalid,      \* stored transactions that verifyTransaction now refuses
    call,         \* process and cancel calls
    hook,         \* webhook tasks
    faults        \* faults so far

ledgerVars == <<statuses, transactions, transfers>>
vars == <<stripe, events, due, reader, row, ledgerVars, invalid, call, hook,
          faults>>

-----------------------------------------------------------------------------

Rows == [tmp : BOOLEAN, final : BOOLEAN, terminal : Readers \cup {NoReader}]
NewRow == [tmp |-> TRUE, final |-> FALSE, terminal |-> NoReader]

\* TerminalPayment.getState
State(cols) ==
    CASE cols.final -> "PAID"
      [] ~cols.final /\ ~cols.tmp -> "CANCELLED"
      [] ~cols.final /\ cols.tmp /\ cols.terminal # NoReader -> "PROCESSING"
      [] OTHER -> "CREATED"

Open(cols) == State(cols) \in {"CREATED", "PROCESSING"}

Events == Payments \X States

Idle == [pc |-> "idle"]
CallTasks ==
    {Idle}
      \cup [pc : {"starting"}, payment : Payments, reader : Readers]
      \cup [pc : {"recorded", "sent"}, payment : Payments, reader : Readers,
            writes : BOOLEAN]
      \cup [pc : {"cancelling"}, payment : Payments]
      \cup [pc : {"snapshot", "cleared", "cancelled"}, payment : Payments,
            cols : Rows]
HookTasks ==
    {Idle}
      \cup [pc : {"received"}, payment : Payments, state : States]
      \cup [pc : {"loaded", "inserted"}, payment : Payments, state : States,
            seen : SUBSET States, cols : Rows, valid : BOOLEAN]

\* Every variable stays within its type.
TypeOK ==
    /\ stripe \in [Payments -> {"none", "open", "succeeded", "canceled"}]
    /\ events \subseteq Events
    /\ due \subseteq events
    /\ reader \in [Readers -> Payments \cup {NoPayment}]
    /\ row \in [Payments -> Rows]
    /\ statuses \in [Payments -> SUBSET States]
    /\ transactions \in [Payments -> Nat]
    /\ transfers \in [Payments -> Nat]
    /\ invalid \subseteq Payments
    /\ call \in [Calls -> CallTasks]
    /\ hook \in [Hooks -> HookTasks]
    /\ faults \in 0 .. MaxFaults

Init ==
    /\ stripe = [p \in Payments |-> "none"]
    /\ events = {}
    /\ due = {}
    /\ reader = [t \in Readers |-> NoPayment]
    /\ row = [p \in Payments |-> NewRow]
    /\ statuses = [p \in Payments |-> {}]
    /\ transactions = [p \in Payments |-> 0]
    /\ transfers = [p \in Payments |-> 0]
    /\ invalid = {}
    /\ call = [c \in Calls |-> Idle]
    /\ hook = [h \in Hooks |-> Idle]
    /\ faults = 0

Created(p) == stripe[p] # "none"

Emit(p, s) ==
    /\ events' = events \cup {<<p, s>>}
    /\ due' = due \cup {<<p, s>>}

-----------------------------------------------------------------------------
(* POST /terminal-payments.  Its transaction is one step: nobody else has   *)
(* the id before it commits, and Stripe retries an event that comes early.  *)

Create(p) ==
    /\ ~Created(p)
    /\ stripe' = [stripe EXCEPT ![p] = "open"]
    /\ Emit(p, "CREATED")
    /\ UNCHANGED <<reader, row, ledgerVars, invalid, call, hook, faults>>

\* A product, container or point of sale of the stored transaction is deleted
\* or revised, a user in it is deactivated, or new terms of service appear.
Invalidate(p) ==
    /\ Created(p)
    /\ p \notin invalid
    /\ invalid' = invalid \cup {p}
    /\ UNCHANGED <<stripe, events, due, reader, row, ledgerVars, call, hook,
                   faults>>

-----------------------------------------------------------------------------
(* Row locks *)

\* The row of p was updated by a call that has not committed.
RowLocked(p) ==
    \E c \in Calls :
        /\ \/ call[c].pc \in {"recorded", "sent"} /\ call[c].writes
           \/ call[c].pc \in {"cleared", "cancelled"}
        /\ call[c].payment = p

\* Inserting a status takes a shared lock on the payment intent it refers to.
IntentLocked(p) ==
    \E h \in Hooks : hook[h].pc = "inserted" /\ hook[h].payment = p

-----------------------------------------------------------------------------
(* POST /terminal-payments/{id}/process *)

Unchanged_Calls == UNCHANGED <<ledgerVars, invalid, hook, faults>>

End(c) == call' = [call EXCEPT ![c] = Idle]

\* the controller's checks: the payment is open and the reader available
CheckStart(c, p, t) ==
    /\ call[c] = Idle
    /\ Created(p)
    /\ Open(row[p])
    /\ reader[t] = NoPayment
    /\ call' = [call EXCEPT ![c] =
                   [pc |-> "starting", payment |-> p, reader |-> t]]
    /\ UNCHANGED <<stripe, events, due, reader, row>>
    /\ Unchanged_Calls

\* the save of processedByTerminal, an update if it differs; the payment and
\* the reader are read again but not checked again
RecordReader(c) ==
    LET p == call[c].payment
        t == call[c].reader
    IN
    /\ call[c].pc = "starting"
    /\ row[p].terminal # t => ~RowLocked(p)
    /\ call' = [call EXCEPT ![c] =
                   [pc |-> "recorded", payment |-> p, reader |-> t,
                    writes |-> row[p].terminal # t]]
    /\ UNCHANGED <<stripe, events, due, reader, row>>
    /\ Unchanged_Calls

\* Stripe takes the payment to the reader, whatever that is collecting.
SendToReader(c) ==
    /\ call[c].pc = "recorded"
    /\ stripe[call[c].payment] = "open"
    /\ reader' = [reader EXCEPT ![call[c].reader] = call[c].payment]
    /\ call' = [call EXCEPT ![c].pc = "sent"]
    /\ UNCHANGED <<stripe, events, due, row>>
    /\ Unchanged_Calls

\* Stripe refuses an intent that is paid or cancelled: roll back.
SendRefused(c) ==
    /\ call[c].pc = "recorded"
    /\ stripe[call[c].payment] # "open"
    /\ End(c)
    /\ UNCHANGED <<stripe, events, due, reader, row>>
    /\ Unchanged_Calls

CommitStart(c) ==
    /\ call[c].pc = "sent"
    /\ row' = IF call[c].writes
              THEN [row EXCEPT ![call[c].payment].terminal = call[c].reader]
              ELSE row
    /\ End(c)
    /\ UNCHANGED <<stripe, events, due, reader>>
    /\ Unchanged_Calls

-----------------------------------------------------------------------------
(* DELETE /terminal-payments/{id} *)

\* the controller's check
CheckCancel(c, p) ==
    /\ call[c] = Idle
    /\ Created(p)
    /\ Open(row[p])
    /\ call' = [call EXCEPT ![c] = [pc |-> "cancelling", payment |-> p]]
    /\ UNCHANGED <<stripe, events, due, reader, row>>
    /\ Unchanged_Calls

\* cancelTerminalPayment reads the payment again, in its transaction ...
ReadForCancel(c) ==
    /\ call[c].pc = "cancelling"
    /\ Open(row[call[c].payment])
    /\ call' = [call EXCEPT ![c] =
                   [pc |-> "snapshot", payment |-> call[c].payment,
                    cols |-> row[call[c].payment]]]
    /\ UNCHANGED <<stripe, events, due, reader, row>>
    /\ Unchanged_Calls

\* ... and throws when it is not open any more
CancelTooLate(c) ==
    /\ call[c].pc = "cancelling"
    /\ ~Open(row[call[c].payment])
    /\ End(c)
    /\ UNCHANGED <<stripe, events, due, reader, row>>
    /\ Unchanged_Calls

\* the update and the removal of the temporary transaction
ClearTransaction(c) ==
    /\ call[c].pc = "snapshot"
    /\ ~RowLocked(call[c].payment)
    /\ call' = [call EXCEPT ![c].pc = "cleared"]
    /\ UNCHANGED <<stripe, events, due, reader, row>>
    /\ Unchanged_Calls

\* readers.cancelAction stops the recorded reader, whatever it is collecting.
Stopped(t, c) == t = call[c].cols.terminal

\* cancelAction and paymentIntents.cancel
CancelAtStripe(c) ==
    /\ call[c].pc = "cleared"
    /\ stripe[call[c].payment] = "open"
    /\ stripe' = [stripe EXCEPT ![call[c].payment] = "canceled"]
    /\ reader' = [t \in Readers |->
                     IF Stopped(t, c) \/ reader[t] = call[c].payment
                     THEN NoPayment ELSE reader[t]]
    /\ Emit(call[c].payment, "CANCELLED")
    /\ call' = [call EXCEPT ![c].pc = "cancelled"]
    /\ UNCHANGED row
    /\ Unchanged_Calls

\* mutant: an error of paymentIntents.cancel is only logged
CancelRefused_GoesOn(c) ==
    /\ call[c].pc = "cleared"
    /\ stripe[call[c].payment] # "open"
    /\ call' = [call EXCEPT ![c].pc = "cancelled"]
    /\ UNCHANGED <<stripe, events, due, reader, row>>
    /\ Unchanged_Calls

\* Stripe has stopped the reader but cannot cancel an intent that is paid or
\* cancelled already: roll back.
CancelRefused(c) ==
    /\ call[c].pc = "cleared"
    /\ stripe[call[c].payment] # "open"
    /\ reader' = [t \in Readers |->
                     IF Stopped(t, c) THEN NoPayment ELSE reader[t]]
    /\ End(c)
    /\ UNCHANGED <<stripe, events, due, row>>
    /\ Unchanged_Calls

\* cancelledWithAPI is saved, which needs the row of the intent
CommitCancel(c) ==
    /\ call[c].pc = "cancelled"
    /\ ~IntentLocked(call[c].payment)
    /\ row' = [row EXCEPT ![call[c].payment].tmp = FALSE]
    /\ End(c)
    /\ UNCHANGED <<stripe, events, due, reader>>
    /\ Unchanged_Calls

-----------------------------------------------------------------------------
(* Webhooks *)

Unchanged_Hooks == UNCHANGED <<stripe, events, reader, invalid, call>>

\* The controller finds the payment intent, starts the task and answers 204.
Receive(h, e) ==
    /\ hook[h] = Idle
    /\ due' = due \ {e}
    /\ hook' = [hook EXCEPT ![h] =
                   [pc |-> "received", payment |-> e[1], state |-> e[2]]]
    /\ UNCHANGED <<row, ledgerVars, faults>>
    /\ Unchanged_Hooks

Deliver(h, e) == e \in due /\ Receive(h, e)
Redeliver(h, e) == e \in events \ due /\ Receive(h, e)

\* the snapshot: the intent with its statuses, the payment, and all that
\* verifyTransaction will look at
Load(h) ==
    LET p == hook[h].payment IN
    /\ hook[h].pc = "received"
    /\ hook' = [hook EXCEPT ![h] =
                   [pc |-> "loaded", payment |-> p, state |-> hook[h].state,
                    seen |-> statuses[p], cols |-> row[p],
                    valid |-> p \notin invalid]]
    /\ UNCHANGED <<due, row, ledgerVars, faults>>
    /\ Unchanged_Hooks

Accepted(h) ==
    /\ Recordable(hook[h].seen, hook[h].state)
    /\ hook[h].state \notin statuses[hook[h].payment]

\* createNewPaymentIntentStatus throws, or the unique index on (intent, state)
\* does; handleWebhookEvent logs it.
RejectStatus(h) ==
    /\ hook[h].pc = "loaded"
    /\ ~Accepted(h)
    /\ hook' = [hook EXCEPT ![h] = Idle]
    /\ UNCHANGED <<due, row, ledgerVars, faults>>
    /\ Unchanged_Hooks

\* mutant: two tasks insert the same status side by side
InsertStatus_NoIndex(h) ==
    /\ hook[h].pc = "loaded"
    /\ Recordable(hook[h].seen, hook[h].state)
    /\ hook' = [hook EXCEPT ![h].pc = "inserted"]
    /\ UNCHANGED <<due, row, ledgerVars, faults>>
    /\ Unchanged_Hooks

\* The insert of the status; the unique index makes it wait for a task that has
\* inserted the same one.
InsertStatus(h) ==
    /\ hook[h].pc = "loaded"
    /\ Accepted(h)
    /\ \A g \in Hooks : hook[g].pc = "inserted" =>
           ~(/\ hook[g].payment = hook[h].payment
             /\ hook[g].state = hook[h].state)
    /\ hook' = [hook EXCEPT ![h].pc = "inserted"]
    /\ UNCHANGED <<due, row, ledgerVars, faults>>
    /\ Unchanged_Hooks

\* handleTerminalPaymentSuccess reaches createTransaction: the payment is
\* PROCESSING and its stored transaction still valid; otherwise it throws.
Settles(h) ==
    /\ hook[h].state = "SUCCEEDED"
    /\ State(hook[h].cols) = "PROCESSING"
    /\ hook[h].valid

\* A cancellation at Stripe is passed on to an open payment.
Cancels(h) == hook[h].state = "CANCELLED" /\ Open(hook[h].cols)

Commit(h) ==
    /\ hook[h].pc = "inserted"
    /\ statuses' = [statuses EXCEPT ![hook[h].payment] = @ \cup {hook[h].state}]
    /\ hook' = [hook EXCEPT ![h] = Idle]
    /\ UNCHANGED <<due, faults>>
    /\ Unchanged_Hooks

\* a status without side effects, or one whose side effects threw
CommitStatus(h) ==
    /\ Commit(h)
    /\ ~Settles(h)
    /\ ~Cancels(h)
    /\ UNCHANGED <<row, transactions, transfers>>

CreateTransaction(p) == transactions' = [transactions EXCEPT ![p] = @ + 1]

(***************************************************************************)
(* createTransaction clears inactiveNotificationSend through the global    *)
(* manager, on a second connection, where the update of the buyer waits    *)
(* for the lock that the new transaction's foreign key holds until this    *)
(* connection commits.  The wait times out, the error is logged, and the   *)
(* transaction commits with what was written so far.                       *)
(***************************************************************************)
SettleHalf(h) ==
    /\ Commit(h)
    /\ Settles(h)
    /\ hook[h].payment \in Notified
    /\ CreateTransaction(hook[h].payment)
    /\ UNCHANGED <<row, transfers>>

\* mutant: the transfer is left to the caller
Settle_NoTransfer(h) ==
    LET p == hook[h].payment IN
    /\ Commit(h)
    /\ Settles(h)
    /\ ~RowLocked(p)
    /\ CreateTransaction(p)
    /\ row' = [row EXCEPT ![p] = [@ EXCEPT !.tmp = FALSE, !.final = TRUE]]
    /\ UNCHANGED transfers

\* mutant: the transfer goes from the buyer to the void
Settle_Debits(h) ==
    LET p == hook[h].payment IN
    /\ Commit(h)
    /\ Settles(h)
    /\ ~RowLocked(p)
    /\ CreateTransaction(p)
    /\ transfers' = [transfers EXCEPT ![p] = @ - 1]
    /\ row' = [row EXCEPT ![p] = [@ EXCEPT !.tmp = FALSE, !.final = TRUE]]

\* the transaction, its transfer, and the payment pointing to both
Settle(h) ==
    LET p == hook[h].payment IN
    /\ Commit(h)
    /\ Settles(h)
    /\ ~RowLocked(p)
    /\ CreateTransaction(p)
    /\ transfers' = [transfers EXCEPT ![p] = @ + 1]
    /\ row' = [row EXCEPT ![p] = [@ EXCEPT !.tmp = FALSE, !.final = TRUE]]

\* mutant: only a payment in progress is cancelled
PassOnCancel_OnlyProcessing(h) ==
    LET p == hook[h].payment IN
    /\ Commit(h)
    /\ Cancels(h)
    /\ ~RowLocked(p)
    /\ row' = IF State(hook[h].cols) = "PROCESSING"
              THEN [row EXCEPT ![p].tmp = FALSE] ELSE row
    /\ UNCHANGED <<transactions, transfers>>

PassOnCancel(h) ==
    LET p == hook[h].payment IN
    /\ Commit(h)
    /\ Cancels(h)
    /\ ~RowLocked(p)
    /\ row' = [row EXCEPT ![p].tmp = FALSE]
    /\ UNCHANGED <<transactions, transfers>>

-----------------------------------------------------------------------------
(* Deadlock: the task holds the intent and needs the payment, the cancel    *)
(* call holds the payment and needs the intent.  InnoDB rolls one back.     *)

Deadlocked(h, c) ==
    /\ hook[h].pc = "inserted"
    /\ Settles(h) \/ Cancels(h)
    /\ call[c].pc = "cancelled"
    /\ call[c].payment = hook[h].payment

\* handleWebhookEvent logs the error like any other.
RollBackHook(h, c) ==
    /\ Deadlocked(h, c)
    /\ hook' = [hook EXCEPT ![h] = Idle]
    /\ UNCHANGED <<due, row, ledgerVars, faults>>
    /\ Unchanged_Hooks

\* the caller gets a 500; what Stripe did stays
RollBackCancel(h, c) ==
    /\ Deadlocked(h, c)
    /\ End(c)
    /\ UNCHANGED <<stripe, events, due, reader, row>>
    /\ Unchanged_Calls

-----------------------------------------------------------------------------
(* Stripe, its readers and the payer (external) *)

Unchanged_Stripe == UNCHANGED <<row, ledgerVars, invalid, call, hook, faults>>

Drop(p) ==
    reader' = [t \in Readers |-> IF reader[t] = p THEN NoPayment ELSE reader[t]]

\* A reader collects only an intent that is still open.
ReaderCaptures(t) ==
    /\ reader[t] # NoPayment
    /\ stripe' = [stripe EXCEPT ![reader[t]] = "succeeded"]
    /\ Emit(reader[t], "SUCCEEDED")
    /\ Drop(reader[t])
    /\ Unchanged_Stripe

ReaderDeclines(t) ==
    /\ reader[t] # NoPayment
    /\ Emit(reader[t], "FAILED")
    /\ reader' = [reader EXCEPT ![t] = NoPayment]
    /\ UNCHANGED stripe
    /\ Unchanged_Stripe

\* a reboot or a timeout of the reader, of which SudoSOS hears nothing
ReaderStops(t) ==
    /\ reader[t] # NoPayment
    /\ reader' = [reader EXCEPT ![t] = NoPayment]
    /\ UNCHANGED <<stripe, events, due>>
    /\ Unchanged_Stripe

StripeCancels(p) ==
    /\ stripe[p] = "open"
    /\ stripe' = [stripe EXCEPT ![p] = "canceled"]
    /\ Emit(p, "CANCELLED")
    /\ Drop(p)
    /\ Unchanged_Stripe

-----------------------------------------------------------------------------
(* Faults *)

\* The process dies and with it every uncommitted transaction.
Crash ==
    /\ faults < MaxFaults
    /\ faults' = faults + 1
    /\ call' = [c \in Calls |-> Idle]
    /\ hook' = [h \in Hooks |-> Idle]
    /\ UNCHANGED <<stripe, events, due, reader, row, ledgerVars, invalid>>

AbortHook(h) ==
    /\ faults < MaxFaults
    /\ hook[h] # Idle
    /\ faults' = faults + 1
    /\ hook' = [hook EXCEPT ![h] = Idle]
    /\ UNCHANGED <<due, row, ledgerVars>>
    /\ Unchanged_Hooks

-----------------------------------------------------------------------------

CallStep(c) ==
    \/ RecordReader(c) \/ SendToReader(c) \/ SendRefused(c) \/ CommitStart(c)
    \/ ReadForCancel(c) \/ CancelTooLate(c) \/ ClearTransaction(c)
    \/ CancelAtStripe(c) \/ CancelRefused(c) \/ CommitCancel(c)

HookStep(h) ==
    \/ Load(h) \/ RejectStatus(h) \/ InsertStatus(h) \/ CommitStatus(h)
    \/ SettleHalf(h) \/ Settle(h) \/ PassOnCancel(h)

DeadlockStep(h, c) == RollBackHook(h, c) \/ RollBackCancel(h, c)

ReaderStep(t) == ReaderCaptures(t) \/ ReaderDeclines(t) \/ ReaderStops(t)

Next ==
    \/ \E p \in Payments : Create(p) \/ Invalidate(p) \/ StripeCancels(p)
    \/ \E c \in Calls : \/ \E p \in Payments, t \in Readers : CheckStart(c, p, t)
                        \/ \E p \in Payments : CheckCancel(c, p)
                        \/ CallStep(c)
    \/ \E h \in Hooks : \/ \E e \in Events : Deliver(h, e) \/ Redeliver(h, e)
                        \/ HookStep(h) \/ AbortHook(h)
    \/ \E h \in Hooks, c \in Calls : DeadlockStep(h, c)
    \/ \E t \in Readers : ReaderStep(t)
    \/ Crash

Spec == Init /\ [][Next]_vars

(***************************************************************************)
(* Fairness: a call or task goes on until it ends, also when others keep   *)
(* taking the row it waits for, because InnoDB grants locks in order; a    *)
(* deadlock is broken; Stripe repeats an event until it has a 204, which   *)
(* only has to be assumed of cancellations.  Nothing makes a payer pay or  *)
(* a point of sale call.                                                   *)
(***************************************************************************)
Fairness ==
    /\ \A c \in Calls : SF_vars(CallStep(c))
    /\ \A h \in Hooks : SF_vars(HookStep(h))
    /\ \A h \in Hooks, c \in Calls : WF_vars(DeadlockStep(h, c))
    /\ \A p \in Payments : SF_vars(\E h \in Hooks : Deliver(h, <<p, "CANCELLED">>))

FairSpec == Spec /\ Fairness

-----------------------------------------------------------------------------
(* Properties *)

Captured(p) == stripe[p] = "succeeded"

\* What is shown as cancelled was cancelled at Stripe before, so no customer is
\* charged for it, whatever raced with the cancellation.
CancelledNeverCharged ==
    \A p \in Payments :
        Created(p) /\ State(row[p]) = "CANCELLED" => stripe[p] = "canceled"

\* A PAID payment has exactly one transaction and exactly one transfer.
PaidIsBalanced ==
    \A p \in Payments :
        row[p].final => transactions[p] = 1 /\ transfers[p] = 1

\* A transaction is created only for a captured payment, and at most once:
\* the ledger that also describes the settlement of top-ups.
Ledger == INSTANCE CreditLedger
              WITH captured <- {p \in Payments : Captured(p)},
                   credit <- transactions
TransactsOnceWhatWasCaptured == Ledger!Spec

\* A cancellation at Stripe reaches the payment, even when the cancel call and
\* the webhook deadlock, unless a decline was recorded or a fault happened.
CancellationArrives ==
    \A p \in Payments :
        stripe[p] = "canceled" ~>
            State(row[p]) = "CANCELLED" \/ "FAILED" \in statuses[p] \/ faults > 0

-----------------------------------------------------------------------------
(* What the documentation says and the code does not do                     *)

\* Nobody works on the SUCCEEDED event of p any more.
Acknowledged(p) ==
    /\ <<p, "SUCCEEDED">> \notin due
    /\ \A h \in Hooks : hook[h] # Idle =>
           ~(hook[h].payment = p /\ hook[h].state = "SUCCEEDED")

\* "When the payment is done, SudoSOS creates the transfer and the transaction",
\* even if only demanded where nothing else went wrong: no fault, no decline
\* and a stored transaction that is still valid.
DoneIsTransacted ==
    \A p \in Payments :
        Captured(p) /\ Acknowledged(p) =>
            \/ row[p].final
            \/ faults > 0 \/ "FAILED" \in statuses[p] \/ p \in invalid
=============================================================================
