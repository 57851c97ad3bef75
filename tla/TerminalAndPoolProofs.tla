----------------------- MODULE TerminalAndPoolProofs ------------------------
(***************************************************************************)
(* Proofs about TerminalPayments, for any number of payments, readers,     *)
(* calls, webhook tasks and faults; and about ConnectionPool: for every    *)
(* pool and every load, the back end comes to a halt only when every       *)
(* connection belongs to a transaction that waits for a second one, hence  *)
(* never with fewer transactions than connections.                         *)
(***************************************************************************)
EXTENDS TerminalPayments, ConnectionPool, FiniteSetTheorems, TLAPS

-----------------------------------------------------------------------------
(* The inductive invariant *)

\* A reader collects only an intent that can still be paid.
ReaderInv == \A t \in Readers : reader[t] # NoPayment => stripe[reader[t]] = "open"

\* Stripe announces the end of an intent that it has reached.
EventInv ==
    \A p \in Payments :
        /\ <<p, "SUCCEEDED">> \in events => stripe[p] = "succeeded"
        /\ <<p, "CANCELLED">> \in events => stripe[p] = "canceled"

\* A cancel call goes on only when Stripe has cancelled.
CallInv ==
    \A c \in Calls :
        call[c].pc = "cancelled" => stripe[call[c].payment] = "canceled"

\* Tasks work on events, and what one has inserted nobody else has.
HookInv ==
    /\ \A h \in Hooks :
           hook[h].pc # "idle" => <<hook[h].payment, hook[h].state>> \in events
    /\ \A h \in Hooks : hook[h].pc = "inserted" =>
           hook[h].state \notin statuses[hook[h].payment]
    /\ \A g, h \in Hooks :
           hook[g].pc = "inserted" /\ hook[h].pc = "inserted" /\ g # h =>
               <<hook[g].payment, hook[g].state>> # <<hook[h].payment, hook[h].state>>

\* Money moves when SUCCEEDED is recorded, and then once.
LedgerInv ==
    \A p \in Payments :
        /\ "SUCCEEDED" \notin statuses[p] =>
              transactions[p] = 0 /\ transfers[p] = 0 /\ ~row[p].final
        /\ row[p].final => transactions[p] = 1 /\ transfers[p] = 1

\* Only what Stripe cancelled loses its transaction without a final one.
CancelInv == \A p \in Payments : State(row[p]) = "CANCELLED" => stripe[p] = "canceled"

IInv ==
    /\ TypeOK
    /\ ReaderInv
    /\ EventInv
    /\ CallInv
    /\ HookInv
    /\ LedgerInv
    /\ CancelInv

USE NamesAssumption, NotifiedAssumption, FaultsAssumption
    DEF States, Events, Rows, NewRow, Idle

LEMMA InitInv == Init => IInv
BY DEF Init, IInv, TypeOK, ReaderInv, EventInv, CallInv, HookInv, LedgerInv,
       CancelInv, State, CallTasks, HookTasks, ledgerVars

-----------------------------------------------------------------------------
(* What calls and tasks hold *)

LEMMA CallHolds ==
  ASSUME TypeOK, NEW c \in Calls, call[c] # Idle
  PROVE  /\ call[c].payment \in Payments
         /\ call[c].pc \in {"starting", "recorded", "sent"} => call[c].reader \in Readers
         /\ call[c].pc \in {"recorded", "sent"} => call[c].writes \in BOOLEAN
         /\ call[c].pc \in {"snapshot", "cleared", "cancelled"} => call[c].cols \in Rows
BY DEF TypeOK, CallTasks

LEMMA HookHolds ==
  ASSUME TypeOK, NEW h \in Hooks, hook[h].pc # "idle"
  PROVE  /\ hook[h].payment \in Payments
         /\ hook[h].state \in States
         /\ hook[h].pc \in {"loaded", "inserted"} =>
               /\ hook[h].seen \in SUBSET States
               /\ hook[h].cols \in Rows
               /\ hook[h].valid \in BOOLEAN
BY DEF TypeOK, HookTasks

\* Columns that are assigned leave the others alone.
LEMMA AssignedColumns ==
  ASSUME NEW r \in Rows
  PROVE  /\ [r EXCEPT !.tmp = FALSE] \in Rows
         /\ [r EXCEPT !.tmp = FALSE].final = r.final
         /\ [r EXCEPT !.tmp = FALSE, !.final = TRUE] \in Rows
         /\ [r EXCEPT !.tmp = FALSE, !.final = TRUE].final = TRUE
<1>1. [r EXCEPT !.tmp = FALSE] \in Rows
  OBVIOUS
<1>2. [r EXCEPT !.tmp = FALSE].final = r.final
  OBVIOUS
<1>3. [r EXCEPT !.tmp = FALSE, !.final = TRUE] \in Rows
  OBVIOUS
<1>4. [r EXCEPT !.tmp = FALSE, !.final = TRUE].final = TRUE
  OBVIOUS
<1> QED
  BY <1>1, <1>2, <1>3, <1>4

\* A payment without its temporary transaction, and a paid one.
LEMMA ClearedRow ==
  ASSUME TypeOK, NEW p \in Payments, row' = [row EXCEPT ![p].tmp = FALSE]
  PROVE  /\ row' \in [Payments -> Rows]
         /\ \A q \in Payments : row'[q].final = row[q].final
         /\ \A q \in Payments \ {p} : row'[q] = row[q]
<1> DEFINE new == [row[p] EXCEPT !.tmp = FALSE]
<1>1. row[p] \in Rows /\ row \in [Payments -> Rows]
  BY DEF TypeOK
<1>2. new \in Rows /\ new.final = row[p].final
  BY <1>1, AssignedColumns
<1>3. row' = [row EXCEPT ![p] = new]
  OBVIOUS
<1> HIDE DEF new
<1> QED
  BY <1>1, <1>2, <1>3

LEMMA PaidRow ==
  ASSUME TypeOK, NEW p \in Payments,
         row' = [row EXCEPT ![p] = [@ EXCEPT !.tmp = FALSE, !.final = TRUE]]
  PROVE  /\ row' \in [Payments -> Rows]
         /\ row'[p].final
         /\ \A q \in Payments \ {p} : row'[q] = row[q]
<1> DEFINE new == [row[p] EXCEPT !.tmp = FALSE, !.final = TRUE]
<1>1. row \in [Payments -> Rows] /\ row[p] \in Rows
  BY DEF TypeOK
<1>2. new \in Rows /\ new.final = TRUE
  BY <1>1, AssignedColumns
<1>3. row' = [row EXCEPT ![p] = new]
  OBVIOUS
<1> HIDE DEF new
<1> QED
  BY <1>1, <1>2, <1>3
-----------------------------------------------------------------------------
(* Steps of calls that only the call sees *)

\* A call that becomes another call changes nothing else.
LEMMA CallOnlyInv ==
  ASSUME IInv, NEW c \in Calls, NEW next \in CallTasks,
         call' = [call EXCEPT ![c] = next],
         next.pc = "cancelled" => stripe[next.payment] = "canceled",
         UNCHANGED <<stripe, events, due, reader, row, ledgerVars, invalid, hook, faults>>
  PROVE  IInv'
<1>1. TypeOK'
  BY DEF IInv, TypeOK, ledgerVars
<1>2. CallInv'
  BY DEF IInv, TypeOK, CallInv
<1>3. ReaderInv' /\ EventInv' /\ HookInv' /\ LedgerInv' /\ CancelInv'
  BY DEF IInv, ReaderInv, EventInv, HookInv, LedgerInv, CancelInv, State, ledgerVars
<1> QED
  BY <1>1, <1>2, <1>3 DEF IInv

LEMMA QuietCallInv ==
  ASSUME IInv, NEW c \in Calls,
         \/ \E p \in Payments, t \in Readers : CheckStart(c, p, t)
         \/ \E p \in Payments : CheckCancel(c, p)
         \/ RecordReader(c) \/ SendRefused(c) \/ ReadForCancel(c)
         \/ CancelTooLate(c) \/ ClearTransaction(c)
  PROVE  IInv'
<1>1. UNCHANGED <<stripe, events, due, reader, row, ledgerVars, invalid, hook, faults>>
  BY DEF CheckStart, CheckCancel, RecordReader, SendRefused, ReadForCancel,
         CancelTooLate, ClearTransaction, Unchanged_Calls
<1>2. ASSUME NEW next \in CallTasks, next.pc # "cancelled",
             call' = [call EXCEPT ![c] = next]
      PROVE  IInv'
  BY <1>1, <1>2, CallOnlyInv
<1>3. ASSUME NEW p \in Payments, NEW t \in Readers, CheckStart(c, p, t)
      PROVE  IInv'
  <2> DEFINE next == [pc |-> "starting", payment |-> p, reader |-> t]
  <2>1. next \in CallTasks /\ next.pc # "cancelled"
    BY DEF CallTasks
  <2>2. call' = [call EXCEPT ![c] = next]
    BY <1>3 DEF CheckStart
  <2> HIDE DEF next
  <2> QED
    BY <1>2, <2>1, <2>2
<1>4. ASSUME NEW p \in Payments, CheckCancel(c, p)
      PROVE  IInv'
  <2> DEFINE next == [pc |-> "cancelling", payment |-> p]
  <2>1. next \in CallTasks /\ next.pc # "cancelled"
    BY DEF CallTasks
  <2>2. call' = [call EXCEPT ![c] = next]
    BY <1>4 DEF CheckCancel
  <2> HIDE DEF next
  <2> QED
    BY <1>2, <2>1, <2>2
<1>5. CASE RecordReader(c)
  <2> DEFINE next == [pc |-> "recorded", payment |-> call[c].payment,
                      reader |-> call[c].reader,
                      writes |-> row[call[c].payment].terminal # call[c].reader]
  <2>1. call[c].payment \in Payments /\ call[c].reader \in Readers
    BY <1>5, CallHolds DEF IInv, RecordReader
  <2>2. next \in CallTasks /\ next.pc # "cancelled"
    BY <2>1 DEF CallTasks
  <2>3. call' = [call EXCEPT ![c] = next]
    BY <1>5 DEF RecordReader
  <2> HIDE DEF next
  <2> QED
    BY <1>2, <2>2, <2>3
<1>6. CASE SendRefused(c) \/ CancelTooLate(c)
  BY <1>2, <1>6 DEF SendRefused, CancelTooLate, End, CallTasks
<1>7. CASE ReadForCancel(c)
  <2> DEFINE next == [pc |-> "snapshot", payment |-> call[c].payment,
                      cols |-> row[call[c].payment]]
  <2>1. call[c].payment \in Payments /\ row[call[c].payment] \in Rows
    BY <1>7, CallHolds DEF IInv, TypeOK, ReadForCancel
  <2>2. next \in CallTasks /\ next.pc # "cancelled"
    BY <2>1 DEF CallTasks
  <2>3. call' = [call EXCEPT ![c] = next]
    BY <1>7 DEF ReadForCancel
  <2> HIDE DEF next
  <2> QED
    BY <1>2, <2>2, <2>3
<1>8. CASE ClearTransaction(c)
  <2> DEFINE next == [call[c] EXCEPT !.pc = "cleared"]
  <2>1. call[c] \in [pc : {"snapshot", "cleared", "cancelled"},
                     payment : Payments, cols : Rows]
    BY <1>8 DEF IInv, TypeOK, CallTasks, ClearTransaction
  <2>2. next \in CallTasks /\ next.pc # "cancelled"
    BY <2>1 DEF CallTasks
  <2>3. call' = [call EXCEPT ![c] = next]
    BY <1>8 DEF ClearTransaction
  <2> HIDE DEF next
  <2> QED
    BY <1>2, <2>2, <2>3
<1> QED
  BY <1>3, <1>4, <1>5, <1>6, <1>7, <1>8

-----------------------------------------------------------------------------
(* Steps of calls that Stripe or the database sees *)

LEMMA SendToReaderInv ==
  ASSUME IInv, NEW c \in Calls, SendToReader(c)
  PROVE  IInv'
<1>1. /\ call[c].pc = "recorded"
      /\ call[c] \in [pc : {"recorded", "sent"}, payment : Payments,
                       reader : Readers, writes : BOOLEAN]
  BY DEF IInv, TypeOK, CallTasks, SendToReader
<1>2. TypeOK'
  <2>1. [call[c] EXCEPT !.pc = "sent"] \in CallTasks
    BY <1>1 DEF CallTasks
  <2> QED
    BY <1>1, <2>1 DEF IInv, TypeOK, SendToReader, Unchanged_Calls, ledgerVars
<1>3. ReaderInv' /\ CallInv'
  BY <1>1 DEF IInv, TypeOK, ReaderInv, CallInv, SendToReader
<1>4. EventInv' /\ HookInv' /\ LedgerInv' /\ CancelInv'
  BY DEF IInv, EventInv, HookInv, LedgerInv, CancelInv, State, SendToReader,
         Unchanged_Calls, ledgerVars
<1> QED
  BY <1>2, <1>3, <1>4 DEF IInv

\* The reader of a payment says nothing about its end.
LEMMA CommitStartInv ==
  ASSUME IInv, NEW c \in Calls, CommitStart(c)
  PROVE  IInv'
<1>1. call[c].payment \in Payments /\ call[c].reader \in Readers
  BY CallHolds DEF IInv, CommitStart
<1>2. TypeOK'
  BY <1>1 DEF IInv, TypeOK, CommitStart, End, CallTasks, Unchanged_Calls, ledgerVars
<1>3. \A p \in Payments : row'[p].tmp = row[p].tmp /\ row'[p].final = row[p].final
  BY <1>1 DEF IInv, TypeOK, CommitStart
<1>4. LedgerInv' /\ CancelInv'
  BY <1>3 DEF IInv, LedgerInv, CancelInv, State, CommitStart, Unchanged_Calls, ledgerVars
<1>5. ReaderInv' /\ EventInv' /\ CallInv' /\ HookInv'
  BY DEF IInv, TypeOK, ReaderInv, EventInv, CallInv, HookInv, CommitStart, End,
         Unchanged_Calls, ledgerVars
<1> QED
  BY <1>2, <1>4, <1>5 DEF IInv

LEMMA CancelAtStripeInv ==
  ASSUME IInv, NEW c \in Calls, CancelAtStripe(c)
  PROVE  IInv'
<1>1. /\ call[c].pc = "cleared"
      /\ call[c] \in [pc : {"snapshot", "cleared", "cancelled"},
                       payment : Payments, cols : Rows]
  BY DEF IInv, TypeOK, CallTasks, CancelAtStripe
<1>2. TypeOK'
  <2>1. [call[c] EXCEPT !.pc = "cancelled"] \in CallTasks
    BY <1>1 DEF CallTasks
  <2> QED
    BY <1>1, <2>1 DEF IInv, TypeOK, CancelAtStripe, Emit, Unchanged_Calls, ledgerVars
<1>3. ReaderInv' /\ CallInv'
  BY <1>1 DEF IInv, TypeOK, ReaderInv, CallInv, CancelAtStripe
<1>4. EventInv' /\ CancelInv'
  BY <1>1 DEF IInv, TypeOK, EventInv, CancelInv, State, CancelAtStripe, Emit
<1>5. HookInv' /\ LedgerInv'
  BY <1>1 DEF IInv, HookInv, LedgerInv, CancelAtStripe, Emit, Unchanged_Calls, ledgerVars
<1> QED
  BY <1>2, <1>3, <1>4, <1>5 DEF IInv

LEMMA CancelRefusedInv ==
  ASSUME IInv, NEW c \in Calls, CancelRefused(c)
  PROVE  IInv'
<1>1. TypeOK' /\ CallInv'
  BY DEF IInv, TypeOK, CallInv, CancelRefused, End, CallTasks, Unchanged_Calls, ledgerVars
<1>2. ReaderInv'
  BY DEF IInv, ReaderInv, CancelRefused
<1>3. EventInv' /\ HookInv' /\ LedgerInv' /\ CancelInv'
  BY DEF IInv, EventInv, HookInv, LedgerInv, CancelInv, State, CancelRefused,
         Unchanged_Calls, ledgerVars
<1> QED
  BY <1>1, <1>2, <1>3 DEF IInv

LEMMA CommitCancelInv ==
  ASSUME IInv, NEW c \in Calls, CommitCancel(c)
  PROVE  IInv'
<1>1. call[c].payment \in Payments /\ stripe[call[c].payment] = "canceled"
  BY CallHolds DEF IInv, CallInv, CommitCancel
<1>2. TypeOK'
  <2>1. row' \in [Payments -> Rows]
    BY <1>1, ClearedRow DEF IInv, CommitCancel
  <2> QED
    BY <2>1 DEF IInv, TypeOK, CommitCancel, End, CallTasks, Unchanged_Calls, ledgerVars
<1>3. LedgerInv' /\ CancelInv'
  BY <1>1 DEF IInv, TypeOK, LedgerInv, CancelInv, State, CommitCancel,
     Unchanged_Calls, ledgerVars
<1>4. ReaderInv' /\ EventInv' /\ CallInv' /\ HookInv'
  BY DEF IInv, TypeOK, ReaderInv, EventInv, CallInv, HookInv, CommitCancel, End,
         Unchanged_Calls, ledgerVars
<1> QED
  BY <1>2, <1>3, <1>4 DEF IInv

LEMMA CallStepInv ==
  ASSUME IInv, NEW c \in Calls, CallStep(c)
  PROVE  IInv'
BY QuietCallInv, SendToReaderInv, CommitStartInv, CancelAtStripeInv,
   CancelRefusedInv, CommitCancelInv DEF CallStep

-----------------------------------------------------------------------------
(* Steps of webhook tasks *)

LEMMA ReceiveInv ==
  ASSUME IInv, NEW h \in Hooks, NEW e \in events, Receive(h, e)
  PROVE  IInv'
<1>1. e \in Events /\ e = <<e[1], e[2]>> /\ e[1] \in Payments /\ e[2] \in States
  BY DEF IInv, TypeOK
<1>2. TypeOK'
  BY <1>1 DEF IInv, TypeOK, Receive, HookTasks, Unchanged_Hooks, ledgerVars
<1>3. HookInv'
  BY <1>1 DEF IInv, TypeOK, HookInv, Receive, Unchanged_Hooks, ledgerVars
<1>4. ReaderInv' /\ EventInv' /\ CallInv' /\ LedgerInv' /\ CancelInv'
  BY DEF IInv, ReaderInv, EventInv, CallInv, LedgerInv, CancelInv, State, Receive,
         Unchanged_Hooks, ledgerVars
<1> QED
  BY <1>2, <1>3, <1>4 DEF IInv

\* A task that goes on with its event, or ends, without a commit.
LEMMA HookOnlyInv ==
  ASSUME IInv, NEW h \in Hooks, NEW next \in HookTasks,
         hook' = [hook EXCEPT ![h] = next],
         next.pc # "idle" => <<next.payment, next.state>> \in events,
         next.pc = "inserted" =>
             /\ next.state \notin statuses[next.payment]
             /\ \A g \in Hooks \ {h} : hook[g].pc = "inserted" =>
                    <<hook[g].payment, hook[g].state>> # <<next.payment, next.state>>,
         faults' \in 0 .. MaxFaults,
         UNCHANGED <<stripe, events, due, reader, row, ledgerVars, invalid, call>>
  PROVE  IInv'
<1>1. TypeOK'
  BY DEF IInv, TypeOK, ledgerVars
<1>2. HookInv'
  BY DEF IInv, TypeOK, HookInv, ledgerVars
<1>3. ReaderInv' /\ EventInv' /\ CallInv' /\ LedgerInv' /\ CancelInv'
  BY DEF IInv, ReaderInv, EventInv, CallInv, LedgerInv, CancelInv, State, ledgerVars
<1> QED
  BY <1>1, <1>2, <1>3 DEF IInv

LEMMA LoadInv ==
  ASSUME IInv, NEW h \in Hooks, Load(h)
  PROVE  IInv'
<1> DEFINE p == hook[h].payment
           next == [pc |-> "loaded", payment |-> p, state |-> hook[h].state,
                    seen |-> statuses[p], cols |-> row[p],
                    valid |-> p \notin invalid]
<1>1. p \in Payments /\ hook[h].state \in States /\ <<p, hook[h].state>> \in events
  BY HookHolds DEF IInv, HookInv, Load
<1>2. next \in HookTasks
  BY <1>1 DEF IInv, TypeOK, HookTasks
<1>3. hook' = [hook EXCEPT ![h] = next] /\ next.pc = "loaded"
      /\ <<next.payment, next.state>> \in events
  BY <1>1 DEF Load
<1>4. /\ faults' \in 0 .. MaxFaults
      /\ UNCHANGED <<stripe, events, due, reader, row, ledgerVars, invalid, call>>
  BY DEF IInv, TypeOK, Load, Unchanged_Hooks
<1> HIDE DEF next
<1> QED
  BY <1>2, <1>3, <1>4, HookOnlyInv

LEMMA InsertStatusInv ==
  ASSUME IInv, NEW h \in Hooks, InsertStatus(h)
  PROVE  IInv'
<1> DEFINE next == [hook[h] EXCEPT !.pc = "inserted"]
<1>1. /\ hook[h].pc = "loaded"
      /\ hook[h] \in [pc : {"loaded", "inserted"}, payment : Payments, state : States,
                       seen : SUBSET States, cols : Rows, valid : BOOLEAN]
  BY DEF IInv, TypeOK, HookTasks, InsertStatus
<1>2. /\ next \in HookTasks
      /\ next.pc = "inserted"
      /\ next.payment = hook[h].payment /\ next.state = hook[h].state
  BY <1>1 DEF HookTasks
<1>3. <<hook[h].payment, hook[h].state>> \in events
  BY <1>1 DEF IInv, HookInv
<1>4. /\ hook[h].state \notin statuses[hook[h].payment]
      /\ \A g \in Hooks \ {h} : hook[g].pc = "inserted" =>
             <<hook[g].payment, hook[g].state>> # <<hook[h].payment, hook[h].state>>
  BY DEF InsertStatus, Accepted
<1>5. /\ hook' = [hook EXCEPT ![h] = next]
      /\ faults' \in 0 .. MaxFaults
      /\ UNCHANGED <<stripe, events, due, reader, row, ledgerVars, invalid, call>>
  BY DEF IInv, TypeOK, InsertStatus, Unchanged_Hooks
<1> HIDE DEF next
<1> QED
  BY <1>2, <1>3, <1>4, <1>5, HookOnlyInv

LEMMA EndHookInv ==
  ASSUME IInv, NEW h \in Hooks,
         RejectStatus(h) \/ AbortHook(h) \/ \E c \in Calls : RollBackHook(h, c)
  PROVE  IInv'
<1>1. Idle \in HookTasks /\ Idle.pc = "idle"
  BY DEF HookTasks
<1>2. /\ hook' = [hook EXCEPT ![h] = Idle]
      /\ faults' \in 0 .. MaxFaults
      /\ UNCHANGED <<stripe, events, due, reader, row, ledgerVars, invalid, call>>
  BY DEF IInv, TypeOK, RejectStatus, AbortHook, RollBackHook, Unchanged_Hooks
<1> QED
  BY <1>1, <1>2, HookOnlyInv

-----------------------------------------------------------------------------
(* Commits of webhook tasks *)

\* What a task that commits knows.
LEMMA InsertedTask ==
  ASSUME IInv, NEW h \in Hooks, Commit(h)
  PROVE  /\ hook[h].payment \in Payments
         /\ hook[h].state \in States
         /\ <<hook[h].payment, hook[h].state>> \in events
         /\ hook[h].cols \in Rows
         /\ hook[h].state \notin statuses[hook[h].payment]
BY HookHolds DEF IInv, HookInv, Commit

\* The task ends and its status is there: nobody else has inserted the same.
LEMMA CommitHookInv ==
  ASSUME IInv, NEW h \in Hooks, Commit(h)
  PROVE  /\ statuses' \in [Payments -> SUBSET States]
         /\ hook' \in [Hooks -> HookTasks]
         /\ HookInv'
         /\ ReaderInv' /\ EventInv' /\ CallInv'
<1>1. statuses' \in [Payments -> SUBSET States] /\ hook' \in [Hooks -> HookTasks]
  BY InsertedTask DEF IInv, TypeOK, Commit, HookTasks
<1>2. HookInv'
  <2>1. \A g \in Hooks : hook'[g].pc # "idle" => g # h /\ hook'[g] = hook[g]
    BY DEF IInv, TypeOK, Commit
  <2>2. ASSUME NEW g \in Hooks, hook'[g].pc = "inserted"
        PROVE  hook'[g].state \notin statuses'[hook'[g].payment]
    <3>1. /\ g # h /\ hook'[g] = hook[g]
          /\ hook[g].payment \in Payments
          /\ hook[g].state \notin statuses[hook[g].payment]
          /\ <<hook[g].payment, hook[g].state>> # <<hook[h].payment, hook[h].state>>
      BY <2>1, <2>2, HookHolds DEF IInv, HookInv, Commit
    <3> QED
      BY <3>1, InsertedTask DEF IInv, TypeOK, Commit
  <2>3. events' = events
    BY DEF Commit, Unchanged_Hooks
  <2> QED
    BY <2>1, <2>2, <2>3 DEF IInv, HookInv
<1>3. ReaderInv' /\ EventInv' /\ CallInv'
  BY DEF IInv, ReaderInv, EventInv, CallInv, Commit, Unchanged_Hooks
<1> QED
  BY <1>1, <1>2, <1>3

LEMMA CommitTypeOK ==
  ASSUME IInv, NEW h \in Hooks, Commit(h),
         row' \in [Payments -> Rows],
         transactions' \in [Payments -> Nat], transfers' \in [Payments -> Nat]
  PROVE  TypeOK'
BY CommitHookInv DEF IInv, TypeOK, Commit, Unchanged_Hooks

LEMMA CommitStatusInv ==
  ASSUME IInv, NEW h \in Hooks, CommitStatus(h)
  PROVE  IInv'
<1>1. Commit(h) /\ UNCHANGED <<row, transactions, transfers>>
  BY DEF CommitStatus
<1>2. TypeOK'
  BY <1>1, CommitTypeOK DEF IInv, TypeOK
<1>3. LedgerInv' /\ CancelInv'
  BY <1>1, InsertedTask DEF IInv, TypeOK, LedgerInv, CancelInv, State, Commit,
     Unchanged_Hooks
<1> QED
  BY <1>1, <1>2, <1>3, CommitHookInv DEF IInv

\* A payment that is settled was not settled before.
LEMMA NotYetSettled ==
  ASSUME IInv, NEW h \in Hooks, Commit(h), Settles(h)
  PROVE  LET p == hook[h].payment IN
         /\ p \in Payments
         /\ stripe[p] = "succeeded"
         /\ transactions[p] = 0 /\ transfers[p] = 0 /\ ~row[p].final
         /\ statuses' = [statuses EXCEPT ![p] = @ \cup {"SUCCEEDED"}]
BY InsertedTask DEF IInv, EventInv, LedgerInv, Settles, Commit

LEMMA SettleHalfInv ==
  ASSUME IInv, NEW h \in Hooks, SettleHalf(h)
  PROVE  IInv'
<1> DEFINE p == hook[h].payment
<1>1. /\ Commit(h) /\ Settles(h) /\ UNCHANGED <<row, transfers>>
      /\ transactions' = [transactions EXCEPT ![p] = @ + 1]
  BY DEF SettleHalf, CreateTransaction
<1>2. /\ p \in Payments /\ transactions[p] = 0 /\ ~row[p].final
      /\ statuses' = [statuses EXCEPT ![p] = @ \cup {"SUCCEEDED"}]
  BY <1>1, NotYetSettled
<1> HIDE DEF p
<1>3. TypeOK'
  BY <1>1, <1>2, CommitTypeOK DEF IInv, TypeOK
<1>4. LedgerInv'
  BY <1>1, <1>2 DEF IInv, TypeOK, LedgerInv
<1>5. CancelInv'
  BY <1>1 DEF IInv, CancelInv, State, Commit, Unchanged_Hooks
<1> QED
  BY <1>1, <1>3, <1>4, <1>5, CommitHookInv DEF IInv

LEMMA SettleInv ==
  ASSUME IInv, NEW h \in Hooks, Settle(h)
  PROVE  IInv'
<1> DEFINE p == hook[h].payment
<1>1. /\ Commit(h) /\ Settles(h)
      /\ transactions' = [transactions EXCEPT ![p] = @ + 1]
      /\ transfers' = [transfers EXCEPT ![p] = @ + 1]
      /\ row' = [row EXCEPT ![p] = [@ EXCEPT !.tmp = FALSE, !.final = TRUE]]
  BY DEF Settle, CreateTransaction
<1>2. /\ p \in Payments
      /\ transactions[p] = 0 /\ transfers[p] = 0
      /\ statuses' = [statuses EXCEPT ![p] = @ \cup {"SUCCEEDED"}]
  BY <1>1, NotYetSettled
<1> HIDE DEF p
<1>3. /\ row' \in [Payments -> Rows]
      /\ row'[p].final
      /\ \A q \in Payments \ {p} : row'[q] = row[q]
  BY <1>1, <1>2, PaidRow DEF IInv
<1>4. TypeOK'
  <2>1. transactions' \in [Payments -> Nat] /\ transfers' \in [Payments -> Nat]
    BY <1>1, <1>2 DEF IInv, TypeOK
  <2> QED
    BY <1>1, <1>3, <2>1, CommitTypeOK
<1>5. LedgerInv'
  BY <1>1, <1>2, <1>3 DEF IInv, TypeOK, LedgerInv
<1>6. CancelInv'
  BY <1>1, <1>3 DEF IInv, CancelInv, State, Commit, Unchanged_Hooks
<1> QED
  BY <1>1, <1>4, <1>5, <1>6, CommitHookInv DEF IInv

LEMMA PassOnCancelInv ==
  ASSUME IInv, NEW h \in Hooks, PassOnCancel(h)
  PROVE  IInv'
<1> DEFINE p == hook[h].payment
<1>1. /\ Commit(h) /\ hook[h].state = "CANCELLED"
      /\ row' = [row EXCEPT ![p].tmp = FALSE]
      /\ UNCHANGED <<transactions, transfers>>
      /\ statuses' = [statuses EXCEPT ![p] = @ \cup {"CANCELLED"}]
      /\ UNCHANGED stripe
  BY DEF PassOnCancel, Cancels, Commit, Unchanged_Hooks
<1>2. p \in Payments /\ stripe[p] = "canceled"
  BY <1>1, InsertedTask DEF IInv, EventInv
<1> HIDE DEF p
<1>3. /\ row' \in [Payments -> Rows]
      /\ \A q \in Payments : row'[q].final = row[q].final
      /\ \A q \in Payments \ {p} : row'[q] = row[q]
  BY <1>1, <1>2, ClearedRow DEF IInv
<1>4. TypeOK'
  BY <1>1, <1>3, CommitTypeOK DEF IInv, TypeOK
<1>5. LedgerInv'
  BY <1>1, <1>2, <1>3 DEF IInv, TypeOK, LedgerInv
<1>6. CancelInv'
  BY <1>1, <1>2, <1>3 DEF IInv, CancelInv, State
<1> QED
  BY <1>1, <1>4, <1>5, <1>6, CommitHookInv DEF IInv

LEMMA HookStepInv ==
  ASSUME IInv, NEW h \in Hooks, HookStep(h)
  PROVE  IInv'
BY LoadInv, EndHookInv, InsertStatusInv, CommitStatusInv, SettleHalfInv, SettleInv,
   PassOnCancelInv DEF HookStep

-----------------------------------------------------------------------------
(* Steps of Stripe, its readers and the rest of the world *)

\* An event of an intent that has come to the end it announces.
LEMMA EmitInv ==
  ASSUME IInv, NEW p \in Payments, NEW s \in States, Emit(p, s),
         stripe' \in [Payments -> {"none", "open", "succeeded", "canceled"}],
         \A q \in Payments : stripe[q] \in {"succeeded", "canceled"} =>
             stripe'[q] = stripe[q],
         s = "SUCCEEDED" => stripe'[p] = "succeeded",
         s = "CANCELLED" => stripe'[p] = "canceled",
         reader' \in [Readers -> Payments \cup {NoPayment}],
         ReaderInv',
         UNCHANGED <<row, ledgerVars, invalid, call, hook, faults>>
  PROVE  IInv'
<1>1. TypeOK'
  BY DEF IInv, TypeOK, Emit, ledgerVars
<1>2. EventInv'
  BY DEF IInv, TypeOK, EventInv, Emit
<1>3. CallInv'
  <2> SUFFICES ASSUME NEW c \in Calls, call[c].pc = "cancelled"
               PROVE  stripe'[call[c].payment] = "canceled"
    BY DEF CallInv
  <2>1. call[c].payment \in Payments /\ stripe[call[c].payment] = "canceled"
    BY CallHolds DEF IInv, CallInv
  <2> QED
    BY <2>1
<1>4. HookInv' /\ LedgerInv' /\ CancelInv'
  BY DEF IInv, HookInv, LedgerInv, CancelInv, State, Emit, ledgerVars
<1> QED
  BY <1>1, <1>2, <1>3, <1>4 DEF IInv

LEMMA CreateInv ==
  ASSUME IInv, NEW p \in Payments, Create(p)
  PROVE  IInv'
<1>1. ReaderInv'
  BY DEF IInv, TypeOK, ReaderInv, Create
<1>2. /\ stripe' \in [Payments -> {"none", "open", "succeeded", "canceled"}]
      /\ \A q \in Payments : stripe[q] \in {"succeeded", "canceled"} =>
             stripe'[q] = stripe[q]
  BY DEF IInv, TypeOK, Create, Created
<1> QED
  BY <1>1, <1>2, EmitInv DEF Create, IInv, TypeOK

LEMMA StripeCancelsInv ==
  ASSUME IInv, NEW p \in Payments, StripeCancels(p)
  PROVE  IInv'
<1>1. ReaderInv' /\ reader' \in [Readers -> Payments \cup {NoPayment}]
  BY DEF IInv, TypeOK, ReaderInv, StripeCancels, Drop
<1>2. /\ stripe' \in [Payments -> {"none", "open", "succeeded", "canceled"}]
      /\ \A q \in Payments : stripe[q] \in {"succeeded", "canceled"} =>
             stripe'[q] = stripe[q]
      /\ stripe'[p] = "canceled"
  BY DEF IInv, TypeOK, StripeCancels
<1> QED
  BY <1>1, <1>2, EmitInv DEF StripeCancels, Unchanged_Stripe

LEMMA ReaderCapturesInv ==
  ASSUME IInv, NEW t \in Readers, ReaderCaptures(t)
  PROVE  IInv'
<1> DEFINE p == reader[t]
<1>1. p \in Payments /\ stripe[p] = "open"
  BY DEF IInv, TypeOK, ReaderInv, ReaderCaptures
<1>2. /\ stripe' = [stripe EXCEPT ![p] = "succeeded"]
      /\ Drop(p) /\ Emit(p, "SUCCEEDED")
      /\ UNCHANGED <<row, ledgerVars, invalid, call, hook, faults>>
  BY DEF ReaderCaptures, Unchanged_Stripe
<1> HIDE DEF p
<1>3. ReaderInv' /\ reader' \in [Readers -> Payments \cup {NoPayment}]
  BY <1>1, <1>2 DEF IInv, TypeOK, ReaderInv, Drop
<1>4. /\ stripe' \in [Payments -> {"none", "open", "succeeded", "canceled"}]
      /\ \A q \in Payments : stripe[q] \in {"succeeded", "canceled"} =>
             stripe'[q] = stripe[q]
      /\ stripe'[p] = "succeeded"
  BY <1>1, <1>2 DEF IInv, TypeOK
<1> QED
  BY <1>1, <1>2, <1>3, <1>4, EmitInv

LEMMA ReaderDeclinesInv ==
  ASSUME IInv, NEW t \in Readers, ReaderDeclines(t)
  PROVE  IInv'
<1> DEFINE p == reader[t]
<1>1. p \in Payments
  BY DEF IInv, TypeOK, ReaderDeclines
<1>2. /\ stripe' = stripe
      /\ Emit(p, "FAILED")
      /\ reader' = [reader EXCEPT ![t] = NoPayment]
      /\ UNCHANGED <<row, ledgerVars, invalid, call, hook, faults>>
  BY DEF ReaderDeclines, Unchanged_Stripe
<1> HIDE DEF p
<1>3. ReaderInv' /\ reader' \in [Readers -> Payments \cup {NoPayment}]
  BY <1>2 DEF IInv, TypeOK, ReaderInv
<1>4. stripe' \in [Payments -> {"none", "open", "succeeded", "canceled"}]
  BY <1>2 DEF IInv, TypeOK
<1> QED
  BY <1>1, <1>2, <1>3, <1>4, EmitInv

\* A reader that stops, a transaction that becomes invalid, and a cancel call
\* that a deadlock ends.
LEMMA SilentStepInv ==
  ASSUME IInv,
         \/ \E t \in Readers : ReaderStops(t)
         \/ \E p \in Payments : Invalidate(p)
         \/ \E h \in Hooks, c \in Calls : RollBackCancel(h, c)
         \/ Crash
  PROVE  IInv'
<1>1. ASSUME NEW t \in Readers, ReaderStops(t)
      PROVE  IInv'
  BY <1>1 DEF IInv, TypeOK, ReaderInv, EventInv, CallInv, HookInv, LedgerInv,
     CancelInv, State, ReaderStops, Unchanged_Stripe, ledgerVars
<1>2. ASSUME NEW p \in Payments, Invalidate(p)
      PROVE  IInv'
  BY <1>2 DEF IInv, TypeOK, ReaderInv, EventInv, CallInv, HookInv, LedgerInv,
     CancelInv, State, Invalidate, ledgerVars
<1>3. ASSUME NEW h \in Hooks, NEW c \in Calls, RollBackCancel(h, c)
      PROVE  IInv'
  <2>1. /\ Idle \in CallTasks /\ Idle.pc # "cancelled"
        /\ call' = [call EXCEPT ![c] = Idle]
        /\ UNCHANGED <<stripe, events, due, reader, row, ledgerVars, invalid, hook,
                       faults>>
    BY <1>3 DEF RollBackCancel, End, Unchanged_Calls, CallTasks
  <2> QED
    BY <2>1, CallOnlyInv
<1>4. CASE Crash
  BY <1>4 DEF IInv, TypeOK, ReaderInv, EventInv, CallInv, HookInv, LedgerInv,
     CancelInv, State, Crash, CallTasks, HookTasks, ledgerVars
<1> QED
  BY <1>1, <1>2, <1>3, <1>4

-----------------------------------------------------------------------------
(* Theorems *)

LEMMA NextInv ==
  ASSUME IInv, [Next]_vars
  PROVE  IInv'
<1>1. ASSUME NEW h \in Hooks, NEW e \in Events, Deliver(h, e) \/ Redeliver(h, e)
      PROVE  IInv'
  <2>1. e \in events /\ Receive(h, e)
    BY <1>1 DEF IInv, TypeOK, Deliver, Redeliver
  <2> QED
    BY <2>1, ReceiveInv
<1>2. ASSUME NEW c \in Calls,
             \/ \E p \in Payments, t \in Readers : CheckStart(c, p, t)
             \/ \E p \in Payments : CheckCancel(c, p)
      PROVE  IInv'
  BY <1>2, QuietCallInv
<1>3. ASSUME NEW h \in Hooks, NEW c \in Calls, DeadlockStep(h, c)
      PROVE  IInv'
  BY <1>3, EndHookInv, SilentStepInv DEF DeadlockStep
<1>4. ASSUME NEW t \in Readers, ReaderStep(t)
      PROVE  IInv'
  BY <1>4, ReaderCapturesInv, ReaderDeclinesInv, SilentStepInv DEF ReaderStep
<1>5. CASE UNCHANGED vars
  BY <1>5 DEF vars, ledgerVars, IInv, TypeOK, ReaderInv, EventInv, CallInv, HookInv,
     LedgerInv, CancelInv, State
<1> QED
  BY <1>1, <1>2, <1>3, <1>4, <1>5, CreateInv, StripeCancelsInv, SilentStepInv,
     CallStepInv, HookStepInv, EndHookInv DEF Next

\* The invariant that every theorem below rests on.
THEOREM Invariance == Spec => []IInv
<1>1. Init => IInv
  BY InitInv
<1>2. IInv /\ [Next]_vars => IInv'
  BY NextInv
<1> QED
  BY <1>1, <1>2, PTL DEF Spec

\* Every variable stays within its type.
THEOREM TypeCorrect == Spec => []TypeOK
<1>1. IInv => TypeOK
  BY DEF IInv
<1> QED
  BY <1>1, Invariance, PTL

\* Whatever races with a cancellation, and wherever it is cut short or meets a
\* deadlock: a payment shown as cancelled was cancelled at Stripe, so that nobody
\* is charged for it.
THEOREM CancelledIsFree == Spec => []CancelledNeverCharged
<1>1. IInv => CancelledNeverCharged
  BY DEF IInv, CancelInv, CancelledNeverCharged
<1> QED
  BY <1>1, Invariance, PTL

\* A paid payment has one transaction and one transfer, however its webhooks are
\* duplicated, reordered and rolled back.
THEOREM PaidBalances == Spec => []PaidIsBalanced
<1>1. IInv => PaidIsBalanced
  BY DEF IInv, LedgerInv, PaidIsBalanced
<1> QED
  BY <1>1, Invariance, PTL

-----------------------------------------------------------------------------
(* Refinement of the abstract ledger *)

\* The two conversions create the first transaction of a captured payment.
LEMMA CreditStep ==
  ASSUME IInv, NEW h \in Hooks, Settle(h) \/ SettleHalf(h)
  PROVE  \E p \in Payments : Ledger!Credit(p)
<1> DEFINE p == hook[h].payment
<1>1. /\ Commit(h) /\ Settles(h) /\ UNCHANGED stripe
      /\ transactions' = [transactions EXCEPT ![p] = @ + 1]
  BY DEF Settle, SettleHalf, CreateTransaction, Commit, Unchanged_Hooks
<1>2. p \in Payments /\ stripe[p] = "succeeded" /\ transactions[p] = 0
  BY <1>1, NotYetSettled
<1> HIDE DEF p
<1>3. Ledger!Credit(p)
  BY <1>1, <1>2 DEF IInv, TypeOK, Captured, Ledger!Credit
<1> QED
  BY <1>2, <1>3

\* Only a capture at a reader captures.
LEMMA CaptureStep ==
  ASSUME IInv, NEW t \in Readers, ReaderCaptures(t)
  PROVE  \E p \in Payments : Ledger!Capture(p)
<1>1. reader[t] \in Payments /\ stripe[reader[t]] = "open"
  BY DEF IInv, TypeOK, ReaderInv, ReaderCaptures
<1>2. /\ stripe' = [stripe EXCEPT ![reader[t]] = "succeeded"]
      /\ UNCHANGED transactions
  BY DEF ReaderCaptures, Unchanged_Stripe, ledgerVars
<1>3. Ledger!Capture(reader[t])
  BY <1>1, <1>2 DEF IInv, TypeOK, Captured, Ledger!Capture
<1> QED
  BY <1>1, <1>3

\* Every other step of Stripe leaves the captured payments as they are.
LEMMA OpensAndCancels ==
  ASSUME IInv,
         \/ \E p \in Payments : Create(p) \/ StripeCancels(p)
         \/ \E c \in Calls : CancelAtStripe(c)
  PROVE  UNCHANGED Ledger!vars
<1>1. PICK p \in Payments :
          /\ stripe[p] \in {"none", "open"}
          /\ \E s \in {"open", "canceled"} : stripe' = [stripe EXCEPT ![p] = s]
          /\ UNCHANGED transactions
  BY CallHolds DEF IInv, Create, Created, StripeCancels, CancelAtStripe,
     Unchanged_Stripe, Unchanged_Calls, ledgerVars
<1>2. \A q \in Payments : Captured(q)' <=> Captured(q)
  BY <1>1 DEF IInv, TypeOK, Captured
<1> QED
  BY <1>1, <1>2 DEF Ledger!vars

\* The conversion of card payments implements the abstract ledger: every step
\* captures, creates the first transaction of a captured payment, or does neither.
THEOREM Refinement == Spec => TransactsOnceWhatWasCaptured
<1>1. Init => Ledger!Init
  BY DEF Init, Ledger!Init, Captured
<1>2. IInv /\ [Next]_vars => [Ledger!Next]_(Ledger!vars)
  <2> SUFFICES ASSUME IInv, [Next]_vars
               PROVE  Ledger!Next \/ UNCHANGED Ledger!vars
    OBVIOUS
  <2>1. CASE UNCHANGED <<stripe, transactions>>
    BY <2>1 DEF Captured, Ledger!vars
  <2>2. ASSUME NEW h \in Hooks, Settle(h) \/ SettleHalf(h)
        PROVE  Ledger!Next
    BY <2>2, CreditStep DEF Ledger!Next
  <2>3. ASSUME NEW t \in Readers, ReaderCaptures(t)
        PROVE  Ledger!Next
    BY <2>3, CaptureStep DEF Ledger!Next
  <2>4. ASSUME \/ \E p \in Payments : Create(p) \/ StripeCancels(p)
               \/ \E c \in Calls : CancelAtStripe(c)
        PROVE  UNCHANGED Ledger!vars
    BY <2>4, OpensAndCancels
  <2> QED
    BY <2>1, <2>2, <2>3, <2>4
       DEF Next, vars, ledgerVars, CallStep, HookStep, DeadlockStep, ReaderStep,
           Deliver, Redeliver, Receive, Invalidate, CheckStart, RecordReader,
           SendToReader, SendRefused, CommitStart, CheckCancel, ReadForCancel,
           CancelTooLate, ClearTransaction, CancelRefused, CommitCancel, Load,
           RejectStatus, InsertStatus, Commit, CommitStatus, PassOnCancel,
           RollBackHook, RollBackCancel, ReaderDeclines, ReaderStops, Crash,
           AbortHook, Unchanged_Calls, Unchanged_Hooks, Unchanged_Stripe
<1> QED
  BY <1>1, <1>2, Invariance, PTL
     DEF Spec, TransactsOnceWhatWasCaptured, Ledger!Spec

-----------------------------------------------------------------------------
(* Database connections *)

Owners == {r \in Requests : pc[r] \in {"open", "nesting", "nested"}}
Nested == {r \in Requests : pc[r] = "nested"}

\* Nobody but the requests has a connection, one each and a second one for
\* every nested query.
Used == Cardinality(Owners) + Cardinality(Nested)
Books == free + Used = PoolSize

\* The connections of a request at place p.
Holds(p) ==
    CASE p \in {"idle", "starting"} -> 0
      [] p \in {"open", "nesting"} -> 1
      [] p = "nested" -> 2

\* A request is in the queue once, and waits.
QueueOK ==
    \A i \in 1 .. Len(queue) :
        /\ pc[queue[i]] \in {"starting", "nesting"}
        /\ \A j \in 1 .. Len(queue) : queue[i] = queue[j] => i = j

NestersOK ==
    \A r \in Requests : pc[r] \in {"nesting", "nested"} => r \in Transactions

PoolIInv == PoolTypeOK /\ Books /\ QueueOK /\ NestersOK

Places == {"idle", "starting", "open", "nesting", "nested"}

-----------------------------------------------------------------------------

LEMMA Counts ==
    /\ IsFiniteSet(Owners) /\ Cardinality(Owners) \in Nat
    /\ IsFiniteSet(Nested) /\ Cardinality(Nested) \in Nat
  BY RequestsAssumption, FS_Subset, FS_CardinalityType DEF Owners, Nested

LEMMA CountsNext ==
    /\ IsFiniteSet(Owners') /\ Cardinality(Owners') \in Nat
    /\ IsFiniteSet(Nested') /\ Cardinality(Nested') \in Nat
<1>1. Owners' \subseteq Requests /\ Nested' \subseteq Requests
  BY DEF Owners, Nested
<1> QED
  BY <1>1, RequestsAssumption, FS_Subset, FS_CardinalityType

LEMMA UsedType == Used \in Nat /\ Used' \in Nat
  BY Counts, CountsNext DEF Used

\* How moving one request changes the number of used connections.
LEMMA MoveUsed ==
    ASSUME pc \in [Requests -> Places], NEW r \in Requests, NEW to \in Places,
           pc' = [pc EXCEPT ![r] = to]
    PROVE  Used' = Used + Holds(to) - Holds(pc[r])
<1>1. ASSUME NEW S, IsFiniteSet(S), NEW T, T \in {S, S \cup {r}, S \ {r}}
      PROVE  Cardinality(T) = Cardinality(S)
                 + (IF r \in T THEN 1 ELSE 0) - (IF r \in S THEN 1 ELSE 0)
  BY <1>1, FS_AddElement, FS_RemoveElement, FS_CardinalityType
<1>2. Owners' \in {Owners, Owners \cup {r}, Owners \ {r}}
  <2>1. CASE to \in {"open", "nesting", "nested"}
    <3>1. Owners' = Owners \cup {r}
      BY <2>1 DEF Owners
    <3> QED
      BY <3>1
  <2>2. CASE to \notin {"open", "nesting", "nested"}
    <3>1. Owners' = Owners \ {r}
      BY <2>2 DEF Owners
    <3> QED
      BY <3>1
  <2> QED
    BY <2>1, <2>2
<1>3. Nested' \in {Nested, Nested \cup {r}, Nested \ {r}}
  <2>1. CASE to = "nested"
    <3>1. Nested' = Nested \cup {r}
      BY <2>1 DEF Nested
    <3> QED
      BY <3>1
  <2>2. CASE to # "nested"
    <3>1. Nested' = Nested \ {r}
      BY <2>2 DEF Nested
    <3> QED
      BY <3>1
  <2> QED
    BY <2>1, <2>2
<1>4. /\ r \in Owners <=> pc[r] \in {"open", "nesting", "nested"}
      /\ r \in Owners' <=> to \in {"open", "nesting", "nested"}
      /\ r \in Nested <=> pc[r] = "nested"
      /\ r \in Nested' <=> to = "nested"
  BY DEF Owners, Nested
<1>5. /\ Cardinality(Owners') = Cardinality(Owners)
             + (IF r \in Owners' THEN 1 ELSE 0) - (IF r \in Owners THEN 1 ELSE 0)
      /\ Cardinality(Nested') = Cardinality(Nested)
             + (IF r \in Nested' THEN 1 ELSE 0) - (IF r \in Nested THEN 1 ELSE 0)
  BY <1>1, <1>2, <1>3, Counts
<1>6. pc[r] \in Places
  OBVIOUS
<1> QED
  BY <1>4, <1>5, <1>6, Counts, CountsNext DEF Used, Holds, Places

\* The pool hands out at most the connections it opened.
LEMMA FreeBound ==
    ASSUME Books, free \in Int, free >= 0
    PROVE  free \in 0 .. PoolSize
  BY UsedType, PoolSizeAssumption DEF Books

LEMMA InitEstablishes == PoolInit => PoolIInv
<1> SUFFICES ASSUME PoolInit PROVE PoolIInv
  OBVIOUS
<1> USE DEF PoolInit
<1>1. PoolTypeOK
  BY PoolSizeAssumption DEF PoolTypeOK
<1>2. Owners = {} /\ Nested = {}
  BY DEF Owners, Nested
<1>3. Books
  BY <1>2, FS_EmptySet, PoolSizeAssumption DEF Books, Used
<1> QED
  BY <1>1, <1>3 DEF PoolIInv, QueueOK, NestersOK

LEMMA AskKeeps ==
    ASSUME PoolIInv, NEW r \in Requests, NEW from, NEW to,
           Ask(r, from, to),
           \/ from = "idle" /\ to = "starting"
           \/ from = "open" /\ to = "nesting" /\ r \in Transactions
    PROVE  PoolIInv'
<1> USE DEF PoolIInv, Ask
<1>1. pc \in [Requests -> Places] /\ to \in Places /\ queue \in Seq(Requests)
  BY DEF PoolTypeOK, Places
<1>2. PoolTypeOK'
  BY <1>1 DEF PoolTypeOK
<1>3. Books'
  <2>1. Used' = Used + Holds(to) - Holds(from)
    BY <1>1, MoveUsed
  <2>2. Holds(to) = Holds(from) /\ Holds(from) \in Nat
    BY DEF Holds
  <2> QED
    BY <2>1, <2>2, UsedType DEF Books
<1>4. QueueOK'
  <2>1. \A i \in 1 .. Len(queue) : queue[i] \in Requests /\ queue[i] # r
    BY <1>1 DEF QueueOK
  <2>2. /\ Len(queue') = Len(queue) + 1 /\ Len(queue) \in Nat
        /\ \A i \in 1 .. Len(queue) : queue'[i] = queue[i]
        /\ queue'[Len(queue) + 1] = r
    BY <1>1
  <2>3. \A i \in 1 .. Len(queue) : pc'[queue[i]] = pc[queue[i]]
    BY <1>1, <2>1
  <2>4. pc'[r] = to
    BY <1>1
  <2> QED
    BY <2>1, <2>2, <2>3, <2>4 DEF QueueOK
<1>5. NestersOK'
  BY <1>1 DEF NestersOK
<1> QED
  BY <1>2, <1>3, <1>4, <1>5

LEMMA ReleaseKeeps ==
    ASSUME PoolIInv, NEW r \in Requests, NEW from, NEW to,
           Release(r, from, to),
           \/ from = "nested" /\ to = "open"
           \/ from = "open" /\ to = "idle"
    PROVE  PoolIInv'
<1> USE DEF PoolIInv, Release
<1>1. pc \in [Requests -> Places] /\ to \in Places /\ queue \in Seq(Requests)
  BY DEF PoolTypeOK, Places
<1>2. Books'
  <2>1. Used' = Used + Holds(to) - Holds(from)
    BY <1>1, MoveUsed
  <2>2. Holds(from) = Holds(to) + 1 /\ Holds(to) \in Nat
    BY DEF Holds
  <2>3. free \in Int
    BY DEF PoolTypeOK
  <2> QED
    BY <2>1, <2>2, <2>3, UsedType, PoolSizeAssumption DEF Books
<1>3. PoolTypeOK'
  <2>1. free' \in 0 .. PoolSize
    <3>1. free' >= 0 /\ free' \in Int
      BY DEF PoolTypeOK
    <3> QED
      BY <1>2, <3>1, UsedType, PoolSizeAssumption DEF Books
  <2> QED
    BY <1>1, <2>1 DEF PoolTypeOK
<1>4. QueueOK'
  <2>1. \A i \in 1 .. Len(queue) : queue[i] \in Requests /\ queue[i] # r
    BY <1>1 DEF QueueOK
  <2> QED
    BY <1>1, <2>1 DEF QueueOK
<1>5. NestersOK'
  BY <1>1 DEF NestersOK
<1> QED
  BY <1>2, <1>3, <1>4, <1>5

LEMMA GrantKeeps ==
    ASSUME PoolIInv, Grant
    PROVE  PoolIInv'
<1> USE DEF PoolIInv, Grant
<1> DEFINE r == Head(queue)
           to == IF pc[r] = "starting" THEN "open" ELSE "nested"
<1>1. /\ pc \in [Requests -> Places] /\ queue \in Seq(Requests)
      /\ r \in Requests /\ r = queue[1] /\ 1 \in 1 .. Len(queue)
  BY DEF PoolTypeOK, Places
<1>2. pc[r] \in {"starting", "nesting"} /\ to \in Places
  BY <1>1 DEF QueueOK, Places
<1>3. pc' = [pc EXCEPT ![r] = to]
  BY <1>1
<1>4. Books'
  <2>1. Holds(to) = Holds(pc[r]) + 1 /\ Holds(pc[r]) \in Nat
    BY <1>2 DEF Holds
  <2>2. free \in Int
    BY DEF PoolTypeOK
  <2>3. Used' = Used + Holds(to) - Holds(pc[r])
    <3> HIDE DEF r, to
    <3> QED
      BY <1>1, <1>2, <1>3, MoveUsed
  <2> HIDE DEF r, to
  <2> QED
    BY <2>1, <2>2, <2>3, UsedType, PoolSizeAssumption DEF Books
<1>5. PoolTypeOK'
  BY <1>1, <1>2, <1>3, PoolSizeAssumption DEF PoolTypeOK
<1>6. QueueOK'
  <2>1. /\ Len(queue') = Len(queue) - 1 /\ Len(queue) \in Nat
        /\ \A i \in 1 .. Len(queue') : queue'[i] = queue[i + 1]
    BY <1>1
  <2>2. \A i \in 1 .. Len(queue') : queue'[i] # r /\ queue'[i] \in Requests
    BY <1>1, <2>1 DEF QueueOK
  <2>3. \A i \in 1 .. Len(queue') : pc'[queue'[i]] = pc[queue'[i]]
    BY <1>1, <1>3, <2>2
  <2> HIDE DEF r, to
  <2> QED
    BY <2>1, <2>3 DEF QueueOK
<1>7. NestersOK'
  <2> HIDE DEF r
  <2> QED
    BY <1>1, <1>2, <1>3 DEF NestersOK
<1> QED
  BY <1>4, <1>5, <1>6, <1>7

LEMMA StepKeeps == PoolIInv /\ [PoolNext]_poolVars => PoolIInv'
<1> SUFFICES ASSUME PoolIInv, [PoolNext]_poolVars PROVE PoolIInv'
  OBVIOUS
<1>1. CASE Grant
  BY <1>1, GrantKeeps
<1>2. ASSUME NEW r \in Requests, Begin(r) \/ AskNested(r)
      PROVE  PoolIInv'
  BY <1>2, AskKeeps DEF Begin, AskNested
<1>3. ASSUME NEW r \in Requests, EndNested(r) \/ EndRequest(r)
      PROVE  PoolIInv'
  BY <1>3, ReleaseKeeps DEF EndNested, EndRequest
<1>4. CASE UNCHANGED poolVars
  BY <1>4 DEF poolVars, PoolIInv, PoolTypeOK, Books, QueueOK, NestersOK, Used, Owners,
     Nested
<1> QED
  BY <1>1, <1>2, <1>3, <1>4 DEF PoolNext

\* In a halt the owners are the nesting requests, and nobody owns two.
LEMMA HaltIsSaturated == PoolIInv => StuckIsSaturated
<1> SUFFICES ASSUME PoolIInv, Stuck PROVE Saturated
  BY DEF StuckIsSaturated
<1> USE DEF PoolIInv, Stuck
<1>1. Nested = {}
  BY DEF Nested
<1>2. Owners = {r \in Transactions : pc[r] = "nesting"}
  BY RequestsAssumption DEF Owners, NestersOK
<1>3. Cardinality(Owners) = PoolSize
  BY <1>1, FS_EmptySet, Counts DEF Books, Used
<1> QED
  BY <1>2, <1>3 DEF Saturated

-----------------------------------------------------------------------------
(* Theorems                                                                 *)

\* The invariant holds in every reachable state.
THEOREM PoolInvariance == PoolSpec => []PoolIInv
  BY InitEstablishes, StepKeeps, PTL DEF PoolSpec

\* Connections are never lost and never made up.
THEOREM PoolTypeCorrect == PoolSpec => []PoolTypeOK
  BY PoolInvariance, PTL DEF PoolIInv

\* The back end comes to a halt only when every connection belongs to a
\* transaction that waits for its second one.
THEOREM HaltNeedsSaturation == PoolSpec => []StuckIsSaturated
  BY PoolInvariance, HaltIsSaturated, PTL

\* With fewer transactions at once than connections it never does: what a
\* limit on concurrent webhooks, or a larger pool, would guarantee.
THEOREM NoHaltBelowPoolSize ==
    ASSUME Cardinality(Transactions) < PoolSize
    PROVE  PoolSpec => []~Stuck
<1>1. PoolIInv => ~ Stuck
  <2> SUFFICES ASSUME PoolIInv, Stuck PROVE FALSE
    OBVIOUS
  <2> DEFINE N == {r \in Transactions : pc[r] = "nesting"}
  <2>1. Cardinality(N) = PoolSize
    BY HaltIsSaturated DEF StuckIsSaturated, Saturated
  <2>2. IsFiniteSet(Transactions)
    BY RequestsAssumption, FS_Subset
  <2>3. Cardinality(N) <= Cardinality(Transactions)
    BY <2>2, FS_Subset
  <2>4. Cardinality(Transactions) \in Nat
    BY <2>2, FS_CardinalityType
  <2> HIDE DEF N
  <2> QED
    BY <2>1, <2>3, <2>4, PoolSizeAssumption
<1> QED
  BY <1>1, PoolInvariance, PTL
=============================================================================
