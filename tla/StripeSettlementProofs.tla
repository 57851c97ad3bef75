----------------------- MODULE StripeSettlementProofs -----------------------
(***************************************************************************)
(* Proofs about StripeSettlement, for any number of intents, requests,     *)
(* webhook tasks, administrators and faults.                               *)
(***************************************************************************)
EXTENDS StripeSettlement, TLAPS

-----------------------------------------------------------------------------
(* The inductive invariant *)

\* Only a finished call has handed out its client secret, and it has a consumer.
CallInv ==
    \A i \in Intents :
        /\ call[i] = "unused" <=> owner[i] = NoOwner
        /\ call[i] \in {"unused", "started"} => stripe[i] = "none"
        /\ call[i] = "done" => i \in linked
        /\ stripe[i] = "succeeded" => call[i] = "done"

\* What Stripe says of an intent agrees with its terminal events.
EventInv ==
    \A i \in Intents :
        /\ <<i, "SUCCEEDED">> \in events <=> stripe[i] = "succeeded"
        /\ <<i, "CANCELLED">> \in events => stripe[i] = "canceled"

\* Only events become statuses.
StatusInv == \A i \in Intents : \A s \in statuses[i] : <<i, s>> \in events

\* What a webhook task works on, and what of its snapshot is still true.
HookInv ==
    \A h \in Hooks :
        /\ hook[h].pc # "idle" => <<hook[h].intent, hook[h].state>> \in events
        /\ hook[h].pc = "loaded" =>
              /\ hook[h].seen \subseteq statuses[hook[h].intent]
              /\ hook[h].state = "SUCCEEDED" => hook[h].linked

\* What a stale entity in an administrator's call may make true when saved.
AdminInv ==
    \A a \in Admins :
        /\ admin[a].pc # "idle" /\ admin[a].cols["fulfilled"] =>
              external[admin[a].req] > 0
        /\ admin[a].pc = "credited" =>
              admin[a].op = "fulfil" /\ external[admin[a].req] > 0
        /\ admin[a].pc = "selected" /\ admin[a].op = "cancel" =>
              admin[a].cols["cancelled"] /\ ~admin[a].cols["paid"]
        /\ admin[a].pc = "selected" /\ admin[a].op = "fulfil" =>
              admin[a].cols["paid"] /\ external[admin[a].req] > 0

\* A captured payment is still to be delivered, in a task, recorded, declined
\* or lost to a fault.
DeliveryInv ==
    \A i \in Intents : Captured(i) =>
        \/ <<i, "SUCCEEDED">> \in due
        \/ \E h \in Hooks : /\ hook[h].pc # "idle"
                            /\ hook[h].intent = i
                            /\ hook[h].state = "SUCCEEDED"
        \/ "SUCCEEDED" \in statuses[i]
        \/ "FAILED" \in statuses[i]
        \/ faults > 0

\* Only a fault makes a settlement fail half-way.
SwallowInv == swallowed # {} => faults > 0

IInv ==
    /\ TypeOK
    /\ CallInv
    /\ EventInv
    /\ StatusInv
    /\ HookInv
    /\ AdminInv
    /\ DeliveryInv
    /\ SwallowInv
    /\ CreditedWhenRecorded
    /\ PaidHasCredit
    /\ FulfilledHasTransfer

USE OwnersAssumption, FaultsAssumption
    DEF stripeVars, callVars, settledVars, requestVars, States, Exclusive, Events,
        CallSteps, StripeStates, IdleHook, HookTasks, IdleAdmin, AdminCalls,
        Operations, Columns, Rows, NewRow, Captured

LEMMA InitInv == Init => IInv
BY DEF Init, IInv, TypeOK, CallInv, EventInv, StatusInv, HookInv, AdminInv,
       DeliveryInv, SwallowInv, CreditedWhenRecorded, PaidHasCredit, FulfilledHasTransfer

-----------------------------------------------------------------------------
(* Steps of webhook tasks *)

LEMMA ReceiveInv ==
  ASSUME IInv, NEW h \in Hooks, NEW e \in events, Receive(h, e)
  PROVE  IInv'
<1>1. e \in Events /\ e = <<e[1], e[2]>>
  BY DEF IInv, TypeOK
<1>2. HookInv'
  BY <1>1 DEF IInv, TypeOK, HookInv, Receive
<1>3. TypeOK' /\ DeliveryInv' /\ SwallowInv'
  BY <1>1 DEF IInv, TypeOK, DeliveryInv, SwallowInv, Receive
<1>4. CallInv' /\ EventInv' /\ StatusInv' /\ AdminInv'
  BY DEF IInv, CallInv, EventInv, StatusInv, AdminInv, Receive
<1>5. CreditedWhenRecorded' /\ PaidHasCredit' /\ FulfilledHasTransfer'
  BY DEF IInv, CreditedWhenRecorded, PaidHasCredit, FulfilledHasTransfer,
         Receive
<1> QED
  BY <1>2, <1>3, <1>4, <1>5 DEF IInv

LEMMA LoadInv ==
  ASSUME IInv, NEW h \in Hooks, Load(h)
  PROVE  IInv'
<1> DEFINE i == hook[h].intent
<1>1. /\ i \in Intents
      /\ hook[h].state \in States
      /\ <<i, hook[h].state>> \in events
  BY DEF IInv, TypeOK, HookInv, Load
<1>2. hook[h].state = "SUCCEEDED" => i \in linked
  BY <1>1 DEF IInv, EventInv, CallInv
<1>3. TypeOK'
  BY <1>1 DEF IInv, TypeOK, Load
<1>4. HookInv'
  <2> SUFFICES ASSUME NEW g \in Hooks
               PROVE  /\ hook'[g].pc # "idle" =>
                            <<hook'[g].intent, hook'[g].state>> \in events'
                      /\ hook'[g].pc = "loaded" =>
                            /\ hook'[g].seen \subseteq statuses'[hook'[g].intent]
                            /\ hook'[g].state = "SUCCEEDED" => hook'[g].linked
    BY DEF HookInv
  <2>1. CASE g = h
    BY <1>1, <1>2, <2>1 DEF IInv, TypeOK, Load
  <2>2. CASE g # h
    BY <2>2 DEF IInv, TypeOK, HookInv, Load
  <2> QED
    BY <2>1, <2>2
<1>5. DeliveryInv' /\ SwallowInv'
  BY <1>1 DEF IInv, TypeOK, DeliveryInv, SwallowInv, Load
<1>6. CallInv' /\ EventInv' /\ StatusInv' /\ AdminInv'
  BY DEF IInv, CallInv, EventInv, StatusInv, AdminInv, Load
<1>7. CreditedWhenRecorded' /\ PaidHasCredit' /\ FulfilledHasTransfer'
  BY DEF IInv, CreditedWhenRecorded, PaidHasCredit, FulfilledHasTransfer, Load
<1> QED
  BY <1>3, <1>4, <1>5, <1>6, <1>7 DEF IInv

\* The heart of DeliveryInv: a task that holds a SUCCEEDED event is refused only
\* because the status or a decline is already recorded.
LEMMA RejectStatusInv ==
  ASSUME IInv, NEW h \in Hooks, RejectStatus(h)
  PROVE  IInv'
<1>1. TypeOK' /\ HookInv'
  BY DEF IInv, TypeOK, HookInv, RejectStatus, Done
<1>2. DeliveryInv'
  <2> SUFFICES ASSUME NEW i \in Intents, Captured(i),
                      hook[h].intent = i, hook[h].state = "SUCCEEDED"
               PROVE  "SUCCEEDED" \in statuses[i] \/ "FAILED" \in statuses[i]
    BY DEF IInv, TypeOK, DeliveryInv, RejectStatus, Done
  <2>1. hook[h].seen \subseteq statuses[i]
    BY DEF IInv, HookInv, RejectStatus
  <2>2. "CANCELLED" \notin statuses[i]
    BY DEF IInv, StatusInv, EventInv
  <2>3. ~(hook[h].seen \cap Exclusive = {}) \/ "SUCCEEDED" \in statuses[i]
    BY <2>1 DEF RejectStatus, Inserts, Recordable
  <2> QED
    BY <2>1, <2>2, <2>3
<1>3. CallInv' /\ EventInv' /\ StatusInv' /\ AdminInv' /\ SwallowInv'
  BY DEF IInv, CallInv, EventInv, StatusInv, AdminInv, SwallowInv, RejectStatus
<1>4. CreditedWhenRecorded' /\ PaidHasCredit' /\ FulfilledHasTransfer'
  BY DEF IInv, CreditedWhenRecorded, PaidHasCredit, FulfilledHasTransfer,
         RejectStatus
<1> QED
  BY <1>1, <1>2, <1>3, <1>4 DEF IInv

\* What a task that inserts its status works on.
LEMMA LoadedTask ==
  ASSUME IInv, NEW h \in Hooks, Inserts(h)
  PROVE  /\ hook[h].intent \in Intents
         /\ hook[h].state \in States
         /\ <<hook[h].intent, hook[h].state>> \in events
         /\ hook[h].cols \in Rows
         /\ hook[h].state \notin statuses[hook[h].intent]
         /\ hook[h].state = "SUCCEEDED" => hook[h].linked
BY DEF IInv, TypeOK, HookInv, Inserts

\* Inserting the status of a task keeps the statuses typed and backed by events.
LEMMA RecordStatusInv ==
  ASSUME IInv, NEW h \in Hooks, Inserts(h), Record(h), UNCHANGED events
  PROVE  /\ statuses' \in [Intents -> SUBSET States]
         /\ StatusInv'
<1>1. statuses' \in [Intents -> SUBSET States]
  BY LoadedTask DEF IInv, TypeOK, Record
<1>2. ASSUME NEW i \in Intents, NEW s \in statuses'[i]
      PROVE  <<i, s>> \in events'
  <2>1. CASE s \in statuses[i]
    BY <2>1 DEF IInv, StatusInv
  <2>2. CASE s \notin statuses[i]
    <3>1. i = hook[h].intent /\ s = hook[h].state
      BY <1>2, <2>2, LoadedTask DEF IInv, TypeOK, Record
    <3> QED
      BY <3>1, LoadedTask
  <2> QED
    BY <2>1, <2>2
<1> QED
  BY <1>1, <1>2 DEF StatusInv

LEMMA RecordOnlyInv ==
  ASSUME IInv, NEW h \in Hooks, RecordStatus(h)
  PROVE  IInv'
<1>1. Inserts(h) /\ Record(h) /\ hook[h].state # "SUCCEEDED"
  BY LoadedTask DEF RecordStatus, Settles
<1>2. TypeOK' /\ StatusInv'
  BY <1>1, RecordStatusInv DEF IInv, TypeOK, RecordStatus, Done
<1>3. HookInv' /\ DeliveryInv'
  BY <1>1, LoadedTask DEF IInv, TypeOK, HookInv, DeliveryInv, RecordStatus,
     Done, Record
<1>4. CreditedWhenRecorded'
  BY <1>1, LoadedTask DEF IInv, TypeOK, CreditedWhenRecorded, RecordStatus, Record
<1>5. /\ CallInv' /\ EventInv' /\ AdminInv' /\ SwallowInv'
      /\ PaidHasCredit' /\ FulfilledHasTransfer'
  BY DEF IInv, CallInv, EventInv, AdminInv, SwallowInv, PaidHasCredit,
         FulfilledHasTransfer, RecordStatus
<1> QED
  BY <1>2, <1>3, <1>4, <1>5 DEF IInv

\* Without the status there is no credit, and a deposit without its transfer.
LEMMA NothingBeforeTheStatus ==
  ASSUME IInv, NEW i \in Intents, "SUCCEEDED" \notin statuses[i]
  PROVE  credited[i] = 0 /\ i \notin attached
<1>1. credited[i] \in Nat
  BY DEF IInv, TypeOK
<1>2. credited[i] <= 1 /\ credited[i] # 1 /\ i \notin attached
  BY DEF IInv, CreditedWhenRecorded
<1> QED
  BY <1>1, <1>2

\* Recording SUCCEEDED, with the transfer unless a statement failed, keeps
\* credits and statuses in step; shared by the settlements.
LEMMA SettledOnce ==
  ASSUME IInv, NEW h \in Hooks, Inserts(h), Settles(h), Record(h),
         UNCHANGED owner,
         Credit(hook[h].intent) \/ UNCHANGED credited,
         attached' \in {attached, attached \cup {hook[h].intent}},
         swallowed' \in {swallowed, swallowed \cup {hook[h].intent}},
         hook[h].intent \in attached' => Credit(hook[h].intent),
         \/ hook[h].intent \in swallowed'
         \/ /\ Credit(hook[h].intent)
            /\ owner[hook[h].intent] = Deposit => hook[h].intent \in attached'
  PROVE  /\ credited' \in [Intents -> Nat]
         /\ attached' \subseteq Intents /\ swallowed' \subseteq Intents
         /\ CreditedWhenRecorded'
         /\ \A i \in Intents : credited'[i] >= credited[i]
         /\ Credit(hook[h].intent) => credited'[hook[h].intent] > 0
<1> DEFINE j == hook[h].intent
<1>1. /\ j \in Intents
      /\ hook[h].state = "SUCCEEDED"
      /\ "SUCCEEDED" \notin statuses[j]
  BY LoadedTask DEF Settles
<1>2. credited[j] = 0 /\ j \notin attached
  BY <1>1, NothingBeforeTheStatus
<1>3. Credit(j) => credited' = [credited EXCEPT ![j] = 1]
  BY <1>1, <1>2 DEF IInv, TypeOK, Credit
<1>4. statuses' = [statuses EXCEPT ![j] = statuses[j] \cup {"SUCCEEDED"}]
  BY <1>1 DEF IInv, TypeOK, Record
<1>5. /\ Credit(j) \/ UNCHANGED credited
      /\ attached' \in {attached, attached \cup {j}}
      /\ swallowed' \in {swallowed, swallowed \cup {j}}
      /\ j \in attached' => Credit(j)
      /\ j \in swallowed' \/ (Credit(j) /\ (owner[j] = Deposit => j \in attached'))
  OBVIOUS
<1> HIDE DEF j
<1>6. ASSUME NEW i \in Intents
      PROVE  /\ credited'[i] <= 1
             /\ credited'[i] = 1 => "SUCCEEDED" \in statuses'[i]
             /\ "SUCCEEDED" \in statuses'[i] /\ i \notin swallowed' =>
                    credited'[i] = 1 /\ (owner'[i] = Deposit => i \in attached')
             /\ i \in attached' => credited'[i] = 1
  <2>1. CASE i = j
    BY <1>1, <1>2, <1>3, <1>4, <1>5, <2>1 DEF IInv, TypeOK
  <2>2. CASE i # j
    <3>1. credited'[i] = credited[i] /\ statuses'[i] = statuses[i]
      BY <1>3, <1>4, <1>5, <2>2 DEF IInv, TypeOK
    <3> QED
      BY <1>5, <2>2, <3>1 DEF IInv, CreditedWhenRecorded
  <2> QED
    BY <2>1, <2>2
<1>7. /\ credited' \in [Intents -> Nat]
      /\ \A i \in Intents : credited'[i] >= credited[i]
      /\ Credit(j) => credited'[j] > 0
  BY <1>1, <1>2, <1>3, <1>5 DEF IInv, TypeOK
<1>8. attached' \subseteq Intents /\ swallowed' \subseteq Intents
  BY <1>1, <1>5 DEF IInv, TypeOK
<1> QED
  BY <1>6, <1>7, <1>8 DEF j, CreditedWhenRecorded

LEMMA SettleDepositInv ==
  ASSUME IInv, NEW h \in Hooks, SettleDeposit(h)
  PROVE  IInv'
<1>1. Inserts(h) /\ Settles(h) /\ Record(h) /\ Credit(hook[h].intent)
  BY DEF SettleDeposit
<1>2. /\ credited' \in [Intents -> Nat]
      /\ attached' \subseteq Intents /\ swallowed' \subseteq Intents
      /\ CreditedWhenRecorded'
      /\ \A i \in Intents : credited'[i] >= credited[i]
  BY <1>1, SettledOnce DEF SettleDeposit
<1>3. TypeOK' /\ StatusInv' /\ SwallowInv'
  BY <1>1, <1>2, RecordStatusInv DEF IInv, TypeOK, SwallowInv, SettleDeposit, Done
<1>4. HookInv' /\ DeliveryInv' /\ PaidHasCredit'
  <2>1. HookInv' /\ DeliveryInv'
    BY <1>1, LoadedTask DEF IInv, TypeOK, HookInv, DeliveryInv, SettleDeposit,
       Done, Record, Settles
  <2>2. PaidHasCredit'
    BY <1>2 DEF IInv, TypeOK, PaidHasCredit, SettleDeposit
  <2> QED
    BY <2>1, <2>2
<1>5. CallInv' /\ EventInv' /\ AdminInv' /\ FulfilledHasTransfer'
  BY DEF IInv, CallInv, EventInv, AdminInv, FulfilledHasTransfer, SettleDeposit
<1> QED
  BY <1>2, <1>3, <1>4, <1>5 DEF IInv

\* What the save in markPaid does to the row, whatever was committed since.
LEMMA PaidColumn ==
  ASSUME NEW db \in Rows, NEW cols \in Rows, NEW new,
         new = Save(db, [cols EXCEPT !["paid"] = TRUE], cols, {"paid"})
  PROVE  /\ new \in Rows
         /\ new["paid"]
         /\ new["fulfilled"] = db["fulfilled"]
BY DEF Save

LEMMA MarkPaidRow ==
  ASSUME IInv, NEW h \in Hooks, Inserts(h), owner[hook[h].intent] \in Requests,
         MarkPaid(h)
  PROVE  /\ row' \in [Requests -> Rows]
         /\ \A q \in Requests : q # owner[hook[h].intent] => row'[q] = row[q]
         /\ row'[owner[hook[h].intent]]["paid"]
         /\ row'[owner[hook[h].intent]]["fulfilled"] = row[owner[hook[h].intent]]["fulfilled"]
<1> DEFINE r == owner[hook[h].intent]
           new == Save(row[r], [hook[h].cols EXCEPT !["paid"] = TRUE],
                       hook[h].cols, {"paid"})
<1>1. row[r] \in Rows /\ hook[h].cols \in Rows
  BY LoadedTask DEF IInv, TypeOK
<1>2. new \in Rows /\ new["paid"] /\ new["fulfilled"] = row[r]["fulfilled"]
  BY <1>1, PaidColumn
<1>3. row' = [row EXCEPT ![r] = new]
  BY DEF MarkPaid
<1> HIDE DEF new
<1> QED
  BY <1>2, <1>3 DEF IInv, TypeOK

LEMMA SettleRequestInv ==
  ASSUME IInv, NEW h \in Hooks, SettleRequest(h)
  PROVE  IInv'
<1> DEFINE i == hook[h].intent
           r == owner[i]
<1>1. /\ Inserts(h) /\ Settles(h) /\ Record(h) /\ Credit(i)
      /\ r \in Requests
      /\ MarkPaid(h) \/ UNCHANGED row
  BY DEF SettleRequest
<1>2. /\ row' \in [Requests -> Rows]
      /\ \A q \in Requests : q # r => row'[q] = row[q]
      /\ row'[r]["fulfilled"] = row[r]["fulfilled"]
  <2>1. CASE UNCHANGED row
    BY <2>1 DEF IInv, TypeOK
  <2>2. CASE MarkPaid(h)
    BY <1>1, <2>2, MarkPaidRow
  <2> QED
    BY <1>1, <2>1, <2>2
<1>3. /\ credited' \in [Intents -> Nat]
      /\ attached' \subseteq Intents /\ swallowed' \subseteq Intents
      /\ CreditedWhenRecorded'
      /\ \A j \in Intents : credited'[j] >= credited[j]
      /\ credited'[i] > 0
  <2>1. r # Deposit
    BY <1>1
  <2>2. i \notin attached
    BY <1>1, LoadedTask DEF IInv, CreditedWhenRecorded, Settles
  <2> QED
    BY <1>1, <2>1, <2>2, SettledOnce DEF SettleRequest
<1>4. TypeOK' /\ StatusInv' /\ SwallowInv'
  BY <1>1, <1>2, <1>3, RecordStatusInv
     DEF IInv, TypeOK, SwallowInv, SettleRequest, Done
<1>5. HookInv' /\ DeliveryInv'
  BY <1>1, LoadedTask DEF IInv, TypeOK, HookInv, DeliveryInv, SettleRequest,
     Done, Record, Settles
<1>6. PaidHasCredit' /\ FulfilledHasTransfer'
  <2>1. i \in Intents /\ owner'[i] = r
    BY <1>1, LoadedTask DEF SettleRequest
  <2>2. credited \in [Intents -> Nat] /\ UNCHANGED <<owner, external>>
    BY DEF IInv, TypeOK, SettleRequest
  <2> HIDE DEF i, r
  <2>3. PaidHasCredit'
    BY <1>1, <1>2, <1>3, <2>1, <2>2 DEF IInv, PaidHasCredit
  <2>4. FulfilledHasTransfer'
    BY <1>1, <1>2, <2>2 DEF IInv, FulfilledHasTransfer
  <2> QED
    BY <2>3, <2>4
<1>7. CallInv' /\ EventInv' /\ AdminInv'
  BY DEF IInv, CallInv, EventInv, AdminInv, SettleRequest
<1> QED
  BY <1>3, <1>4, <1>5, <1>6, <1>7 DEF IInv

\* The order of the statements is what keeps PAID behind the credit: whatever
\* fails, the request was not marked before the transfer was created.
LEMMA SettlementFailsInv ==
  ASSUME IInv, NEW h \in Hooks, SettlementFails(h)
  PROVE  IInv'
<1>1. /\ Inserts(h) /\ Settles(h) /\ Record(h)
      /\ Credit(hook[h].intent) \/ UNCHANGED credited
      /\ UNCHANGED <<owner, attached, row, external>>
      /\ swallowed' = swallowed \cup {hook[h].intent}
      /\ faults' = faults + 1 /\ faults' \in 0 .. MaxFaults /\ faults' > 0
  BY DEF IInv, TypeOK, SettlementFails
<1>2. hook[h].intent \notin attached
  BY <1>1, LoadedTask DEF IInv, CreditedWhenRecorded, Settles
<1>3. /\ credited' \in [Intents -> Nat]
      /\ attached' \subseteq Intents /\ swallowed' \subseteq Intents
      /\ CreditedWhenRecorded'
      /\ \A i \in Intents : credited'[i] >= credited[i]
  BY <1>1, <1>2, SettledOnce
<1>4. TypeOK' /\ StatusInv' /\ SwallowInv'
  BY <1>1, <1>3, RecordStatusInv
     DEF IInv, TypeOK, SwallowInv, SettlementFails, Done
<1>5. HookInv' /\ DeliveryInv'
  BY <1>1, LoadedTask DEF IInv, TypeOK, HookInv, DeliveryInv, SettlementFails,
     Done, Record
<1>6. PaidHasCredit' /\ FulfilledHasTransfer'
  BY <1>1, <1>3 DEF IInv, TypeOK, PaidHasCredit, FulfilledHasTransfer
<1>7. CallInv' /\ EventInv' /\ AdminInv'
  BY DEF IInv, CallInv, EventInv, AdminInv, SettlementFails
<1> QED
  BY <1>3, <1>4, <1>5, <1>6, <1>7 DEF IInv

LEMMA AbortHookInv ==
  ASSUME IInv, NEW h \in Hooks, AbortHook(h)
  PROVE  IInv'
BY DEF IInv, TypeOK, CallInv, EventInv, StatusInv, HookInv, AdminInv,
       DeliveryInv, SwallowInv, CreditedWhenRecorded, PaidHasCredit,
     FulfilledHasTransfer,
       AbortHook, Done

LEMMA CrashInv ==
  ASSUME IInv, Crash
  PROVE  IInv'
BY DEF IInv, TypeOK, CallInv, EventInv, StatusInv, HookInv, AdminInv,
       DeliveryInv, SwallowInv, CreditedWhenRecorded, PaidHasCredit,
     FulfilledHasTransfer,
       Crash

-----------------------------------------------------------------------------
(* Steps of the calls that create intents, and of Stripe *)

LEMMA CallStepInv ==
  ASSUME IInv, NEW i \in Intents, CallStep(i)
  PROVE  IInv'
<1>1. CASE StartDeposit(i)
  <2>1. "SUCCEEDED" \notin statuses[i]
    BY <1>1 DEF IInv, CallInv, EventInv, StatusInv, StartDeposit
  <2>2. CreditedWhenRecorded'
    BY <1>1, <2>1 DEF IInv, TypeOK, CreditedWhenRecorded, StartDeposit
  <2> QED
    BY <1>1, <2>2 DEF IInv, TypeOK, CallInv, EventInv, StatusInv, HookInv,
       AdminInv, DeliveryInv, SwallowInv, PaidHasCredit, FulfilledHasTransfer,
       StartDeposit
<1>2. ASSUME NEW r \in Requests, StartPayment(i, r)
      PROVE  IInv'
  BY <1>2 DEF IInv, TypeOK, CallInv, EventInv, StatusInv, HookInv, AdminInv,
     DeliveryInv, SwallowInv, CreditedWhenRecorded, PaidHasCredit,
     FulfilledHasTransfer,
     StartPayment
<1>3. CASE CreateAtStripe(i)
  BY <1>3 DEF IInv, TypeOK, CallInv, EventInv, StatusInv, HookInv, AdminInv,
     DeliveryInv, SwallowInv, CreditedWhenRecorded, PaidHasCredit,
     FulfilledHasTransfer,
     CreateAtStripe, Emit
<1>4. CASE SaveIntent(i)
  BY <1>4 DEF IInv, TypeOK, CallInv, EventInv, StatusInv, HookInv, AdminInv,
     DeliveryInv, SwallowInv, CreditedWhenRecorded, PaidHasCredit,
     FulfilledHasTransfer,
     SaveIntent
<1>5. CASE SaveConsumer(i)
  BY <1>5 DEF IInv, TypeOK, CallInv, EventInv, StatusInv, HookInv, AdminInv,
     DeliveryInv, SwallowInv, CreditedWhenRecorded, PaidHasCredit,
     FulfilledHasTransfer,
     SaveConsumer
<1> QED
  BY <1>1, <1>2, <1>3, <1>4, <1>5 DEF CallStep

LEMMA StripeStepInv ==
  ASSUME IInv, NEW i \in Intents, StripeStep(i)
  PROVE  IInv'
<1>1. CASE StripeProcesses(i)
  BY <1>1 DEF IInv, TypeOK, CallInv, EventInv, StatusInv, HookInv, AdminInv,
     DeliveryInv, SwallowInv, CreditedWhenRecorded, PaidHasCredit,
     FulfilledHasTransfer,
     StripeProcesses, Emit
<1>2. CASE StripeDeclines(i)
  BY <1>2 DEF IInv, TypeOK, CallInv, EventInv, StatusInv, HookInv, AdminInv,
     DeliveryInv, SwallowInv, CreditedWhenRecorded, PaidHasCredit,
     FulfilledHasTransfer,
     StripeDeclines, Emit
<1>3. CASE StripeCaptures(i)
  BY <1>3 DEF IInv, TypeOK, CallInv, EventInv, StatusInv, HookInv, AdminInv,
     DeliveryInv, SwallowInv, CreditedWhenRecorded, PaidHasCredit,
     FulfilledHasTransfer,
     StripeCaptures, Payable, Emit
<1>4. CASE StripeCancels(i)
  BY <1>4 DEF IInv, TypeOK, CallInv, EventInv, StatusInv, HookInv, AdminInv,
     DeliveryInv, SwallowInv, CreditedWhenRecorded, PaidHasCredit,
     FulfilledHasTransfer,
     StripeCancels, Emit
<1> QED
  BY <1>1, <1>2, <1>3, <1>4 DEF StripeStep

-----------------------------------------------------------------------------
(* Steps of payment requests and administrators *)

LEMMA RequestStepInv ==
  ASSUME IInv, NEW r \in Requests, IssueRequest(r) \/ Expire(r)
  PROVE  IInv'
<1>1. CASE IssueRequest(r)
  BY <1>1 DEF IInv, TypeOK, CallInv, EventInv, StatusInv, HookInv, AdminInv,
     DeliveryInv, SwallowInv, CreditedWhenRecorded, PaidHasCredit,
     FulfilledHasTransfer,
     IssueRequest
<1>2. CASE Expire(r)
  BY <1>2 DEF IInv, TypeOK, CallInv, EventInv, StatusInv, HookInv, AdminInv,
     DeliveryInv, SwallowInv, CreditedWhenRecorded, PaidHasCredit,
     FulfilledHasTransfer,
     Expire
<1> QED
  BY <1>1, <1>2

LEMMA MarkFulfilledInv ==
  ASSUME IInv, NEW a \in Admins, MarkFulfilled(a)
  PROVE  IInv'
<1> DEFINE cols == [admin[a].cols EXCEPT !["paid"] = TRUE, !["fulfilled"] = TRUE]
<1>1. /\ cols \in Rows /\ cols["paid"]
      /\ admin[a].req \in Requests
      /\ admin[a].op = "fulfil"
      /\ row[admin[a].req] \in Rows
      /\ external[admin[a].req] > 0
  <2>1. admin[a].pc = "credited" /\ admin[a] \in AdminCalls
    BY DEF IInv, TypeOK, MarkFulfilled
  <2>2. admin[a].cols \in Rows /\ admin[a].req \in Requests
    BY <2>1
  <2>3. admin[a].op = "fulfil" /\ external[admin[a].req] > 0
    BY <2>1 DEF IInv, AdminInv
  <2>4. cols \in Rows /\ cols["paid"]
    BY <2>2
  <2>5. row[admin[a].req] \in Rows
    BY <2>2 DEF IInv, TypeOK
  <2> QED
    BY <2>2, <2>3, <2>4, <2>5
<1>2. admin' = [admin EXCEPT ![a] =
                   [pc |-> "selected", op |-> admin[a].op,
                    req |-> admin[a].req, cols |-> cols,
                    selected |-> row[admin[a].req]]]
  BY DEF MarkFulfilled, Select
<1> HIDE DEF cols
<1>3. TypeOK' /\ AdminInv'
  BY <1>1, <1>2 DEF IInv, TypeOK, AdminInv, MarkFulfilled
<1>4. /\ CallInv' /\ EventInv' /\ StatusInv' /\ HookInv' /\ DeliveryInv'
      /\ SwallowInv'
  BY DEF IInv, CallInv, EventInv, StatusInv, HookInv, DeliveryInv, SwallowInv,
         MarkFulfilled
<1>5. CreditedWhenRecorded' /\ PaidHasCredit' /\ FulfilledHasTransfer'
  BY DEF IInv, CreditedWhenRecorded, PaidHasCredit, FulfilledHasTransfer,
         MarkFulfilled
<1> QED
  BY <1>3, <1>4, <1>5 DEF IInv

LEMMA AdminStepInv ==
  ASSUME IInv, NEW a \in Admins, AdminStep(a)
  PROVE  IInv'
<1>1. ASSUME NEW op \in Operations, NEW r \in Requests, LoadRequest(a, op, r)
      PROVE  IInv'
  BY <1>1 DEF IInv, TypeOK, CallInv, EventInv, StatusInv, HookInv, AdminInv,
     DeliveryInv, SwallowInv, CreditedWhenRecorded, PaidHasCredit,
     FulfilledHasTransfer,
     LoadRequest
<1>2. CASE RefuseTransition(a)
  BY <1>2 DEF IInv, TypeOK, CallInv, EventInv, StatusInv, HookInv, AdminInv,
     DeliveryInv, SwallowInv, CreditedWhenRecorded, PaidHasCredit,
     FulfilledHasTransfer,
     RefuseTransition
<1>3. CASE CancelRequest(a)
  BY <1>3 DEF IInv, TypeOK, CallInv, EventInv, StatusInv, HookInv, AdminInv,
     DeliveryInv, SwallowInv, CreditedWhenRecorded, PaidHasCredit,
     FulfilledHasTransfer,
     CancelRequest, IsPending, Status, Select
<1>4. CASE FulfilRequest(a)
  <2>1. TypeOK' /\ AdminInv'
    BY <1>4 DEF IInv, TypeOK, AdminInv, FulfilRequest
  <2>2. PaidHasCredit' /\ FulfilledHasTransfer'
    BY <1>4 DEF IInv, TypeOK, PaidHasCredit, FulfilledHasTransfer, FulfilRequest
  <2>3. /\ CallInv' /\ EventInv' /\ StatusInv' /\ HookInv' /\ DeliveryInv'
        /\ SwallowInv' /\ CreditedWhenRecorded'
    BY <1>4 DEF IInv, CallInv, EventInv, StatusInv, HookInv, DeliveryInv,
       SwallowInv, CreditedWhenRecorded, FulfilRequest
  <2> QED
    BY <2>1, <2>2, <2>3 DEF IInv
<1>5. CASE MarkFulfilled(a)
  BY <1>5, MarkFulfilledInv
<1>6. CASE SaveRequest(a)
  BY <1>6 DEF IInv, TypeOK, CallInv, EventInv, StatusInv, HookInv, AdminInv,
     DeliveryInv, SwallowInv, CreditedWhenRecorded, PaidHasCredit,
     FulfilledHasTransfer,
     SaveRequest, Save, Assigned
<1> QED
  BY <1>1, <1>2, <1>3, <1>4, <1>5, <1>6 DEF AdminStep

-----------------------------------------------------------------------------
(* Theorems *)

LEMMA NextInv ==
  ASSUME IInv, [Next]_vars
  PROVE  IInv'
<1>1. ASSUME NEW h \in Hooks, HookStep(h)
      PROVE  IInv'
  BY <1>1, LoadInv, RejectStatusInv, RecordOnlyInv, SettleDepositInv,
     SettleRequestInv DEF HookStep
<1>2. ASSUME NEW h \in Hooks, NEW e \in Events, Deliver(h, e) \/ Redeliver(h, e)
      PROVE  IInv'
  <2>1. e \in events /\ Receive(h, e)
    BY <1>2 DEF IInv, TypeOK, Deliver, Redeliver
  <2> QED
    BY <2>1, ReceiveInv
<1>3. CASE UNCHANGED vars
  BY <1>3 DEF vars, IInv, TypeOK, CallInv, EventInv, StatusInv, HookInv,
     AdminInv, DeliveryInv, SwallowInv, CreditedWhenRecorded, PaidHasCredit,
     FulfilledHasTransfer
<1> QED
  BY <1>1, <1>2, <1>3, CallStepInv, StripeStepInv, SettlementFailsInv, AbortHookInv,
     RequestStepInv, AdminStepInv, CrashInv DEF Next

\* The invariant that every theorem below rests on.
THEOREM Invariance == Spec => []IInv
<1>1. Init => IInv
  BY InitInv
<1>2. IInv /\ [Next]_vars => IInv'
  BY NextInv
<1> QED
  BY <1>1, <1>2, PTL DEF Spec

\* Every variable stays within its type.
THEOREM TypeCorrect == Spec => []TypeOK
<1>1. IInv => TypeOK
  BY DEF IInv
<1> QED
  BY <1>1, Invariance, PTL

\* However webhooks are duplicated, reordered and interleaved and whatever
\* crashes or fails, an intent is credited at most once and never without its
\* SUCCEEDED status, and a recorded success is credited and attached to its
\* deposit unless an error of its own settlement was swallowed.
THEOREM CreditedOnce == Spec => []CreditedWhenRecorded
<1>1. IInv => CreditedWhenRecorded
  BY DEF IInv
<1> QED
  BY <1>1, Invariance, PTL

\* Stripe never captures an intent whose deposit or attempt row is missing.
THEOREM CapturedIsOwned == Spec => []CapturedHasConsumer
<1>1. IInv => CapturedHasConsumer
  BY DEF IInv, CallInv, CapturedHasConsumer
<1> QED
  BY <1>1, Invariance, PTL

\* A request shown as PAID was credited.
THEOREM PaidIsCredited == Spec => []PaidHasCredit
<1>1. IInv => PaidHasCredit
  BY DEF IInv
<1> QED
  BY <1>1, Invariance, PTL

\* A request with a fulfilledBy has the transfer of mark-fulfilled.
THEOREM FulfilledIsCredited == Spec => []FulfilledHasTransfer
<1>1. IInv => FulfilledHasTransfer
  BY DEF IInv
<1> QED
  BY <1>1, Invariance, PTL

\* An acknowledged payment stays uncredited only behind a decline or a fault.
THEOREM OnlyDeclineOrFaultLoses == Spec => []LossNeedsDeclineOrFault
<1>1. IInv => LossNeedsDeclineOrFault
  <2> SUFFICES ASSUME IInv, NEW i \in Intents, Captured(i), Acknowledged(i)
               PROVE  \/ credited[i] = 1
                      \/ "FAILED" \in statuses[i]
                      \/ faults > 0
    BY DEF LossNeedsDeclineOrFault
  <2>1. \A h \in Hooks : hook[h].pc # "idle" => hook[h] # IdleHook
    OBVIOUS
  <2> QED
    BY <2>1 DEF IInv, DeliveryInv, SwallowInv, CreditedWhenRecorded, Acknowledged
<1> QED
  BY <1>1, Invariance, PTL

\* No step makes an open request of one that was paid or cancelled.
THEOREM ClosedStaysClosed == Spec => NeverReopens
<1> DEFINE Closed(cols) == cols["paid"] \/ cols["cancelled"]
           Keeps == \A r \in Requests : Closed(row[r]) => Closed(row'[r])
<1>1. IInv /\ [Next]_vars => Keeps
  <2> SUFFICES ASSUME IInv, [Next]_vars PROVE Keeps
    OBVIOUS
  <2>1. CASE row' = row
    BY <2>1
  <2>2. ASSUME NEW h \in Hooks, SettleRequest(h)
        PROVE  Keeps
    <3>1. CASE UNCHANGED row
      BY <3>1
    <3>2. CASE MarkPaid(h)
      BY <2>2, <3>2, MarkPaidRow DEF SettleRequest
    <3> QED
      BY <2>2, <3>1, <3>2 DEF SettleRequest
  <2>3. ASSUME NEW a \in Admins, SaveRequest(a)
        PROVE  Keeps
    BY <2>3 DEF IInv, TypeOK, AdminInv, SaveRequest, Save, Assigned
  <2> QED
    BY <2>1, <2>2, <2>3
       DEF Next, vars, CallStep, StripeStep, HookStep, AdminStep, Deliver,
           Redeliver, StartDeposit, StartPayment, CreateAtStripe, SaveIntent,
           SaveConsumer, StripeProcesses, StripeDeclines, StripeCaptures,
           StripeCancels, Receive, Load, RejectStatus, RecordStatus,
           SettleDeposit, SettlementFails, AbortHook, IssueRequest, Expire, LoadRequest,
           RefuseTransition, CancelRequest, FulfilRequest, MarkFulfilled, Crash
<1>2. IInv /\ [Next]_vars =>
          [\A r \in Requests :
              row[r]["paid"] \/ row[r]["cancelled"] =>
                  row'[r]["paid"] \/ row'[r]["cancelled"]]_vars
  BY <1>1
<1> QED
  BY <1>2, Invariance, PTL DEF Spec, NeverReopens

-----------------------------------------------------------------------------
(* Refinement of the abstract ledger *)

\* Only a settlement credits, failing or not, and only a captured payment, once.
LEMMA CreditStep ==
  ASSUME IInv, NEW h \in Hooks,
         SettleDeposit(h) \/ SettleRequest(h) \/ SettlementFails(h)
  PROVE  (\E i \in Intents : Ledger!Credit(i)) \/ UNCHANGED <<stripe, credited>>
<1> DEFINE i == hook[h].intent
<1> SUFFICES ASSUME credited' # credited PROVE \E j \in Intents : Ledger!Credit(j)
  BY DEF SettleDeposit, SettleRequest, SettlementFails
<1>1. Inserts(h) /\ Settles(h) /\ Credit(i) /\ UNCHANGED stripe
  BY DEF SettleDeposit, SettleRequest, SettlementFails
<1>2. i \in Intents /\ stripe[i] = "succeeded" /\ credited[i] = 0
  <2>1. /\ i \in Intents
        /\ <<i, "SUCCEEDED">> \in events
        /\ "SUCCEEDED" \notin statuses[i]
    BY <1>1, LoadedTask DEF Settles
  <2> HIDE DEF i
  <2> QED
    BY <2>1, NothingBeforeTheStatus DEF IInv, EventInv
<1>3. credited' = [credited EXCEPT ![i] = 1]
  BY <1>1, <1>2 DEF IInv, TypeOK, Credit
<1> HIDE DEF i
<1>4. Ledger!Credit(i)
  BY <1>1, <1>2, <1>3 DEF Ledger!Credit
<1> QED
  BY <1>2, <1>4

\* Only a capture at Stripe captures.
LEMMA CaptureStep ==
  ASSUME IInv, NEW i \in Intents, StripeCaptures(i)
  PROVE  Ledger!Capture(i)
BY DEF IInv, TypeOK, StripeCaptures, Payable, Ledger!Capture

\* Every other step of Stripe leaves the captured intents as they are.
LEMMA OpensAndCancels ==
  ASSUME IInv, NEW i \in Intents, CreateAtStripe(i) \/ StripeCancels(i)
  PROVE  UNCHANGED Ledger!vars
<1>1. \A j \in Intents : Captured(j)' <=> Captured(j)
  BY DEF IInv, TypeOK, CallInv, CreateAtStripe, StripeCancels
<1>2. UNCHANGED credited
  BY DEF CreateAtStripe, StripeCancels
<1> QED
  BY <1>1, <1>2 DEF Ledger!vars

\* Settlement implements the abstract ledger: every step captures, credits a
\* captured payment for the first time, or changes neither.
THEOREM Refinement == Spec => CreditsOnceWhatWasCaptured
<1>1. Init => Ledger!Init
  BY DEF Init, Ledger!Init
<1>2. IInv /\ [Next]_vars => [Ledger!Next]_(Ledger!vars)
  <2> SUFFICES ASSUME IInv, [Next]_vars
               PROVE  Ledger!Next \/ UNCHANGED Ledger!vars
    OBVIOUS
  <2>1. CASE UNCHANGED <<stripe, credited>>
    BY <2>1 DEF Ledger!vars
  <2>2. ASSUME NEW h \in Hooks,
               SettleDeposit(h) \/ SettleRequest(h) \/ SettlementFails(h)
        PROVE  Ledger!Next \/ UNCHANGED Ledger!vars
    BY <2>2, CreditStep DEF Ledger!Next, Ledger!vars
  <2>3. ASSUME NEW i \in Intents, StripeCaptures(i)
        PROVE  Ledger!Next
    BY <2>3, CaptureStep DEF Ledger!Next
  <2>4. ASSUME NEW i \in Intents, CreateAtStripe(i) \/ StripeCancels(i)
        PROVE  UNCHANGED Ledger!vars
    BY <2>4, OpensAndCancels
  <2> QED
    BY <2>1, <2>2, <2>3, <2>4
       DEF Next, vars, CallStep, StripeStep, HookStep, AdminStep, Deliver,
           Redeliver, StartDeposit, StartPayment, SaveIntent, SaveConsumer,
           StripeProcesses, StripeDeclines, Receive, Load, RejectStatus,
           RecordStatus, AbortHook, IssueRequest, Expire, LoadRequest,
           RefuseTransition, CancelRequest, FulfilRequest, MarkFulfilled,
           SaveRequest, Crash
<1> QED
  BY <1>1, <1>2, Invariance, PTL
     DEF Spec, CreditsOnceWhatWasCaptured, Ledger!Spec
=============================================================================
