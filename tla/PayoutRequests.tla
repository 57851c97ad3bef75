--------------------------- MODULE PayoutRequests ---------------------------
(***************************************************************************)
(* Payout requests: a member asks for part of a balance, a treasurer       *)
(* approves or denies, the member may cancel.  Statuses are rows of a      *)
(* table without a unique index; no call uses a database transaction, so   *)
(* the check of a status, its row, the transfer and the link to the        *)
(* transfer are separate steps, and a crash may come between any two.      *)
(***************************************************************************)
EXTENDS Integers, FiniteSets

CONSTANTS
    Users,      \* members
    Requests,   \* ids of payout requests
    Amounts,    \* amounts that can be requested
    Calls,      \* API calls that can be in progress at once
    NoRequest,  \* a payout request that is not stored
    MaxFunds,   \* bound on what top-ups and purchases do to a balance
    MaxFaults   \* bound on crashes

\* Only the balance bounds an amount.
ASSUME AmountsAssumption == Amounts \subseteq Int
\* Only so many calls are in progress at once.
ASSUME CallsAssumption == IsFiniteSet(Calls)
ASSUME BoundsAssumption == MaxFunds \in Nat /\ MaxFaults \in Nat

VARIABLES
    request,    \* the stored payout requests
    statuses,   \* how many status rows each request has of each state
    funds,      \* the balance of each user
    transfers,  \* user -> void transfers created for each request
    linked,     \* requests with a transfer and an approvedBy
    calls,      \* calls in progress
    raced,      \* history: requests on which two calls held a passed check
    faults      \* crashes so far

vars == <<request, statuses, funds, transfers, linked, calls, raced, faults>>

-----------------------------------------------------------------------------

\* PayoutRequestState
Terminal == {"APPROVED", "DENIED", "CANCELLED"}
States == {"CREATED"} \cup Terminal

RequestRows == [by : Users, amount : Amounts]
ASSUME NoRequestAssumption == NoRequest \notin RequestRows

Idle == [pc |-> "idle"]

\* A call knows its request as it loaded it.  stale is history: its user was
\* debited since the call read the balance.
CallStates ==
    {Idle} \cup
    [pc : {"funded", "stored", "loaded", "checked", "verified", "recorded", "paid"},
     req : Requests, row : RequestRows, state : States, stale : BOOLEAN]

Init ==
    /\ request = [r \in Requests |-> NoRequest]
    /\ statuses = [r \in Requests |-> [s \in States |-> 0]]
    /\ funds = [u \in Users |-> 0]
    /\ transfers = [r \in Requests |-> 0]
    /\ linked = {}
    /\ calls = [c \in Calls |-> Idle]
    /\ raced = {}
    /\ faults = 0

AddStatus(r, s) == statuses' = [statuses EXCEPT ![r][s] = @ + 1]

End(c) == calls' = [calls EXCEPT ![c] = Idle]

\* The calls of c's user that a debit makes stale.
Stale(u) ==
    [d \in Calls |->
        IF calls[d] # Idle /\ calls[d].row.by = u
        THEN [calls[d] EXCEPT !.stale = TRUE] ELSE calls[d]]

-----------------------------------------------------------------------------
(* POST /payoutrequests *)

\* The balance is read; too little of it is a 400.
BeginCreate(c, r) ==
    /\ calls[c] = Idle
    /\ request[r] = NoRequest
    /\ \A d \in Calls : calls[d] # Idle => calls[d].req # r
    /\ \E u \in Users, a \in Amounts :
           /\ a <= funds[u]
           /\ calls' = [calls EXCEPT ![c] =
                  [pc |-> "funded", req |-> r, row |-> [by |-> u, amount |-> a],
                   state |-> "CREATED", stale |-> FALSE]]
    /\ UNCHANGED <<request, statuses, funds, transfers, linked, raced, faults>>

\* createPayoutRequest: first the request ...
StoreRequest(c) ==
    /\ calls[c].pc = "funded"
    /\ request' = [request EXCEPT ![calls[c].req] = calls[c].row]
    /\ calls' = [calls EXCEPT ![c].pc = "stored"]
    /\ UNCHANGED <<statuses, funds, transfers, linked, raced, faults>>

\* ... then its status, unchecked
StoreCreated(c) ==
    /\ calls[c].pc = "stored"
    /\ AddStatus(calls[c].req, "CREATED")
    /\ End(c)
    /\ UNCHANGED <<request, funds, transfers, linked, raced, faults>>

-----------------------------------------------------------------------------
(* POST /payoutrequests/{id}/status *)

\* mutant: the balance is not read again for an approval
BeginUpdate_NoBalance(c, r, s) ==
    /\ calls[c] = Idle
    /\ request[r] # NoRequest
    /\ calls' = [calls EXCEPT ![c] =
           [pc |-> "loaded", req |-> r, row |-> request[r], state |-> s,
            stale |-> FALSE]]
    /\ UNCHANGED <<request, statuses, funds, transfers, linked, raced, faults>>

\* The request is loaded and, for an approval, the balance read.
BeginUpdate(c, r, s) ==
    /\ calls[c] = Idle
    /\ request[r] # NoRequest
    /\ s = "APPROVED" => request[r].amount <= funds[request[r].by]
    /\ calls' = [calls EXCEPT ![c] =
           [pc |-> "loaded", req |-> r, row |-> request[r], state |-> s,
            stale |-> FALSE]]
    /\ UNCHANGED <<request, statuses, funds, transfers, linked, raced, faults>>

\* mutant: a state only excludes itself
Excludes_Itself(s) == {s}

\* The states that a state cannot be added to.
Excludes(s) == IF s \in Terminal THEN Terminal ELSE {s}

CanUpdateStatus(r, s) == \A t \in Excludes(s) : statuses[r][t] = 0

\* The check of the controller ...
CheckStatus(c) ==
    /\ calls[c].pc = "loaded"
    /\ CanUpdateStatus(calls[c].req, calls[c].state)
    /\ calls' = [calls EXCEPT ![c].pc = "checked"]
    /\ UNCHANGED <<request, statuses, funds, transfers, linked, raced, faults>>

\* Another call on r is past its check.
Contended(c) ==
    \E d \in Calls \ {c} : calls[d].pc = "verified" /\ calls[d].req = calls[c].req

\* mutant: updateStatus relies on the check of its caller
VerifyStatus_Trusting(c) ==
    /\ calls[c].pc = "checked"
    /\ calls' = [calls EXCEPT ![c].pc = "verified"]
    /\ raced' = raced \cup (IF Contended(c) THEN {calls[c].req} ELSE {})
    /\ UNCHANGED <<request, statuses, funds, transfers, linked, faults>>

\* ... and the one of updateStatus
VerifyStatus(c) ==
    /\ calls[c].pc = "checked"
    /\ CanUpdateStatus(calls[c].req, calls[c].state)
    /\ calls' = [calls EXCEPT ![c].pc = "verified"]
    /\ raced' = raced \cup (IF Contended(c) THEN {calls[c].req} ELSE {})
    /\ UNCHANGED <<request, statuses, funds, transfers, linked, faults>>

\* A 400 or a 500.
RefuseStatus(c) ==
    /\ calls[c].pc \in {"loaded", "checked"}
    /\ ~CanUpdateStatus(calls[c].req, calls[c].state)
    /\ End(c)
    /\ UNCHANGED <<request, statuses, funds, transfers, linked, raced, faults>>

\* updateStatus is done, unless it approves.
SaveStatus(c) ==
    /\ calls[c].pc = "verified"
    /\ AddStatus(calls[c].req, calls[c].state)
    /\ IF calls[c].state = "APPROVED"
       THEN calls' = [calls EXCEPT ![c].pc = "recorded"]
       ELSE End(c)
    /\ UNCHANGED <<request, funds, transfers, linked, raced, faults>>

\* mutant: the call ends without the transfer
PayOut_Forgotten(c) ==
    /\ calls[c].pc = "recorded"
    /\ End(c)
    /\ UNCHANGED <<request, statuses, funds, transfers, linked, raced, faults>>

\* createTransfer, user -> void
PayOut(c) ==
    LET by == calls[c].row.by IN
    /\ calls[c].pc = "recorded"
    /\ funds' = [funds EXCEPT ![by] = @ - calls[c].row.amount]
    /\ transfers' = [transfers EXCEPT ![calls[c].req] = @ + 1]
    /\ calls' = [Stale(by) EXCEPT ![c].pc = "paid"]
    /\ UNCHANGED <<request, statuses, linked, raced, faults>>

\* The transfer and approvedBy of the request are saved.
LinkTransfer(c) ==
    /\ calls[c].pc = "paid"
    /\ linked' = linked \cup {calls[c].req}
    /\ End(c)
    /\ UNCHANGED <<request, statuses, funds, transfers, raced, faults>>

-----------------------------------------------------------------------------
(* The rest of the system *)

\* A top-up, or any other credit.
TopUp(u) ==
    /\ funds[u] < MaxFunds
    /\ funds' = [funds EXCEPT ![u] = @ + 1]
    /\ UNCHANGED <<request, statuses, transfers, linked, calls, raced, faults>>

\* A purchase, or any other debit.
Purchase(u) ==
    /\ funds[u] > - MaxFunds
    /\ funds' = [funds EXCEPT ![u] = @ - 1]
    /\ calls' = Stale(u)
    /\ UNCHANGED <<request, statuses, transfers, linked, raced, faults>>

Crash ==
    /\ faults < MaxFaults
    /\ faults' = faults + 1
    /\ calls' = [c \in Calls |-> Idle]
    /\ UNCHANGED <<request, statuses, funds, transfers, linked, raced>>

CallStep(c) ==
    \/ StoreRequest(c) \/ StoreCreated(c)
    \/ CheckStatus(c) \/ VerifyStatus(c) \/ RefuseStatus(c)
    \/ SaveStatus(c) \/ PayOut(c) \/ LinkTransfer(c)

Next ==
    \/ \E c \in Calls, r \in Requests :
           BeginCreate(c, r) \/ \E s \in States : BeginUpdate(c, r, s)
    \/ \E c \in Calls : CallStep(c)
    \/ \E u \in Users : TopUp(u) \/ Purchase(u)
    \/ Crash

Spec == Init /\ [][Next]_vars

-----------------------------------------------------------------------------
(* Properties *)

\* The values of the variables.
TypeOK ==
    /\ request \in [Requests -> RequestRows \cup {NoRequest}]
    /\ statuses \in [Requests -> [States -> Nat]]
    /\ funds \in [Users -> Int]
    /\ transfers \in [Requests -> Nat]
    /\ linked \in SUBSET Requests
    /\ calls \in [Calls -> CallStates]
    /\ raced \in SUBSET Requests
    /\ faults \in 0 .. MaxFaults

\* A request is decided once: it gets a second terminal status only when two
\* calls passed the check of updateStatus before either saved its status.
DecidedOnce ==
    \A r \in Requests \ raced, s, t \in Terminal :
        /\ statuses[r][s] <= 1
        /\ s # t => statuses[r][s] = 0 \/ statuses[r][t] = 0

\* Every approval of a request is paid, by the call that recorded it, and
\* nothing else debits for the request: also when calls race.  Only a crash
\* between the status and the transfer loses a payout.
PaidAsApproved ==
    \A r \in Requests :
        /\ transfers[r] <= statuses[r]["APPROVED"]
        /\ r \in linked => transfers[r] > 0
        /\ \/ transfers[r] = statuses[r]["APPROVED"]
           \/ faults > 0
           \/ \E c \in Calls : calls[c].pc = "recorded" /\ calls[c].req = r

\* A payout overdraws a balance only if the balance was debited between its
\* check and the transfer: by a purchase or by another payout.
PayoutWithinBalance ==
    [][\A c \in Calls :
          PayOut(c) /\ ~calls[c].stale => funds'[calls[c].row.by] >= 0]_vars

-----------------------------------------------------------------------------
(* What the documentation says and the code does not do                     *)

\* "Any of the three terminal states locks out the other two, and a state
\* cannot be applied twice."
LockedOut ==
    [][\A r \in Requests, s, t \in Terminal :
          statuses[r][s] > 0 => statuses'[r][t] = statuses[r][t]]_vars
=============================================================================
