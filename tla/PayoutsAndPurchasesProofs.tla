--------------------- MODULE PayoutsAndPurchasesProofs ----------------------
(***************************************************************************)
(* Proofs about PayoutRequests: for any number of members, requests and    *)
(* calls, a request without a race is decided once, an approval is paid by *)
(* the call that recorded it, and a payout overdraws a balance only after  *)
(* a debit its call did not see.  And about Purchases: for any number of   *)
(* purchases and calls, a debt has a reason, and a purchase that was       *)
(* stored is there until somebody deletes it.                              *)
(***************************************************************************)
EXTENDS PayoutRequests, Purchases, FiniteSetTheorems, WellFoundedInduction, TLAPS

Places == {"funded", "stored", "loaded", "checked", "verified", "recorded", "paid"}

BusyStates ==
    [pc : Places, req : Requests, row : RequestRows, state : States,
     stale : BOOLEAN]

\* Only approvals are recorded; the balance of an approval that is not stale
\* still covers it.
Covered ==
    \A c \in Calls :
        /\ calls[c].pc = "recorded" => calls[c].state = "APPROVED"
        /\ calls[c].pc \in {"loaded", "checked", "verified", "recorded"}
           /\ calls[c].state = "APPROVED" /\ ~calls[c].stale =>
               calls[c].row.amount <= funds[calls[c].row.by]

\* On a request without a race one call at most is past the check.
Alone ==
    \A c, d \in Calls :
        /\ calls[c].pc = "verified" /\ calls[d].pc = "verified"
        /\ calls[c].req = calls[d].req /\ calls[c].req \notin raced
        => c = d

\* What that call checked still holds.
StillOpen ==
    \A c \in Calls :
        /\ calls[c].pc = "verified" /\ calls[c].state \in Terminal
        /\ calls[c].req \notin raced
        => \A t \in Terminal : statuses[calls[c].req][t] = 0

\* A transfer is there before the link to it.
PaidBeforeLink ==
    /\ \A c \in Calls : calls[c].pc = "paid" => transfers[calls[c].req] > 0
    /\ \A r \in linked : transfers[r] > 0

\* The calls that have yet to pay an approval of r.
Owing(r) == {c \in Calls : calls[c].pc = "recorded" /\ calls[c].req = r}

\* An approval of r is paid, owed by a call, or lost to a crash.
Books ==
    \A r \in Requests :
        /\ transfers[r] + Cardinality(Owing(r)) <= statuses[r]["APPROVED"]
        /\ faults = 0 =>
               transfers[r] + Cardinality(Owing(r)) = statuses[r]["APPROVED"]

Checks == Covered /\ Alone /\ StillOpen /\ DecidedOnce /\ PaidBeforeLink

-----------------------------------------------------------------------------
(* Calls *)

LEMMA CallStatesUnion == CallStates = {Idle} \cup BusyStates
  BY DEF CallStates, BusyStates, Places

LEMMA BusyCall ==
    ASSUME NEW x \in CallStates, x.pc # "idle"
    PROVE  x \in BusyStates
  BY CallStatesUnion DEF Idle

LEMMA MoveCall ==
    ASSUME calls \in [Calls -> CallStates], NEW c \in Calls, NEW p \in Places,
           calls[c].pc # "idle", calls' = [calls EXCEPT ![c].pc = p]
    PROVE  /\ calls' \in [Calls -> CallStates]
           /\ calls[c] \in BusyStates
           /\ calls'[c].pc = p
           /\ calls'[c].req = calls[c].req
           /\ calls'[c].row = calls[c].row
           /\ calls'[c].state = calls[c].state
           /\ calls'[c].stale = calls[c].stale
           /\ \A d \in Calls \ {c} : calls'[d] = calls[d]
<1>1. calls[c] \in BusyStates
  BY BusyCall
<1>2. calls'[c] = [calls[c] EXCEPT !.pc = p]
  OBVIOUS
<1>3. calls'[c] \in BusyStates
  BY <1>1, <1>2 DEF BusyStates
<1>4. calls' \in [Calls -> CallStates]
  BY <1>3, CallStatesUnion
<1> QED
  BY <1>1, <1>2, <1>4 DEF BusyStates

LEMMA EndCall ==
    ASSUME calls \in [Calls -> CallStates], NEW c \in Calls, End(c)
    PROVE  /\ calls' \in [Calls -> CallStates]
           /\ calls'[c].pc = "idle"
           /\ \A d \in Calls \ {c} : calls'[d] = calls[d]
  BY CallStatesUnion DEF End, Idle

LEMMA StaleCalls ==
    ASSUME calls \in [Calls -> CallStates], NEW u
    PROVE  /\ Stale(u) \in [Calls -> CallStates]
           /\ \A d \in Calls :
                  /\ Stale(u)[d].pc = calls[d].pc
                  /\ Stale(u)[d].req = calls[d].req
                  /\ Stale(u)[d].row = calls[d].row
                  /\ Stale(u)[d].state = calls[d].state
                  /\ calls[d].pc # "idle" /\ ~Stale(u)[d].stale =>
                         ~calls[d].stale /\ calls[d].row.by # u
<1> SUFFICES ASSUME NEW d \in Calls
             PROVE  /\ Stale(u)[d] \in CallStates
                    /\ Stale(u)[d].pc = calls[d].pc
                    /\ Stale(u)[d].req = calls[d].req
                    /\ Stale(u)[d].row = calls[d].row
                    /\ Stale(u)[d].state = calls[d].state
                    /\ calls[d].pc # "idle" /\ ~Stale(u)[d].stale =>
                           ~calls[d].stale /\ calls[d].row.by # u
  BY DEF Stale
<1>1. CASE calls[d] = Idle
  BY <1>1 DEF Stale, Idle
<1>2. CASE calls[d] # Idle /\ calls[d].row.by = u
  <2>1. calls[d] \in BusyStates
    BY <1>2, CallStatesUnion
  <2>2. Stale(u)[d] = [calls[d] EXCEPT !.stale = TRUE]
    BY <1>2 DEF Stale
  <2>3. Stale(u)[d] \in BusyStates /\ Stale(u)[d].stale = TRUE
    BY <2>1, <2>2 DEF BusyStates
  <2> QED
    BY <2>1, <2>2, <2>3, CallStatesUnion DEF BusyStates
<1>3. CASE calls[d] # Idle /\ calls[d].row.by # u
  BY <1>3 DEF Stale
<1> QED
  BY <1>1, <1>2, <1>3

LEMMA NewCall ==
    ASSUME calls \in [Calls -> CallStates], NEW c \in Calls,
           NEW x \in BusyStates, calls' = [calls EXCEPT ![c] = x]
    PROVE  /\ calls' \in [Calls -> CallStates]
           /\ calls'[c] = x
           /\ \A d \in Calls \ {c} : calls'[d] = calls[d]
  BY CallStatesUnion

\* One more status of one request.
LEMMA OneStatus ==
    ASSUME statuses \in [Requests -> [States -> Nat]],
           NEW r \in Requests, NEW s \in States, AddStatus(r, s)
    PROVE  /\ statuses' \in [Requests -> [States -> Nat]]
           /\ statuses'[r][s] = statuses[r][s] + 1
           /\ \A q \in Requests, t \in States :
                  q # r \/ t # s => statuses'[q][t] = statuses[q][t]
<1>1. statuses' = [statuses EXCEPT ![r] = [statuses[r] EXCEPT ![s] = @ + 1]]
  BY DEF AddStatus
<1>2. statuses[r] \in [States -> Nat]
  OBVIOUS
<1>3. [statuses[r] EXCEPT ![s] = @ + 1] \in [States -> Nat]
  BY <1>2
<1> QED
  BY <1>1, <1>2, <1>3

-----------------------------------------------------------------------------
(* Type correctness *)

LEMMA TypeInit == Init => TypeOK
  BY BoundsAssumption, CallStatesUnion DEF Init, TypeOK

LEMMA TypeNext ==
    ASSUME TypeOK, [Next]_vars
    PROVE  TypeOK'
<1> USE DEF TypeOK
<1>1. ASSUME NEW c \in Calls, NEW r \in Requests, BeginCreate(c, r)
      PROVE  TypeOK'
  <2>1. PICK u \in Users, a \in Amounts :
            calls' = [calls EXCEPT ![c] =
                [pc |-> "funded", req |-> r, row |-> [by |-> u, amount |-> a],
                 state |-> "CREATED", stale |-> FALSE]]
    BY <1>1 DEF BeginCreate
  <2>2. [pc |-> "funded", req |-> r, row |-> [by |-> u, amount |-> a],
         state |-> "CREATED", stale |-> FALSE] \in BusyStates
    BY DEF BusyStates, Places, RequestRows, States
  <2>3. calls' \in [Calls -> CallStates]
    BY <2>1, <2>2, NewCall
  <2> QED
    BY <1>1, <2>3 DEF BeginCreate
<1>2. ASSUME NEW c \in Calls, NEW r \in Requests, NEW s \in States,
             BeginUpdate(c, r, s)
      PROVE  TypeOK'
  <2>1. [pc |-> "loaded", req |-> r, row |-> request[r], state |-> s,
         stale |-> FALSE] \in BusyStates
    BY <1>2 DEF BeginUpdate, BusyStates, Places
  <2>2. calls' \in [Calls -> CallStates]
    BY <1>2, <2>1, NewCall DEF BeginUpdate
  <2> QED
    BY <1>2, <2>2 DEF BeginUpdate
<1>3. ASSUME NEW c \in Calls, StoreRequest(c)
      PROVE  TypeOK'
  <2>1. calls[c] \in BusyStates
    BY <1>3, BusyCall DEF StoreRequest
  <2>2. request' \in [Requests -> RequestRows \cup {NoRequest}]
    BY <1>3, <2>1 DEF StoreRequest, BusyStates
  <2>3. calls' \in [Calls -> CallStates]
    BY <1>3, MoveCall DEF StoreRequest, Places
  <2> QED
    BY <1>3, <2>2, <2>3 DEF StoreRequest
<1>4. ASSUME NEW c \in Calls, StoreCreated(c)
      PROVE  TypeOK'
  <2>1. calls[c].req \in Requests
    BY <1>4, BusyCall DEF StoreCreated, BusyStates
  <2>2. statuses' \in [Requests -> [States -> Nat]]
    BY <1>4, <2>1, OneStatus DEF StoreCreated, States
  <2>3. calls' \in [Calls -> CallStates]
    BY <1>4, EndCall DEF StoreCreated
  <2> QED
    BY <1>4, <2>2, <2>3 DEF StoreCreated
<1>5. ASSUME NEW c \in Calls, CheckStatus(c)
      PROVE  TypeOK'
  BY <1>5, MoveCall DEF CheckStatus, Places
<1>6. ASSUME NEW c \in Calls, VerifyStatus(c)
      PROVE  TypeOK'
  <2>1. calls[c].req \in Requests
    BY <1>6, BusyCall DEF VerifyStatus, BusyStates
  <2>2. calls' \in [Calls -> CallStates]
    BY <1>6, MoveCall DEF VerifyStatus, Places
  <2> QED
    BY <1>6, <2>1, <2>2 DEF VerifyStatus
<1>7. ASSUME NEW c \in Calls, RefuseStatus(c)
      PROVE  TypeOK'
  BY <1>7, EndCall DEF RefuseStatus
<1>8. ASSUME NEW c \in Calls, SaveStatus(c)
      PROVE  TypeOK'
  <2>1. calls[c].req \in Requests /\ calls[c].state \in States
    BY <1>8, BusyCall DEF SaveStatus, BusyStates
  <2>2. statuses' \in [Requests -> [States -> Nat]]
    BY <1>8, <2>1, OneStatus DEF SaveStatus
  <2>3. calls' \in [Calls -> CallStates]
    BY <1>8, EndCall, MoveCall DEF SaveStatus, Places
  <2> QED
    BY <1>8, <2>2, <2>3 DEF SaveStatus
<1>9. ASSUME NEW c \in Calls, PayOut(c)
      PROVE  TypeOK'
  <2> DEFINE by == calls[c].row.by
  <2>1. calls[c] \in BusyStates
    BY <1>9, BusyCall DEF PayOut
  <2>2. funds' = [funds EXCEPT ![by] = @ - calls[c].row.amount]
        /\ transfers' = [transfers EXCEPT ![calls[c].req] = @ + 1]
        /\ calls' = [Stale(by) EXCEPT ![c].pc = "paid"]
    BY <1>9 DEF PayOut
  <2>3. calls[c].row.amount \in Int /\ calls[c].req \in Requests /\ by \in Users
    BY <2>1, AmountsAssumption DEF BusyStates, RequestRows
  <2>4. funds' \in [Users -> Int] /\ transfers' \in [Requests -> Nat]
    BY <2>2, <2>3
  <2>5. Stale(by) \in [Calls -> CallStates] /\ Stale(by)[c].pc # "idle"
    BY <1>9, StaleCalls DEF PayOut
  <2>6. Stale(by)[c] \in BusyStates
    BY <2>5, BusyCall
  <2>7. [Stale(by)[c] EXCEPT !.pc = "paid"] \in BusyStates
    BY <2>6 DEF BusyStates, Places
  <2>8. calls' \in [Calls -> CallStates]
    BY <2>2, <2>5, <2>7, CallStatesUnion
  <2> QED
    BY <1>9, <2>4, <2>8 DEF PayOut
<1>10. ASSUME NEW c \in Calls, LinkTransfer(c)
       PROVE  TypeOK'
  <2>1. calls[c].req \in Requests
    BY <1>10, BusyCall DEF LinkTransfer, BusyStates
  <2>2. calls' \in [Calls -> CallStates]
    BY <1>10, EndCall DEF LinkTransfer
  <2> QED
    BY <1>10, <2>1, <2>2 DEF LinkTransfer
<1>11. ASSUME NEW u \in Users, TopUp(u)
       PROVE  TypeOK'
  BY <1>11 DEF TopUp
<1>12. ASSUME NEW u \in Users, Purchase(u)
       PROVE  TypeOK'
  <2>1. calls' \in [Calls -> CallStates]
    BY <1>12, StaleCalls DEF Purchase
  <2> QED
    BY <1>12, <2>1 DEF Purchase
<1>13. ASSUME Crash
       PROVE  TypeOK'
  <2>1. calls' \in [Calls -> CallStates]
    BY <1>13, CallStatesUnion DEF Crash
  <2> QED
    BY <1>13, <2>1, BoundsAssumption DEF Crash
<1>14. CASE UNCHANGED vars
  BY <1>14 DEF vars
<1> QED
  BY <1>1, <1>2, <1>3, <1>4, <1>5, <1>6, <1>7, <1>8, <1>9, <1>10, <1>11,
     <1>12, <1>13, <1>14 DEF Next, CallStep

\* The variables keep their types for any number of members and requests.
THEOREM PayoutsTypeCorrect == Spec => []TypeOK
<1>1. Init => TypeOK
  BY TypeInit
<1>2. TypeOK /\ [Next]_vars => TypeOK'
  BY TypeNext
<1> QED
  BY <1>1, <1>2, PTL DEF Spec

-----------------------------------------------------------------------------
(* What a call knows *)

LEMMA ChecksInit == Init => Checks
  BY DEF Init, Checks, Covered, Alone, StillOpen, DecidedOnce, PaidBeforeLink,
         Idle, Terminal, States

\* A step of one call that changes neither statuses nor funds nor transfers,
\* towards a place where its call knows no more than before.
LEMMA ChecksMove ==
    ASSUME TypeOK, Checks, NEW c \in Calls, NEW p \in Places,
           calls[c].pc # "idle", calls' = [calls EXCEPT ![c].pc = p],
           p \notin {"verified", "recorded", "paid"},
           p \in {"loaded", "checked"} => calls[c].pc \in {"loaded", "checked"},
           UNCHANGED <<statuses, funds, transfers, linked, raced>>
    PROVE  Checks'
<1>1. /\ calls'[c].pc = p
      /\ calls'[c].row = calls[c].row
      /\ calls'[c].state = calls[c].state
      /\ calls'[c].stale = calls[c].stale
      /\ \A d \in Calls \ {c} : calls'[d] = calls[d]
  BY MoveCall DEF TypeOK
<1>2. Covered'
  BY <1>1 DEF Checks, Covered
<1>3. Alone' /\ StillOpen' /\ DecidedOnce' /\ PaidBeforeLink'
  BY <1>1 DEF Checks, Alone, StillOpen, DecidedOnce, PaidBeforeLink
<1> QED
  BY <1>2, <1>3 DEF Checks

\* The same for a call that ends, and may leave a link to its transfer.
LEMMA ChecksEnd ==
    ASSUME TypeOK, Checks, NEW c \in Calls, End(c),
           linked' \in {linked, linked \cup {calls[c].req}},
           linked' = linked \/ calls[c].pc = "paid",
           UNCHANGED <<statuses, funds, transfers, raced>>
    PROVE  Checks'
<1>1. /\ calls'[c].pc = "idle"
      /\ \A d \in Calls \ {c} : calls'[d] = calls[d]
  BY EndCall DEF TypeOK
<1>2. Covered'
  BY <1>1 DEF Checks, Covered
<1>3. Alone' /\ StillOpen' /\ DecidedOnce' /\ PaidBeforeLink'
  BY <1>1 DEF Checks, Alone, StillOpen, DecidedOnce, PaidBeforeLink
<1> QED
  BY <1>2, <1>3 DEF Checks

\* And for a call that begins.
LEMMA ChecksBegin ==
    ASSUME TypeOK, Checks, NEW c \in Calls, NEW x \in BusyStates,
           calls' = [calls EXCEPT ![c] = x], x.pc \in {"funded", "loaded"},
           x.pc = "loaded" /\ x.state = "APPROVED" =>
               x.row.amount <= funds[x.row.by],
           UNCHANGED <<statuses, funds, transfers, linked, raced>>
    PROVE  Checks'
<1>1. /\ calls'[c] = x
      /\ \A d \in Calls \ {c} : calls'[d] = calls[d]
  BY NewCall DEF TypeOK
<1>2. Covered'
  BY <1>1 DEF Checks, Covered
<1>3. Alone' /\ StillOpen' /\ DecidedOnce' /\ PaidBeforeLink'
  BY <1>1 DEF Checks, Alone, StillOpen, DecidedOnce, PaidBeforeLink
<1> QED
  BY <1>2, <1>3 DEF Checks

\* The second check: a request that a call is already past becomes raced.
LEMMA ChecksVerify ==
    ASSUME TypeOK, Checks, NEW c \in Calls, VerifyStatus(c)
    PROVE  Checks'
<1>1. /\ calls[c] \in BusyStates
      /\ calls'[c].pc = "verified"
      /\ calls'[c].req = calls[c].req
      /\ calls'[c].row = calls[c].row
      /\ calls'[c].state = calls[c].state
      /\ calls'[c].stale = calls[c].stale
      /\ \A d \in Calls \ {c} : calls'[d] = calls[d]
  BY MoveCall DEF TypeOK, VerifyStatus, Places
<1>2. Covered'
  BY <1>1 DEF Checks, Covered, VerifyStatus
<1>3. Alone'
  <2>1. raced \subseteq raced'
    BY DEF VerifyStatus
  <2>2. ASSUME NEW d \in Calls \ {c}, calls[d].pc = "verified",
               calls[d].req = calls[c].req
        PROVE  calls[c].req \in raced'
    BY <2>2 DEF VerifyStatus, Contended
  <2> QED
    BY <1>1, <2>1, <2>2 DEF Checks, Alone
<1>4. StillOpen'
  <2>1. calls[c].state \in Terminal =>
            \A t \in Terminal : statuses[calls[c].req][t] = 0
    BY DEF VerifyStatus, CanUpdateStatus, Excludes
  <2> QED
    BY <1>1, <2>1 DEF Checks, StillOpen, VerifyStatus
<1>5. DecidedOnce' /\ PaidBeforeLink'
  BY <1>1 DEF Checks, DecidedOnce, PaidBeforeLink, VerifyStatus
<1> QED
  BY <1>2, <1>3, <1>4, <1>5 DEF Checks

\* A status of a call that was alone past its check.
LEMMA ChecksSave ==
    ASSUME TypeOK, Checks, NEW c \in Calls, SaveStatus(c)
    PROVE  Checks'
<1> DEFINE r == calls[c].req
           s == calls[c].state
<1>1. calls[c] \in BusyStates /\ r \in Requests /\ s \in States
  BY BusyCall DEF SaveStatus, BusyStates, TypeOK
<1>2. /\ calls'[c].pc = IF s = "APPROVED" THEN "recorded" ELSE "idle"
      /\ s = "APPROVED" =>
             /\ calls'[c].row = calls[c].row
             /\ calls'[c].state = calls[c].state
             /\ calls'[c].stale = calls[c].stale
      /\ \A d \in Calls \ {c} : calls'[d] = calls[d]
  BY MoveCall, EndCall DEF SaveStatus, TypeOK, Places
<1>3. /\ statuses'[r][s] = statuses[r][s] + 1
      /\ \A q \in Requests, t \in States :
             q # r \/ t # s => statuses'[q][t] = statuses[q][t]
  BY <1>1, OneStatus DEF SaveStatus, TypeOK
<1>4. Covered'
  BY <1>2 DEF Checks, Covered, SaveStatus
<1>5. Alone'
  BY <1>2 DEF Checks, Alone, SaveStatus
<1>6. StillOpen'
  <2> SUFFICES ASSUME NEW d \in Calls, calls'[d].pc = "verified",
                      calls'[d].state \in Terminal, calls'[d].req \notin raced,
                      NEW t \in Terminal
               PROVE  statuses'[calls'[d].req][t] = 0
    BY DEF StillOpen, SaveStatus
  <2>1. d # c /\ calls'[d] = calls[d]
    BY <1>2
  <2>2. calls[d].req # r
    BY <2>1 DEF Checks, Alone, SaveStatus
  <2>3. calls[d].req \in Requests /\ t \in States
    BY <2>1, BusyCall DEF BusyStates, TypeOK, States
  <2> QED
    BY <1>3, <2>1, <2>2, <2>3 DEF Checks, StillOpen
<1>7. DecidedOnce'
  <2>1. ASSUME r \notin raced, s \in Terminal
        PROVE  \A t \in Terminal : statuses[r][t] = 0
    BY <2>1 DEF Checks, StillOpen, SaveStatus
  <2>2. ASSUME NEW q \in Requests, q # r \/ s \notin Terminal
        PROVE  \A t \in Terminal : statuses'[q][t] = statuses[q][t]
    BY <1>3, <2>2 DEF States
  <2>3. ASSUME r \notin raced, s \in Terminal
        PROVE  /\ statuses'[r][s] = 1
               /\ \A t \in Terminal : t # s => statuses'[r][t] = 0
    <3>1. statuses'[r][s] = 0 + 1
      BY <1>3, <2>1, <2>3
    <3>2. ASSUME NEW t \in Terminal, t # s
          PROVE  statuses'[r][t] = 0
      <4>1. statuses'[r][t] = statuses[r][t]
        BY <1>1, <1>3, <3>2 DEF States
      <4> QED
        BY <2>1, <2>3, <4>1
    <3> QED
      BY <3>1, <3>2
  <2> QED
    BY <2>2, <2>3 DEF Checks, DecidedOnce, SaveStatus
<1>8. PaidBeforeLink'
  BY <1>2 DEF Checks, PaidBeforeLink, SaveStatus
<1> QED
  BY <1>4, <1>5, <1>6, <1>7, <1>8 DEF Checks

LEMMA ChecksCreated ==
    ASSUME TypeOK, Checks, NEW c \in Calls, StoreCreated(c)
    PROVE  Checks'
<1>1. calls[c].req \in Requests
  BY BusyCall DEF StoreCreated, BusyStates, TypeOK
<1>2. \A q \in Requests, t \in Terminal : statuses'[q][t] = statuses[q][t]
  BY <1>1, OneStatus DEF StoreCreated, TypeOK, States, Terminal
<1>3. /\ calls'[c].pc = "idle"
      /\ \A d \in Calls \ {c} : calls'[d] = calls[d]
  BY EndCall DEF StoreCreated, TypeOK
<1>4. Covered'
  BY <1>3 DEF Checks, Covered, StoreCreated
<1>5. Alone' /\ PaidBeforeLink'
  BY <1>3 DEF Checks, Alone, PaidBeforeLink, StoreCreated
<1>6. StillOpen'
  <2> SUFFICES ASSUME NEW d \in Calls, calls'[d].pc = "verified",
                      calls'[d].state \in Terminal, calls'[d].req \notin raced,
                      NEW t \in Terminal
               PROVE  statuses'[calls'[d].req][t] = 0
    BY DEF StillOpen, StoreCreated
  <2>1. calls'[d] = calls[d]
    BY <1>3
  <2>2. calls[d].req \in Requests
    BY <2>1, BusyCall DEF BusyStates, TypeOK
  <2> QED
    BY <1>2, <2>1, <2>2 DEF Checks, StillOpen
<1>7. DecidedOnce'
  BY <1>2 DEF Checks, DecidedOnce, StoreCreated
<1> QED
  BY <1>4, <1>5, <1>6, <1>7 DEF Checks

\* A debit makes the calls that rely on the balance stale.
LEMMA CoveredDebit ==
    ASSUME TypeOK, Covered, NEW u \in Users,
           \A v \in Users : v # u => funds'[v] = funds[v],
           NEW d \in Calls,
           Stale(u)[d].pc \in {"loaded", "checked", "verified", "recorded"},
           Stale(u)[d].state = "APPROVED", ~Stale(u)[d].stale
    PROVE  Stale(u)[d].row.amount <= funds'[Stale(u)[d].row.by]
<1>1. /\ Stale(u)[d].pc = calls[d].pc /\ Stale(u)[d].row = calls[d].row
      /\ Stale(u)[d].state = calls[d].state
      /\ ~calls[d].stale /\ calls[d].row.by # u
  BY StaleCalls DEF TypeOK
<1>2. calls[d].row.by \in Users
  BY <1>1, BusyCall DEF BusyStates, RequestRows, TypeOK
<1> QED
  BY <1>1, <1>2 DEF Covered

LEMMA ChecksPayOut ==
    ASSUME TypeOK, Checks, NEW c \in Calls, PayOut(c)
    PROVE  Checks'
<1> DEFINE by == calls[c].row.by
           r == calls[c].req
<1>1. calls[c] \in BusyStates /\ r \in Requests /\ by \in Users
  BY BusyCall DEF PayOut, BusyStates, RequestRows, TypeOK
<1>2. /\ Stale(by) \in [Calls -> CallStates]
      /\ \A d \in Calls : /\ Stale(by)[d].pc = calls[d].pc
                          /\ Stale(by)[d].req = calls[d].req
                          /\ Stale(by)[d].row = calls[d].row
                          /\ Stale(by)[d].state = calls[d].state
  BY StaleCalls DEF TypeOK
<1>3. /\ calls'[c].pc = "paid" /\ calls'[c].req = r
      /\ \A d \in Calls \ {c} : calls'[d] = Stale(by)[d]
  <2>1. calls' = [Stale(by) EXCEPT ![c].pc = "paid"]
    BY DEF PayOut
  <2>2. Stale(by)[c] \in BusyStates
    BY <1>2, BusyCall DEF PayOut
  <2>3. calls'[c] = [Stale(by)[c] EXCEPT !.pc = "paid"]
    BY <1>2, <2>1
  <2> QED
    BY <1>2, <2>1, <2>2, <2>3 DEF BusyStates
<1>4. \A v \in Users : v # by => funds'[v] = funds[v]
  BY DEF PayOut, TypeOK
<1>5. /\ transfers'[r] > 0
      /\ \A q \in Requests : transfers[q] > 0 => transfers'[q] > 0
  BY <1>1 DEF PayOut, TypeOK
<1>6. Covered'
  BY <1>1, <1>2, <1>3, <1>4, CoveredDebit DEF Checks, Covered
<1>7. Alone'
  BY <1>2, <1>3 DEF Checks, Alone, PayOut
<1>8. StillOpen'
  BY <1>2, <1>3 DEF Checks, StillOpen, PayOut
<1>9. DecidedOnce'
  BY DEF Checks, DecidedOnce, PayOut
<1>10. PaidBeforeLink'
  <2>1. ASSUME NEW d \in Calls, calls'[d].pc = "paid"
        PROVE  transfers'[calls'[d].req] > 0
    <3>1. CASE d = c
      BY <1>3, <1>5, <3>1
    <3>2. CASE d # c
      <4>1. calls[d].pc = "paid" /\ calls'[d].req = calls[d].req
        BY <1>2, <1>3, <2>1, <3>2
      <4>2. calls[d].req \in Requests
        BY <4>1, BusyCall DEF BusyStates, TypeOK
      <4> QED
        BY <1>5, <4>1, <4>2 DEF Checks, PaidBeforeLink
    <3> QED
      BY <3>1, <3>2
  <2>2. \A q \in linked' : transfers'[q] > 0
    BY <1>5 DEF Checks, PaidBeforeLink, PayOut, TypeOK
  <2> QED
    BY <2>1, <2>2 DEF PaidBeforeLink
<1> QED
  BY <1>6, <1>7, <1>8, <1>9, <1>10 DEF Checks

LEMMA ChecksPurchase ==
    ASSUME TypeOK, Checks, NEW u \in Users, Purchase(u)
    PROVE  Checks'
<1>1. \A d \in Calls : /\ calls'[d].pc = calls[d].pc
                       /\ calls'[d].req = calls[d].req
                       /\ calls'[d].row = calls[d].row
                       /\ calls'[d].state = calls[d].state
  BY StaleCalls DEF Purchase, TypeOK
<1>2. calls' = Stale(u) /\ \A v \in Users : v # u => funds'[v] = funds[v]
  BY DEF Purchase, TypeOK
<1>3. Covered'
  BY <1>1, <1>2, CoveredDebit DEF Checks, Covered
<1>4. Alone' /\ StillOpen' /\ DecidedOnce' /\ PaidBeforeLink'
  BY <1>1 DEF Checks, Alone, StillOpen, DecidedOnce, PaidBeforeLink, Purchase
<1> QED
  BY <1>3, <1>4 DEF Checks

LEMMA ChecksTopUp ==
    ASSUME TypeOK, Checks, NEW u \in Users, TopUp(u)
    PROVE  Checks'
<1>1. Covered'
  <2> SUFFICES ASSUME NEW d \in Calls,
                      calls[d].pc \in {"loaded", "checked", "verified", "recorded"},
                      calls[d].state = "APPROVED", ~calls[d].stale
               PROVE  calls[d].row.amount <= funds'[calls[d].row.by]
    BY DEF Checks, Covered, TopUp
  <2>1. calls[d].row.by \in Users /\ calls[d].row.amount \in Int
    <3>1. calls[d] \in BusyStates
      BY BusyCall DEF TypeOK
    <3> QED
      BY <3>1, AmountsAssumption DEF BusyStates, RequestRows
  <2>2. funds[calls[d].row.by] <= funds'[calls[d].row.by]
    BY <2>1 DEF TopUp, TypeOK
  <2>3. calls[d].row.amount <= funds[calls[d].row.by]
    BY DEF Checks, Covered
  <2>4. funds[calls[d].row.by] \in Int /\ funds'[calls[d].row.by] \in Int
    BY <2>1 DEF TopUp, TypeOK
  <2> QED
    BY <2>1, <2>2, <2>3, <2>4
<1>2. Alone' /\ StillOpen' /\ DecidedOnce' /\ PaidBeforeLink'
  BY DEF Checks, Alone, StillOpen, DecidedOnce, PaidBeforeLink, TopUp
<1> QED
  BY <1>1, <1>2 DEF Checks

LEMMA ChecksNext ==
    ASSUME TypeOK, Checks, [Next]_vars
    PROVE  Checks'
<1>1. ASSUME NEW c \in Calls, NEW r \in Requests, BeginCreate(c, r)
      PROVE  Checks'
  <2>1. PICK u \in Users, a \in Amounts :
            calls' = [calls EXCEPT ![c] =
                [pc |-> "funded", req |-> r, row |-> [by |-> u, amount |-> a],
                 state |-> "CREATED", stale |-> FALSE]]
    BY <1>1 DEF BeginCreate
  <2> DEFINE x == [pc |-> "funded", req |-> r, row |-> [by |-> u, amount |-> a],
                   state |-> "CREATED", stale |-> FALSE]
  <2>2. x \in BusyStates
    BY DEF BusyStates, Places, RequestRows, States
  <2>3. calls' = [calls EXCEPT ![c] = x] /\ x.pc = "funded"
    BY <2>1
  <2>4. UNCHANGED <<statuses, funds, transfers, linked, raced>>
    BY <1>1 DEF BeginCreate
  <2> HIDE DEF x
  <2> QED
    BY <2>2, <2>3, <2>4, ChecksBegin
<1>2. ASSUME NEW c \in Calls, NEW r \in Requests, NEW s \in States,
             BeginUpdate(c, r, s)
      PROVE  Checks'
  <2> DEFINE x == [pc |-> "loaded", req |-> r, row |-> request[r], state |-> s,
                   stale |-> FALSE]
  <2>1. x \in BusyStates
    BY <1>2 DEF BeginUpdate, BusyStates, Places, TypeOK
  <2>2. /\ calls' = [calls EXCEPT ![c] = x] /\ x.pc = "loaded"
        /\ x.state = "APPROVED" => x.row.amount <= funds[x.row.by]
    BY <1>2 DEF BeginUpdate
  <2>3. UNCHANGED <<statuses, funds, transfers, linked, raced>>
    BY <1>2 DEF BeginUpdate
  <2> HIDE DEF x
  <2> QED
    BY <2>1, <2>2, <2>3, ChecksBegin
<1>3. ASSUME NEW c \in Calls, StoreRequest(c)
      PROVE  Checks'
  BY <1>3, ChecksMove DEF StoreRequest, Places
<1>4. ASSUME NEW c \in Calls, CheckStatus(c)
      PROVE  Checks'
  BY <1>4, ChecksMove DEF CheckStatus, Places
<1>5. ASSUME NEW c \in Calls, RefuseStatus(c)
      PROVE  Checks'
  BY <1>5, ChecksEnd DEF RefuseStatus
<1>6. ASSUME NEW c \in Calls, LinkTransfer(c)
      PROVE  Checks'
  BY <1>6, ChecksEnd DEF LinkTransfer
<1>7. ASSUME Crash
      PROVE  Checks'
  BY <1>7 DEF Crash, Checks, Covered, Alone, StillOpen, DecidedOnce,
              PaidBeforeLink, Idle
<1>8. CASE UNCHANGED vars
  BY <1>8 DEF vars, Checks, Covered, Alone, StillOpen, DecidedOnce,
              PaidBeforeLink
<1> QED
  BY <1>1, <1>2, <1>3, <1>4, <1>5, <1>6, <1>7, <1>8, ChecksCreated,
     ChecksVerify, ChecksSave, ChecksPayOut, ChecksPurchase, ChecksTopUp
     DEF Next, CallStep

-----------------------------------------------------------------------------
(* The books *)

LEMMA OwingFinite ==
    ASSUME NEW r
    PROVE  /\ IsFiniteSet(Owing(r)) /\ Cardinality(Owing(r)) \in Nat
           /\ IsFiniteSet(Owing(r)') /\ Cardinality(Owing(r)') \in Nat
<1>1. Owing(r) \subseteq Calls /\ Owing(r)' \subseteq Calls
  BY DEF Owing
<1> QED
  BY <1>1, CallsAssumption, FS_Subset, FS_CardinalityType

LEMMA BooksInit == Init => Books
<1> SUFFICES ASSUME Init, NEW r \in Requests
             PROVE  /\ transfers[r] = 0 /\ statuses[r]["APPROVED"] = 0
                    /\ Cardinality(Owing(r)) = 0
  BY DEF Books
<1>1. Owing(r) = {}
  BY DEF Init, Owing, Idle
<1> QED
  BY <1>1, FS_EmptySet DEF Init, States, Terminal

\* The books do not change with a step that neither approves nor pays.
LEMMA BooksSame ==
    ASSUME Books, \A r \in Requests : Owing(r)' = Owing(r),
           \A r \in Requests : statuses'[r]["APPROVED"] = statuses[r]["APPROVED"],
           UNCHANGED <<transfers, faults>>
    PROVE  Books'
  BY DEF Books

\* A call that is not about to pay and stays so owes nothing.
LEMMA OwingSame ==
    ASSUME NEW c \in Calls, calls[c].pc # "recorded", calls'[c].pc # "recorded",
           \A d \in Calls \ {c} : calls'[d] = calls[d]
    PROVE  \A r \in Requests : Owing(r)' = Owing(r)
  BY DEF Owing

\* An approval is owed from the moment it is recorded.
LEMMA BooksSave ==
    ASSUME TypeOK, Books, NEW c \in Calls, SaveStatus(c)
    PROVE  Books'
<1>1. calls[c].req \in Requests /\ calls[c].state \in States
  BY BusyCall DEF SaveStatus, BusyStates, TypeOK
<1> PICK r \in Requests, s \in States : r = calls[c].req /\ s = calls[c].state
  BY <1>1
<1>2. /\ calls'[c].pc = IF s = "APPROVED" THEN "recorded" ELSE "idle"
      /\ s = "APPROVED" => calls'[c].req = r
      /\ \A d \in Calls \ {c} : calls'[d] = calls[d]
  BY MoveCall, EndCall DEF SaveStatus, TypeOK, Places
<1>3. /\ statuses'[r][s] = statuses[r][s] + 1
      /\ \A q \in Requests, t \in States :
             q # r \/ t # s => statuses'[q][t] = statuses[q][t]
  BY <1>1, OneStatus DEF SaveStatus, TypeOK
<1>4. calls[c].pc = "verified" /\ UNCHANGED <<transfers, faults>>
  BY DEF SaveStatus
<1>5. CASE s # "APPROVED"
  <2>1. \A q \in Requests : Owing(q)' = Owing(q)
    BY <1>2, <1>4, <1>5, OwingSame
  <2>2. \A q \in Requests : statuses'[q]["APPROVED"] = statuses[q]["APPROVED"]
    BY <1>3, <1>5 DEF States, Terminal
  <2> QED
    BY <1>4, <2>1, <2>2, BooksSame
<1>6. CASE s = "APPROVED"
  <2>1. Owing(r)' = Owing(r) \cup {c} /\ c \notin Owing(r)
    BY <1>2, <1>4, <1>6 DEF Owing
  <2>2. Cardinality(Owing(r)') = Cardinality(Owing(r)) + 1
    BY <2>1, OwingFinite, FS_AddElement
  <2>3. \A q \in Requests \ {r} : Owing(q)' = Owing(q)
    BY <1>2, <1>4, <1>6 DEF Owing
  <2>4. \A q \in Requests \ {r} :
            statuses'[q]["APPROVED"] = statuses[q]["APPROVED"]
    BY <1>3 DEF States, Terminal
  <2>5. statuses'[r]["APPROVED"] = statuses[r]["APPROVED"] + 1
        /\ statuses[r]["APPROVED"] \in Nat /\ transfers[r] \in Nat
    BY <1>1, <1>3, <1>6 DEF TypeOK
  <2>6. transfers'[r] = transfers[r] /\ faults' = faults
    BY <1>4
  <2>7. transfers[r] + Cardinality(Owing(r)) <= statuses[r]["APPROVED"]
        /\ (faults = 0 =>
               transfers[r] + Cardinality(Owing(r)) = statuses[r]["APPROVED"])
    BY <1>1 DEF Books
  <2>8. transfers'[r] + Cardinality(Owing(r)') <= statuses'[r]["APPROVED"]
        /\ (faults' = 0 =>
               transfers'[r] + Cardinality(Owing(r)') = statuses'[r]["APPROVED"])
    BY <2>2, <2>5, <2>6, <2>7, OwingFinite
  <2> QED
    BY <1>4, <2>3, <2>4, <2>8 DEF Books
<1> QED
  BY <1>5, <1>6

\* The call that recorded an approval pays it.
LEMMA BooksPayOut ==
    ASSUME TypeOK, Books, NEW c \in Calls, PayOut(c)
    PROVE  Books'
<1> DEFINE by == calls[c].row.by
<1>1. calls[c].req \in Requests /\ calls[c].pc = "recorded"
  BY BusyCall DEF PayOut, BusyStates, TypeOK
<1> PICK r \in Requests : r = calls[c].req
  BY <1>1
<1>2. /\ Stale(by) \in [Calls -> CallStates]
      /\ \A d \in Calls : /\ Stale(by)[d].pc = calls[d].pc
                          /\ Stale(by)[d].req = calls[d].req
  BY StaleCalls DEF TypeOK
<1>3. /\ calls'[c].pc = "paid"
      /\ \A d \in Calls \ {c} : calls'[d] = Stale(by)[d]
  <2>1. calls' = [Stale(by) EXCEPT ![c].pc = "paid"]
    BY DEF PayOut
  <2>2. Stale(by)[c] \in BusyStates
    BY <1>1, <1>2, BusyCall
  <2>3. calls'[c] = [Stale(by)[c] EXCEPT !.pc = "paid"]
    BY <1>2, <2>1
  <2> QED
    BY <1>2, <2>1, <2>2, <2>3 DEF BusyStates
<1>4. Owing(r)' = Owing(r) \ {c} /\ c \in Owing(r)
  BY <1>1, <1>2, <1>3 DEF Owing
<1>5. Cardinality(Owing(r)') = Cardinality(Owing(r)) - 1
  BY <1>4, OwingFinite, FS_RemoveElement
<1>6. \A q \in Requests \ {r} : Owing(q)' = Owing(q)
  BY <1>1, <1>2, <1>3 DEF Owing
<1>7. /\ transfers'[r] = transfers[r] + 1 /\ transfers[r] \in Nat
      /\ \A q \in Requests \ {r} : transfers'[q] = transfers[q]
      /\ UNCHANGED <<statuses, faults>>
  BY <1>1 DEF PayOut, TypeOK
<1>8. transfers'[r] + Cardinality(Owing(r)') = transfers[r] + Cardinality(Owing(r))
  BY <1>5, <1>7, OwingFinite
<1> QED
  BY <1>1, <1>6, <1>7, <1>8 DEF Books

LEMMA BooksNext ==
    ASSUME TypeOK, Books, [Next]_vars
    PROVE  Books'
<1>1. ASSUME NEW c \in Calls, NEW r \in Requests,
             BeginCreate(c, r) \/ \E s \in States : BeginUpdate(c, r, s)
      PROVE  Books'
  <2>1. /\ calls[c].pc # "recorded" /\ calls'[c].pc # "recorded"
        /\ \A d \in Calls \ {c} : calls'[d] = calls[d]
    BY <1>1 DEF BeginCreate, BeginUpdate, Idle, TypeOK
  <2>2. UNCHANGED <<statuses, transfers, faults>>
    BY <1>1 DEF BeginCreate, BeginUpdate
  <2> QED
    BY <2>1, <2>2, OwingSame, BooksSame
<1>2. ASSUME NEW c \in Calls,
             StoreRequest(c) \/ CheckStatus(c) \/ VerifyStatus(c)
      PROVE  Books'
  <2>1. /\ calls[c].pc # "recorded" /\ calls'[c].pc # "recorded"
        /\ \A d \in Calls \ {c} : calls'[d] = calls[d]
    BY <1>2, MoveCall DEF StoreRequest, CheckStatus, VerifyStatus, TypeOK, Places
  <2>2. UNCHANGED <<statuses, transfers, faults>>
    BY <1>2 DEF StoreRequest, CheckStatus, VerifyStatus
  <2> QED
    BY <2>1, <2>2, OwingSame, BooksSame
<1>3. ASSUME NEW c \in Calls, RefuseStatus(c) \/ LinkTransfer(c)
      PROVE  Books'
  <2>1. /\ calls[c].pc # "recorded" /\ calls'[c].pc # "recorded"
        /\ \A d \in Calls \ {c} : calls'[d] = calls[d]
    BY <1>3, EndCall DEF RefuseStatus, LinkTransfer, TypeOK
  <2>2. UNCHANGED <<statuses, transfers, faults>>
    BY <1>3 DEF RefuseStatus, LinkTransfer
  <2> QED
    BY <2>1, <2>2, OwingSame, BooksSame
<1>4. ASSUME NEW c \in Calls, StoreCreated(c)
      PROVE  Books'
  <2>1. /\ calls[c].pc # "recorded" /\ calls'[c].pc # "recorded"
        /\ \A d \in Calls \ {c} : calls'[d] = calls[d]
    BY <1>4, EndCall DEF StoreCreated, TypeOK
  <2>2. calls[c].req \in Requests
    BY <1>4, BusyCall DEF StoreCreated, BusyStates, TypeOK
  <2>3. \A q \in Requests : statuses'[q]["APPROVED"] = statuses[q]["APPROVED"]
    BY <1>4, <2>2, OneStatus DEF StoreCreated, TypeOK, States, Terminal
  <2>4. UNCHANGED <<transfers, faults>>
    BY <1>4 DEF StoreCreated
  <2> QED
    BY <2>1, <2>3, <2>4, OwingSame, BooksSame
<1>5. ASSUME NEW u \in Users, TopUp(u) \/ Purchase(u)
      PROVE  Books'
  <2>1. \A d \in Calls : calls'[d].pc = calls[d].pc /\ calls'[d].req = calls[d].req
    BY <1>5, StaleCalls DEF TopUp, Purchase, TypeOK
  <2>2. \A r \in Requests : Owing(r)' = Owing(r)
    BY <2>1 DEF Owing
  <2>3. UNCHANGED <<statuses, transfers, faults>>
    BY <1>5 DEF TopUp, Purchase
  <2> QED
    BY <2>2, <2>3, BooksSame
<1>6. ASSUME Crash
      PROVE  Books'
  <2> SUFFICES ASSUME NEW r \in Requests
               PROVE  /\ transfers'[r] + Cardinality(Owing(r)')
                             <= statuses'[r]["APPROVED"]
                      /\ faults' # 0
    BY DEF Books
  <2>1. Owing(r)' = {}
    BY <1>6 DEF Crash, Owing, Idle
  <2>2. Cardinality(Owing(r)') = 0
    BY <2>1, FS_EmptySet
  <2>3. transfers[r] + Cardinality(Owing(r)) <= statuses[r]["APPROVED"]
    BY DEF Books
  <2>4. transfers[r] \in Nat /\ statuses[r]["APPROVED"] \in Nat
    BY DEF TypeOK, States, Terminal
  <2>5. /\ transfers' = transfers /\ statuses' = statuses
        /\ faults' = faults + 1 /\ faults \in Nat
    BY <1>6, BoundsAssumption DEF Crash, TypeOK
  <2> QED
    BY <2>2, <2>3, <2>4, <2>5, OwingFinite
<1>7. CASE UNCHANGED vars
  BY <1>7, BooksSame DEF vars, Owing
<1> QED
  BY <1>1, <1>2, <1>3, <1>4, <1>5, <1>6, <1>7, BooksSave, BooksPayOut
     DEF Next, CallStep

LEMMA BooksMean ==
    ASSUME TypeOK, Books, Checks
    PROVE  PaidAsApproved
<1> SUFFICES ASSUME NEW r \in Requests
             PROVE  /\ transfers[r] <= statuses[r]["APPROVED"]
                    /\ r \in linked => transfers[r] > 0
                    /\ \/ transfers[r] = statuses[r]["APPROVED"]
                       \/ faults > 0
                       \/ Owing(r) # {}
  BY DEF PaidAsApproved, Owing
<1>1. /\ transfers[r] \in Nat /\ statuses[r]["APPROVED"] \in Nat
      /\ faults \in Nat
  BY BoundsAssumption DEF TypeOK, States, Terminal
<1>2. transfers[r] + Cardinality(Owing(r)) <= statuses[r]["APPROVED"]
      /\ (faults = 0 =>
             transfers[r] + Cardinality(Owing(r)) = statuses[r]["APPROVED"])
  BY DEF Books
<1>3. Owing(r) = {} => Cardinality(Owing(r)) = 0
  BY FS_EmptySet
<1>4. r \in linked => transfers[r] > 0
  BY DEF Checks, PaidBeforeLink
<1> QED
  BY <1>1, <1>2, <1>3, <1>4, OwingFinite

-----------------------------------------------------------------------------
(* Results *)

\* Without a race on it, a request never has two terminal statuses, or one of
\* them twice.
THEOREM DecidesOnce == Spec => []DecidedOnce
<1>1. Init => TypeOK /\ Checks
  BY TypeInit, ChecksInit
<1>2. TypeOK /\ Checks /\ [Next]_vars => TypeOK' /\ Checks'
  BY TypeNext, ChecksNext
<1>3. Checks => DecidedOnce
  BY DEF Checks
<1> QED
  BY <1>1, <1>2, <1>3, PTL DEF Spec

\* Every approval is paid once, by the call that recorded it, however many
\* calls race; only a crash can lose the transfer.
THEOREM PaysWhatIsApproved == Spec => []PaidAsApproved
<1>1. Init => TypeOK /\ Checks /\ Books
  BY TypeInit, ChecksInit, BooksInit
<1>2. TypeOK /\ Checks /\ Books /\ [Next]_vars => TypeOK' /\ Checks' /\ Books'
  BY TypeNext, ChecksNext, BooksNext
<1>3. TypeOK /\ Checks /\ Books => PaidAsApproved
  BY BooksMean
<1> QED
  BY <1>1, <1>2, <1>3, PTL DEF Spec

\* A payout leaves no negative balance unless a debit came after the balance
\* was read for it.
THEOREM PaysWithinBalance == Spec => PayoutWithinBalance
<1> DEFINE Sound == \A c \in Calls :
               PayOut(c) /\ ~calls[c].stale => funds'[calls[c].row.by] >= 0
<1>1. Init => TypeOK /\ Checks
  BY TypeInit, ChecksInit
<1>2. TypeOK /\ Checks /\ [Next]_vars => TypeOK' /\ Checks'
  BY TypeNext, ChecksNext
<1>3. TypeOK /\ Checks => Sound
  <2> SUFFICES ASSUME TypeOK, Checks, NEW c \in Calls, PayOut(c), ~calls[c].stale
               PROVE  funds'[calls[c].row.by] >= 0
    OBVIOUS
  <2>1. calls[c].row.by \in Users /\ calls[c].row.amount \in Int
    BY BusyCall, AmountsAssumption DEF PayOut, BusyStates, RequestRows, TypeOK
  <2>2. calls[c].row.amount <= funds[calls[c].row.by]
    BY DEF PayOut, Checks, Covered
  <2>3. funds'[calls[c].row.by] = funds[calls[c].row.by] - calls[c].row.amount
    BY <2>1 DEF PayOut, TypeOK
  <2>4. funds[calls[c].row.by] \in Int
    BY <2>1 DEF TypeOK
  <2> QED
    BY <2>1, <2>2, <2>3, <2>4
<1> HIDE DEF Sound
<1>4. PayoutWithinBalance <=> [][Sound]_vars
  BY PTL DEF PayoutWithinBalance, Sound
<1> QED
  BY <1>1, <1>2, <1>3, <1>4, PTL DEF Spec

-----------------------------------------------------------------------------
(* Purchases *)

\* Every set of naturals that is not empty has a least element.
LEMMA LeastNatural ==
  ASSUME NEW T, T \subseteq Nat, T # {}
  PROVE  \E m \in T : \A n \in T : m <= n
<1> DEFINE Up(n) == 0 .. n
           Ups == {Up(n) : n \in T}
<1>1. Ups \subseteq FiniteSubsetsOf(Nat)
  <2>1. ASSUME NEW n \in T PROVE Up(n) \in SUBSET Nat /\ IsFiniteSet(Up(n))
    BY FS_Interval
  <2> QED
    BY <2>1 DEF FiniteSubsetsOf
<1>2. Ups # {}
  OBVIOUS
<1> HIDE DEF Ups
<1>3. \E X \in Ups : \A Y \in Ups : ~ (<<Y, X>> \in StrictSubsetOrdering(Nat))
  BY <1>1, <1>2, FS_StrictSubsetOrderingWellFounded, WFMin
<1>4. PICK m \in T : \A Y \in Ups : ~ (<<Y, Up(m)>> \in StrictSubsetOrdering(Nat))
  BY <1>3 DEF Ups
<1>5. ASSUME NEW n \in T, n < m PROVE FALSE
  <2>1. Up(n) \in Ups /\ Up(n) \in SUBSET Nat /\ Up(m) \in SUBSET Nat
    BY DEF Ups
  <2>2. Up(n) \subseteq Up(m) /\ m \in Up(m) /\ m \notin Up(n)
    BY <1>5
  <2> HIDE DEF Up
  <2>3. <<Up(n), Up(m)>> \in StrictSubsetOrdering(Nat)
    BY <2>1, <2>2 DEF StrictSubsetOrdering
  <2> QED
    BY <1>4, <2>1, <2>3
<1> QED
  BY <1>5

-----------------------------------------------------------------------------
(* The running balance *)

USE PurchasesAssumption

Ledgers == [Positions -> Int]
Upto == 0 .. MaxEntries

\* The recursive definition of the running balance defines it.
LEMMA RunningIsDefined ==
  ASSUME NEW rows \in Ledgers
  PROVE  Running(rows) = [p \in Upto |-> IF p = 0 THEN 0
                                         ELSE Running(rows)[p - 1] + rows[p]]
<1> DEFINE Sums(n) == {g \in [Upto -> Int] :
                          /\ g[0] = 0
                          /\ \A i \in 1 .. n : g[i] = g[i - 1] + rows[i]}
           Bad == {n \in Upto : Sums(n) = {}}
           Step(g) == [p \in Upto |-> IF p = 0 THEN 0 ELSE g[p - 1] + rows[p]]
<1>1. Bad = {}
  <2> SUFFICES ASSUME Bad # {} PROVE FALSE
    OBVIOUS
  <2>1. PICK m \in Bad : \A n \in Bad : m <= n
    <3>1. Bad \subseteq Nat
      BY DEF Upto
    <3> HIDE DEF Bad
    <3> QED
      BY <3>1, LeastNatural
  <2>2. CASE m = 0
    <3>1. [p \in Upto |-> 0] \in Sums(0)
      BY DEF Upto
    <3> QED
      BY <3>1, <2>2
  <2>3. CASE m # 0
    <3>1. m \in Nat /\ m - 1 \in Upto /\ m \in Upto /\ m \in Positions
      BY <2>3 DEF Upto, Positions
    <3>2. PICK g \in [Upto -> Int] : g \in Sums(m - 1)
      BY <2>1, <3>1
    <3> DEFINE h == [g EXCEPT ![m] = g[m - 1] + rows[m]]
    <3>3. g[m - 1] + rows[m] \in Int
      BY <3>1, <3>2 DEF Ledgers
    <3>4. h \in [Upto -> Int] /\ h[0] = 0
      BY <3>2, <3>3, <2>3
    <3>5. ASSUME NEW i \in 1 .. m PROVE h[i] = h[i - 1] + rows[i]
      <4>1. i \in Upto /\ i - 1 \in Upto /\ i - 1 # m /\ h[i - 1] = g[i - 1]
        BY <3>1, <3>2 DEF Upto
      <4>2. CASE i = m
        BY <4>1, <4>2, <3>2
      <4>3. CASE i # m
        BY <4>1, <4>3, <3>1, <3>2
      <4> QED
        BY <4>2, <4>3
    <3>6. h \in Sums(m)
      BY <3>4, <3>5
    <3> QED
      BY <3>6
  <2> QED
    BY <2>2, <2>3
<1>2. PICK g : g \in Sums(MaxEntries)
  <2>1. MaxEntries \in Upto
    BY DEF Upto
  <2> QED
    BY <1>1, <2>1
<1>3. g = Step(g)
  <2>1. \A p \in Upto : g[p] = IF p = 0 THEN 0 ELSE g[p - 1] + rows[p]
    BY <1>2 DEF Upto
  <2> QED
    BY <1>2, <2>1
<1>4. Running(rows) = CHOOSE f : f = Step(f)
  BY DEF Running, Upto
<1> HIDE DEF Step
<1>5. Running(rows) = Step(Running(rows))
  BY <1>3, <1>4
<1> QED
  BY <1>5 DEF Step

LEMMA RunningSteps ==
  ASSUME NEW rows \in Ledgers
  PROVE  /\ Running(rows) \in [Upto -> Int]
         /\ Running(rows)[0] = 0
         /\ \A p \in Positions : Running(rows)[p] = Running(rows)[p - 1] + rows[p]
<1> DEFINE sum == Running(rows)
           Bad == {p \in Upto : sum[p] \notin Int}
<1>1. sum = [p \in Upto |-> IF p = 0 THEN 0 ELSE sum[p - 1] + rows[p]]
  BY RunningIsDefined
<1> HIDE DEF sum
<1>2. \A p \in Upto : sum[p] = IF p = 0 THEN 0 ELSE sum[p - 1] + rows[p]
  BY <1>1
<1>3. sum[0] = 0
  BY <1>2 DEF Upto
<1>4. \A p \in Positions : sum[p] = sum[p - 1] + rows[p]
  BY <1>2 DEF Upto, Positions
<1>5. Bad = {}
  <2> SUFFICES ASSUME Bad # {} PROVE FALSE
    OBVIOUS
  <2>1. PICK m \in Bad : \A n \in Bad : m <= n
    <3>1. Bad \subseteq Nat
      BY DEF Upto
    <3> HIDE DEF Bad
    <3> QED
      BY <3>1, LeastNatural
  <2>2. m \in Positions
    BY <1>3 DEF Upto, Positions
  <2>3. sum[m - 1] \in Int
    BY <2>1, <2>2 DEF Upto, Positions
  <2> QED
    BY <1>4, <2>2, <2>3 DEF Ledgers
<1>6. \A p \in Upto : sum[p] \in Int
  BY <1>5
<1>7. sum \in [Upto -> Int]
  BY <1>1, <1>6
<1> QED
  BY <1>3, <1>4, <1>7 DEF sum

\* A row that changes moves the balance of everything from it on.
LEMMA RunningChanges ==
  ASSUME NEW rows \in Ledgers, NEW q \in Positions, NEW x \in Int
  PROVE  LET new == [rows EXCEPT ![q] = x]
         IN  /\ new \in Ledgers
             /\ Running(new)[MaxEntries] = Running(rows)[MaxEntries] + x - rows[q]
<1> DEFINE new == [rows EXCEPT ![q] = x]
           old == Running(rows)
           sum == Running(new)
           Moved(p) == IF p < q THEN 0 ELSE x - rows[q]
           Bad == {p \in Upto : sum[p] # old[p] + Moved(p)}
<1>1. new \in Ledgers
  BY DEF Ledgers
<1>2. /\ sum \in [Upto -> Int] /\ sum[0] = 0
      /\ \A p \in Positions : sum[p] = sum[p - 1] + new[p]
  BY <1>1, RunningSteps
<1>3. /\ old \in [Upto -> Int] /\ old[0] = 0
      /\ \A p \in Positions : old[p] = old[p - 1] + rows[p]
  BY RunningSteps
<1>4. \A p \in Positions : new[p] = IF p = q THEN x ELSE rows[p]
  BY DEF Ledgers
<1>5. rows[q] \in Int /\ q \in Nat /\ q > 0
  BY DEF Ledgers, Positions
<1> HIDE DEF new, old, sum
<1>6. Bad = {}
  <2> SUFFICES ASSUME Bad # {} PROVE FALSE
    OBVIOUS
  <2>1. PICK m \in Bad : \A n \in Bad : m <= n
    <3>1. Bad \subseteq Nat
      BY DEF Upto
    <3> HIDE DEF Bad
    <3> QED
      BY <3>1, LeastNatural
  <2>2. m \in Positions
    BY <1>2, <1>3, <1>5 DEF Upto, Positions
  <2>3. m - 1 \in Upto /\ m \in Upto /\ m - 1 \notin Bad
    BY <2>1, <2>2 DEF Upto, Positions
  <2>4. sum[m - 1] = old[m - 1] + Moved(m - 1)
    BY <2>3
  <2>5. sum[m] = sum[m - 1] + new[m] /\ old[m] = old[m - 1] + rows[m] /\ rows[m] \in Int
    BY <1>2, <1>3, <2>2 DEF Ledgers
  <2>6. CASE m < q
    BY <1>3, <1>4, <1>5, <2>1, <2>2, <2>3, <2>4, <2>5, <2>6
  <2>7. CASE m = q
    BY <1>3, <1>4, <1>5, <2>1, <2>2, <2>3, <2>4, <2>5, <2>7
  <2>8. CASE m > q
    <3>1. m - 1 >= q /\ m \in Nat
      BY <1>5, <2>2, <2>8 DEF Positions
    <3> QED
      BY <1>3, <1>4, <1>5, <2>1, <2>2, <2>3, <2>4, <2>5, <2>8, <3>1
  <2> QED
    BY <1>5, <2>2, <2>6, <2>7, <2>8 DEF Positions
<1>7. MaxEntries \in Upto /\ ~ MaxEntries < q
  BY DEF Upto, Positions
<1>8. sum[MaxEntries] = old[MaxEntries] + x - rows[q]
  BY <1>3, <1>5, <1>6, <1>7
<1> QED
  BY <1>1, <1>8 DEF new, old, sum

\* Where no row follows, the balance before is the balance.
LEMMA RunningEnds ==
  ASSUME NEW rows \in Ledgers, NEW q \in Positions,
         \A p \in Positions : p >= q => rows[p] = 0
  PROVE  Running(rows)[MaxEntries] = Running(rows)[q - 1]
<1> DEFINE sum == Running(rows)
           Bad == {p \in Upto : p >= q /\ sum[p] # sum[q - 1]}
<1>1. /\ sum \in [Upto -> Int]
      /\ \A p \in Positions : sum[p] = sum[p - 1] + rows[p]
  BY RunningSteps
<1>2. q \in Nat /\ q > 0 /\ q <= MaxEntries
  BY DEF Positions
<1> HIDE DEF sum
<1>3. Bad = {}
  <2> SUFFICES ASSUME Bad # {} PROVE FALSE
    OBVIOUS
  <2>1. PICK m \in Bad : \A n \in Bad : m <= n
    <3>1. Bad \subseteq Nat
      BY DEF Upto
    <3> HIDE DEF Bad
    <3> QED
      BY <3>1, LeastNatural
  <2>2. m \in Positions /\ rows[m] = 0 /\ m - 1 \in Upto
    BY <1>2, <2>1 DEF Upto, Positions
  <2>3. sum[m] = sum[m - 1]
    BY <1>1, <2>2
  <2>4. CASE m = q
    BY <2>1, <2>3, <2>4
  <2>5. CASE m # q
    BY <1>2, <2>1, <2>2, <2>3, <2>5 DEF Upto
  <2> QED
    BY <2>4, <2>5
<1>4. MaxEntries \in Upto
  BY DEF Upto
<1> QED
  BY <1>2, <1>3, <1>4 DEF sum

-----------------------------------------------------------------------------
(* The inductive invariant *)

\* The row that a call has inserted and not committed.
NewRow(s) == s.pc \in {"inserted", "told"} /\ ~s.update

\* An update that has deleted its row.
Replacing(s) == s.update /\ s.pc # "editing"

\* The shape of what a call remembers.
Shape(s) ==
    /\ s \in TillStates
    /\ s.pc = "idle" => s = Closed
    /\ s.pc # "idle" => s.cost \in Totals
    /\ s.pc = "verified" => ~s.update /\ ~s.sale /\ s.position = 0
    /\ s.pc \in {"editing", "replacing"} => s.update
    /\ s.update => ~s.sale
    /\ s.pc \in {"editing", "replacing", "inserted", "told"} => s.position \in 1 .. entries

\* A purchase that nobody overtook still finds the balance that was checked, and
\* if it goes into debt, a notice was sent.
Paying(s) == s.pc = "verified" \/ (NewRow(s) /\ ~s.sale)

Expects(s) ==
    Paying(s) /\ ~s.met =>
        /\ canGoIntoDebt \/ Funds >= s.cost
        /\ NewRow(s) => \A p \in Positions : p >= s.position => ledger[p] = 0
        /\ s.pc = "told" /\ Funds >= 0 /\ Funds < s.cost =>
               s.told \/ s.blind \/ ~getsNotices

\* A new row is not in the ledger and nobody else's; an update is of a purchase
\* that was there, unless it was deleted meanwhile; and no call has a transfer.
Rows(t) ==
    /\ NewRow(till[t]) =>
          /\ ledger[till[t].position] = 0
          /\ till[t].position \notin expected
          /\ \A u \in Tills \ {t} : till[u].position # till[t].position
    /\ till[t].update => till[t].position \in expected \cup clashed \/ tillFaults > 0
    /\ till[t].position \notin transferred

Beyond ==
    \A p \in Positions : p > entries => ledger[p] = 0 /\ p \notin expected /\ p \notin transferred

\* What is stored, but for the updates that have deleted it.
StoredAt(p) ==
    \/ IsPurchase(p) <=> p \in expected
    \/ p \in clashed
    \/ tillFaults > 0
    \/ \E t \in Tills : Replacing(till[t]) /\ till[t].position = p

Stored == \A p \in Positions : StoredAt(p)

PurchasesIInv ==
    /\ PurchasesTypeOK
    /\ paidByTerminal \subseteq expected
    /\ Beyond
    /\ DebtIsExplained
    /\ Stored
    /\ \A t \in Tills : Shape(till[t]) /\ Expects(till[t]) /\ Rows(t)

LEMMA PurchasesInitInv == PurchasesInit => PurchasesIInv
<1> SUFFICES ASSUME PurchasesInit PROVE PurchasesIInv
  OBVIOUS
<1>1. ledger \in Ledgers /\ ledger = [p \in Positions |-> 0]
  BY DEF PurchasesInit, Ledgers
<1>2. Funds = 0
  <2>1. CASE MaxEntries = 0
    BY <1>1, <2>1, RunningSteps DEF Funds
  <2>2. CASE MaxEntries # 0
    <3>1. 1 \in Positions /\ \A p \in Positions : p >= 1 => ledger[p] = 0
      BY <1>1, <2>2 DEF Positions
    <3>2. Funds = Running(ledger)[1 - 1]
      BY <1>1, <3>1, RunningEnds DEF Funds
    <3> QED
      BY <1>1, <3>2, RunningSteps
  <2> QED
    BY <2>1, <2>2
<1>3. Closed \in TillStates
  BY DEF Closed, TillStates
<1>4. \A t \in Tills : till[t] = Closed
  BY DEF PurchasesInit
<1>5. PurchasesTypeOK
  <2>1. till \in [Tills -> TillStates] /\ ledger \in [Positions -> Int]
    BY <1>1, <1>3 DEF PurchasesInit, Ledgers
  <2>2. entries \in 0 .. MaxEntries /\ tillFaults \in 0 .. MaxTillFaults
    BY DEF PurchasesInit
  <2>3. unchecked \in BOOLEAN /\ noticed \in BOOLEAN /\ unnoticed \in BOOLEAN
    BY DEF PurchasesInit
  <2> QED
    BY <2>1, <2>2, <2>3 DEF PurchasesInit, PurchasesTypeOK
<1>6. paidByTerminal \subseteq expected /\ Beyond /\ DebtIsExplained /\ Stored
  BY <1>2 DEF PurchasesInit, Beyond, DebtIsExplained, Stored, StoredAt, IsPurchase
<1>7. Closed.pc = "idle" /\ Closed.update = FALSE
  BY DEF Closed
<1>8. \A t \in Tills : Shape(till[t]) /\ Expects(till[t]) /\ Rows(t)
  <2>1. Shape(Closed)
    BY <1>3, <1>7 DEF Shape
  <2>2. ~ Paying(Closed) /\ ~ NewRow(Closed)
    BY <1>7 DEF Paying, NewRow
  <2>3. \A t \in Tills : Shape(till[t]) /\ Expects(till[t])
    BY <1>4, <2>1, <2>2 DEF Expects
  <2>4. \A t \in Tills : Rows(t)
    BY <1>4, <1>7, <2>2 DEF Rows, PurchasesInit
  <2> QED
    BY <2>3, <2>4
<1> QED
  BY <1>5, <1>6, <1>8 DEF PurchasesIInv

-----------------------------------------------------------------------------
(* What a step does to the calls *)

\* A step of one call that leaves the ledger alone.
LEMMA Moved ==
  ASSUME PurchasesIInv, NEW t \in Tills,
         till' \in [Tills -> TillStates],
         \A u \in Tills \ {t} : till'[u] = till[u],
         UNCHANGED <<buyer, book, clashed>>,
         entries' \in entries .. MaxEntries,
         tillFaults' \in tillFaults .. MaxTillFaults,
         Shape(till[t])', Expects(till[t])', Rows(t)',
         \A u \in Tills \ {t} :
             NewRow(till[u]) => till[t].position' # till[u].position,
         Replacing(till[t]) =>
             tillFaults' > 0 \/ (Replacing(till[t])' /\ till[t].position' = till[t].position)
  PROVE  PurchasesIInv'
<1> USE DEF book, buyer
<1>1. Funds' = Funds
  BY DEF Funds
<1>2. PurchasesTypeOK'
  BY DEF PurchasesIInv, PurchasesTypeOK, IsPurchase
<1>3. paidByTerminal' \subseteq expected' /\ DebtIsExplained'
  BY <1>1 DEF PurchasesIInv, DebtIsExplained
<1>4. entries \in Nat /\ entries' \in Nat /\ entries' >= entries
      /\ tillFaults \in Nat /\ tillFaults' \in Nat /\ tillFaults' >= tillFaults
  BY DEF PurchasesIInv, PurchasesTypeOK
<1>5. Beyond'
  BY <1>4 DEF PurchasesIInv, Beyond, Positions
<1>6. Stored'
  <2> SUFFICES ASSUME NEW p \in Positions, p \notin clashed, ~ (tillFaults' > 0),
                      ~ (IsPurchase(p) <=> p \in expected)
               PROVE  \E u \in Tills : Replacing(till[u])' /\ till[u].position' = p
    BY DEF Stored, StoredAt, IsPurchase
  <2>1. ~ (tillFaults > 0)
    BY <1>4
  <2>2. PICK u \in Tills : Replacing(till[u]) /\ till[u].position = p
    BY <2>1 DEF PurchasesIInv, Stored, StoredAt
  <2>3. CASE u = t
    BY <2>2, <2>3
  <2>4. CASE u # t
    BY <2>2, <2>4 DEF Replacing
  <2> QED
    BY <2>3, <2>4
<1>7. ASSUME NEW u \in Tills, u # t PROVE (Shape(till[u]) /\ Expects(till[u]) /\ Rows(u))'
  <2>1. Shape(till[u]) /\ Expects(till[u]) /\ Rows(u) /\ till'[u] = till[u]
    BY <1>7 DEF PurchasesIInv
  <2>2. Shape(till[u])'
    BY <1>4, <2>1 DEF Shape
  <2>3. Expects(till[u])'
    BY <1>1, <2>1 DEF Expects, Paying, NewRow
  <2>4. Rows(u)'
    BY <1>4, <1>7, <2>1 DEF Rows, NewRow
  <2> QED
    BY <2>2, <2>3, <2>4
<1> QED
  BY <1>2, <1>3, <1>5, <1>6, <1>7 DEF PurchasesIInv

\* What a write makes of the calls, those in mine being the ones that write.
GoOn(mine, next) ==
    till' = [t \in Tills |-> IF t \in mine THEN next
                ELSE IF Unused(t) THEN Closed ELSE [till[t] EXCEPT !.met = TRUE]]

LEMMA Wrote ==
  ASSUME PurchasesIInv, NEW mine, NEW next, GoOn(mine, next),
         mine \subseteq Tills, next \in TillStates,
         entries' \in entries .. MaxEntries
  PROVE  /\ till' \in [Tills -> TillStates]
         /\ \A t \in mine : till'[t] = next
         /\ \A t \in Tills \ mine :
               /\ Shape(till[t])' /\ Expects(till[t])'
               /\ till'[t].pc = till[t].pc /\ till'[t].update = till[t].update
               /\ till'[t].position = till[t].position
               /\ till'[t].sale = till[t].sale
<1>1. till' = [t \in Tills |-> IF t \in mine THEN next
                   ELSE IF Unused(t) THEN Closed ELSE [till[t] EXCEPT !.met = TRUE]]
  BY DEF GoOn
<1>2. entries \in Nat /\ entries' \in Nat /\ entries' >= entries
      /\ till \in [Tills -> TillStates]
  BY DEF PurchasesIInv, PurchasesTypeOK
<1>3. ASSUME NEW t \in Tills \ mine
      PROVE  /\ till'[t] \in TillStates
             /\ Shape(till[t])' /\ Expects(till[t])'
             /\ till'[t].pc = till[t].pc /\ till'[t].update = till[t].update
             /\ till'[t].position = till[t].position
             /\ till'[t].sale = till[t].sale
  <2>1. Shape(till[t]) /\ till[t] \in TillStates
    BY <1>2 DEF PurchasesIInv
  <2>2. CASE Unused(t)
    <3>1. till'[t] = till[t] /\ till[t] = Closed
      BY <1>1, <2>2 DEF Unused
    <3>2. Shape(till[t])'
      BY <1>2, <2>1, <3>1 DEF Shape
    <3>3. Expects(till[t])'
      BY <3>1 DEF Expects, Paying, NewRow, Closed
    <3> QED
      BY <2>1, <3>1, <3>2, <3>3
  <2>3. CASE ~ Unused(t)
    <3>1. till'[t] = [till[t] EXCEPT !.met = TRUE]
      BY <1>1, <2>3
    <3>2. /\ till'[t] \in TillStates /\ till'[t].met = TRUE
          /\ till'[t].pc = till[t].pc /\ till'[t].update = till[t].update
          /\ till'[t].position = till[t].position /\ till'[t].cost = till[t].cost
          /\ till'[t].sale = till[t].sale
      BY <2>1, <3>1 DEF TillStates
    <3>3. till[t].pc # "idle"
      BY <2>1, <2>3 DEF Shape, Unused
    <3>4. Shape(till[t])'
      BY <1>2, <2>1, <3>2, <3>3 DEF Shape
    <3>5. Expects(till[t])'
      BY <3>2 DEF Expects
    <3> QED
      BY <3>2, <3>4, <3>5
  <2> QED
    BY <2>2, <2>3
<1>4. \A t \in mine : till'[t] = next
  BY <1>1
<1>5. till' \in [Tills -> TillStates]
  BY <1>1, <1>3, <1>4
<1> QED
  BY <1>3, <1>4, <1>5

\* Deleting, paying and selling do not lower the balance.
LEMMA BalanceRises ==
  ASSUME PurchasesIInv, NEW rows, NEW mine, NEW next,
         Write(rows, mine, next, FALSE, FALSE, FALSE),
         rows \in Ledgers, Running(rows)[MaxEntries] >= Funds,
         UNCHANGED buyer
  PROVE  DebtIsExplained'
<1>1. Funds' = Running(rows)[MaxEntries]
  BY DEF Funds, Write
<1>2. Funds \in Int /\ Funds' \in Int
  <2>1. MaxEntries \in Upto /\ ledger \in Ledgers
    BY DEF Upto, PurchasesIInv, PurchasesTypeOK, Ledgers
  <2> QED
    BY <1>1, <2>1, RunningSteps DEF Funds
<1>3. Funds' < 0 => Funds < 0
  BY <1>1, <1>2
<1>4. /\ Funds' < 0 => unchecked' = unchecked /\ noticed' = noticed /\ unnoticed' = unnoticed
      /\ DebtIsExplained
  <2>1. unchecked \in BOOLEAN /\ noticed \in BOOLEAN /\ unnoticed \in BOOLEAN
    BY DEF PurchasesIInv, PurchasesTypeOK
  <2> QED
    BY <1>1, <2>1 DEF PurchasesIInv, Write
<1> QED
  BY <1>3, <1>4 DEF DebtIsExplained, buyer

\* Purchases that a step does not touch are stored as they were.
LEMMA StillStored ==
  ASSUME PurchasesIInv, NEW x,
         \A u \in Tills :
             Replacing(till[u]) /\ till[u].position # x =>
                 Replacing(till[u])' /\ till[u].position' = till[u].position,
         \A p \in Positions \ {x} :
             /\ IsPurchase(p)' <=> IsPurchase(p)
             /\ p \in expected' <=> p \in expected
             /\ p \in clashed => p \in clashed',
         tillFaults' = tillFaults,
         x \in Positions => StoredAt(x)'
  PROVE  Stored'
<1> SUFFICES ASSUME NEW p \in Positions, p # x PROVE StoredAt(p)'
  BY DEF Stored
<1>1. StoredAt(p)
  BY DEF PurchasesIInv, Stored
<1> QED
  BY <1>1 DEF StoredAt

LEMMA TotalsArePositive == \A amount \in Totals : amount \in Nat /\ amount > 0
  BY PurchasesAssumption

LEMMA NothingTransferred == PurchasesIInv => 0 \notin transferred
  BY DEF PurchasesIInv, PurchasesTypeOK, Positions

\* No call is at a row that does not exist yet.
LEMMA RowsInserted ==
  ASSUME PurchasesIInv, NEW t \in Tills
  PROVE  /\ till[t].position \in 0 .. entries
         /\ NewRow(till[t]) => till[t].position \in 1 .. entries
         /\ till[t].pc \notin {"idle", "verified"} => till[t].position \in 1 .. entries
         /\ till[t].pc \notin {"idle", "verified"} => till[t].position \in Positions
         /\ till[t].pc # "idle" => till[t].cost \in Nat /\ till[t].cost > 0
<1>1. Shape(till[t]) /\ entries \in Nat /\ entries <= MaxEntries
  BY DEF PurchasesIInv, PurchasesTypeOK
<1>2. Closed.position = 0 /\ Closed.pc = "idle"
  BY DEF Closed
<1>3. till[t].pc \in {"idle", "verified", "editing", "replacing", "inserted", "told"}
  BY <1>1 DEF Shape, TillStates
<1>4. /\ till[t].position \in 0 .. entries
      /\ NewRow(till[t]) => till[t].position \in 1 .. entries
      /\ till[t].pc \notin {"idle", "verified"} => till[t].position \in 1 .. entries
  BY <1>1, <1>2, <1>3 DEF Shape, NewRow
<1>5. till[t].pc # "idle" => till[t].cost \in Nat /\ till[t].cost > 0
  <2>1. till[t].pc # "idle" => till[t].cost \in Totals
    BY <1>1 DEF Shape
  <2>2. \A cost \in Totals : cost \in Nat /\ cost > 0
    BY PurchasesAssumption
  <2> QED
    BY <2>1, <2>2
<1> QED
  BY <1>1, <1>4, <1>5 DEF Positions

\* An open or a closed call that is closed disturbs nobody.
LEMMA Closes ==
  ASSUME PurchasesIInv, NEW t \in Tills, Use(t, Closed),
         UNCHANGED <<buyer, book, clashed, entries>>,
         tillFaults' \in tillFaults .. MaxTillFaults,
         Replacing(till[t]) => tillFaults' > 0
  PROVE  PurchasesIInv'
<1>1. Closed \in TillStates /\ Closed.pc = "idle" /\ Closed.update = FALSE
      /\ Closed.position = 0
  BY DEF Closed, TillStates
<1>2. till \in [Tills -> TillStates] /\ entries \in 0 .. MaxEntries
  BY DEF PurchasesIInv, PurchasesTypeOK
<1>3. till' \in [Tills -> TillStates] /\ till'[t] = Closed
      /\ \A u \in Tills \ {t} : till'[u] = till[u]
  BY <1>1, <1>2 DEF Use
<1>4. Shape(till[t])'
  BY <1>1, <1>3 DEF Shape
<1>5. Expects(till[t])'
  BY <1>1, <1>3 DEF Expects, Paying, NewRow
<1>6. Rows(t)'
  BY <1>1, <1>3, NothingTransferred DEF Rows, NewRow, book
<1>7. \A u \in Tills \ {t} : NewRow(till[u]) => till[t].position' # till[u].position
  BY <1>1, <1>2, <1>3, RowsInserted
<1>8. entries' \in entries .. MaxEntries /\ UNCHANGED <<buyer, book, clashed>>
  BY <1>2
<1>9. Replacing(till[t]) =>
         tillFaults' > 0 \/ (Replacing(till[t])' /\ till[t].position' = till[t].position)
  OBVIOUS
<1> QED
  BY <1>3, <1>4, <1>5, <1>6, <1>7, <1>8, <1>9, Moved

-----------------------------------------------------------------------------
(* Steps that leave the ledger alone *)

LEMMA VerifyBalanceInv ==
  ASSUME PurchasesIInv, NEW t \in Tills, NEW cost \in Totals, VerifyBalance(t, cost)
  PROVE  PurchasesIInv'
<1> DEFINE next == [Closed EXCEPT !.pc = "verified", !.cost = cost]
<1> USE DEF VerifyBalance, buyer
<1>1. /\ next \in TillStates /\ next.pc = "verified" /\ next.cost = cost
      /\ ~next.update /\ ~next.sale /\ next.position = 0
  BY DEF Closed, TillStates
<1>2. till \in [Tills -> TillStates] /\ entries \in 0 .. MaxEntries
      /\ tillFaults \in 0 .. MaxTillFaults
  BY DEF PurchasesIInv, PurchasesTypeOK
<1>3. till' = [till EXCEPT ![t] = next]
  BY DEF Use
<1>4. ~ Replacing(till[t])
  BY DEF Unused, Closed, Replacing
<1> HIDE DEF next
<1>5. till' \in [Tills -> TillStates] /\ till'[t] = next
      /\ \A u \in Tills \ {t} : till'[u] = till[u]
  BY <1>1, <1>2, <1>3
<1>6. Shape(till[t])'
  BY <1>1, <1>5 DEF Shape
<1>7. Expects(till[t])'
  BY <1>1, <1>5 DEF Expects, NewRow, Funds, book
<1>8. Rows(t)'
  BY <1>1, <1>5, NothingTransferred DEF Rows, NewRow, book
<1>9. \A u \in Tills \ {t} : NewRow(till[u]) => till[t].position' # till[u].position
  BY <1>1, <1>2, <1>5, RowsInserted
<1>10. entries' \in entries .. MaxEntries /\ tillFaults' \in tillFaults .. MaxTillFaults
  BY <1>2
<1> QED
  BY <1>4, <1>5, <1>6, <1>7, <1>8, <1>9, <1>10, Moved

\* What a new row finds.
LEMMA EntryIsNew ==
  ASSUME PurchasesIInv, NewEntry
  PROVE  /\ entries + 1 \in Positions /\ entries \in Nat
         /\ ledger[entries + 1] = 0 /\ entries + 1 \notin expected
         /\ entries + 1 \notin transferred /\ 0 \notin transferred
         /\ \A p \in Positions : p >= entries + 1 => ledger[p] = 0
         /\ \A t \in Tills : till[t].position # entries + 1
         /\ entries' \in entries .. MaxEntries /\ entries' = entries + 1
<1>1. entries \in Nat /\ entries < MaxEntries /\ entries' = entries + 1
  BY DEF PurchasesIInv, PurchasesTypeOK, NewEntry
<1>2. entries + 1 \in Positions /\ \A p \in Positions : p >= entries + 1 => p > entries
  BY <1>1 DEF Positions
<1>3. \A t \in Tills : till[t].position # entries + 1
  BY <1>1, RowsInserted
<1> QED
  BY <1>1, <1>2, <1>3 DEF PurchasesIInv, Beyond, PurchasesTypeOK, Positions

LEMMA InsertPurchaseInv ==
  ASSUME PurchasesIInv, NEW t \in Tills, InsertPurchase(t)
  PROVE  PurchasesIInv'
<1> DEFINE next == [till[t] EXCEPT !.pc = "inserted", !.position = entries + 1]
<1> USE DEF InsertPurchase, buyer
<1>1. Shape(till[t]) /\ Expects(till[t]) /\ till[t] \in TillStates
      /\ till \in [Tills -> TillStates] /\ tillFaults \in 0 .. MaxTillFaults
  BY DEF PurchasesIInv, PurchasesTypeOK
<1>2. NewEntry
  OBVIOUS
<1>3. /\ next \in TillStates /\ next.pc = "inserted" /\ next.cost = till[t].cost
      /\ next.position = entries + 1 /\ next.update = till[t].update
      /\ next.sale = till[t].sale /\ next.met = till[t].met
  BY <1>1, <1>2, EntryIsNew DEF TillStates
<1>4. till' = [till EXCEPT ![t] = next]
  BY DEF Use
<1>5. ~ till[t].update /\ ~ till[t].sale /\ ~ Replacing(till[t]) /\ till[t].cost \in Totals
  BY <1>1 DEF Shape, Replacing
<1> HIDE DEF next
<1>6. till' \in [Tills -> TillStates] /\ till'[t] = next
      /\ \A u \in Tills \ {t} : till'[u] = till[u]
  BY <1>1, <1>3, <1>4
<1>7. Shape(till[t])'
  BY <1>2, <1>3, <1>5, <1>6, EntryIsNew DEF Shape
<1>8. Expects(till[t])'
  BY <1>1, <1>2, <1>3, <1>5, <1>6, EntryIsNew DEF Expects, Paying, NewRow, Funds, book
<1>9. Rows(t)'
  BY <1>2, <1>3, <1>5, <1>6, EntryIsNew DEF Rows, NewRow, book
<1>10. \A u \in Tills \ {t} : NewRow(till[u]) => till[t].position' # till[u].position
  BY <1>2, <1>3, <1>6, EntryIsNew
<1>11. entries' \in entries .. MaxEntries /\ tillFaults' \in tillFaults .. MaxTillFaults
  BY <1>1, <1>2, EntryIsNew
<1> QED
  BY <1>5, <1>6, <1>7, <1>8, <1>9, <1>10, <1>11, Moved

LEMMA InsertSaleInv ==
  ASSUME PurchasesIInv, NEW t \in Tills, NEW cost \in Totals, InsertSale(t, cost)
  PROVE  PurchasesIInv'
<1> DEFINE next == [Closed EXCEPT !.pc = "inserted", !.position = entries + 1,
                                  !.cost = cost, !.sale = TRUE]
<1> USE DEF InsertSale, buyer
<1>1. till \in [Tills -> TillStates] /\ tillFaults \in 0 .. MaxTillFaults
  BY DEF PurchasesIInv, PurchasesTypeOK
<1>2. NewEntry
  OBVIOUS
<1>3. /\ next \in TillStates /\ next.pc = "inserted" /\ next.cost = cost
      /\ next.position = entries + 1 /\ ~next.update /\ next.sale = TRUE
  BY <1>2, EntryIsNew DEF Closed, TillStates
<1>4. till' = [till EXCEPT ![t] = next]
  BY DEF Use
<1>5. ~ Replacing(till[t])
  BY DEF Unused, Closed, Replacing
<1> HIDE DEF next
<1>6. till' \in [Tills -> TillStates] /\ till'[t] = next
      /\ \A u \in Tills \ {t} : till'[u] = till[u]
  BY <1>1, <1>3, <1>4
<1>7. Shape(till[t])'
  BY <1>2, <1>3, <1>6, EntryIsNew DEF Shape
<1>8. Expects(till[t])'
  BY <1>3, <1>6 DEF Expects, Paying, NewRow
<1>9. Rows(t)'
  BY <1>2, <1>3, <1>6, EntryIsNew DEF Rows, NewRow, book
<1>10. \A u \in Tills \ {t} : NewRow(till[u]) => till[t].position' # till[u].position
  BY <1>2, <1>3, <1>6, EntryIsNew
<1>11. entries' \in entries .. MaxEntries /\ tillFaults' \in tillFaults .. MaxTillFaults
  BY <1>1, <1>2, EntryIsNew
<1> QED
  BY <1>5, <1>6, <1>7, <1>8, <1>9, <1>10, <1>11, Moved

LEMMA NoticeDebtInv ==
  ASSUME PurchasesIInv, NEW t \in Tills, NEW first \in Positions, NoticeDebt(t, first)
  PROVE  PurchasesIInv'
<1> DEFINE me == till[t]
           overtaken == \E p \in Positions \ transferred : p > me.position /\ ledger[p] # 0
           current == Funds - (IF overtaken THEN 0 ELSE me.cost)
           told == getsNotices /\ current < 0 /\ FundsBefore(first) >= 0
           blind == FundsBefore(first) # FundsBefore(me.position)
           next == [me EXCEPT !.pc = "told", !.told = told, !.blind = blind]
<1> USE DEF NoticeDebt, buyer
<1>1. Shape(till[t]) /\ Expects(till[t]) /\ Rows(t) /\ till[t] \in TillStates
      /\ till \in [Tills -> TillStates] /\ tillFaults \in 0 .. MaxTillFaults
      /\ entries \in 0 .. MaxEntries /\ ledger \in Ledgers
  BY DEF PurchasesIInv, PurchasesTypeOK, Ledgers
<1>2. me.pc = "inserted" /\ till' = [till EXCEPT ![t] = next]
  BY DEF Use
<1>3. me.position \in Positions /\ me.cost \in Nat /\ me.position \in 1 .. entries
      /\ me.cost \in Totals
  BY <1>1, <1>2, RowsInserted DEF Shape
<1>4. ASSUME NewRow(me), ~me.sale, ~me.met, Funds >= 0, Funds < me.cost
      PROVE  told \/ blind \/ ~getsNotices
  <2>1. \A p \in Positions : p >= me.position => ledger[p] = 0
    BY <1>1, <1>4 DEF Expects, Paying
  <2>2. FundsBefore(me.position) = Funds
    BY <1>1, <1>3, <2>1, RunningEnds DEF FundsBefore, Funds
  <2>3. ~ overtaken
    BY <1>3, <2>1 DEF Positions
  <2>4. Funds \in Int
    BY <1>1, RunningSteps DEF Funds, Upto
  <2> QED
    BY <1>3, <1>4, <2>2, <2>3, <2>4
<1>5. told \in BOOLEAN /\ blind \in BOOLEAN
  BY DEF PurchasesIInv, PurchasesTypeOK
<1> HIDE DEF told, blind
<1>6. /\ next \in TillStates /\ next.pc = "told" /\ next.cost = me.cost
      /\ next.position = me.position /\ next.update = me.update
      /\ next.sale = me.sale /\ next.met = me.met /\ next.told = told
      /\ next.blind = blind
  BY <1>1, <1>5 DEF TillStates
<1> HIDE DEF next
<1>7. till' \in [Tills -> TillStates] /\ till'[t] = next
      /\ \A u \in Tills \ {t} : till'[u] = till[u]
  BY <1>1, <1>2, <1>6
<1>8. Shape(till[t])'
  BY <1>1, <1>2, <1>3, <1>6, <1>7 DEF Shape
<1>9. Expects(till[t])'
  BY <1>1, <1>2, <1>4, <1>6, <1>7 DEF Expects, Paying, NewRow, Funds, book
<1>10. Rows(t)'
  BY <1>1, <1>2, <1>6, <1>7 DEF Rows, NewRow, book
<1>11. \A u \in Tills \ {t} : NewRow(till[u]) => till[t].position' # till[u].position
  BY <1>6, <1>7 DEF PurchasesIInv, Rows
<1>12. entries' \in entries .. MaxEntries /\ tillFaults' \in tillFaults .. MaxTillFaults
  BY <1>1
<1>13. Replacing(till[t]) => Replacing(till[t])' /\ till[t].position' = till[t].position
  BY <1>2, <1>6, <1>7 DEF Replacing
<1> QED
  BY <1>7, <1>8, <1>9, <1>10, <1>11, <1>12, <1>13, Moved

LEMMA BeginReplaceInv ==
  ASSUME PurchasesIInv, NEW t \in Tills, NEW p \in Positions, NEW cost \in Totals,
         BeginReplace(t, p, cost)
  PROVE  PurchasesIInv'
<1> DEFINE next == [Closed EXCEPT !.pc = "editing", !.position = p, !.cost = cost,
                                  !.update = TRUE]
<1> USE DEF BeginReplace, buyer
<1>1. till \in [Tills -> TillStates] /\ tillFaults \in 0 .. MaxTillFaults
      /\ entries \in 0 .. MaxEntries /\ ledger \in Ledgers
  BY DEF PurchasesIInv, PurchasesTypeOK, Ledgers
<1>2. /\ next \in TillStates /\ next.pc = "editing" /\ next.cost = cost
      /\ next.position = p /\ next.update = TRUE /\ ~next.sale
  BY DEF Closed, TillStates
<1>3. till' = [till EXCEPT ![t] = next]
  BY DEF Use
<1>4. ~ Replacing(till[t])
  BY DEF Unused, Closed, Replacing
<1> HIDE DEF next
<1>5. till' \in [Tills -> TillStates] /\ till'[t] = next
      /\ \A u \in Tills \ {t} : till'[u] = till[u]
  BY <1>1, <1>2, <1>3
<1>6. p \in 1 .. entries /\ p \notin transferred
  BY <1>1 DEF PurchasesIInv, Beyond, Positions, Ledgers, IsPurchase
<1>7. p \in expected \cup clashed \/ tillFaults > 0
  <2>1. StoredAt(p)
    BY DEF PurchasesIInv, Stored
  <2>2. \A u \in Tills : Rows(u)
    BY DEF PurchasesIInv
  <2> QED
    BY <2>1, <2>2 DEF StoredAt, Replacing, Rows
<1>8. Shape(till[t])'
  BY <1>2, <1>5, <1>6 DEF Shape
<1>9. Expects(till[t])'
  BY <1>2, <1>5 DEF Expects, Paying, NewRow
<1>10. Rows(t)'
  BY <1>2, <1>5, <1>6, <1>7 DEF Rows, NewRow, book
<1>11. \A u \in Tills \ {t} : NewRow(till[u]) => till[t].position' # till[u].position
  <2>1. \A u \in Tills : Rows(u)
    BY DEF PurchasesIInv
  <2>2. ledger[p] < 0
    BY DEF IsPurchase
  <2> QED
    BY <1>2, <1>5, <2>1, <2>2 DEF Rows
<1>12. entries' \in entries .. MaxEntries /\ tillFaults' \in tillFaults .. MaxTillFaults
  BY <1>1
<1> QED
  BY <1>4, <1>5, <1>8, <1>9, <1>10, <1>11, <1>12, Moved

LEMMA InsertNewInv ==
  ASSUME PurchasesIInv, NEW t \in Tills, InsertNew(t)
  PROVE  PurchasesIInv'
<1> DEFINE next == [till[t] EXCEPT !.pc = "inserted"]
<1> USE DEF InsertNew, buyer
<1>1. Shape(till[t]) /\ Rows(t) /\ till[t] \in TillStates
      /\ till \in [Tills -> TillStates] /\ tillFaults \in 0 .. MaxTillFaults
      /\ entries \in 0 .. MaxEntries
  BY DEF PurchasesIInv, PurchasesTypeOK
<1>2. /\ next \in TillStates /\ next.pc = "inserted" /\ next.cost = till[t].cost
      /\ next.position = till[t].position /\ next.update = till[t].update
      /\ next.sale = till[t].sale
  BY <1>1 DEF TillStates
<1>3. till' = [till EXCEPT ![t] = next]
  BY DEF Use
<1> HIDE DEF next
<1>4. till' \in [Tills -> TillStates] /\ till'[t] = next
      /\ \A u \in Tills \ {t} : till'[u] = till[u]
  BY <1>1, <1>2, <1>3
<1>5. till[t].update
  BY <1>1 DEF Shape
<1>6. Shape(till[t])'
  BY <1>1, <1>2, <1>4 DEF Shape
<1>7. Expects(till[t])'
  BY <1>2, <1>4, <1>5 DEF Expects, Paying, NewRow
<1>8. Rows(t)'
  BY <1>1, <1>2, <1>4, <1>5 DEF Rows, NewRow, book
<1>9. \A u \in Tills \ {t} : NewRow(till[u]) => till[t].position' # till[u].position
  BY <1>2, <1>4 DEF PurchasesIInv, Rows
<1>10. entries' \in entries .. MaxEntries /\ tillFaults' \in tillFaults .. MaxTillFaults
  BY <1>1
<1>11. Replacing(till[t])' /\ till[t].position' = till[t].position
  BY <1>2, <1>4, <1>5 DEF Replacing
<1> QED
  BY <1>4, <1>6, <1>7, <1>8, <1>9, <1>10, <1>11, Moved

LEMMA RollBackSaleInv ==
  ASSUME PurchasesIInv, NEW t \in Tills, RollBackSale(t)
  PROVE  PurchasesIInv'
<1>1. Shape(till[t]) /\ tillFaults \in 0 .. MaxTillFaults
  BY DEF PurchasesIInv, PurchasesTypeOK
<1>2. ~ Replacing(till[t])
  BY <1>1 DEF RollBackSale, Shape, Replacing
<1> QED
  BY <1>1, <1>2, Closes DEF RollBackSale

LEMMA RefuseUpdateInv ==
  ASSUME PurchasesIInv, NEW t \in Tills, RefuseUpdate(t)
  PROVE  PurchasesIInv'
<1>1. tillFaults \in 0 .. MaxTillFaults
  BY DEF PurchasesIInv, PurchasesTypeOK
<1>2. ~ Replacing(till[t])
  BY DEF RefuseUpdate, Replacing
<1> QED
  BY <1>1, <1>2, Closes DEF RefuseUpdate

LEMMA TillFailsInv ==
  ASSUME PurchasesIInv, NEW t \in Tills, TillFails(t)
  PROVE  PurchasesIInv'
<1>1. tillFaults' \in tillFaults .. MaxTillFaults /\ tillFaults' > 0
  BY DEF PurchasesIInv, PurchasesTypeOK, TillFails
<1> QED
  BY <1>1, Closes DEF TillFails

-----------------------------------------------------------------------------
(* Steps that write the ledger *)

LEMMA CommitPurchaseInv ==
  ASSUME PurchasesIInv, NEW t \in Tills, CommitPurchase(t)
  PROVE  PurchasesIInv'
<1> DEFINE me == till[t]
           rows == [ledger EXCEPT ![me.position] = - me.cost]
           over == me.met \/ me.update
<1> USE DEF CommitPurchase, buyer
<1>1. /\ Shape(me) /\ Expects(me) /\ Rows(t) /\ me \in TillStates
      /\ \A u \in Tills : Rows(u)
      /\ tillFaults \in 0 .. MaxTillFaults /\ entries \in 0 .. MaxEntries
      /\ ledger \in Ledgers /\ me.pc = "told" /\ ~ me.sale
  BY DEF PurchasesIInv, PurchasesTypeOK, Ledgers
<1>2. /\ me.position \in Positions /\ me.position \in 1 .. entries
      /\ me.cost \in Nat /\ me.cost > 0
  BY <1>1, RowsInserted
<1>3. /\ rows \in Ledgers /\ - me.cost \in Int /\ Funds \in Int
      /\ Running(rows)[MaxEntries] = Funds + (- me.cost) - ledger[me.position]
  <2>1. - me.cost \in Int
    BY <1>2
  <2>2. Funds \in Int
    BY <1>1, RunningSteps DEF Funds, Upto
  <2> QED
    BY <1>1, <1>2, <2>1, <2>2, RunningChanges DEF Funds
<1>4. /\ Write(rows, {t}, Closed, over, me.told, over \/ me.blind)
      /\ rows[me.position] = - me.cost
      /\ \A p \in Positions : p # me.position => rows[p] = ledger[p]
  BY <1>1, <1>2 DEF Ledgers
<1>5. Closed \in TillStates /\ Closed.pc = "idle" /\ ~Closed.update /\ Closed.position = 0
  BY DEF Closed, TillStates
<1> HIDE DEF rows
<1>6. /\ till' \in [Tills -> TillStates] /\ till'[t] = Closed
      /\ \A u \in Tills \ {t} :
            /\ Shape(till[u])' /\ Expects(till[u])'
            /\ till'[u].pc = till[u].pc /\ till'[u].update = till[u].update
            /\ till'[u].position = till[u].position
  <2>1. GoOn({t}, Closed) /\ entries' \in entries .. MaxEntries
    BY <1>1, <1>4 DEF Write, GoOn
  <2> QED
    BY <1>5, <2>1, Wrote
<1>7. /\ ledger' = rows /\ Funds' = Running(rows)[MaxEntries]
      /\ unchecked' = (Funds' < 0 /\ (unchecked \/ over))
      /\ noticed' = (Funds' < 0 /\ (noticed \/ me.told))
      /\ unnoticed' = (Funds' < 0 /\ (unnoticed \/ over \/ me.blind))
  BY <1>4 DEF Write, Funds
<1>8. DebtIsExplained'
  <2>1. CASE over
    BY <1>7, <2>1 DEF DebtIsExplained
  <2>2. CASE ~ over
    <3>1. NewRow(me) /\ Paying(me)
      BY <1>1, <2>2 DEF NewRow, Paying
    <3>2. Funds' = Funds - me.cost
      BY <1>1, <1>2, <1>3, <1>7, <3>1 DEF Rows
    <3>3. /\ canGoIntoDebt \/ Funds >= me.cost
          /\ Funds >= 0 /\ Funds < me.cost => me.told \/ me.blind \/ ~getsNotices
      BY <1>1, <2>2, <3>1 DEF Expects
    <3>4. ASSUME Funds' < 0 
          PROVE  canGoIntoDebt' /\ (me.told \/ me.blind \/ ~getsNotices \/ Funds < 0)
      BY <1>2, <1>3, <3>2, <3>3, <3>4
    <3>5. Funds < 0 => noticed \/ unnoticed \/ ~getsNotices
      BY DEF PurchasesIInv, DebtIsExplained
    <3> QED
      BY <1>7, <3>4, <3>5 DEF DebtIsExplained
  <2> QED
    BY <2>1, <2>2
<1>9. me.position \in expected' \/ me.position \in clashed \/ tillFaults > 0
  BY <1>1 DEF Rows
<1>10. PurchasesTypeOK'
  <2>1. /\ unchecked' \in BOOLEAN /\ noticed' \in BOOLEAN /\ unnoticed' \in BOOLEAN
    BY <1>7
  <2>2. paidByTerminal' \subseteq {p \in Positions : IsPurchase(p)'}
    BY <1>2, <1>4, <1>7 DEF PurchasesIInv, PurchasesTypeOK, IsPurchase
  <2>3. expected' \subseteq Positions
    BY <1>2 DEF PurchasesIInv, PurchasesTypeOK
  <2> QED
    BY <1>3, <1>6, <1>7, <2>1, <2>2, <2>3 DEF PurchasesIInv, PurchasesTypeOK, Ledgers
<1>11. paidByTerminal' \subseteq expected'
  BY DEF PurchasesIInv
<1>12. Beyond'
  <2> SUFFICES ASSUME NEW p \in Positions, p > entries
               PROVE  ledger'[p] = 0 /\ p \notin expected' /\ p \notin transferred'
    BY DEF Beyond
  <2>1. p # me.position
    BY <1>1, <1>2 DEF Positions
  <2> QED
    BY <1>4, <1>7, <2>1 DEF PurchasesIInv, Beyond
<1>13. Stored'
  <2>1. PICK q \in Positions : q = me.position
    BY <1>2
  <2>2. \A u \in Tills : Replacing(till[u]) /\ till[u].position # q =>
            Replacing(till[u])' /\ till[u].position' = till[u].position
    BY <1>6, <2>1 DEF Replacing
  <2>3. StoredAt(q)'
    <3>1. q \notin transferred /\ ledger'[q] = - me.cost /\ - me.cost < 0
      BY <1>1, <1>2, <1>4, <1>7, <2>1 DEF Rows
    <3>2. IsPurchase(q)'
      BY <3>1 DEF IsPurchase
    <3> QED
      BY <1>9, <2>1, <3>2 DEF StoredAt
  <2>4. \A p \in Positions \ {q} :
             /\ IsPurchase(p)' <=> IsPurchase(p)
             /\ p \in expected' <=> p \in expected
             /\ p \in clashed => p \in clashed'
    BY <1>4, <1>7, <2>1 DEF IsPurchase
  <2> QED
    BY <2>2, <2>3, <2>4, StillStored
<1>14. \A u \in Tills : Shape(till[u])' /\ Expects(till[u])'
  <2>1. Shape(till[t])' /\ Expects(till[t])'
    BY <1>5, <1>6 DEF Shape, Expects, Paying, NewRow
  <2> QED
    BY <1>6, <2>1
<1>15. ASSUME NEW u \in Tills PROVE Rows(u)'
  <2>1. CASE u = t
    BY <1>5, <1>6, <2>1, NothingTransferred DEF Rows, NewRow
  <2>2. CASE u # t
    <3>1. ASSUME NewRow(till[u])'
          PROVE  /\ till[u].position \in Positions /\ till[u].position # me.position
                 /\ ledger[till[u].position] = 0 /\ till[u].position \notin expected
                 /\ till[u].position # 0
                 /\ \A v \in Tills \ {u} : till[v].position # till[u].position
      <4>1. NewRow(till[u])
        BY <1>6, <2>2, <3>1 DEF NewRow
      <4> QED
        BY <1>1, <2>2, <4>1, RowsInserted DEF Rows, Positions
    <3>2. /\ till'[u].update => till[u].position \in expected \cup clashed \/ tillFaults > 0
          /\ till[u].position \notin transferred
      BY <1>1, <1>6, <2>2 DEF Rows
    <3> QED
      BY <1>4, <1>5, <1>6, <1>7, <2>2, <3>1, <3>2 DEF Rows
  <2> QED
    BY <2>1, <2>2
<1> QED
  BY <1>8, <1>10, <1>11, <1>12, <1>13, <1>14, <1>15 DEF PurchasesIInv

LEMMA CommitSaleInv ==
  ASSUME PurchasesIInv, NEW t \in Tills, CommitSale(t)
  PROVE  PurchasesIInv'
<1> DEFINE me == till[t]
           sold == [ledger EXCEPT ![me.position] = - me.cost]
           rows == [sold EXCEPT ![entries + 1] = me.cost]
<1> USE DEF CommitSale, buyer
<1>1. /\ Shape(me) /\ Rows(t) /\ me \in TillStates
      /\ \A u \in Tills : Rows(u)
      /\ tillFaults \in 0 .. MaxTillFaults /\ entries \in 0 .. MaxEntries
      /\ ledger \in Ledgers /\ me.pc = "told" /\ NewRow(me) /\ ~ me.update
  BY DEF PurchasesIInv, PurchasesTypeOK, Ledgers, Shape, NewRow
<1>2. /\ me.position \in Positions /\ me.position \in 1 .. entries
      /\ me.cost \in Nat /\ me.cost > 0
  BY <1>1, RowsInserted
<1>3. NewEntry
  OBVIOUS
<1>4. entries + 1 # me.position /\ ledger[me.position] = 0 /\ ledger[entries + 1] = 0
      /\ entries + 1 \in Positions /\ entries + 1 \notin expected
      /\ entries' = entries + 1 /\ entries' \in entries .. MaxEntries /\ entries \in Nat
  BY <1>1, <1>2, <1>3, EntryIsNew DEF Rows
<1>5. /\ rows = [ledger EXCEPT ![me.position] = - me.cost, ![entries + 1] = me.cost]
      /\ rows \in Ledgers /\ Funds \in Int
      /\ Running(rows)[MaxEntries] >= Funds
  <2>1. - me.cost \in Int /\ me.cost \in Int
    BY <1>2
  <2>2. Funds \in Int
    BY <1>1, RunningSteps DEF Funds, Upto
  <2>3. sold \in Ledgers /\ Running(sold)[MaxEntries] = Funds + (- me.cost) - 0
    BY <1>1, <1>2, <1>4, <2>1, RunningChanges DEF Funds
  <2>4. sold[entries + 1] = 0
    BY <1>1, <1>4 DEF Ledgers
  <2> HIDE DEF sold
  <2>5. rows \in Ledgers
        /\ Running(rows)[MaxEntries] = Running(sold)[MaxEntries] + me.cost - sold[entries + 1]
    BY <1>4, <2>1, <2>3, RunningChanges
  <2>6. Running(rows)[MaxEntries] >= Funds
    BY <1>2, <2>2, <2>3, <2>4, <2>5
  <2> QED
    BY <2>2, <2>5, <2>6 DEF sold
<1>6. /\ Write(rows, {t}, Closed, FALSE, FALSE, FALSE)
      /\ rows[me.position] = - me.cost /\ rows[entries + 1] = me.cost
      /\ \A p \in Positions : p # me.position /\ p # entries + 1 => rows[p] = ledger[p]
  BY <1>1, <1>2, <1>4, <1>5 DEF Ledgers
<1>7. Closed \in TillStates /\ Closed.pc = "idle" /\ ~Closed.update /\ Closed.position = 0
  BY DEF Closed, TillStates
<1> HIDE DEF rows, sold
<1>8. /\ till' \in [Tills -> TillStates] /\ till'[t] = Closed
      /\ \A u \in Tills \ {t} :
            /\ Shape(till[u])' /\ Expects(till[u])'
            /\ till'[u].pc = till[u].pc /\ till'[u].update = till[u].update
            /\ till'[u].position = till[u].position
  <2>1. GoOn({t}, Closed)
    BY <1>6 DEF Write, GoOn
  <2> QED
    BY <1>4, <1>7, <2>1, Wrote
<1>9. ledger' = rows
  BY <1>6 DEF Write
<1>17. /\ transferred' = transferred \cup {entries + 1}
       /\ me.position \notin transferred'
       /\ - me.cost < 0
  BY <1>1, <1>2, <1>4 DEF Rows
<1>18. ASSUME NEW p \in Positions, p = me.position PROVE IsPurchase(p)'
  BY <1>6, <1>9, <1>17, <1>18 DEF IsPurchase
<1>19. ASSUME NEW p \in Positions, p # me.position PROVE IsPurchase(p)' <=> IsPurchase(p)
  <2>1. CASE p = entries + 1
    BY <1>4, <1>17, <2>1 DEF IsPurchase
  <2>2. CASE p # entries + 1
    BY <1>6, <1>9, <1>17, <1>19, <2>2 DEF IsPurchase
  <2> QED
    BY <2>1, <2>2
<1>10. DebtIsExplained'
  BY <1>5, <1>6, BalanceRises, Zenon
<1>11. PurchasesTypeOK'
  <2>1. unchecked' \in BOOLEAN /\ noticed' \in BOOLEAN /\ unnoticed' \in BOOLEAN
    BY <1>6 DEF Write
  <2>2. paidByTerminal' \subseteq {p \in Positions : IsPurchase(p)'}
    <3>1. paidByTerminal' = paidByTerminal \cup {me.position}
      OBVIOUS
    <3>2. \A p \in paidByTerminal : p \in Positions /\ IsPurchase(p)
      BY DEF PurchasesIInv, PurchasesTypeOK
    <3> QED
      BY <1>2, <1>18, <1>19, <3>1, <3>2
  <2>3. expected' \subseteq Positions
    BY <1>2 DEF PurchasesIInv, PurchasesTypeOK
  <2>4. entries' \in 0 .. MaxEntries
    BY <1>4
  <2>5. transferred' \subseteq Positions
    BY <1>4, <1>17 DEF PurchasesIInv, PurchasesTypeOK
  <2>6. paying' \in [Positions -> 0 .. MaxEntries]
    <3>1. paying \in [Positions -> 0 .. MaxEntries] /\ me.position \in 0 .. MaxEntries
      BY <1>2 DEF PurchasesIInv, PurchasesTypeOK, Positions
    <3> QED
      BY <1>4, <3>1
  <2> QED
    BY <1>5, <1>8, <1>9, <2>1, <2>2, <2>3, <2>4, <2>5, <2>6 DEF PurchasesIInv,
       PurchasesTypeOK, Ledgers
<1>12. paidByTerminal' \subseteq expected'
  BY DEF PurchasesIInv
<1>13. Beyond'
  <2> SUFFICES ASSUME NEW p \in Positions, p > entries + 1
               PROVE  ledger'[p] = 0 /\ p \notin expected' /\ p \notin transferred'
    BY <1>4 DEF Beyond
  <2>1. p # me.position /\ p # entries + 1 /\ p > entries
    BY <1>2, <1>4 DEF Positions
  <2> QED
    BY <1>6, <1>9, <2>1 DEF PurchasesIInv, Beyond
<1>14. Stored'
  <2>1. PICK q \in Positions : q = me.position
    BY <1>2
  <2>2. \A u \in Tills : Replacing(till[u]) /\ till[u].position # q =>
            Replacing(till[u])' /\ till[u].position' = till[u].position
    BY <1>8, <2>1 DEF Replacing
  <2>3. StoredAt(q)'
    <3>1. q \in expected'
      BY <2>1
    <3> QED
      BY <1>18, <2>1, <3>1 DEF StoredAt
  <2>4. ASSUME NEW p \in Positions \ {q}
        PROVE  /\ IsPurchase(p)' <=> IsPurchase(p)
               /\ p \in expected' <=> p \in expected
               /\ p \in clashed => p \in clashed'
    BY <1>2, <1>4, <1>6, <1>9, <1>19, <2>1
  <2> QED
    BY <2>2, <2>3, <2>4, StillStored
<1>15. \A u \in Tills : Shape(till[u])' /\ Expects(till[u])'
  <2>1. Shape(till[t])' /\ Expects(till[t])'
    BY <1>7, <1>8 DEF Shape, Expects, Paying, NewRow
  <2> QED
    BY <1>8, <2>1
<1>16. ASSUME NEW u \in Tills PROVE Rows(u)'
  <2>1. CASE u = t
    BY <1>4, <1>7, <1>8, <2>1, NothingTransferred DEF Rows, NewRow
  <2>2. CASE u # t
    <3>1. ASSUME NewRow(till[u])'
          PROVE  /\ till[u].position \in Positions /\ till[u].position # me.position
                 /\ till[u].position # entries + 1
                 /\ ledger[till[u].position] = 0 /\ till[u].position \notin expected
                 /\ till[u].position # 0
                 /\ \A v \in Tills \ {u} : till[v].position # till[u].position
      <4>1. NewRow(till[u])
        BY <1>8, <2>2, <3>1 DEF NewRow
      <4> QED
        BY <1>1, <1>3, <2>2, <4>1, RowsInserted, EntryIsNew DEF Rows, Positions
    <3>2. /\ till'[u].update => till[u].position \in expected \cup clashed \/ tillFaults > 0
          /\ till[u].position \notin transferred
      BY <1>1, <1>8, <2>2 DEF Rows
    <3> QED
      <4>1. till[u].position \notin transferred'
        BY <1>3, <1>17, <3>2, EntryIsNew
      <4> QED
        BY <1>6, <1>7, <1>8, <1>9, <2>2, <3>1, <3>2, <4>1 DEF Rows
  <2> QED
    BY <2>1, <2>2
<1> QED
  BY <1>10, <1>11, <1>12, <1>13, <1>14, <1>15, <1>16 DEF PurchasesIInv

\* A purchase goes.
LEMMA PurchaseGoes ==
  ASSUME PurchasesIInv, NEW q \in Positions, IsPurchase(q)
  PROVE  LET rows == [ledger EXCEPT ![q] = 0]
         IN  /\ rows \in Ledgers /\ rows[q] = 0
             /\ Running(rows)[MaxEntries] >= Funds
             /\ \A p \in Positions : p # q => rows[p] = ledger[p]
             /\ q \in 1 .. entries
<1>1. ledger \in Ledgers /\ 0 \in Int /\ entries \in 0 .. MaxEntries
  BY DEF PurchasesIInv, PurchasesTypeOK, Ledgers
<1>2. Funds \in Int /\ ledger[q] \in Int /\ ledger[q] < 0
  BY <1>1, RunningSteps DEF Funds, Upto, Ledgers, IsPurchase
<1>3. /\ [ledger EXCEPT ![q] = 0] \in Ledgers
      /\ Running([ledger EXCEPT ![q] = 0])[MaxEntries] = Funds + 0 - ledger[q]
  BY <1>1, RunningChanges DEF Funds
<1>4. q \in 1 .. entries
  BY <1>1, <1>2 DEF PurchasesIInv, Beyond, Positions
<1> QED
  BY <1>1, <1>2, <1>3, <1>4 DEF Ledgers

LEMMA DeleteOldInv ==
  ASSUME PurchasesIInv, NEW t \in Tills, DeleteOld(t)
  PROVE  PurchasesIInv'
<1> DEFINE me == till[t]
           rows == [ledger EXCEPT ![me.position] = 0]
           next == [me EXCEPT !.pc = "replacing"]
<1> USE DEF DeleteOld, buyer
<1>1. /\ Shape(me) /\ Rows(t) /\ me \in TillStates /\ me.pc = "editing"
      /\ \A u \in Tills : Rows(u)
      /\ tillFaults \in 0 .. MaxTillFaults /\ entries \in 0 .. MaxEntries
      /\ IsPurchase(me.position) /\ me.position \notin paidByTerminal
  BY DEF PurchasesIInv, PurchasesTypeOK
<1>2. /\ me.position \in Positions /\ me.position \in 1 .. entries
      /\ me.update /\ ~ me.sale /\ me.cost \in Totals
  BY <1>1, RowsInserted DEF Shape
<1>3. /\ rows \in Ledgers /\ rows[me.position] = 0
      /\ Running(rows)[MaxEntries] >= Funds
      /\ \A p \in Positions : p # me.position => rows[p] = ledger[p]
  BY <1>1, <1>2, PurchaseGoes
<1>4. /\ next \in TillStates /\ next.pc = "replacing" /\ next.update
      /\ next.position = me.position /\ ~ next.sale /\ next.cost \in Totals
  BY <1>1, <1>2 DEF TillStates
<1>5. Write(rows, {t}, next, FALSE, FALSE, FALSE)
  OBVIOUS
<1>6. entries' \in entries .. MaxEntries
  BY <1>1
<1> HIDE DEF rows, next
<1>7. /\ till' \in [Tills -> TillStates] /\ till'[t] = next
      /\ \A u \in Tills \ {t} :
            /\ Shape(till[u])' /\ Expects(till[u])'
            /\ till'[u].pc = till[u].pc /\ till'[u].update = till[u].update
            /\ till'[u].position = till[u].position
  <2>1. GoOn({t}, next)
    BY <1>5 DEF Write, GoOn
  <2> QED
    BY <1>4, <1>6, <2>1, Wrote
<1>8. ledger' = rows
  BY <1>5 DEF Write
<1>9. DebtIsExplained'
  BY <1>3, <1>5, BalanceRises
<1>10. PurchasesTypeOK'
  <2>1. unchecked' \in BOOLEAN /\ noticed' \in BOOLEAN /\ unnoticed' \in BOOLEAN
    BY <1>5 DEF Write
  <2>2. paidByTerminal' \subseteq {p \in Positions : IsPurchase(p)'}
    BY <1>1, <1>3, <1>8 DEF PurchasesIInv, PurchasesTypeOK, IsPurchase
  <2> QED
    BY <1>3, <1>7, <1>8, <2>1, <2>2 DEF PurchasesIInv, PurchasesTypeOK, Ledgers
<1>11. paidByTerminal' \subseteq expected'
  BY DEF PurchasesIInv
<1>12. Beyond'
  BY <1>3, <1>8 DEF PurchasesIInv, Beyond
<1>13. Stored'
  <2>1. PICK q \in Positions : q = me.position
    BY <1>2
  <2>2. \A u \in Tills : Replacing(till[u]) /\ till[u].position # q =>
            Replacing(till[u])' /\ till[u].position' = till[u].position
    BY <1>7, <2>1 DEF Replacing
  <2>3. StoredAt(q)'
    BY <1>4, <1>7, <2>1 DEF StoredAt, IsPurchase, Replacing
  <2>4. \A p \in Positions \ {q} :
             /\ IsPurchase(p)' <=> IsPurchase(p)
             /\ p \in expected' <=> p \in expected
             /\ p \in clashed => p \in clashed'
    BY <1>3, <1>8, <2>1 DEF IsPurchase
  <2> QED
    BY <2>2, <2>3, <2>4, StillStored
<1>14. \A u \in Tills : Shape(till[u])' /\ Expects(till[u])'
  <2>1. Shape(till[t])'
    BY <1>2, <1>4, <1>7 DEF Shape
  <2>2. Expects(till[t])'
    BY <1>4, <1>7 DEF Expects, Paying, NewRow
  <2> QED
    BY <1>7, <2>1, <2>2
<1>15. ASSUME NEW u \in Tills PROVE Rows(u)'
  <2>1. CASE u = t
    BY <1>1, <1>2, <1>4, <1>7, <2>1 DEF Rows, NewRow
  <2>2. CASE u # t
    <3>1. ASSUME NewRow(till[u])'
          PROVE  /\ till[u].position \in Positions /\ till[u].position # me.position
                 /\ ledger[till[u].position] = 0 /\ till[u].position \notin expected
                 /\ \A v \in Tills \ {u} : till[v].position # till[u].position
      <4>1. NewRow(till[u])
        BY <1>7, <2>2, <3>1 DEF NewRow
      <4> QED
        BY <1>1, <2>2, <4>1, RowsInserted DEF Rows, Positions
    <3>2. /\ till'[u].update => till[u].position \in expected \cup clashed \/ tillFaults > 0
          /\ till[u].position \notin transferred
      BY <1>1, <1>7, <2>2 DEF Rows
    <3> QED
      BY <1>3, <1>4, <1>7, <1>8, <2>2, <3>1, <3>2 DEF Rows
  <2> QED
    BY <2>1, <2>2
<1> QED
  BY <1>9, <1>10, <1>11, <1>12, <1>13, <1>14, <1>15 DEF PurchasesIInv

LEMMA DeletePurchaseInv ==
  ASSUME PurchasesIInv, NEW q \in Positions, DeletePurchase(q)
  PROVE  PurchasesIInv'
<1> DEFINE rows == [ledger EXCEPT ![q] = 0]
<1> USE DEF DeletePurchase, buyer
<1>1. /\ \A u \in Tills : Rows(u) /\ Shape(till[u])
      /\ tillFaults \in 0 .. MaxTillFaults /\ entries \in 0 .. MaxEntries
      /\ IsPurchase(q) /\ q \notin paidByTerminal
  BY DEF PurchasesIInv, PurchasesTypeOK
<1>2. /\ rows \in Ledgers /\ rows[q] = 0
      /\ Running(rows)[MaxEntries] >= Funds
      /\ \A p \in Positions : p # q => rows[p] = ledger[p]
      /\ q \in 1 .. entries
  BY <1>1, PurchaseGoes
<1>3. Write(rows, {}, Closed, FALSE, FALSE, FALSE)
  OBVIOUS
<1> HIDE DEF rows
<1>4. /\ till' \in [Tills -> TillStates]
      /\ \A u \in Tills :
            /\ Shape(till[u])' /\ Expects(till[u])'
            /\ till'[u].pc = till[u].pc /\ till'[u].update = till[u].update
            /\ till'[u].position = till[u].position
  <2>1. GoOn({}, Closed)
    BY <1>3 DEF Write, GoOn
  <2>2. Closed \in TillStates /\ entries' \in entries .. MaxEntries
    BY <1>1 DEF Closed, TillStates
  <2> QED
    BY <2>1, <2>2, Wrote
<1>5. ledger' = rows
  BY <1>3 DEF Write
<1>6. DebtIsExplained'
  BY <1>2, <1>3, BalanceRises
<1>7. clashed \subseteq clashed' /\ clashed' \subseteq Positions
  BY DEF PurchasesIInv, PurchasesTypeOK
<1>8. \A u \in Tills : till[u].position = q => q \in clashed'
  OBVIOUS
<1>9. PurchasesTypeOK'
  <2>1. unchecked' \in BOOLEAN /\ noticed' \in BOOLEAN /\ unnoticed' \in BOOLEAN
    BY <1>3 DEF Write
  <2>2. paidByTerminal' \subseteq {p \in Positions : IsPurchase(p)'}
    BY <1>1, <1>2, <1>5 DEF PurchasesIInv, PurchasesTypeOK, IsPurchase
  <2>3. expected' \subseteq Positions
    BY DEF PurchasesIInv, PurchasesTypeOK
  <2> QED
    BY <1>2, <1>4, <1>5, <1>7, <2>1, <2>2, <2>3 DEF PurchasesIInv, PurchasesTypeOK,
       Ledgers
<1>10. paidByTerminal' \subseteq expected'
  BY <1>1 DEF PurchasesIInv
<1>11. Beyond'
  BY <1>2, <1>5 DEF PurchasesIInv, Beyond
<1>12. Stored'
  <2>1. \A u \in Tills : Replacing(till[u]) /\ till[u].position # q =>
            Replacing(till[u])' /\ till[u].position' = till[u].position
    BY <1>4 DEF Replacing
  <2>2. StoredAt(q)'
    BY <1>2, <1>5 DEF StoredAt, IsPurchase
  <2>3. \A p \in Positions \ {q} :
             /\ IsPurchase(p)' <=> IsPurchase(p)
             /\ p \in expected' <=> p \in expected
             /\ p \in clashed => p \in clashed'
    BY <1>2, <1>5, <1>7 DEF IsPurchase
  <2> QED
    BY <2>1, <2>2, <2>3, StillStored
<1>13. ASSUME NEW u \in Tills PROVE Rows(u)'
  <2>1. ASSUME NewRow(till[u])'
        PROVE  /\ till[u].position \in Positions /\ till[u].position # q
               /\ ledger[till[u].position] = 0 /\ till[u].position \notin expected
               /\ \A v \in Tills \ {u} : till[v].position # till[u].position
    <3>1. NewRow(till[u])
      BY <1>4, <2>1 DEF NewRow
    <3> QED
      BY <1>1, <3>1, RowsInserted DEF Rows, Positions, IsPurchase
  <2>2. /\ till'[u].update =>
              till[u].position \in expected' \cup clashed' \/ tillFaults > 0
        /\ till[u].position \notin transferred
    BY <1>1, <1>4, <1>7, <1>8 DEF Rows
  <2> QED
    BY <1>2, <1>4, <1>5, <2>1, <2>2 DEF Rows
<1> QED
  BY <1>4, <1>6, <1>9, <1>10, <1>11, <1>12, <1>13 DEF PurchasesIInv

\* A row that is no purchase is added; what lowers the balance is excused.
LEMMA EntryAdded ==
  ASSUME PurchasesIInv, NewEntry, NEW amount \in Int, NEW over \in BOOLEAN,
         Write([ledger EXCEPT ![entries + 1] = amount], {}, Closed, over, FALSE, over),
         transferred' = transferred \/ transferred' = transferred \cup {entries + 1},
         amount > 0 \/ (over /\ entries + 1 \in transferred'),
         UNCHANGED <<buyer, paying, paidByTerminal, expected, clashed, tillFaults>>
  PROVE  PurchasesIInv'
<1> DEFINE q == entries + 1
           rows == [ledger EXCEPT ![q] = amount]
<1> USE DEF buyer
<1>1. /\ \A u \in Tills : Rows(u) /\ Shape(till[u])
      /\ tillFaults \in 0 .. MaxTillFaults /\ entries \in 0 .. MaxEntries
      /\ ledger \in Ledgers /\ NewEntry
  BY DEF PurchasesIInv, PurchasesTypeOK, Ledgers
<1>2. /\ q \in Positions /\ ledger[q] = 0 /\ q \notin expected /\ q \notin transferred
      /\ transferred' = transferred \/ transferred' = transferred \cup {q}
      /\ amount > 0 \/ (over /\ q \in transferred')
      /\ entries' = q /\ entries' \in entries .. MaxEntries /\ entries' \in 0 .. MaxEntries
      /\ \A u \in Tills : till[u].position # q
      /\ \A p \in Positions : p > q => p > entries
  BY <1>1, EntryIsNew DEF Positions
<1>4. Write(rows, {}, Closed, over, FALSE, over)
  OBVIOUS
<1> HIDE DEF q
<1>5. /\ rows \in Ledgers /\ rows[q] = amount
      /\ \A p \in Positions : p # q => rows[p] = ledger[p]
      /\ amount > 0 => Running(rows)[MaxEntries] >= Funds
  <2>1. Funds \in Int
    BY <1>1, RunningSteps DEF Funds, Upto
  <2>2. rows \in Ledgers /\ Running(rows)[MaxEntries] = Funds + amount - ledger[q]
    BY <1>1, <1>2, RunningChanges DEF Funds
  <2> QED
    BY <1>1, <1>2, <2>1, <2>2 DEF Ledgers
<1> HIDE DEF rows
<1>6. /\ till' \in [Tills -> TillStates]
      /\ \A u \in Tills :
            /\ Shape(till[u])' /\ Expects(till[u])'
            /\ till'[u].pc = till[u].pc /\ till'[u].update = till[u].update
            /\ till'[u].position = till[u].position
  <2>1. GoOn({}, Closed)
    BY <1>4 DEF Write, GoOn
  <2>2. Closed \in TillStates
    BY DEF Closed, TillStates
  <2> QED
    BY <1>2, <2>1, <2>2, Wrote
<1>7. ledger' = rows
  BY <1>4 DEF Write
<1>14. ASSUME NEW p \in Positions, p = q PROVE ~ IsPurchase(p)' /\ ~ IsPurchase(p)
  <2>1. ledger'[p] = amount /\ ledger[p] = 0
    BY <1>2, <1>5, <1>7, <1>14
  <2>2. CASE amount > 0
    <3>1. ~ (ledger'[p] < 0) /\ ~ (ledger[p] < 0)
      BY <2>1, <2>2
    <3> QED
      BY <3>1 DEF IsPurchase
  <2>3. CASE ~ (amount > 0)
    <3>1. p \in transferred' /\ ~ (ledger[p] < 0)
      BY <1>2, <1>14, <2>1, <2>3
    <3> QED
      BY <3>1 DEF IsPurchase
  <2> QED
    BY <2>2, <2>3
<1>8. DebtIsExplained'
  <2>1. CASE over
    <3>1. Funds' < 0 => unchecked' /\ unnoticed'
      BY <1>4, <2>1 DEF Write, Funds
    <3> QED
      BY <3>1 DEF DebtIsExplained
  <2>2. CASE ~ over
    <3>1. over = FALSE /\ amount > 0
      BY <2>2
    <3>2. Write(rows, {}, Closed, FALSE, FALSE, FALSE)
      BY <1>4, <3>1
    <3> QED
      BY <1>5, <3>1, <3>2, BalanceRises
  <2> QED
    BY <2>1, <2>2
<1>9. PurchasesTypeOK'
  <2>1. unchecked' \in BOOLEAN /\ noticed' \in BOOLEAN /\ unnoticed' \in BOOLEAN
    BY <1>4 DEF Write
  <2>2. paidByTerminal' \subseteq {p \in Positions : IsPurchase(p)'}
    BY <1>2, <1>5, <1>7 DEF PurchasesIInv, PurchasesTypeOK, IsPurchase
  <2> QED
    BY <1>2, <1>5, <1>6, <1>7, <2>1, <2>2 DEF PurchasesIInv, PurchasesTypeOK, Ledgers
<1>10. paidByTerminal' \subseteq expected'
  BY DEF PurchasesIInv
<1>11. Beyond'
  <2> SUFFICES ASSUME NEW p \in Positions, p > q
               PROVE  ledger'[p] = 0 /\ p \notin expected' /\ p \notin transferred'
    BY <1>2 DEF Beyond
  <2>1. p # q /\ p > entries
    BY <1>2 DEF Positions
  <2>2. p \notin transferred'
    BY <1>2, <2>1 DEF PurchasesIInv, Beyond
  <2> QED
    BY <1>5, <1>7, <2>1, <2>2 DEF PurchasesIInv, Beyond
<1>12. Stored'
  <2>1. PICK x \in Positions : x = q
    BY <1>2
  <2>2. \A u \in Tills : Replacing(till[u]) /\ till[u].position # x =>
            Replacing(till[u])' /\ till[u].position' = till[u].position
    BY <1>6 DEF Replacing
  <2>3. StoredAt(x)'
    BY <1>2, <1>5, <1>7, <1>14, <2>1 DEF StoredAt, IsPurchase
  <2>4. \A p \in Positions \ {x} :
             /\ IsPurchase(p)' <=> IsPurchase(p)
             /\ p \in expected' <=> p \in expected
             /\ p \in clashed => p \in clashed'
    BY <1>2, <1>5, <1>7, <2>1 DEF IsPurchase
  <2> QED
    BY <2>2, <2>3, <2>4, StillStored
<1>13. ASSUME NEW u \in Tills PROVE Rows(u)'
  <2>1. ASSUME NewRow(till[u])'
        PROVE  /\ till[u].position \in Positions /\ till[u].position # q
               /\ ledger[till[u].position] = 0 /\ till[u].position \notin expected
               /\ \A v \in Tills \ {u} : till[v].position # till[u].position
    <3>1. NewRow(till[u])
      BY <1>6, <2>1 DEF NewRow
    <3> QED
      BY <1>1, <1>2, <3>1, RowsInserted DEF Rows, Positions
  <2>2. /\ till'[u].update => till[u].position \in expected \cup clashed \/ tillFaults > 0
        /\ till[u].position \notin transferred'
    BY <1>1, <1>2, <1>6 DEF Rows
  <2> QED
    BY <1>5, <1>6, <1>7, <2>1, <2>2 DEF Rows
<1> QED
  BY <1>6, <1>8, <1>9, <1>10, <1>11, <1>12, <1>13 DEF PurchasesIInv

LEMMA DepositInv ==
  ASSUME PurchasesIInv, NEW amount \in Totals, Deposit(amount)
  PROVE  PurchasesIInv'
<1>1. amount \in Int /\ amount > 0
  BY TotalsArePositive
<1> QED
  BY <1>1, EntryAdded DEF Deposit

LEMMA SellInv ==
  ASSUME PurchasesIInv, NEW amount \in Totals, Sell(amount)
  PROVE  PurchasesIInv'
<1>1. amount \in Int /\ amount > 0
  BY TotalsArePositive
<1> QED
  BY <1>1, EntryAdded DEF Sell

LEMMA DebitInv ==
  ASSUME PurchasesIInv, NEW amount \in Totals, Debit(amount)
  PROVE  PurchasesIInv'
<1>1. - amount \in Int
  BY TotalsArePositive
<1> QED
  BY <1>1, EntryAdded DEF Debit

\* What other rows do to the calls and to the purchases when they go: nothing.
LEMMA RemoveEntryInv ==
  ASSUME PurchasesIInv, NEW q \in Positions, RemoveEntry(q)
  PROVE  PurchasesIInv'
<1> DEFINE rows == [ledger EXCEPT ![q] = 0]
           over == ledger[q] > 0
<1> USE DEF RemoveEntry, buyer
<1>1. /\ \A u \in Tills : Rows(u) /\ Shape(till[u])
      /\ tillFaults \in 0 .. MaxTillFaults /\ entries \in 0 .. MaxEntries
      /\ ledger \in Ledgers /\ ledger[q] # 0 /\ ~IsPurchase(q)
  BY DEF PurchasesIInv, PurchasesTypeOK, Ledgers
<1>2. /\ rows \in Ledgers /\ rows[q] = 0
      /\ \A p \in Positions : p # q => rows[p] = ledger[p]
      /\ ~over => Running(rows)[MaxEntries] >= Funds
  <2>1. Funds \in Int /\ ledger[q] \in Int /\ 0 \in Int
    BY <1>1, RunningSteps DEF Funds, Upto, Ledgers
  <2>2. rows \in Ledgers /\ Running(rows)[MaxEntries] = Funds + 0 - ledger[q]
    BY <1>1, <2>1, RunningChanges DEF Funds
  <2>3. ~over => Running(rows)[MaxEntries] >= Funds
    <3>1. ~over => ~ (ledger[q] > 0)
      OBVIOUS
    <3> HIDE DEF over, rows
    <3> QED
      BY <2>1, <2>2, <3>1
  <2>4. rows[q] = 0 /\ \A p \in Positions : p # q => rows[p] = ledger[p]
    BY <1>1 DEF Ledgers
  <2> QED
    BY <2>2, <2>3, <2>4
<1>3. Write(rows, {}, Closed, over, FALSE, over) /\ over \in BOOLEAN
  <2>1. Write(rows, {}, Closed, over, FALSE, over)
    BY Zenon
  <2>2. over \in BOOLEAN
    OBVIOUS
  <2> QED
    BY <2>1, <2>2
<1> HIDE DEF rows, over
<1>4. /\ till' \in [Tills -> TillStates]
      /\ \A u \in Tills :
            /\ Shape(till[u])' /\ Expects(till[u])'
            /\ till'[u].pc = till[u].pc /\ till'[u].update = till[u].update
            /\ till'[u].position = till[u].position
  <2>1. GoOn({}, Closed)
    BY <1>3 DEF Write, GoOn
  <2>2. Closed \in TillStates /\ entries' \in entries .. MaxEntries
    BY <1>1 DEF Closed, TillStates
  <2> QED
    BY <2>1, <2>2, Wrote
<1>5. ledger' = rows
  BY <1>3 DEF Write
<1>6. DebtIsExplained'
  <2>1. CASE over
    <3>1. Funds' < 0 => unchecked' /\ unnoticed'
      BY <1>3, <2>1 DEF Write, Funds
    <3> QED
      BY <3>1 DEF DebtIsExplained
  <2>2. CASE ~ over
    <3>1. Write(rows, {}, Closed, FALSE, FALSE, FALSE)
      BY <1>3, <2>2
    <3> QED
      BY <1>2, <2>2, <3>1, BalanceRises
  <2> QED
    BY <2>1, <2>2
<1>7. \A p \in Positions : IsPurchase(p)' <=> IsPurchase(p)
  BY <1>1, <1>2, <1>5 DEF IsPurchase
<1>8. PurchasesTypeOK'
  <2>1. unchecked' \in BOOLEAN /\ noticed' \in BOOLEAN /\ unnoticed' \in BOOLEAN
    BY <1>3 DEF Write
  <2>2. paidByTerminal' \subseteq {p \in Positions : IsPurchase(p)'}
    BY <1>7 DEF PurchasesIInv, PurchasesTypeOK, IsPurchase
  <2> QED
    BY <1>2, <1>4, <1>5, <2>1, <2>2 DEF PurchasesIInv, PurchasesTypeOK, Ledgers
<1>9. paidByTerminal' \subseteq expected'
  BY DEF PurchasesIInv
<1>10. Beyond'
  BY <1>2, <1>5 DEF PurchasesIInv, Beyond
<1>11. Stored'
  <2>1. \A u \in Tills : Replacing(till[u]) /\ till[u].position # 0 =>
            Replacing(till[u])' /\ till[u].position' = till[u].position
    BY <1>4 DEF Replacing
  <2>2. 0 \notin Positions
    BY DEF Positions
  <2> QED
    BY <1>7, <2>1, <2>2, StillStored
<1>12. ASSUME NEW u \in Tills PROVE Rows(u)'
  <2>1. ASSUME NewRow(till[u])'
        PROVE  /\ till[u].position \in Positions
               /\ ledger[till[u].position] = 0 /\ till[u].position \notin expected
               /\ \A v \in Tills \ {u} : till[v].position # till[u].position
    <3>1. NewRow(till[u])
      BY <1>4, <2>1 DEF NewRow
    <3> QED
      BY <1>1, <3>1, RowsInserted DEF Rows, Positions
  <2>2. /\ till'[u].update => till[u].position \in expected \cup clashed \/ tillFaults > 0
        /\ till[u].position \notin transferred
    BY <1>1, <1>4 DEF Rows
  <2> QED
    BY <1>2, <1>4, <1>5, <2>1, <2>2 DEF Rows
<1> QED
  BY <1>4, <1>6, <1>8, <1>9, <1>10, <1>11, <1>12 DEF PurchasesIInv

\* A change of the right to debt is known to the calls that relied on it.
LEMMA ChangeUserInv ==
  ASSUME PurchasesIInv, NEW debt \in BOOLEAN, ChangeUser(debt)
  PROVE  PurchasesIInv'
<1> USE DEF ChangeUser
<1>1. /\ \A u \in Tills : Rows(u) /\ Shape(till[u])
      /\ tillFaults \in 0 .. MaxTillFaults /\ entries \in 0 .. MaxEntries
      /\ unnoticed \in BOOLEAN /\ noticed \in BOOLEAN
  BY DEF PurchasesIInv, PurchasesTypeOK
<1>2. Write(ledger, {}, Closed, TRUE, FALSE, FALSE)
  OBVIOUS
<1>3. /\ till' \in [Tills -> TillStates]
      /\ \A u \in Tills :
            /\ Shape(till[u])' /\ Expects(till[u])'
            /\ till'[u].pc = till[u].pc /\ till'[u].update = till[u].update
            /\ till'[u].position = till[u].position
  <2>1. GoOn({}, Closed)
    BY <1>2 DEF Write, GoOn
  <2>2. Closed \in TillStates /\ entries' \in entries .. MaxEntries
    BY <1>1 DEF Closed, TillStates
  <2> QED
    BY <2>1, <2>2, Wrote
<1>4. ledger' = ledger /\ Funds' = Funds
  BY <1>2 DEF Write, Funds
<1>5. DebtIsExplained'
  <2>1. Funds' < 0 => unchecked' /\ noticed' = noticed /\ unnoticed' = unnoticed
    BY <1>1, <1>2 DEF Write, Funds
  <2> QED
    BY <1>4, <2>1 DEF PurchasesIInv, DebtIsExplained
<1>6. \A p \in Positions : IsPurchase(p)' <=> IsPurchase(p)
  BY <1>4 DEF IsPurchase
<1>7. PurchasesTypeOK'
  <2>1. unchecked' \in BOOLEAN /\ noticed' \in BOOLEAN /\ unnoticed' \in BOOLEAN
    BY <1>2 DEF Write
  <2> QED
    BY <1>3, <1>4, <1>6, <2>1 DEF PurchasesIInv, PurchasesTypeOK
<1>8. paidByTerminal' \subseteq expected' /\ Beyond'
  BY <1>4 DEF PurchasesIInv, Beyond
<1>9. Stored'
  <2>1. \A u \in Tills : Replacing(till[u]) /\ till[u].position # 0 =>
            Replacing(till[u])' /\ till[u].position' = till[u].position
    BY <1>3 DEF Replacing
  <2>2. 0 \notin Positions
    BY DEF Positions
  <2> QED
    BY <1>6, <2>1, <2>2, StillStored
<1>10. ASSUME NEW u \in Tills PROVE Rows(u)'
  BY <1>1, <1>3, <1>4 DEF Rows, NewRow
<1> QED
  BY <1>3, <1>5, <1>7, <1>8, <1>9, <1>10 DEF PurchasesIInv

-----------------------------------------------------------------------------
(* The invariant and what follows from it *)

LEMMA PurchasesNextInv == PurchasesIInv /\ [PurchasesNext]_purchasesVars => PurchasesIInv'
<1> SUFFICES ASSUME PurchasesIInv, [PurchasesNext]_purchasesVars PROVE PurchasesIInv'
  OBVIOUS
<1>1. ASSUME NEW t \in Tills, InsertPurchase(t) PROVE PurchasesIInv'
  BY <1>1, InsertPurchaseInv
<1>2. ASSUME NEW t \in Tills, NEW first \in Positions, NoticeDebt(t, first) PROVE PurchasesIInv'
  BY <1>2, NoticeDebtInv
<1>3. ASSUME NEW t \in Tills, CommitPurchase(t) PROVE PurchasesIInv'
  BY <1>3, CommitPurchaseInv
<1>4. ASSUME NEW t \in Tills, CommitSale(t) PROVE PurchasesIInv'
  BY <1>4, CommitSaleInv
<1>5. ASSUME NEW t \in Tills, RollBackSale(t) PROVE PurchasesIInv'
  BY <1>5, RollBackSaleInv
<1>6. ASSUME NEW t \in Tills, DeleteOld(t) PROVE PurchasesIInv'
  BY <1>6, DeleteOldInv
<1>7. ASSUME NEW t \in Tills, RefuseUpdate(t) PROVE PurchasesIInv'
  BY <1>7, RefuseUpdateInv
<1>8. ASSUME NEW t \in Tills, InsertNew(t) PROVE PurchasesIInv'
  BY <1>8, InsertNewInv
<1>9. ASSUME NEW t \in Tills, TillFails(t) PROVE PurchasesIInv'
  BY <1>9, TillFailsInv
<1>10. ASSUME NEW t \in Tills, NEW cost \in Totals, VerifyBalance(t, cost) PROVE PurchasesIInv'
  BY <1>10, VerifyBalanceInv
<1>11. ASSUME NEW t \in Tills, NEW cost \in Totals, InsertSale(t, cost) PROVE PurchasesIInv'
  BY <1>11, InsertSaleInv
<1>12. ASSUME NEW t \in Tills, NEW cost \in Totals, NEW p \in Positions,
              BeginReplace(t, p, cost)
       PROVE  PurchasesIInv'
  BY <1>12, BeginReplaceInv
<1>13. ASSUME NEW p \in Positions, DeletePurchase(p) PROVE PurchasesIInv'
  BY <1>13, DeletePurchaseInv
<1>14. ASSUME NEW amount \in Totals, Deposit(amount) PROVE PurchasesIInv'
  BY <1>14, DepositInv
<1>16. ASSUME NEW amount \in Totals, Sell(amount) PROVE PurchasesIInv'
  BY <1>16, SellInv
<1>17. ASSUME NEW amount \in Totals, Debit(amount) PROVE PurchasesIInv'
  BY <1>17, DebitInv
<1>18. ASSUME NEW p \in Positions, RemoveEntry(p) PROVE PurchasesIInv'
  BY <1>18, RemoveEntryInv
<1>19. ASSUME NEW debt \in BOOLEAN, ChangeUser(debt) PROVE PurchasesIInv'
  BY <1>19, ChangeUserInv
<1>15. CASE UNCHANGED purchasesVars
  BY <1>15 DEF purchasesVars, IsPurchase, PurchasesIInv, PurchasesTypeOK, Beyond,
     DebtIsExplained, Funds, Stored, StoredAt, Replacing, Shape, Expects, Paying,
     NewRow, Rows
<1> QED
  BY <1>1, <1>2, <1>3, <1>4, <1>5, <1>6, <1>7, <1>8, <1>9, <1>10, <1>11, <1>12,
     <1>13, <1>14, <1>15, <1>16, <1>17, <1>18, <1>19 DEF PurchasesNext

\* The invariant that the others follow from: as long as nobody overtakes a call,
\* the balance it checked is the balance there is, and no row follows its own.
THEOREM PurchasesInvariance == PurchasesSpec => []PurchasesIInv
  BY PurchasesInitInv, PurchasesNextInv, PTL DEF PurchasesSpec

\* The rows, calls and histories keep their types; a purchase that a terminal
\* payment refers to stays in the ledger through every update and deletion.
THEOREM PurchasesTypeCorrect == PurchasesSpec => []PurchasesTypeOK
<1>1. PurchasesIInv => PurchasesTypeOK
  BY DEF PurchasesIInv
<1> QED
  BY <1>1, PurchasesInvariance, PTL

\* Debt is explained and noticed, for any number of calls, amounts and rows: who
\* may not go into debt is in debt only by a purchase whose check was overtaken or
\* by what checks nothing; and who gets notices of debt and is in debt got one,
\* but for what sends none or looked at a balance that had changed.
THEOREM DebtHasAReason == PurchasesSpec => []DebtIsExplained
<1>1. PurchasesIInv => DebtIsExplained
  BY DEF PurchasesIInv
<1> QED
  BY <1>1, PurchasesInvariance, PTL

\* A purchase is in the ledger exactly until somebody deletes it, unless an update
\* of it is in progress, a fault struck, or a deletion crossed an update.
THEOREM PurchasesSurvive == PurchasesSpec => []PurchaseSurvives
<1>1. PurchasesIInv => PurchaseSurvives
  BY DEF PurchasesIInv, Stored, StoredAt, Replacing, PurchaseSurvives
<1> QED
  BY <1>1, PurchasesInvariance, PTL
=============================================================================
