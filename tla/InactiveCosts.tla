--------------------------- MODULE InactiveCosts ---------------------------
(***************************************************************************)
(* Administrative costs for users who have been inactive for three years,  *)
(* after a notice at two.  A cost is a transfer and a row that refers to   *)
(* it, made and deleted statement by statement; only that row tells the    *)
(* transfer of a cost from activity of the user.  inactiveNotificationSend *)
(* keeps a user from a second notice and is reset by activity, which reads *)
(* it before and resets it apart from what it records.  It is a column of  *)
(* the user's row, which other parts of the program load, change elsewhere *)
(* and save as a whole: the synchronisation with GEWISDB, the expiry of    *)
(* users, updates, closing and the terms of service.                       *)
(***************************************************************************)
EXTENDS Integers, FiniteSetsExt

CONSTANTS
    Costs,            \* ids of administrative costs and of their transfers
    Officers,         \* calls in progress at once
    NoCost,           \* what a call that is about no cost holds
    CostValue,        \* the setting administrativeCostValue
    MaxPurse,         \* bound on what activity makes of the balance
    MaxOfficerFaults  \* bound on crashes

ASSUME CostsAssumption ==
    /\ NoCost \notin Costs
    /\ CostValue \in Nat /\ MaxPurse \in Nat /\ MaxOfficerFaults \in Nat

VARIABLES
    purse,          \* the balance of the user
    quiet,          \* years since the last transaction or other transfer
    warned,         \* inactiveNotificationSend
    restored,       \* history: set since it was last reset, and not by a notice
    costs,          \* the stored costs
    costTransfers,  \* the stored transfers of costs: id -> years ago, or none
    deducted,       \* what each of these transfers took
    officer,        \* calls in progress
    acted,          \* history: activity since the notice was saved
    charged,        \* history: a cost since the last activity
    unread,          \* history: that activity had read warned before the notice
    officerFaults   \* crashes so far

costsVars == <<purse, quiet, warned, restored, costs, costTransfers, deducted,
               officer, acted, charged, unread, officerFaults>>

money == <<purse, quiet, costTransfers, deducted>>
noticeFlag == <<warned, restored>>
histories == <<acted, charged, unread>>

-----------------------------------------------------------------------------

\* ADMINISTRATIVE_COST_NOTIFY_YEARS and ADMINISTRATIVE_COST_HANDOUT_YEARS
NotifyYears == 2
HandoutYears == 3

Ages == 0 .. HandoutYears
NoTransfer == -1

\* What a call remembers.  seen: the flag when it loaded the user; missed
\* (history): a notice was saved since then.
OfficerStates ==
    [pc : {"idle", "listed", "eligible", "assessed", "charged", "deleting",
           "acting", "buying", "resetting", "saving"},
     cost : Costs \cup {NoCost}, amount : 0 .. CostValue, seen : BOOLEAN,
     missed : BOOLEAN]

Out ==
    [pc |-> "idle", cost |-> NoCost, amount |-> 0, seen |-> FALSE,
     missed |-> FALSE]

CostsInit ==
    /\ purse = 0
    /\ quiet = 0
    /\ warned = FALSE
    /\ restored = FALSE
    /\ costs = {}
    /\ costTransfers = [k \in Costs |-> NoTransfer]
    /\ deducted = [k \in Costs |-> 0]
    /\ officer = [o \in Officers |-> Out]
    /\ acted = FALSE
    /\ charged = FALSE
    /\ unread = FALSE
    /\ officerFaults = 0

Away(o) == officer[o] = Out

Set(o, next) == officer' = [officer EXCEPT ![o] = next]

\* The flag is written other than for a notice.
WriteFlag(value) == warned' = value /\ restored' = (value /\ (restored \/ ~warned))

\* Call o goes on as next after a change of the balance.
Pay(o, amount, next) ==
    /\ purse' = purse + amount
    /\ Set(o, next)

\* mutant: every transfer is activity
YearsSinceLastActivity_All(linked) ==
    Min({quiet} \cup {costTransfers[k] : k \in
            {j \in Costs : costTransfers[j] # NoTransfer}})

\* lastTransferQuery leaves out the transfers that a cost refers to.
YearsSinceLastActivity(linked) ==
    Min({quiet} \cup {costTransfers[k] : k \in
            {j \in Costs \ linked : costTransfers[j] # NoTransfer}})

EligibleForNotification ==
    /\ YearsSinceLastActivity(costs) >= NotifyYears
    /\ YearsSinceLastActivity(costs) < HandoutYears
    /\ ~warned /\ purse > 0

EligibleForHandout ==
    YearsSinceLastActivity(costs) >= HandoutYears /\ purse > 0

-----------------------------------------------------------------------------
(* POST /inactive-administrative-costs/notify *)

\* The treasurer picks from the users that checkInactiveUsers returned some time
\* ago.
ListForNotice(o) ==
    /\ Away(o)
    /\ EligibleForNotification
    /\ Set(o, [Out EXCEPT !.pc = "listed"])
    /\ UNCHANGED <<money, noticeFlag, costs, histories, officerFaults>>

\* The flag is set and saved without another look at who was listed, before the
\* mail goes out.
SaveNotice(o) ==
    /\ officer[o].pc = "listed"
    /\ warned' = TRUE
    /\ restored' = FALSE
    /\ acted' = FALSE
    /\ unread' = FALSE
    /\ officer' = [p \in Officers |->
           IF p = o \/ Away(p) THEN Out ELSE [officer[p] EXCEPT !.missed = TRUE]]
    /\ UNCHANGED <<money, costs, charged, officerFaults>>

-----------------------------------------------------------------------------
(* POST /inactive-administrative-costs/handout *)

\* getDeductionAmount
Deduction(balance) == IF balance > 0 THEN Min({balance, CostValue}) ELSE 0

\* The treasurer hands out to users that checkInactiveUsers returned some time
\* ago.
ListForHandout(o) ==
    /\ Away(o)
    /\ EligibleForHandout
    /\ Set(o, [Out EXCEPT !.pc = "eligible"])
    /\ UNCHANGED <<money, noticeFlag, costs, histories, officerFaults>>

AssessCost(o) ==
    /\ officer[o].pc = "eligible"
    /\ \E k \in Costs :
           /\ k \notin costs /\ costTransfers[k] = NoTransfer
           /\ \A p \in Officers : officer[p].cost # k
           /\ Set(o, [Out EXCEPT !.pc = "assessed", !.cost = k,
                                 !.amount = Deduction(purse)])
    /\ UNCHANGED <<money, noticeFlag, costs, histories, officerFaults>>

\* createTransfer resets the flag too.
ChargeCost(o) ==
    LET k == officer[o].cost IN
    /\ officer[o].pc = "assessed"
    /\ WriteFlag(FALSE)
    /\ costTransfers' = [costTransfers EXCEPT ![k] = 0]
    /\ deducted' = [deducted EXCEPT ![k] = officer[o].amount]
    /\ charged' = (charged \/ quiet >= HandoutYears)
    /\ Pay(o, - officer[o].amount, [officer[o] EXCEPT !.pc = "charged"])
    /\ UNCHANGED <<quiet, costs, acted, unread, officerFaults>>

StoreCost(o) ==
    /\ officer[o].pc = "charged"
    /\ costs' = costs \cup {officer[o].cost}
    /\ Set(o, Out)
    /\ UNCHANGED <<money, noticeFlag, histories, officerFaults>>

-----------------------------------------------------------------------------
(* DELETE /inactive-administrative-costs/{id} *)

\* First the row that refers to the transfer, then the transfer.
RemoveCost(o, k) ==
    /\ Away(o)
    /\ k \in costs
    /\ costs' = costs \ {k}
    /\ Set(o, [Out EXCEPT !.pc = "deleting", !.cost = k])
    /\ UNCHANGED <<money, noticeFlag, histories, officerFaults>>

RemoveCostTransfer(o) ==
    LET k == officer[o].cost IN
    /\ officer[o].pc = "deleting"
    /\ costTransfers' = [costTransfers EXCEPT ![k] = NoTransfer]
    /\ deducted' = [deducted EXCEPT ![k] = 0]
    /\ Pay(o, deducted[k], Out)
    /\ UNCHANGED <<quiet, noticeFlag, costs, histories, officerFaults>>

-----------------------------------------------------------------------------
(* Activity of the user *)

\* mutant: a transfer leaves the flag alone
BeginTransfer_NoReset(o) ==
    /\ Away(o)
    /\ Set(o, [Out EXCEPT !.pc = "acting", !.seen = warned])
    /\ UNCHANGED <<money, noticeFlag, costs, histories, officerFaults>>

\* createTransfer loads the user and resets the flag if it is set ...
BeginTransfer(o) ==
    /\ Away(o)
    /\ WriteFlag(FALSE)
    /\ Set(o, [Out EXCEPT !.pc = "acting", !.seen = warned])
    /\ UNCHANGED <<money, costs, histories, officerFaults>>

\* What both kinds of activity record.
Act(o, amount, next) ==
    /\ purse + amount \in -1 .. MaxPurse
    /\ quiet' = 0
    /\ acted' = TRUE
    /\ charged' = FALSE
    /\ unread' = (unread \/ officer[o].missed)
    /\ Pay(o, amount, next)
    /\ UNCHANGED <<noticeFlag, costs, costTransfers, deducted, officerFaults>>

\* ... before it inserts the transfer.
InsertTransfer(o) ==
    officer[o].pc = "acting" /\ \E amount \in {-1, 1} : Act(o, amount, Out)

\* createTransaction has the buyer from before it saves the transaction, and
\* resets the flag afterwards if it was set then.
BeginPurchase(o) ==
    /\ Away(o)
    /\ Set(o, [Out EXCEPT !.pc = "buying", !.seen = warned])
    /\ UNCHANGED <<money, noticeFlag, costs, histories, officerFaults>>

SavePurchase(o) ==
    /\ officer[o].pc = "buying"
    /\ Act(o, -1, IF officer[o].seen
                  THEN [officer[o] EXCEPT !.pc = "resetting"] ELSE Out)

ResetNotice(o) ==
    /\ officer[o].pc = "resetting"
    /\ WriteFlag(FALSE)
    /\ Set(o, Out)
    /\ UNCHANGED <<money, costs, histories, officerFaults>>

-----------------------------------------------------------------------------
(* Other saves of the user *)

\* The user is loaded to change other columns; the synchronisation waits for an
\* answer of GEWISDB next ...
BeginSave(o) ==
    /\ Away(o)
    /\ Set(o, [Out EXCEPT !.pc = "saving", !.seen = warned])
    /\ UNCHANGED <<money, noticeFlag, costs, histories, officerFaults>>

\* ... and the save writes the flag as it was loaded.
FinishSave(o) ==
    /\ officer[o].pc = "saving"
    /\ WriteFlag(officer[o].seen)
    /\ Set(o, Out)
    /\ UNCHANGED <<money, costs, histories, officerFaults>>

\* PATCH /users/{id} writes a flag that is in the request.
UpdateFlag(value) ==
    /\ WriteFlag(value)
    /\ UNCHANGED <<money, costs, officer, histories, officerFaults>>

-----------------------------------------------------------------------------
(* Time and faults *)

Older(years) == IF years = NoTransfer THEN years ELSE Min({years + 1, HandoutYears})

YearPasses ==
    /\ quiet' = Older(quiet)
    /\ costTransfers' = [k \in Costs |-> Older(costTransfers[k])]
    /\ UNCHANGED <<purse, noticeFlag, costs, deducted, officer, histories, officerFaults>>

OfficerFails(o) ==
    /\ officerFaults < MaxOfficerFaults
    /\ ~Away(o)
    /\ officerFaults' = officerFaults + 1
    /\ Set(o, Out)
    /\ UNCHANGED <<money, noticeFlag, costs, histories>>

CostsNext ==
    \/ \E o \in Officers :
           \/ ListForNotice(o) \/ SaveNotice(o)
           \/ ListForHandout(o) \/ AssessCost(o) \/ ChargeCost(o) \/ StoreCost(o)
           \/ \E k \in Costs : RemoveCost(o, k)
           \/ RemoveCostTransfer(o)
           \/ BeginTransfer(o) \/ InsertTransfer(o)
           \/ BeginPurchase(o) \/ SavePurchase(o) \/ ResetNotice(o)
           \/ BeginSave(o) \/ FinishSave(o)
           \/ OfficerFails(o)
    \/ \E value \in BOOLEAN : UpdateFlag(value)
    \/ YearPasses

CostsSpec == CostsInit /\ [][CostsNext]_costsVars

-----------------------------------------------------------------------------
(* Properties *)

\* The values of the variables; in particular, what is deducted is never negative,
\* also when the balance is by the time it is assessed.
CostsTypeOK ==
    /\ purse \in Int
    /\ quiet \in Ages
    /\ warned \in BOOLEAN /\ restored \in BOOLEAN
    /\ costs \subseteq Costs
    /\ costTransfers \in [Costs -> Ages \cup {NoTransfer}]
    /\ deducted \in [Costs -> 0 .. CostValue]
    /\ officer \in [Officers -> OfficerStates]
    /\ acted \in BOOLEAN /\ charged \in BOOLEAN /\ unread \in BOOLEAN
    /\ officerFaults \in 0 .. MaxOfficerFaults

\* The flag of the notice follows the activity of the user.  Who was charged gets
\* no new notice before the next activity: "handout transfers don't count as
\* activity, so the user stays in the 3y+ window", except while a cost and its
\* transfer come apart.  And the flag does not outlive an activity, which would
\* cost a user the next notice, unless that activity read the flag before the
\* notice was saved, or the flag was set again by an update of the user or by a
\* save of an older copy.
NoticeFollowsActivity ==
    \/ officerFaults > 0
    \/ /\ charged /\ EligibleForNotification =>
              \E o \in Officers : officer[o].pc \in {"charged", "deleting"}
       /\ warned /\ acted =>
              unread \/ restored \/ \E o \in Officers : officer[o].pc = "resetting"
=============================================================================
