--------------------------- MODULE AccountsProofs ---------------------------
(***************************************************************************)
(* Proofs about InactiveCosts and AccountClosing, for any number of users, *)
(* write-offs, calls and faults, and any balance; and the types of all     *)
(* that has to do with an account.                                         *)
(***************************************************************************)
EXTENDS MCAccounts, PayoutsAndPurchasesProofs

-----------------------------------------------------------------------------
(* Inactive administrative costs *)

\* A transfer that no stored cost refers to is between the steps of a call.
Referred ==
    \A k \in Costs \ costs :
        costTransfers[k] # NoTransfer =>
            \E o \in Officers : officer[o].pc \in {"charged", "deleting"} /\ officer[o].cost = k

\* What a call that acts has read of the flag.
Informed(s, flag) ==
    /\ s.pc \in {"assessed", "charged", "deleting"} => s.cost \in Costs
    /\ s.pc = "acting" /\ ~s.missed => ~flag
    /\ s.pc = "buying" /\ ~s.missed /\ ~s.seen => ~flag

\* The flag of a notice.
Standing == warned /\ ~restored

\* A flag that outlives an activity is about to be reset, or was not read.
FlagIsOpen ==
    Standing /\ acted => unread \/ \E o \in Officers : officer[o].pc = "resetting"

CostsIInv ==
    /\ CostsTypeOK
    /\ charged => quiet = HandoutYears
    /\ officerFaults = 0 => Referred /\ FlagIsOpen
    /\ \A o \in Officers : Informed(officer[o], Standing)

\* The smallest of one number and of two.
LEMMA LeastOf ==
  ASSUME NEW a \in Int, NEW b \in Int
  PROVE  /\ Min({a}) = a
         /\ Min({a, b}) = IF a <= b THEN a ELSE b
<1>1. \E x \in {a} : \A y \in {a} : x <= y
  OBVIOUS
<1>2. Min({a}) \in {a}
  BY <1>1 DEF Min
<1>3. \E x \in {a, b} : \A y \in {a, b} : x <= y
  OBVIOUS
<1>4. Min({a, b}) \in {a, b} /\ \A y \in {a, b} : Min({a, b}) <= y
  BY <1>3 DEF Min
<1> QED
  BY <1>2, <1>4

LEMMA DeductionBounds ==
  ASSUME NEW balance \in Int
  PROVE  Deduction(balance) \in 0 .. CostValue
<1>1. CostValue \in Nat
  BY CostsAssumption
<1>2. Min({balance, CostValue}) = IF balance <= CostValue THEN balance ELSE CostValue
  <2>1. CostValue \in Int
    BY <1>1
  <2> QED
    BY <2>1, LeastOf, Zenon
<1> QED
  BY <1>1, <1>2 DEF Deduction

LEMMA OlderBounds ==
  ASSUME NEW years \in Ages \cup {NoTransfer}
  PROVE  /\ Older(years) \in Ages \cup {NoTransfer}
         /\ Older(years) = NoTransfer <=> years = NoTransfer
         /\ years = HandoutYears => Older(years) = HandoutYears
<1>1. CASE years = NoTransfer
  BY <1>1 DEF Older, NoTransfer, HandoutYears
<1>2. CASE years \in Ages
  <2>1. years + 1 \in Int /\ HandoutYears \in Int /\ years # NoTransfer /\ years >= 0
    BY <1>2 DEF Ages, HandoutYears, NoTransfer
  <2>2. Older(years) = IF years + 1 <= HandoutYears THEN years + 1 ELSE HandoutYears
    BY <2>1, LeastOf DEF Older
  <2> QED
    BY <1>2, <2>1, <2>2 DEF Ages, HandoutYears, NoTransfer
<1> QED
  BY <1>1, <1>2

\* A charged user is past the window of the notice while costs and their
\* transfers are together.
LEMMA ChargedIsLate ==
  ASSUME quiet \in Ages, charged => quiet = HandoutYears, Referred, charged,
         EligibleForNotification
  PROVE  \E o \in Officers : officer[o].pc \in {"charged", "deleting"}
<1> SUFFICES ASSUME \A o \in Officers : officer[o].pc \notin {"charged", "deleting"}
             PROVE  FALSE
  OBVIOUS
<1>1. {j \in Costs \ costs : costTransfers[j] # NoTransfer} = {}
  BY DEF Referred
<1>2. {quiet} \cup {costTransfers[k] : k \in
            {j \in Costs \ costs : costTransfers[j] # NoTransfer}} = {quiet}
  BY <1>1
<1>3. YearsSinceLastActivity(costs) = quiet
  BY <1>2, LeastOf DEF YearsSinceLastActivity, Ages
<1> QED
  BY <1>3 DEF EligibleForNotification, HandoutYears

LEMMA OutIsOut == Out \in OfficerStates /\ Out.pc = "idle"
  BY CostsAssumption DEF Out, OfficerStates

LEMMA CostsInitInv == CostsInit => CostsIInv
<1> SUFFICES ASSUME CostsInit PROVE CostsIInv
  OBVIOUS
<1> USE CostsAssumption DEF CostsInit
<1>1. /\ Out \in OfficerStates /\ Out.pc = "idle"
      /\ \A o \in Officers : officer[o] = Out
  BY OutIsOut
<1>2. CostsTypeOK
  <2>1. officer \in [Officers -> OfficerStates]
    BY <1>1
  <2>2. /\ costTransfers \in [Costs -> Ages \cup {NoTransfer}]
        /\ deducted \in [Costs -> 0 .. CostValue]
        /\ quiet \in Ages /\ purse \in Int /\ costs \subseteq Costs
        /\ officerFaults \in 0 .. MaxOfficerFaults
    BY DEF Ages, HandoutYears
  <2>3. acted \in BOOLEAN /\ charged \in BOOLEAN /\ unread \in BOOLEAN /\ warned \in BOOLEAN
    OBVIOUS
  <2> QED
    BY <2>1, <2>2, <2>3 DEF CostsTypeOK
<1>3. Referred
  BY DEF Referred
<1>4. \A o \in Officers : Informed(officer[o], Standing)
  BY <1>1 DEF Informed
<1>5. FlagIsOpen
  BY DEF FlagIsOpen
<1> QED
  BY <1>2, <1>3, <1>4, <1>5 DEF CostsIInv

-----------------------------------------------------------------------------
(* What a step does to the calls *)

\* Call o goes on as next, and the others keep what they have read.
GoesOn(o, next) ==
    /\ officer' \in [Officers -> OfficerStates]
    /\ officer'[o] = next
    /\ \A p \in Officers \ {o} :
          /\ officer'[p].pc = officer[p].pc /\ officer'[p].cost = officer[p].cost
          /\ officer'[p].seen = officer[p].seen /\ officer'[p].missed = officer[p].missed

LEMMA SetGoesOn ==
  ASSUME CostsIInv, NEW o \in Officers, NEW next \in OfficerStates, Set(o, next)
  PROVE  GoesOn(o, next)
<1>1. officer \in [Officers -> OfficerStates] /\ officer' = [officer EXCEPT ![o] = next]
  BY DEF CostsIInv, CostsTypeOK, Set
<1>2. /\ officer' \in [Officers -> OfficerStates] /\ officer'[o] = next
      /\ \A p \in Officers \ {o} : officer'[p] = officer[p]
  BY <1>1
<1> QED
  BY <1>2 DEF GoesOn

LEMMA PayGoesOn ==
  ASSUME CostsIInv, NEW o \in Officers, NEW next \in OfficerStates, NEW amount \in Int,
         Pay(o, amount, next)
  PROVE  GoesOn(o, next) /\ purse' \in Int
<1>1. purse \in Int /\ purse' = purse + amount /\ Set(o, next)
  BY DEF CostsIInv, CostsTypeOK, Pay
<1> QED
  BY <1>1, SetGoesOn

\* A step of a call other than a notice: the flag is not set, a transfer that lost
\* its row or has none yet has the call, and so has a flag that outlives activity.
LEMMA CallStepInv ==
  ASSUME CostsIInv, NEW o \in Officers, NEW next, GoesOn(o, next),
         purse' \in Int, quiet' \in Ages, warned' \in BOOLEAN, costs' \subseteq Costs,
         costTransfers' \in [Costs -> Ages \cup {NoTransfer}],
         deducted' \in [Costs -> 0 .. CostValue],
         acted' \in BOOLEAN, charged' \in BOOLEAN, unread' \in BOOLEAN,
         officerFaults' = officerFaults,
         charged' => quiet' = HandoutYears,
         restored' \in BOOLEAN, Standing' => Standing,
         Informed(next, Standing'),
         \A k \in Costs \ costs' :
             costTransfers'[k] # NoTransfer =>
                 \/ /\ costTransfers[k] # NoTransfer /\ k \notin costs
                    /\ ~ (officer[o].pc \in {"charged", "deleting"} /\ officer[o].cost = k)
                 \/ next.pc \in {"charged", "deleting"} /\ next.cost = k,
         Standing' /\ acted' /\ ~unread' =>
             \/ next.pc = "resetting"
             \/ acted /\ ~unread /\ officer[o].pc # "resetting"
  PROVE  CostsIInv'
<1> USE DEF GoesOn
<1>1. CostsTypeOK'
  BY DEF CostsIInv, CostsTypeOK
<1>2. ASSUME officerFaults = 0 PROVE Referred'
  <2> SUFFICES ASSUME NEW k \in Costs \ costs', costTransfers'[k] # NoTransfer
               PROVE  \E p \in Officers :
                          officer'[p].pc \in {"charged", "deleting"} /\ officer'[p].cost = k
    BY DEF Referred
  <2>1. CASE next.pc \in {"charged", "deleting"} /\ next.cost = k
    BY <2>1
  <2>2. CASE /\ costTransfers[k] # NoTransfer /\ k \notin costs
             /\ ~ (officer[o].pc \in {"charged", "deleting"} /\ officer[o].cost = k)
    <3>1. PICK p \in Officers :
              officer[p].pc \in {"charged", "deleting"} /\ officer[p].cost = k
      BY <1>2, <2>2 DEF CostsIInv, Referred
    <3> QED
      BY <2>2, <3>1
  <2> QED
    BY <2>1, <2>2
<1>3. ASSUME officerFaults = 0 PROVE FlagIsOpen'
  BY <1>3 DEF CostsIInv, FlagIsOpen
<1>4. ASSUME NEW p \in Officers PROVE Informed(officer[p], Standing)'
  <2>1. Informed(officer[p], Standing)
    BY DEF CostsIInv
  <2> QED
    BY <2>1 DEF Informed
<1> QED
  BY <1>1, <1>2, <1>3, <1>4 DEF CostsIInv

-----------------------------------------------------------------------------
(* The actions *)

LEMMA ListForNoticeInv ==
  ASSUME CostsIInv, NEW o \in Officers, ListForNotice(o)
  PROVE  CostsIInv'
<1> DEFINE next == [Out EXCEPT !.pc = "listed"]
<1> USE DEF ListForNotice, money, noticeFlag, histories, Standing, WriteFlag
<1>1. next \in OfficerStates /\ next.pc = "listed"
  BY OutIsOut DEF OfficerStates
<1>2. officer[o].pc = "idle"
  BY DEF Away, Out
<1> HIDE DEF next
<1>3. GoesOn(o, next)
  BY <1>1, SetGoesOn DEF next
<1>4. Informed(next, Standing')
  BY <1>1 DEF Informed
<1> QED
  BY <1>1, <1>2, <1>3, <1>4, CallStepInv DEF CostsIInv, CostsTypeOK

LEMMA ListForHandoutInv ==
  ASSUME CostsIInv, NEW o \in Officers, ListForHandout(o)
  PROVE  CostsIInv'
<1> DEFINE next == [Out EXCEPT !.pc = "eligible"]
<1> USE DEF ListForHandout, money, noticeFlag, histories, Standing, WriteFlag
<1>1. next \in OfficerStates /\ next.pc = "eligible"
  BY OutIsOut DEF OfficerStates
<1>2. officer[o].pc = "idle"
  BY DEF Away, Out
<1> HIDE DEF next
<1>3. GoesOn(o, next)
  BY <1>1, SetGoesOn DEF next
<1>4. Informed(next, Standing')
  BY <1>1 DEF Informed
<1> QED
  BY <1>1, <1>2, <1>3, <1>4, CallStepInv DEF CostsIInv, CostsTypeOK

LEMMA AssessCostInv ==
  ASSUME CostsIInv, NEW o \in Officers, AssessCost(o)
  PROVE  CostsIInv'
<1> USE DEF AssessCost, money, noticeFlag, histories, Standing, WriteFlag
<1>1. PICK k \in Costs : Set(o, [Out EXCEPT !.pc = "assessed", !.cost = k,
                                            !.amount = Deduction(purse)])
  OBVIOUS
<1>2. Deduction(purse) \in 0 .. CostValue
  BY DeductionBounds DEF CostsIInv, CostsTypeOK
<1> DEFINE next == [Out EXCEPT !.pc = "assessed", !.cost = k, !.amount = Deduction(purse)]
<1>3. next \in OfficerStates /\ next.pc = "assessed" /\ next.cost = k
  BY <1>2, OutIsOut DEF OfficerStates
<1> HIDE DEF next
<1>4. GoesOn(o, next)
  BY <1>1, <1>3, SetGoesOn DEF next
<1>5. Informed(next, Standing')
  BY <1>3 DEF Informed
<1> QED
  BY <1>3, <1>4, <1>5, CallStepInv DEF CostsIInv, CostsTypeOK

LEMMA ChargeCostInv ==
  ASSUME CostsIInv, NEW o \in Officers, ChargeCost(o)
  PROVE  CostsIInv'
<1> DEFINE k == officer[o].cost
           next == [officer[o] EXCEPT !.pc = "charged"]
<1> USE DEF ChargeCost, noticeFlag, Standing, WriteFlag
<1>1. /\ officer[o] \in OfficerStates /\ Informed(officer[o], Standing)
      /\ officer[o].pc = "assessed" /\ quiet \in Ages
      /\ costTransfers \in [Costs -> Ages \cup {NoTransfer}]
      /\ deducted \in [Costs -> 0 .. CostValue]
  BY DEF CostsIInv, CostsTypeOK
<1>2. k \in Costs /\ officer[o].amount \in 0 .. CostValue
  BY <1>1 DEF Informed, OfficerStates
<1>3. next \in OfficerStates /\ next.pc = "charged" /\ next.cost = k
  BY <1>1 DEF OfficerStates
<1>4. - officer[o].amount \in Int
  BY <1>2
<1>5. Pay(o, - officer[o].amount, next)
  OBVIOUS
<1> HIDE DEF next
<1>6. GoesOn(o, next) /\ purse' \in Int
  BY <1>3, <1>4, <1>5, PayGoesOn
<1>7. Informed(next, Standing')
  BY <1>2, <1>3 DEF Informed
<1>8. /\ costTransfers' \in [Costs -> Ages \cup {NoTransfer}]
      /\ \A j \in Costs : j # k => costTransfers'[j] = costTransfers[j]
  <2>1. 0 \in Ages \cup {NoTransfer} /\ costTransfers' = [costTransfers EXCEPT ![k] = 0]
    BY DEF Ages, HandoutYears
  <2> QED
    BY <1>1, <1>2, <2>1
<1>9. deducted' \in [Costs -> 0 .. CostValue]
  BY <1>1, <1>2
<1>10. charged' => quiet' = HandoutYears
  <2>1. charged' => charged \/ quiet >= HandoutYears
    OBVIOUS
  <2>2. quiet >= HandoutYears => quiet = HandoutYears
    BY <1>1 DEF Ages, HandoutYears
  <2>3. charged => quiet = HandoutYears
    BY DEF CostsIInv
  <2> QED
    BY <2>1, <2>2, <2>3
<1>11. /\ warned' = FALSE /\ restored' = FALSE /\ charged' \in BOOLEAN /\ acted' \in BOOLEAN /\ unread' \in BOOLEAN
       /\ quiet' \in Ages /\ costs' \subseteq Costs /\ officerFaults' = officerFaults
  BY DEF CostsIInv, CostsTypeOK
<1>12. \A j \in Costs \ costs' : costTransfers'[j] # NoTransfer =>
          \/ /\ costTransfers[j] # NoTransfer /\ j \notin costs
             /\ ~ (officer[o].pc \in {"charged", "deleting"} /\ officer[o].cost = j)
          \/ next.pc \in {"charged", "deleting"} /\ next.cost = j
  BY <1>1, <1>3, <1>8
<1> QED
  BY <1>6, <1>7, <1>8, <1>9, <1>10, <1>11, <1>12, CallStepInv

LEMMA StoreCostInv ==
  ASSUME CostsIInv, NEW o \in Officers, StoreCost(o)
  PROVE  CostsIInv'
<1> USE DEF StoreCost, money, noticeFlag, histories, Standing, WriteFlag
<1>1. Informed(officer[o], Standing) /\ officer[o].pc = "charged"
  BY DEF CostsIInv
<1>2. officer[o].cost \in Costs
  BY <1>1 DEF Informed
<1>3. GoesOn(o, Out)
  BY OutIsOut, SetGoesOn
<1>4. Informed(Out, Standing')
  BY OutIsOut DEF Informed
<1> QED
  BY <1>1, <1>2, <1>3, <1>4, CallStepInv DEF CostsIInv, CostsTypeOK

LEMMA RemoveCostInv ==
  ASSUME CostsIInv, NEW o \in Officers, NEW k \in Costs, RemoveCost(o, k)
  PROVE  CostsIInv'
<1> DEFINE next == [Out EXCEPT !.pc = "deleting", !.cost = k]
<1> USE DEF RemoveCost, money, noticeFlag, histories, Standing, WriteFlag
<1>1. next \in OfficerStates /\ next.pc = "deleting" /\ next.cost = k
  BY OutIsOut DEF OfficerStates
<1>2. officer[o].pc = "idle"
  BY OutIsOut DEF Away
<1> HIDE DEF next
<1>3. GoesOn(o, next)
  BY <1>1, SetGoesOn DEF next
<1>4. Informed(next, Standing')
  BY <1>1 DEF Informed
<1> QED
  BY <1>1, <1>2, <1>3, <1>4, CallStepInv DEF CostsIInv, CostsTypeOK

LEMMA RemoveCostTransferInv ==
  ASSUME CostsIInv, NEW o \in Officers, RemoveCostTransfer(o)
  PROVE  CostsIInv'
<1> DEFINE k == officer[o].cost
<1> USE DEF RemoveCostTransfer, noticeFlag, Standing, WriteFlag
<1>1. /\ Informed(officer[o], Standing) /\ officer[o].pc = "deleting"
      /\ costTransfers \in [Costs -> Ages \cup {NoTransfer}]
      /\ deducted \in [Costs -> 0 .. CostValue]
  BY DEF CostsIInv, CostsTypeOK
<1>2. k \in Costs /\ deducted[k] \in Int
  BY <1>1 DEF Informed
<1>3. GoesOn(o, Out) /\ purse' \in Int
  BY <1>2, OutIsOut, PayGoesOn
<1>4. Informed(Out, Standing')
  BY OutIsOut DEF Informed
<1>5. /\ costTransfers' \in [Costs -> Ages \cup {NoTransfer}]
      /\ costTransfers'[k] = NoTransfer
      /\ \A j \in Costs : j # k => costTransfers'[j] = costTransfers[j]
  BY <1>1, <1>2
<1>6. deducted' \in [Costs -> 0 .. CostValue]
  <2>1. 0 \in 0 .. CostValue /\ deducted' = [deducted EXCEPT ![k] = 0]
    BY CostsAssumption
  <2> QED
    BY <1>1, <2>1
<1>7. UNCHANGED <<quiet, warned, restored, costs, acted, charged, unread, officerFaults>>
  BY DEF histories
<1>8. \A j \in Costs \ costs' : costTransfers'[j] # NoTransfer =>
          /\ costTransfers[j] # NoTransfer /\ j \notin costs
          /\ ~ (officer[o].pc \in {"charged", "deleting"} /\ officer[o].cost = j)
  BY <1>5, <1>7
<1>9. Standing' /\ acted' /\ ~unread' => acted /\ ~unread /\ officer[o].pc # "resetting"
  BY <1>1, <1>7
<1>10. /\ warned' \in BOOLEAN /\ charged' \in BOOLEAN /\ acted' \in BOOLEAN
       /\ unread' \in BOOLEAN /\ quiet' \in Ages /\ costs' \subseteq Costs
       /\ charged' => quiet' = HandoutYears
       /\ restored' \in BOOLEAN
       /\ Standing' => Standing
  BY <1>7 DEF CostsIInv, CostsTypeOK
<1> QED
  BY <1>3, <1>4, <1>5, <1>6, <1>7, <1>8, <1>9, <1>10, CallStepInv

LEMMA BeginTransferInv ==
  ASSUME CostsIInv, NEW o \in Officers, BeginTransfer(o)
  PROVE  CostsIInv'
<1> DEFINE next == [Out EXCEPT !.pc = "acting", !.seen = warned]
<1> USE DEF BeginTransfer, money, noticeFlag, histories, Standing, WriteFlag
<1>1. next \in OfficerStates /\ next.pc = "acting"
  BY OutIsOut DEF OfficerStates, CostsIInv, CostsTypeOK
<1>2. officer[o].pc = "idle"
  BY OutIsOut DEF Away
<1> HIDE DEF next
<1>3. GoesOn(o, next)
  BY <1>1, SetGoesOn DEF next
<1>4. Informed(next, Standing')
  BY <1>1 DEF Informed
<1> QED
  BY <1>1, <1>2, <1>3, <1>4, CallStepInv DEF CostsIInv, CostsTypeOK

LEMMA BeginPurchaseInv ==
  ASSUME CostsIInv, NEW o \in Officers, BeginPurchase(o)
  PROVE  CostsIInv'
<1> DEFINE next == [Out EXCEPT !.pc = "buying", !.seen = warned]
<1> USE DEF BeginPurchase, money, noticeFlag, histories, Standing, WriteFlag
<1>1. next \in OfficerStates /\ next.pc = "buying" /\ next.seen = warned
  BY OutIsOut DEF OfficerStates, CostsIInv, CostsTypeOK
<1>2. officer[o].pc = "idle"
  BY OutIsOut DEF Away
<1> HIDE DEF next
<1>3. GoesOn(o, next)
  BY <1>1, SetGoesOn DEF next
<1>4. Informed(next, Standing')
  BY <1>1 DEF Informed
<1> QED
  BY <1>1, <1>2, <1>3, <1>4, CallStepInv DEF CostsIInv, CostsTypeOK

\* Activity leaves a flag that was set when the call read it to the call, and one
\* that was not to the history.
LEMMA ActInv ==
  ASSUME CostsIInv, NEW o \in Officers, NEW amount \in Int, NEW next \in OfficerStates,
         Act(o, amount, next),
         next.pc \in {"idle", "resetting"}, officer[o].pc \in {"acting", "buying"},
         Standing /\ ~officer[o].missed => next.pc = "resetting"
  PROVE  CostsIInv'
<1> USE DEF Act, noticeFlag, Standing
<1>1. GoesOn(o, next) /\ purse' \in Int
  BY PayGoesOn
<1>2. Informed(next, Standing')
  BY DEF Informed
<1>3. /\ quiet' \in Ages /\ warned' \in BOOLEAN /\ costs' \subseteq Costs
      /\ costTransfers' \in [Costs -> Ages \cup {NoTransfer}]
      /\ deducted' \in [Costs -> 0 .. CostValue]
      /\ acted' \in BOOLEAN /\ charged' = FALSE /\ officerFaults' = officerFaults
      /\ restored' \in BOOLEAN
      /\ Standing' => Standing
  BY DEF CostsIInv, CostsTypeOK, Ages, HandoutYears
<1>4. unread' \in BOOLEAN
  OBVIOUS
<1>5. Standing' /\ acted' /\ ~unread' => next.pc = "resetting"
  OBVIOUS
<1>6. \A j \in Costs \ costs' : costTransfers'[j] # NoTransfer =>
          /\ costTransfers[j] # NoTransfer /\ j \notin costs
          /\ ~ (officer[o].pc \in {"charged", "deleting"} /\ officer[o].cost = j)
  OBVIOUS
<1> QED
  BY <1>1, <1>2, <1>3, <1>4, <1>5, <1>6, CallStepInv

LEMMA InsertTransferInv ==
  ASSUME CostsIInv, NEW o \in Officers, InsertTransfer(o)
  PROVE  CostsIInv'
<1>1. PICK amount \in {-1, 1} : Act(o, amount, Out)
  BY DEF InsertTransfer
<1>2. Informed(officer[o], Standing) /\ officer[o].pc = "acting" /\ amount \in Int
  BY DEF CostsIInv, InsertTransfer
<1>3. ~ (Standing /\ ~officer[o].missed)
  BY <1>2 DEF Informed
<1> QED
  BY <1>1, <1>2, <1>3, OutIsOut, ActInv

LEMMA SavePurchaseInv ==
  ASSUME CostsIInv, NEW o \in Officers, SavePurchase(o)
  PROVE  CostsIInv'
<1> DEFINE reset == [officer[o] EXCEPT !.pc = "resetting"]
           next == IF officer[o].seen THEN reset ELSE Out
<1>1. /\ Informed(officer[o], Standing) /\ officer[o].pc = "buying"
      /\ officer[o] \in OfficerStates
  BY DEF CostsIInv, CostsTypeOK, SavePurchase
<1>2. reset \in OfficerStates /\ reset.pc = "resetting"
  BY <1>1 DEF OfficerStates
<1>3. Act(o, -1, next)
  BY DEF SavePurchase
<1> HIDE DEF reset
<1>4. /\ next \in OfficerStates /\ next.pc \in {"idle", "resetting"}
      /\ Standing /\ ~officer[o].missed => next.pc = "resetting"
  BY <1>1, <1>2, OutIsOut DEF Informed
<1> QED
  BY <1>1, <1>3, <1>4, ActInv DEF Standing

LEMMA ResetNoticeInv ==
  ASSUME CostsIInv, NEW o \in Officers, ResetNotice(o)
  PROVE  CostsIInv'
<1> USE DEF ResetNotice, money, noticeFlag, histories, Standing, WriteFlag
<1>1. GoesOn(o, Out)
  BY OutIsOut, SetGoesOn
<1>2. Informed(Out, Standing')
  BY OutIsOut DEF Informed
<1> QED
  BY <1>1, <1>2, CallStepInv DEF CostsIInv, CostsTypeOK

LEMMA BeginSaveInv ==
  ASSUME CostsIInv, NEW o \in Officers, BeginSave(o)
  PROVE  CostsIInv'
<1> DEFINE next == [Out EXCEPT !.pc = "saving", !.seen = warned]
<1> USE DEF BeginSave, money, noticeFlag, histories, Standing
<1>1. next \in OfficerStates /\ next.pc = "saving"
  BY OutIsOut DEF OfficerStates, CostsIInv, CostsTypeOK
<1>2. officer[o].pc = "idle"
  BY OutIsOut DEF Away
<1> HIDE DEF next
<1>3. GoesOn(o, next)
  BY <1>1, SetGoesOn DEF next
<1>4. Informed(next, Standing')
  BY <1>1 DEF Informed
<1> QED
  BY <1>1, <1>2, <1>3, <1>4, CallStepInv DEF CostsIInv, CostsTypeOK

\* The save of an older copy leaves no flag but one it set again, or one that was
\* there.
LEMMA FinishSaveInv ==
  ASSUME CostsIInv, NEW o \in Officers, FinishSave(o)
  PROVE  CostsIInv'
<1> USE DEF FinishSave, money, histories, Standing, WriteFlag
<1>1. /\ officer[o].pc = "saving" /\ officer[o].seen \in BOOLEAN
      /\ warned \in BOOLEAN /\ restored \in BOOLEAN
  BY DEF CostsIInv, CostsTypeOK, OfficerStates
<1>2. warned' \in BOOLEAN /\ restored' \in BOOLEAN /\ (Standing' => Standing)
  BY <1>1
<1>3. GoesOn(o, Out)
  BY OutIsOut, SetGoesOn
<1>4. Informed(Out, Standing')
  BY OutIsOut DEF Informed
<1> QED
  BY <1>1, <1>2, <1>3, <1>4, CallStepInv DEF CostsIInv, CostsTypeOK

LEMMA UpdateFlagInv ==
  ASSUME CostsIInv, NEW value \in BOOLEAN, UpdateFlag(value)
  PROVE  CostsIInv'
<1> USE DEF UpdateFlag, WriteFlag, money, histories
<1>1. CostsTypeOK' /\ (Standing' => Standing)
  BY DEF CostsIInv, CostsTypeOK, Standing
<1>2. \A o \in Officers : Informed(officer[o], Standing)'
  BY <1>1 DEF CostsIInv, Informed
<1>3. officerFaults = 0 => Referred' /\ FlagIsOpen'
  BY <1>1 DEF CostsIInv, Referred, FlagIsOpen
<1> QED
  BY <1>1, <1>2, <1>3 DEF CostsIInv

LEMMA SaveNoticeInv ==
  ASSUME CostsIInv, NEW o \in Officers, SaveNotice(o)
  PROVE  CostsIInv'
<1> USE DEF SaveNotice, money, noticeFlag, Standing, WriteFlag
<1>1. officer \in [Officers -> OfficerStates] /\ officer[o].pc = "listed"
  BY DEF CostsIInv, CostsTypeOK
<1>2. ASSUME NEW p \in Officers
      PROVE  /\ officer'[p] \in OfficerStates
             /\ Informed(officer'[p], Standing')
             /\ officer[p].pc \in {"charged", "deleting"} =>
                    officer'[p].pc = officer[p].pc /\ officer'[p].cost = officer[p].cost
  <2>1. Informed(officer[p], Standing) /\ officer[p] \in OfficerStates
    BY <1>1 DEF CostsIInv
  <2>2. CASE p = o \/ Away(p)
    <3>1. officer'[p] = Out /\ officer[p].pc \notin {"charged", "deleting"}
      BY <1>1, <2>2, OutIsOut DEF Away
    <3> QED
      BY <3>1, OutIsOut DEF Informed
  <2>3. CASE ~ (p = o \/ Away(p))
    <3>1. officer'[p] = [officer[p] EXCEPT !.missed = TRUE]
      BY <2>3
    <3>2. /\ officer'[p] \in OfficerStates /\ officer'[p].missed = TRUE
          /\ officer'[p].pc = officer[p].pc /\ officer'[p].cost = officer[p].cost
      BY <2>1, <3>1 DEF OfficerStates
    <3> QED
      BY <2>1, <3>2 DEF Informed
  <2> QED
    BY <2>2, <2>3
<1>3. CostsTypeOK'
  <2>1. officer' \in [Officers -> OfficerStates]
    BY <1>2
  <2> QED
    BY <2>1 DEF CostsIInv, CostsTypeOK
<1>4. officerFaults = 0 => Referred'
  <2> SUFFICES ASSUME officerFaults = 0, NEW k \in Costs \ costs, costTransfers[k] # NoTransfer
               PROVE  \E p \in Officers :
                          officer'[p].pc \in {"charged", "deleting"} /\ officer'[p].cost = k
    BY DEF Referred
  <2>1. PICK p \in Officers : officer[p].pc \in {"charged", "deleting"} /\ officer[p].cost = k
    BY DEF CostsIInv, Referred
  <2> HIDE DEF SaveNotice
  <2> QED
    BY <1>2, <2>1
<1>5. FlagIsOpen'
  BY DEF FlagIsOpen
<1> QED
  BY <1>2, <1>3, <1>4, <1>5 DEF CostsIInv

LEMMA YearPassesInv ==
  ASSUME CostsIInv, YearPasses
  PROVE  CostsIInv'
<1> USE DEF YearPasses, noticeFlag, histories, Standing
<1>1. quiet \in Ages /\ costTransfers \in [Costs -> Ages \cup {NoTransfer}]
  BY DEF CostsIInv, CostsTypeOK
<1>2. quiet' \in Ages /\ (quiet = HandoutYears => quiet' = HandoutYears)
  <2>1. quiet # NoTransfer
    BY <1>1 DEF Ages, NoTransfer
  <2> QED
    BY <1>1, <2>1, OlderBounds
<1>3. /\ costTransfers' \in [Costs -> Ages \cup {NoTransfer}]
      /\ \A k \in Costs : costTransfers'[k] # NoTransfer => costTransfers[k] # NoTransfer
  <2>1. \A k \in Costs : costTransfers[k] \in Ages \cup {NoTransfer}
    BY <1>1
  <2>2. ASSUME NEW k \in Costs
        PROVE  /\ Older(costTransfers[k]) \in Ages \cup {NoTransfer}
               /\ Older(costTransfers[k]) = NoTransfer <=> costTransfers[k] = NoTransfer
    BY <2>1, OlderBounds
  <2> QED
    BY <2>2
<1>4. CostsTypeOK'
  BY <1>2, <1>3 DEF CostsIInv, CostsTypeOK
<1>5. officerFaults = 0 => Referred'
  <2> HIDE DEF YearPasses
  <2>1. costs' = costs /\ officer' = officer
    BY DEF YearPasses
  <2> SUFFICES ASSUME officerFaults = 0, NEW k \in Costs \ costs', costTransfers'[k] # NoTransfer
               PROVE  \E o \in Officers :
                          officer'[o].pc \in {"charged", "deleting"} /\ officer'[o].cost = k
    BY DEF Referred
  <2>2. k \in Costs \ costs /\ costTransfers[k] # NoTransfer
    BY <1>3, <2>1
  <2> QED
    BY <2>1, <2>2 DEF CostsIInv, Referred
<1> QED
  BY <1>2, <1>4, <1>5 DEF CostsIInv, FlagIsOpen, Informed

LEMMA OfficerFailsInv ==
  ASSUME CostsIInv, NEW o \in Officers, OfficerFails(o)
  PROVE  CostsIInv'
<1> USE DEF OfficerFails, money, noticeFlag, histories, Standing, WriteFlag
<1>1. GoesOn(o, Out)
  BY OutIsOut, SetGoesOn
<1>2. officerFaults' \in 0 .. MaxOfficerFaults /\ officerFaults' # 0
  BY CostsAssumption DEF CostsIInv, CostsTypeOK
<1>3. ASSUME NEW p \in Officers PROVE Informed(officer[p], Standing)'
  <2>1. Informed(officer[p], Standing)
    BY DEF CostsIInv
  <2> QED
    BY <1>1, <2>1, OutIsOut DEF Informed, GoesOn
<1>4. CostsTypeOK'
  BY <1>1, <1>2 DEF CostsIInv, CostsTypeOK, GoesOn
<1> QED
  BY <1>2, <1>3, <1>4 DEF CostsIInv

LEMMA CostsNextInv == CostsIInv /\ [CostsNext]_costsVars => CostsIInv'
<1> SUFFICES ASSUME CostsIInv, [CostsNext]_costsVars PROVE CostsIInv'
  OBVIOUS
<1>1. ASSUME NEW o \in Officers, ListForNotice(o) PROVE CostsIInv'
  BY <1>1, ListForNoticeInv
<1>2. ASSUME NEW o \in Officers, SaveNotice(o) PROVE CostsIInv'
  BY <1>2, SaveNoticeInv
<1>3. ASSUME NEW o \in Officers, ListForHandout(o) PROVE CostsIInv'
  BY <1>3, ListForHandoutInv
<1>4. ASSUME NEW o \in Officers, AssessCost(o) PROVE CostsIInv'
  BY <1>4, AssessCostInv
<1>5. ASSUME NEW o \in Officers, ChargeCost(o) PROVE CostsIInv'
  BY <1>5, ChargeCostInv
<1>6. ASSUME NEW o \in Officers, StoreCost(o) PROVE CostsIInv'
  BY <1>6, StoreCostInv
<1>7. ASSUME NEW o \in Officers, NEW k \in Costs, RemoveCost(o, k) PROVE CostsIInv'
  BY <1>7, RemoveCostInv
<1>8. ASSUME NEW o \in Officers, RemoveCostTransfer(o) PROVE CostsIInv'
  BY <1>8, RemoveCostTransferInv
<1>9. ASSUME NEW o \in Officers, BeginTransfer(o) PROVE CostsIInv'
  BY <1>9, BeginTransferInv
<1>10. ASSUME NEW o \in Officers, InsertTransfer(o) PROVE CostsIInv'
  BY <1>10, InsertTransferInv
<1>11. ASSUME NEW o \in Officers, BeginPurchase(o) PROVE CostsIInv'
  BY <1>11, BeginPurchaseInv
<1>12. ASSUME NEW o \in Officers, SavePurchase(o) PROVE CostsIInv'
  BY <1>12, SavePurchaseInv
<1>13. ASSUME NEW o \in Officers, ResetNotice(o) PROVE CostsIInv'
  BY <1>13, ResetNoticeInv
<1>14. ASSUME NEW o \in Officers, OfficerFails(o) PROVE CostsIInv'
  BY <1>14, OfficerFailsInv
<1>15. CASE YearPasses
  BY <1>15, YearPassesInv
<1>16. CASE UNCHANGED costsVars
  BY <1>16 DEF costsVars, CostsIInv, CostsTypeOK, Referred, FlagIsOpen, Informed, Standing
<1>17. ASSUME NEW o \in Officers, BeginSave(o) PROVE CostsIInv'
  BY <1>17, BeginSaveInv
<1>18. ASSUME NEW o \in Officers, FinishSave(o) PROVE CostsIInv'
  BY <1>18, FinishSaveInv
<1>19. ASSUME NEW value \in BOOLEAN, UpdateFlag(value) PROVE CostsIInv'
  BY <1>19, UpdateFlagInv
<1> QED
  BY <1>1, <1>2, <1>3, <1>4, <1>5, <1>6, <1>7, <1>8, <1>9, <1>10, <1>11, <1>12,
     <1>13, <1>14, <1>15, <1>16, <1>17, <1>18, <1>19 DEF CostsNext

-----------------------------------------------------------------------------

THEOREM CostsInvariance == CostsSpec => []CostsIInv
  BY CostsInitInv, CostsNextInv, PTL DEF CostsSpec

\* The costs, their transfers and the calls about them keep their types; what a
\* call deducts is never negative, whatever the balance has become.
THEOREM CostsTypeCorrect == CostsSpec => []CostsTypeOK
<1>1. CostsIInv => CostsTypeOK
  BY DEF CostsIInv
<1> QED
  BY <1>1, CostsInvariance, PTL

\* The flag of the notice follows the activity of the user, for any number of
\* costs and calls and any value of a cost: who was charged gets no new notice
\* before acting again, and a flag does not outlive an activity that read it unless
\* an update of the user or a save of an older copy set it again.
THEOREM NoticesFollow == CostsSpec => []NoticeFollowsActivity
<1>1. ASSUME CostsIInv PROVE NoticeFollowsActivity
  <2>1. quiet \in Ages /\ officerFaults \in Nat
    BY <1>1, CostsAssumption DEF CostsIInv, CostsTypeOK
  <2>2. CASE officerFaults > 0
    BY <2>2 DEF NoticeFollowsActivity
  <2>3. CASE officerFaults = 0
    <3>1. charged /\ EligibleForNotification =>
              \E o \in Officers : officer[o].pc \in {"charged", "deleting"}
      BY <1>1, <2>1, <2>3, ChargedIsLate DEF CostsIInv
    <3> QED
      BY <1>1, <2>3, <3>1 DEF CostsIInv, FlagIsOpen, Standing, NoticeFollowsActivity
  <2> QED
    BY <2>1, <2>2, <2>3
<1> QED
  BY <1>1, CostsInvariance, PTL

-----------------------------------------------------------------------------
(* Write-offs and closing of accounts *)

-----------------------------------------------------------------------------
(* The inductive invariant *)

\* What a call knows of the balance b: that it is zero when it has checked that,
\* and what its write-off has left of it, as long as nobody else moves money.
KnowsBalance(s, b) ==
    /\ s.pc = "checked" /\ s.deleted /\ ~s.stale => b = 0
    /\ s.writeOff # NoWriteOff =>
          /\ s.pc \in {"owing", "stored", "paid", "closing", "checked"}
          /\ s.pc \in {"closing", "checked"} => s.deleted
          /\ s.pc \in {"owing", "stored"} /\ ~s.stale => b = - s.amount
          /\ s.pc \in {"paid", "closing", "checked"} /\ ~s.stale => b = 0

\* A call that may bring a deleted account back began before the deletion.
Revives(s) ==
    \/ s.pc \in {"listed", "patching"}
    \/ s.pc \in {"closing", "checked", "editing"} /\ ~s.deleted

Sound(s, b, deleted) == KnowsBalance(s, b) /\ (deleted /\ Revives(s) => s.old)

ClosingIInv ==
    /\ ClosingTypeOK
    /\ DeletedIsSettled
    /\ \A c \in Closers : Sound(closer[c], worth, account.deleted)

USE ClosingAssumption DEF Accounts, WriteOffStates

LEMMA OffIsSound ==
  /\ Off \in CloserStates
  /\ \A b, deleted : Sound(Off, b, deleted)
<1>1. Off \in CloserStates
  BY DEF Off, CloserStates
<1>2. Off.pc = "idle" /\ Off.writeOff = NoWriteOff
  BY DEF Off
<1>3. ASSUME NEW b, NEW deleted PROVE Sound(Off, b, deleted)
  BY <1>2 DEF Sound, KnowsBalance, Revives
<1> QED
  BY <1>1, <1>3

LEMMA ClosingInitInv == ClosingInit => ClosingIInv
<1> SUFFICES ASSUME ClosingInit PROVE ClosingIInv
  OBVIOUS
<1>1. ClosingTypeOK
  <2>1. closer \in [Closers -> CloserStates]
    BY OffIsSound DEF ClosingInit
  <2>2. account \in Accounts
    BY DEF ClosingInit, NewAccount
  <2>5. worth \in Int
    BY DEF ClosingInit
  <2>6. moved \in BOOLEAN
    BY DEF ClosingInit
  <2>3. writeOffs \in [WriteOffs -> WriteOffStates]
    BY DEF ClosingInit
  <2>4. closingFaults \in 0 .. MaxClosingFaults
    BY DEF ClosingInit
  <2> QED
    BY <2>1, <2>2, <2>3, <2>4, <2>5, <2>6 DEF ClosingTypeOK
<1>2. DeletedIsSettled
  BY DEF ClosingInit, DeletedIsSettled
<1>3. \A c \in Closers : Sound(closer[c], worth, account.deleted)
  <2>1. \A c \in Closers : closer[c] = Off
    BY DEF ClosingInit
  <2> QED
    BY <2>1, OffIsSound
<1> QED
  BY <1>1, <1>2, <1>3 DEF ClosingIInv

-----------------------------------------------------------------------------
(* The three ways in which a step changes what calls remember *)

\* One call goes on; balance and account stay.
LEMMA ProceedInv ==
  ASSUME ClosingIInv, NEW c \in Closers, NEW next \in CloserStates,
         Sound(next, worth, account.deleted), Proceed(c, next),
         UNCHANGED <<worth, account, moved>>,
         writeOffs' \in [WriteOffs -> WriteOffStates],
         closingFaults' \in 0 .. MaxClosingFaults
  PROVE  ClosingIInv'
<1>1. closer \in [Closers -> CloserStates]
  BY DEF ClosingIInv, ClosingTypeOK
<1>2. /\ closer' \in [Closers -> CloserStates]
      /\ \A d \in Closers : closer'[d] = next \/ closer'[d] = closer[d]
  BY <1>1 DEF Proceed
<1>3. ClosingTypeOK'
  BY <1>2 DEF ClosingIInv, ClosingTypeOK
<1>4. DeletedIsSettled'
  BY DEF ClosingIInv, DeletedIsSettled
<1>5. ASSUME NEW d \in Closers
      PROVE  Sound(closer'[d], worth, account.deleted)
  <2>1. CASE closer'[d] = next
    BY <2>1
  <2>2. CASE closer'[d] = closer[d]
    BY <2>2 DEF ClosingIInv
  <2> QED
    BY <1>2, <2>1, <2>2
<1> QED
  BY <1>3, <1>4, <1>5 DEF ClosingIInv

\* A call whose balance moved knows less of it than before.
LEMMA StaleIsSound ==
  ASSUME NEW s \in CloserStates, NEW b \in Int, NEW b2 \in Int,
         NEW deleted \in BOOLEAN, Sound(s, b, deleted)
  PROVE  /\ [s EXCEPT !.stale = TRUE] \in CloserStates
         /\ Sound([s EXCEPT !.stale = TRUE], b2, deleted)
BY DEF Sound, KnowsBalance, Revives, CloserStates

\* Money moves, by the calls in mine or by others.
LEMMA MoveInv ==
  ASSUME ClosingIInv, NEW amount \in Int, NEW mine \in SUBSET Closers, NEW next,
         mine # {} => next \in CloserStates
                      /\ Sound(next, worth + amount, account.deleted),
         Move(amount, mine, next), UNCHANGED <<account, closingFaults>>,
         writeOffs' \in [WriteOffs -> WriteOffStates]
  PROVE  ClosingIInv'
<1>1. /\ closer \in [Closers -> CloserStates] /\ worth \in Int
      /\ account \in Accounts /\ moved \in BOOLEAN
      /\ closingFaults \in 0 .. MaxClosingFaults
  BY DEF ClosingIInv, ClosingTypeOK
<1>2. worth' = worth + amount /\ worth' \in Int
  BY <1>1 DEF Move
<1>3. ASSUME NEW d \in Closers
      PROVE  closer'[d] \in CloserStates /\ Sound(closer'[d], worth', account.deleted)
  <2>1. CASE d \in mine
    BY <1>2, <2>1 DEF Move
  <2>2. CASE d \notin mine /\ Free(d)
    <3>1. closer'[d] = Off
      BY <2>2 DEF Move
    <3> QED
      BY <1>1, <1>2, <3>1, OffIsSound
  <2>3. CASE d \notin mine /\ ~Free(d)
    <3>1. closer'[d] = [closer[d] EXCEPT !.stale = TRUE]
      BY <2>3 DEF Move
    <3>2. Sound(closer[d], worth, account.deleted)
      BY DEF ClosingIInv
    <3> QED
      BY <1>1, <1>2, <3>1, <3>2, StaleIsSound
  <2> QED
    BY <2>1, <2>2, <2>3
<1>4. closer' = [d \in Closers |-> closer'[d]]
  BY DEF Move
<1>5. closer' \in [Closers -> CloserStates]
  BY <1>3, <1>4
<1>6. moved' \in BOOLEAN /\ (account.deleted => moved')
  BY <1>1 DEF Move
<1>7. ClosingTypeOK'
  BY <1>1, <1>2, <1>5, <1>6 DEF ClosingTypeOK
<1>8. DeletedIsSettled'
  BY <1>6 DEF DeletedIsSettled
<1> QED
  BY <1>3, <1>7, <1>8 DEF ClosingIInv

\* A call that saw the deletion as already done is old.
LEMMA OldIsSound ==
  ASSUME NEW s \in CloserStates, NEW b \in Int, NEW was \in BOOLEAN,
         NEW deleted \in BOOLEAN, Sound(s, b, was)
  PROVE  /\ [s EXCEPT !.old = @ \/ deleted] \in CloserStates
         /\ Sound([s EXCEPT !.old = @ \/ deleted], b, deleted)
BY DEF Sound, KnowsBalance, Revives, CloserStates

\* The user is saved; an unchecked deletion counts as moved.
LEMMA StoreInv ==
  ASSUME ClosingIInv, NEW c \in Closers, NEW columns \in Accounts, NEW settled \in BOOLEAN,
         columns.deleted /\ settled /\ ~account.deleted => worth = 0,
         Store(c, columns, settled), UNCHANGED <<worth, closingFaults>>,
         writeOffs' \in [WriteOffs -> WriteOffStates]
  PROVE  ClosingIInv'
<1>1. /\ closer \in [Closers -> CloserStates] /\ worth \in Int
      /\ account \in Accounts /\ moved \in BOOLEAN
      /\ closingFaults \in 0 .. MaxClosingFaults
  BY DEF ClosingIInv, ClosingTypeOK
<1>2. account' = columns
  BY DEF Store
<1>3. ASSUME NEW d \in Closers
      PROVE  closer'[d] \in CloserStates /\ Sound(closer'[d], worth, columns.deleted)
  <2>1. CASE d = c \/ Free(d)
    <3>1. closer'[d] = Off
      BY <2>1 DEF Store
    <3> QED
      BY <1>1, <3>1, OffIsSound
  <2>2. CASE ~(d = c \/ Free(d))
    <3>1. closer'[d] = [closer[d] EXCEPT !.old = @ \/ columns.deleted]
      BY <2>2 DEF Store
    <3>2. Sound(closer[d], worth, account.deleted)
      BY DEF ClosingIInv
    <3> QED
      BY <1>1, <3>1, <3>2, OldIsSound
  <2> QED
    BY <2>1, <2>2
<1>4. closer' = [d \in Closers |-> closer'[d]]
  BY DEF Store
<1>5. closer' \in [Closers -> CloserStates]
  BY <1>3, <1>4
<1>6. moved' = (columns.deleted /\ (moved \/ ~(account.deleted \/ settled)))
  BY DEF Store
<1>7. ClosingTypeOK'
  BY <1>1, <1>2, <1>5, <1>6 DEF ClosingTypeOK
<1>8. DeletedIsSettled'
  BY <1>1, <1>2, <1>6 DEF ClosingIInv, DeletedIsSettled
<1> QED
  BY <1>2, <1>3, <1>7, <1>8 DEF ClosingIInv

-----------------------------------------------------------------------------
(* The steps *)

LEMMA WriteOffStepInv ==
  ASSUME ClosingIInv, NEW c \in Closers,
         BeginWriteOff(c) \/ StoreWriteOff(c) \/ PayWriteOff(c) \/ LinkWriteOff(c)
  PROVE  ClosingIInv'
<1>1. /\ closer[c] \in CloserStates /\ worth \in Int /\ account \in Accounts
      /\ writeOffs \in [WriteOffs -> WriteOffStates]
      /\ closingFaults \in 0 .. MaxClosingFaults
      /\ Sound(closer[c], worth, account.deleted)
  BY DEF ClosingIInv, ClosingTypeOK
<1>2. CASE BeginWriteOff(c)
  <2>1. PICK w \in WriteOffs :
            Proceed(c, [Off EXCEPT !.pc = "owing", !.writeOff = w, !.amount = - worth])
    BY <1>2 DEF BeginWriteOff
  <2> DEFINE next == [Off EXCEPT !.pc = "owing", !.writeOff = w, !.amount = - worth]
  <2>2. - worth \in Nat
    <3>1. worth <= 0
      BY <1>2 DEF BeginWriteOff
    <3> QED
      BY <1>1, <3>1
  <2>3. next \in CloserStates
    BY <2>2 DEF Off, CloserStates
  <2>4. next.pc = "owing" /\ next.amount = - worth
    BY DEF Off
  <2>5. Sound(next, worth, account.deleted)
    <3> HIDE DEF next
    <3> QED
      BY <1>1, <2>4 DEF Sound, KnowsBalance, Revives
  <2> HIDE DEF next
  <2> QED
    BY <1>1, <1>2, <2>1, <2>3, <2>5, ProceedInv DEF BeginWriteOff, next
<1>3. CASE StoreWriteOff(c)
  <2> DEFINE next == [closer[c] EXCEPT !.pc = "stored"]
  <2>1. next \in CloserStates /\ Sound(next, worth, account.deleted)
    BY <1>1, <1>3 DEF StoreWriteOff, CloserStates, Sound, KnowsBalance, Revives
  <2>2. writeOffs' \in [WriteOffs -> WriteOffStates]
    BY <1>1, <1>3 DEF StoreWriteOff
  <2>3. Proceed(c, next) /\ UNCHANGED <<worth, account, moved, closingFaults>>
    BY <1>3 DEF StoreWriteOff
  <2> HIDE DEF next
  <2> QED
    BY <1>1, <2>1, <2>2, <2>3, ProceedInv
<1>4. CASE PayWriteOff(c)
  <2> DEFINE next == [closer[c] EXCEPT !.pc = "paid"]
             amount == closer[c].amount
  <2>1. amount \in Int
    BY <1>1 DEF CloserStates
  <2>2. next \in CloserStates /\ Sound(next, worth + amount, account.deleted)
    BY <1>1, <1>4 DEF PayWriteOff, CloserStates, Sound, KnowsBalance, Revives
  <2>3. writeOffs' \in [WriteOffs -> WriteOffStates]
    BY <1>1, <1>4 DEF PayWriteOff
  <2>4. Move(amount, {c}, next) /\ UNCHANGED <<account, closingFaults>>
    BY <1>4 DEF PayWriteOff
  <2> HIDE DEF next, amount
  <2> QED
    BY <2>1, <2>2, <2>3, <2>4, MoveInv
<1>5. CASE LinkWriteOff(c)
  <2> DEFINE next == [closer[c] EXCEPT !.pc = "closing", !.deleted = TRUE]
  <2>1. next \in CloserStates /\ Sound(next, worth, account.deleted)
    BY <1>1, <1>5 DEF LinkWriteOff, CloserStates, Sound, KnowsBalance, Revives
  <2>2. writeOffs' \in [WriteOffs -> WriteOffStates]
    BY <1>1, <1>5 DEF LinkWriteOff
  <2>3. Proceed(c, next) /\ UNCHANGED <<worth, account, moved, closingFaults>>
    BY <1>5 DEF LinkWriteOff
  <2> HIDE DEF next
  <2> QED
    BY <1>1, <2>1, <2>2, <2>3, ProceedInv
<1> QED
  BY <1>2, <1>3, <1>4, <1>5

\* Steps on the way to a deletion.
LEMMA CloseStepInv ==
  ASSUME ClosingIInv, NEW c \in Closers,
         \/ ListForSync(c) \/ SyncDown(c) \/ DeleteUser(c) \/ CheckClose(c)
         \/ RefuseClose(c) \/ SaveClose(c)
  PROVE  ClosingIInv'
<1>1. /\ closer[c] \in CloserStates /\ worth \in Int /\ account \in Accounts
      /\ writeOffs \in [WriteOffs -> WriteOffStates]
      /\ closingFaults \in 0 .. MaxClosingFaults
      /\ Sound(closer[c], worth, account.deleted)
  BY DEF ClosingIInv, ClosingTypeOK
<1>2. CASE ListForSync(c)
  <2> DEFINE next == [Off EXCEPT !.pc = "listed"]
  <2>1. Proceed(c, next) /\ ~account.deleted
        /\ UNCHANGED <<worth, account, writeOffs, moved, closingFaults>>
    BY <1>2 DEF ListForSync
  <2>2. next \in CloserStates /\ next.pc = "listed" /\ next.writeOff = NoWriteOff
    BY DEF Off, CloserStates
  <2> HIDE DEF next
  <2>3. Sound(next, worth, account.deleted)
    BY <2>1, <2>2 DEF Sound, KnowsBalance
  <2> QED
    BY <1>1, <2>1, <2>2, <2>3, ProceedInv
<1>3. CASE SyncDown(c)
  <2> DEFINE next == [closer[c] EXCEPT !.pc = "closing", !.deleted = worth = 0]
  <2>1. Proceed(c, next) /\ closer[c].pc = "listed"
        /\ UNCHANGED <<worth, account, writeOffs, moved, closingFaults>>
    BY <1>3 DEF SyncDown
  <2>2. next \in CloserStates /\ Sound(next, worth, account.deleted)
    BY <1>1, <2>1 DEF CloserStates, Sound, KnowsBalance, Revives
  <2> HIDE DEF next
  <2> QED
    BY <1>1, <2>1, <2>2, ProceedInv
<1>4. CASE DeleteUser(c)
  <2> DEFINE next == [Off EXCEPT !.pc = "closing", !.deleted = TRUE,
                                 !.active = account.active]
  <2>1. Proceed(c, next) /\ ~account.deleted
        /\ UNCHANGED <<worth, account, writeOffs, moved, closingFaults>>
    BY <1>4 DEF DeleteUser
  <2>2. next \in CloserStates
    BY <1>1 DEF Off, CloserStates
  <2>3. next.pc = "closing" /\ next.writeOff = NoWriteOff
    BY DEF Off
  <2> HIDE DEF next
  <2>4. Sound(next, worth, account.deleted)
    BY <2>1, <2>3 DEF Sound, KnowsBalance
  <2> QED
    BY <1>1, <2>1, <2>2, <2>4, ProceedInv
<1>5. CASE CheckClose(c)
  <2> DEFINE next == [closer[c] EXCEPT !.pc = "checked", !.stale = FALSE]
  <2>1. /\ Proceed(c, next) /\ closer[c].pc = "closing"
        /\ closer[c].deleted => worth = 0
        /\ UNCHANGED <<worth, account, writeOffs, moved, closingFaults>>
    BY <1>5 DEF CheckClose
  <2>2. next \in CloserStates /\ Sound(next, worth, account.deleted)
    BY <1>1, <2>1 DEF CloserStates, Sound, KnowsBalance, Revives
  <2> HIDE DEF next
  <2> QED
    BY <1>1, <2>1, <2>2, ProceedInv
<1>6. CASE RefuseClose(c)
  <2>1. Proceed(c, Off) /\ UNCHANGED <<worth, account, writeOffs, moved, closingFaults>>
    BY <1>6 DEF RefuseClose
  <2> QED
    BY <1>1, <2>1, OffIsSound, ProceedInv
<1>7. CASE SaveClose(c)
  <2>1. Columns(c) \in Accounts
    BY <1>1 DEF Columns, CloserStates
  <2>2. Columns(c).deleted /\ ~closer[c].stale => worth = 0
    BY <1>1, <1>7 DEF SaveClose, Columns, Sound, KnowsBalance
  <2>3. writeOffs' \in [WriteOffs -> WriteOffStates]
    BY <1>1, <1>7 DEF SaveClose
  <2>4. Store(c, Columns(c), ~closer[c].stale) /\ UNCHANGED <<worth, closingFaults>>
    BY <1>7 DEF SaveClose
  <2>5. (~closer[c].stale) \in BOOLEAN
    OBVIOUS
  <2> QED
    BY <2>1, <2>2, <2>3, <2>4, <2>5, StoreInv
<1> QED
  BY <1>2, <1>3, <1>4, <1>5, <1>6, <1>7

\* A call that loads the user holds the column as it is.
LEMMA LoadInv ==
  ASSUME ClosingIInv, NEW c \in Closers, NEW active \in BOOLEAN, Load(c, active),
         UNCHANGED <<worth, account, writeOffs, moved, closingFaults>>
  PROVE  ClosingIInv'
<1>1. /\ worth \in Int /\ account \in Accounts
      /\ writeOffs \in [WriteOffs -> WriteOffStates]
      /\ closingFaults \in 0 .. MaxClosingFaults
  BY DEF ClosingIInv, ClosingTypeOK
<1> DEFINE next == [Off EXCEPT !.pc = "editing", !.deleted = account.deleted,
                               !.active = active]
<1>2. next \in CloserStates
  BY <1>1 DEF Off, CloserStates
<1>3. /\ next.pc = "editing" /\ next.writeOff = NoWriteOff
      /\ next.deleted = account.deleted
  BY DEF Off
<1>4. Proceed(c, next)
  BY DEF Load
<1> HIDE DEF next
<1>5. Sound(next, worth, account.deleted)
  BY <1>3 DEF Sound, KnowsBalance, Revives
<1> QED
  BY <1>1, <1>2, <1>4, <1>5, ProceedInv

LEMMA EditStepInv ==
  ASSUME ClosingIInv, NEW c \in Closers,
         \/ BeginUserUpdate(c) \/ BeginExpiry(c) \/ SaveUser(c)
         \/ BeginPatch(c) \/ Patch(c)
  PROVE  ClosingIInv'
<1>1. /\ closer[c] \in CloserStates /\ worth \in Int /\ account \in Accounts
      /\ writeOffs \in [WriteOffs -> WriteOffStates]
      /\ closingFaults \in 0 .. MaxClosingFaults
  BY DEF ClosingIInv, ClosingTypeOK
<1>2. CASE BeginUserUpdate(c)
  <2>1. PICK active \in {TRUE, account.active} : Load(c, active)
    BY <1>2 DEF BeginUserUpdate
  <2>2. active \in BOOLEAN
    BY <1>1, <2>1
  <2> QED
    BY <1>2, <2>1, <2>2, LoadInv DEF BeginUserUpdate
<1>3. CASE BeginExpiry(c)
  BY <1>3, LoadInv DEF BeginExpiry
<1>4. CASE SaveUser(c)
  <2>1. Columns(c) \in Accounts
    BY <1>1 DEF Columns, CloserStates
  <2>2. Store(c, Columns(c), FALSE) /\ UNCHANGED <<worth, writeOffs, closingFaults>>
    BY <1>4 DEF SaveUser
  <2> QED
    BY <1>1, <2>1, <2>2, StoreInv
<1>5. CASE BeginPatch(c)
  <2> DEFINE next == [Off EXCEPT !.pc = "patching"]
  <2>1. Proceed(c, next) /\ ~account.deleted
        /\ UNCHANGED <<worth, account, writeOffs, moved, closingFaults>>
    BY <1>5 DEF BeginPatch
  <2>2. next \in CloserStates /\ next.pc = "patching" /\ next.writeOff = NoWriteOff
    BY DEF Off, CloserStates
  <2> HIDE DEF next
  <2>3. Sound(next, worth, account.deleted)
    BY <2>1, <2>2 DEF Sound, KnowsBalance
  <2> QED
    BY <1>1, <2>1, <2>2, <2>3, ProceedInv
<1>6. CASE Patch(c)
  <2>1. PICK deleted \in BOOLEAN, active \in BOOLEAN :
            Store(c, [deleted |-> deleted, active |-> active], worth = 0)
    BY <1>6 DEF Patch
  <2> DEFINE columns == [deleted |-> deleted, active |-> active]
             settled == worth = 0
  <2>2. columns \in Accounts /\ settled \in BOOLEAN /\ (settled => worth = 0)
    OBVIOUS
  <2>3. Store(c, columns, settled) /\ UNCHANGED <<worth, writeOffs, closingFaults>>
    BY <1>6, <2>1 DEF Patch
  <2> HIDE DEF columns, settled
  <2> QED
    BY <1>1, <2>2, <2>3, StoreInv
<1> QED
  BY <1>2, <1>3, <1>4, <1>5, <1>6

LEMMA OtherStepInv ==
  ASSUME ClosingIInv, \/ \E amount \in {-1, 1} : MoveMoney(amount)
               \/ \E c \in Closers : Fail(c)
  PROVE  ClosingIInv'
<1>1. /\ writeOffs \in [WriteOffs -> WriteOffStates]
      /\ closingFaults \in 0 .. MaxClosingFaults
  BY DEF ClosingIInv, ClosingTypeOK
<1>2. ASSUME NEW amount \in {-1, 1}, MoveMoney(amount) PROVE ClosingIInv'
  <2>1. amount \in Int
    OBVIOUS
  <2>2. Move(amount, {}, Off) /\ UNCHANGED <<account, writeOffs, closingFaults>>
    BY <1>2 DEF MoveMoney
  <2> QED
    BY <1>1, <2>1, <2>2, MoveInv
<1>3. ASSUME NEW c \in Closers, Fail(c) PROVE ClosingIInv'
  <2>1. Proceed(c, Off) /\ UNCHANGED <<worth, account, writeOffs, moved>>
    BY <1>3 DEF Fail
  <2>2. closingFaults' \in 0 .. MaxClosingFaults
    BY <1>1, <1>3 DEF Fail
  <2> QED
    BY <1>1, <2>1, <2>2, OffIsSound, ProceedInv
<1> QED
  BY <1>2, <1>3

LEMMA ClosingNextInv == ClosingIInv /\ [ClosingNext]_closingVars => ClosingIInv'
<1>1. ASSUME ClosingIInv, ClosingNext PROVE ClosingIInv'
  BY <1>1, WriteOffStepInv, CloseStepInv, EditStepInv, OtherStepInv DEF ClosingNext
<1>2. ASSUME ClosingIInv, UNCHANGED closingVars PROVE ClosingIInv'
  BY <1>2 DEF closingVars, ClosingIInv, ClosingTypeOK, DeletedIsSettled, Sound,
              KnowsBalance, Revives
<1> QED
  BY <1>1, <1>2

-----------------------------------------------------------------------------
(* Theorems *)

\* The inductive invariant: a checked deletion still finds a balance of zero, a
\* write-off is what it leaves of the balance, unless somebody moved money since;
\* and who can bring a deleted account back began before the deletion.
THEOREM ClosingInvariance == ClosingSpec => []ClosingIInv
<1>1. ClosingInit => ClosingIInv
  BY ClosingInitInv
<1>2. ClosingIInv /\ [ClosingNext]_closingVars => ClosingIInv'
  BY ClosingNextInv
<1> QED
  BY <1>1, <1>2, PTL DEF ClosingSpec

\* Type correctness of accounts, write-offs and the calls that close them.
THEOREM ClosingTypeCorrect == ClosingSpec => []ClosingTypeOK
<1>1. ClosingIInv => ClosingTypeOK
  BY DEF ClosingIInv
<1> QED
  BY <1>1, ClosingInvariance, PTL

\* deleteUser and closeUser: a deleted account has no balance but what moved
\* behind their check, or what a PATCH or a stale save did not check.
THEOREM DeletesSettled == ClosingSpec => []DeletedIsSettled
<1>1. ClosingIInv => DeletedIsSettled
  BY DEF ClosingIInv
<1> QED
  BY <1>1, ClosingInvariance, PTL

\* Only a step that saves the user changes whether it is deleted.
LEMMA RevivalIsASave ==
  ASSUME ClosingIInv, ClosingNext, account.deleted, ~account'.deleted
  PROVE  \E c \in Closers : closer[c].old /\ closer'[c] = Off
<1>1. \A c \in Closers : Revives(closer[c]) => closer[c].old
  BY DEF ClosingIInv, Sound
<1>2. PICK c \in Closers : SaveClose(c) \/ SaveUser(c) \/ Patch(c)
  BY DEF ClosingNext, BeginWriteOff, StoreWriteOff, PayWriteOff, LinkWriteOff,
         ListForSync, SyncDown, DeleteUser, CheckClose, RefuseClose,
         BeginUserUpdate, BeginExpiry, BeginPatch, Fail, MoveMoney
<1>3. closer'[c] = Off
  <2>1. PICK columns, settled : Store(c, columns, settled)
    BY <1>2 DEF SaveClose, SaveUser, Patch
  <2> QED
    BY <2>1 DEF Store
<1>4. Revives(closer[c])
  <2>1. CASE Patch(c)
    BY <2>1 DEF Patch, Revives
  <2>2. CASE SaveClose(c)
    <3>1. account' = Columns(c) /\ closer[c].pc = "checked"
      BY <2>2 DEF SaveClose, Store
    <3> QED
      BY <3>1 DEF Columns, Revives
  <2>3. CASE SaveUser(c)
    <3>1. account' = Columns(c) /\ closer[c].pc = "editing"
      BY <2>3 DEF SaveUser, Store
    <3> QED
      BY <3>1 DEF Columns, Revives
  <2> QED
    BY <1>2, <2>1, <2>2, <2>3
<1> QED
  BY <1>1, <1>3, <1>4

\* A deleted account comes back only through a call that loaded or listed the
\* user before the deletion and saves it now.
THEOREM DeletionIsFinal == ClosingSpec => DeletedStaysDeleted
<1>1. ClosingIInv /\ [ClosingNext]_closingVars =>
          [account.deleted /\ ~account'.deleted =>
              \E c \in Closers : closer[c].old /\ closer'[c] = Off]_closingVars
  BY RevivalIsASave
<1> QED
  BY <1>1, ClosingInvariance, PTL DEF ClosingSpec, DeletedStaysDeleted

\* A write-off that nobody interfered with is not refused by its closing, and
\* leaves a deleted account without balance.
THEOREM WriteOffsSettle == ClosingSpec => WriteOffSettles
<1>1. ASSUME ClosingIInv, NEW c \in Closers, closer[c].writeOff # NoWriteOff,
             ~closer[c].stale
      PROVE  /\ ~RefuseClose(c)
             /\ SaveClose(c) => worth' = 0 /\ account'.deleted
  <2>1. KnowsBalance(closer[c], worth)
    BY <1>1 DEF ClosingIInv, Sound
  <2>2. ~RefuseClose(c)
    BY <1>1, <2>1 DEF KnowsBalance, RefuseClose
  <2>3. ASSUME SaveClose(c) PROVE worth' = 0 /\ account'.deleted
    <3>1. closer[c].deleted /\ worth = 0
      BY <1>1, <2>1, <2>3 DEF KnowsBalance, SaveClose
    <3>2. worth' = worth /\ account' = Columns(c)
      BY <2>3 DEF SaveClose, Store
    <3> QED
      BY <3>1, <3>2 DEF Columns
  <2> QED
    BY <2>2, <2>3
<1>2. ClosingIInv /\ [ClosingNext]_closingVars =>
          [\A c \in Closers :
              closer[c].writeOff # NoWriteOff /\ ~closer[c].stale =>
                  /\ ~RefuseClose(c)
                  /\ SaveClose(c) => worth' = 0 /\ account'.deleted]_closingVars
  BY <1>1
<1> QED
  BY <1>2, ClosingInvariance, PTL DEF ClosingSpec, WriteOffSettles

-----------------------------------------------------------------------------
(* All that has to do with an account *)

\* A step of one component leaves the others as they are.
LEMMA AccountsSteps ==
  ASSUME [AccountsNext]_accountsVars
  PROVE  /\ [Next]_vars /\ [ClosingNext]_closingVars
         /\ [CostsNext]_costsVars /\ [PurchasesNext]_purchasesVars
  BY DEF AccountsNext, accountsVars

\* Payout requests, write-offs, administrative costs and purchases, side by side,
\* keep their types for every value of the constants.
THEOREM AccountsTypeCorrect == AccountsSpec => []AccountsTypeOK
<1> DEFINE All == TypeOK /\ ClosingIInv /\ CostsIInv /\ PurchasesIInv
<1>1. AccountsInit => All
  BY TypeInit, ClosingInitInv, CostsInitInv, PurchasesInitInv DEF AccountsInit
<1>2. All /\ [AccountsNext]_accountsVars => All'
  BY AccountsSteps, TypeNext, ClosingNextInv, CostsNextInv, PurchasesNextInv
<1>3. All => AccountsTypeOK
  BY DEF AccountsTypeOK, ClosingIInv, CostsIInv, PurchasesIInv
<1> HIDE DEF All
<1> QED
  BY <1>1, <1>2, <1>3, PTL DEF AccountsSpec
=============================================================================
