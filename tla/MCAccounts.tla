------------------------------ MODULE MCAccounts ------------------------------
(***************************************************************************)
(* What a member buys, is paid out, is charged for inactivity and has      *)
(* written off, on small instances.  The components share no state: a      *)
(* behaviour is one of the component that part names, while the others     *)
(* stay as they begin.                                                     *)
(***************************************************************************)
EXTENDS PayoutRequests, AccountClosing, InactiveCosts, Purchases, TLC

VARIABLE part

Parts == {"payouts", "closing", "costs", "purchases"}

accountsVars == <<vars, closingVars, costsVars, purchasesVars, part>>

AccountsInit ==
    /\ part \in Parts
    /\ Init /\ ClosingInit /\ CostsInit /\ PurchasesInit
    /\ canGoIntoDebt \/ getsNotices => part = "purchases"

AccountsNext ==
    \/ /\ part = "payouts" /\ Next
       /\ UNCHANGED <<closingVars, costsVars, purchasesVars, part>>
    \/ /\ part = "closing" /\ ClosingNext
       /\ UNCHANGED <<vars, costsVars, purchasesVars, part>>
    \/ /\ part = "costs" /\ CostsNext
       /\ UNCHANGED <<vars, closingVars, purchasesVars, part>>
    \/ /\ part = "purchases" /\ PurchasesNext
       /\ UNCHANGED <<vars, closingVars, costsVars, part>>

AccountsSpec == AccountsInit /\ [][AccountsNext]_accountsVars

\* One exception at a time: requests on which two calls raced, or a crash.
\* After a crash, administrative costs and purchases are left to one call at a time,
\* and so are the purchases of a user who gets no notices.
Bound ==
    /\ Cardinality(raced) + faults <= 1
    /\ officerFaults > 0 => Cardinality({o \in Officers : ~Away(o)}) <= 1
    /\ tillFaults > 0 \/ ~getsNotices => Cardinality({t \in Tills : ~Unused(t)}) <= 1

\* The components are given the same model values, so that one permutation does
\* for all of them.
Symmetry == Permutations(Requests) \cup Permutations(Calls)

\* The variables of the four components have the values they are meant to have.
AccountsTypeOK == TypeOK /\ ClosingTypeOK /\ CostsTypeOK /\ PurchasesTypeOK
=============================================================================
