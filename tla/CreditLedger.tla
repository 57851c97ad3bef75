---------------------------- MODULE CreditLedger ----------------------------
(***************************************************************************)
(* What the settlement of Stripe payments promises, whatever consumer a    *)
(* payment belongs to: money is credited only for a payment that Stripe    *)
(* captured, and at most once.                                             *)
(***************************************************************************)
EXTENDS Naturals

CONSTANT Payments

VARIABLES
    captured,   \* the payments for which Stripe took the money
    credit      \* how many times each payment was credited to its user

vars == <<captured, credit>>

Init ==
    /\ captured = {}
    /\ credit = [p \in Payments |-> 0]

Capture(p) ==
    /\ p \notin captured
    /\ captured' = captured \cup {p}
    /\ UNCHANGED credit

Credit(p) ==
    /\ p \in captured
    /\ credit[p] = 0
    /\ credit' = [credit EXCEPT ![p] = 1]
    /\ UNCHANGED captured

Next == \E p \in Payments : Capture(p) \/ Credit(p)

Spec == Init /\ [][Next]_vars
=============================================================================
