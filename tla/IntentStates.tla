---------------------------- MODULE IntentStates ----------------------------
(***************************************************************************)
(* The statuses SudoSOS appends to a Stripe payment intent and the rule    *)
(* that decides whether one more may be appended.  Shared by the modules   *)
(* that process Stripe webhooks.                                           *)
(***************************************************************************)

\* enum StripePaymentIntentState
States == {"CREATED", "PROCESSING", "SUCCEEDED", "FAILED", "CANCELLED"}

\* mutant: a payment that is processing cannot succeed any more
Exclusive_WithProcessing == {"PROCESSING", "SUCCEEDED", "FAILED", "CANCELLED"}

\* mutuallyExclusiveStates of createNewPaymentIntentStatus
Exclusive == {"SUCCEEDED", "FAILED", "CANCELLED"}

(***************************************************************************)
(* Whether createNewPaymentIntentStatus accepts state s for an intent that *)
(* it read with the statuses seen: s is new, and if s is one of the        *)
(* exclusive states none of the others is there.                           *)
(***************************************************************************)
Recordable(seen, s) ==
    /\ s \notin seen
    /\ s \in Exclusive => seen \cap Exclusive = {}
=============================================================================
