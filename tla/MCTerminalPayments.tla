------------------------- MODULE MCTerminalPayments -------------------------
(* TerminalPayments on small instances. *)
EXTENDS TerminalPayments, TLC

Symmetry ==
    Permutations(Hooks) \cup Permutations(Calls) \cup Permutations(Readers)

BusyCalls == {c \in Calls : call[c] # Idle}
BusyHooks == {h \in Hooks : hook[h] # Idle}
BusyReaders == {t \in Readers : reader[t] # NoPayment}

\* Two calls, two readers and one webhook task are busy at once, or two tasks
\* with one call and one reader.
Bound ==
    Cardinality(BusyHooks) > 1 =>
        Cardinality(BusyCalls) <= 1 /\ Cardinality(BusyReaders) <= 1
=============================================================================
