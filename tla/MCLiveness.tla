------------------------------ MODULE MCLiveness ------------------------------
(***************************************************************************)
(* What must happen in the end, on small instances: terminal payments with *)
(* their locks and deadlocks, and requests for database connections.  They *)
(* share no state: a behaviour is one of the component that part names,    *)
(* while the other stays as it begins.                                     *)
(***************************************************************************)
EXTENDS TerminalPayments, ConnectionPool, TLC

VARIABLE part

Parts == {"terminal", "pool"}

livenessVars == <<vars, poolVars, part>>

LivenessInit == part \in Parts /\ Init /\ PoolInit

LivenessNext ==
    \/ part = "terminal" /\ Next /\ UNCHANGED <<poolVars, part>>
    \/ part = "pool" /\ PoolNext /\ UNCHANGED <<vars, part>>

\* Both are scheduled fairly: at rest, a component has no step that must be taken.
LivenessSpec ==
    LivenessInit /\ [][LivenessNext]_livenessVars /\ Fairness /\ PoolFairness
=============================================================================
