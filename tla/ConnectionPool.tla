--------------------------- MODULE ConnectionPool ---------------------------
(***************************************************************************)
(* The pool of database connections.  A service built without a manager,   *)
(* and every static method of an entity, asks the pool for a connection of *)
(* its own, also inside a database transaction, which keeps its connection *)
(* until it commits: the Stripe webhook does so to find its payment intent *)
(* and the subscribers of Transfer and Transaction to read a balance.      *)
(*                                                                         *)
(* The pool (external) grants connections in the order they are asked for  *)
(* and lets those it has none for wait without a timeout.                  *)
(***************************************************************************)
EXTENDS Integers, Sequences, FiniteSets

CONSTANTS
    Requests,       \* what can use the database at once
    Transactions,   \* those of them that open a database transaction
    PoolSize        \* connections

ASSUME RequestsAssumption ==
    IsFiniteSet(Requests) /\ Transactions \subseteq Requests
ASSUME PoolSizeAssumption == PoolSize \in Nat \ {0}

VARIABLES
    pc,     \* where each request is
    free,   \* connections nobody has
    queue   \* requests that wait for a connection, in the order they asked

poolVars == <<pc, free, queue>>

PoolInit ==
    /\ pc = [r \in Requests |-> "idle"]
    /\ free = PoolSize
    /\ queue = <<>>

\* Request r goes on to a state in which it waits for a connection.
Ask(r, from, to) ==
    /\ pc[r] = from
    /\ pc' = [pc EXCEPT ![r] = to]
    /\ queue' = Append(queue, r)
    /\ UNCHANGED free

\* Mutant: the newest request first.
Grant_Newest ==
    /\ free > 0
    /\ queue # <<>>
    /\ free' = free - 1
    /\ queue' = SubSeq(queue, 1, Len(queue) - 1)
    /\ pc' = [pc EXCEPT ![queue[Len(queue)]] =
                 IF @ = "starting" THEN "open" ELSE "nested"]

\* The pool hands out a connection to the one that has waited longest.
Grant ==
    /\ free > 0
    /\ queue # <<>>
    /\ free' = free - 1
    /\ queue' = Tail(queue)
    /\ pc' = [pc EXCEPT ![Head(queue)] =
                 IF @ = "starting" THEN "open" ELSE "nested"]

Release(r, from, to) ==
    /\ pc[r] = from
    /\ pc' = [pc EXCEPT ![r] = to]
    /\ free' = free + 1
    /\ UNCHANGED queue

\* A query, or the start of a database transaction.
Begin(r) == Ask(r, "idle", "starting")

\* Mutant: a query through the global manager by whoever has a connection
AskNested_Anyone(r) == Ask(r, "open", "nesting")

\* A query through the global manager within a database transaction.
AskNested(r) == r \in Transactions /\ Ask(r, "open", "nesting")

EndNested(r) == Release(r, "nested", "open")

\* The query is done, or the transaction commits or rolls back.
EndRequest(r) == Release(r, "open", "idle")

PoolNext ==
    \/ Grant
    \/ \E r \in Requests : Begin(r) \/ AskNested(r) \/ EndNested(r) \/ EndRequest(r)

PoolSpec == PoolInit /\ [][PoolNext]_poolVars

\* The database answers every query, and a transaction has only so many of them.
PoolFairness ==
    /\ WF_poolVars(Grant)
    /\ \A r \in Requests : WF_poolVars(EndNested(r)) /\ SF_poolVars(EndRequest(r))

-----------------------------------------------------------------------------
(* Properties *)

\* The values of the variables; the pool never has more connections than it opened.
PoolTypeOK ==
    /\ pc \in [Requests -> {"idle", "starting", "open", "nesting", "nested"}]
    /\ free \in 0 .. PoolSize
    /\ queue \in Seq(Requests)

Waiting == {r \in Requests : pc[r] \in {"starting", "nesting"}}

\* Somebody waits and nobody will give a connection back.
Stuck ==
    /\ Waiting # {}
    /\ free = 0
    /\ \A r \in Requests : pc[r] \notin {"open", "nested"}

\* Every connection belongs to a transaction that waits for another one.
Saturated ==
    Cardinality({r \in Transactions : pc[r] = "nesting"}) = PoolSize

\* The whole back end comes to a halt only when as many transactions as the
\* pool has connections each wait for their second one.
StuckIsSaturated == Stuck => Saturated

\* Until then every query and every transaction gets its connections.
EveryoneServed ==
    \A r \in Requests : pc[r] # "idle" ~> (pc[r] = "idle" \/ Saturated)
=============================================================================
