------------------------------- MODULE Fines -------------------------------
(***************************************************************************)
(* The fines of one user: handouts, waivers, deletions, and the subscriber *)
(* that forgets the fines when a credit brings the balance back to zero.   *)
(* A handout is one database transaction, based on a balance read before   *)
(* it.  A credit is decided upon inside its own transaction, from a        *)
(* balance read on another connection.  Waivers and deletions use no       *)
(* transaction: every statement is a step.  Users share no fines, so a     *)
(* handout of many is, for each of them, what is modelled here.            *)
(***************************************************************************)
EXTENDS Integers, FiniteSets, FiniteSetsExt

CONSTANTS
    Groups,       \* ids of UserFineGroups
    FineIds,      \* ids of fines, and of the transfers that charge them
    Waivers,      \* ids of transfers that waive fines
    Desks,        \* API calls that can be in progress at once
    RefBalances,  \* balances on the reference dates of handouts
    FineAmounts,  \* amounts of credits, of waivers and of sales
    None,         \* no group, no fine or no waiver
    MinBalance,   \* bound on what sales do to the balance
    MaxBalance,
    MaxFineFaults \* bound on crashes

\* Ids and rows are not None, and amounts are whole cents.
ASSUME FinesAssumption ==
    /\ None \notin Groups \cup FineIds \cup Waivers
    /\ None \notin [group : Groups, amount : Nat]
    /\ IsFiniteSet(FineIds) /\ IsFiniteSet(Waivers)
    /\ FineAmounts \subseteq Nat \ {0} /\ RefBalances \subseteq Int
    /\ MinBalance \in Int /\ MaxBalance \in Int /\ MaxFineFaults \in Nat

VARIABLES
    balance,       \* the user's balance, of what has been committed
    fines,         \* the stored fines: id -> group and amount, or None
    charges,       \* the fines whose transfer is stored
    groups,        \* the stored groups
    currentFines,  \* the group that User.currentFines refers to
    waivers,       \* waiver transfers: id -> group and amount, or None
    waivedTransfer,\* the waiver that a group refers to
    desk,          \* calls in progress
    owed,          \* history: fines since the user's fines were last cleared
    contended,     \* history: groups with overlapping, cut short or late calls
    stranded,      \* history: waivers that could not be linked
    fineFaults     \* crashes so far

finesVars == <<balance, fines, charges, groups, currentFines, waivers,
               waivedTransfer, desk, owed, contended, stranded, fineFaults>>

books == <<balance, fines, charges, groups, currentFines, waivers,
           waivedTransfer>>

-----------------------------------------------------------------------------

\* calculateFine, in cents: one euro per five euros of debt, at most five.
CalculateFine(b) ==
    LET fine == 100 * ((- b) \div 500)
    IN IF fine < 0 THEN 0 ELSE IF fine > 500 THEN 500 ELSE fine

FineRows == [group : Groups, amount : 0 .. 500]
WaiverRows == [group : Groups, amount : FineAmounts]

\* What a call remembers.  known: the fines it loaded with the group; whole: its
\* group is new, its fine the only one, or its waiver the full amount; holds: the
\* user had fines; before: the calls whose transfer was inserted before its own;
\* overtaken: a transfer inserted after its own was committed first; stale
\* (history): somebody else changed the books since the call read them.
DeskStates ==
    [pc : {"idle", "fined", "inserted", "judged", "weighed",
           "emptied", "granted", "linked", "chosen", "removed", "refunded",
           "spared"},
     group : Groups \cup {None}, fine : FineIds \cup {None},
     waiver : Waivers \cup {None}, amount : Nat, known : SUBSET FineIds,
     whole : BOOLEAN, holds : BOOLEAN, before : SUBSET Desks,
     overtaken : BOOLEAN, clears : BOOLEAN, stale : BOOLEAN]

Resting ==
    [pc |-> "idle", group |-> None, fine |-> None, waiver |-> None,
     amount |-> 0, known |-> {}, whole |-> FALSE, holds |-> FALSE, before |-> {},
     overtaken |-> FALSE, clears |-> FALSE, stale |-> FALSE]

FinesInit ==
    /\ balance = 0
    /\ fines = [f \in FineIds |-> None]
    /\ charges = {}
    /\ groups = {}
    /\ currentFines = None
    /\ waivers = [w \in Waivers |-> None]
    /\ waivedTransfer = [g \in Groups |-> None]
    /\ desk = [d \in Desks |-> Resting]
    /\ owed = {}
    /\ contended = {}
    /\ stranded = {}
    /\ fineFaults = 0

FinesOf(g) == {f \in FineIds : fines[f] # None /\ fines[f].group = g}
WaiversOf(g) ==
    {w \in Waivers \ stranded : waivers[w] # None /\ waivers[w].group = g}

Total(rows, ids) == MapThenSumSet(LAMBDA x : rows[x].amount, ids)
TotalFines(g) == Total(fines, FinesOf(g))
TotalWaived(g) == Total(waivers, WaiversOf(g))

Busy(d) == desk[d] # Resting

\* The calls with an uncommitted transfer.
Inserted == {d \in Desks : desk[d].pc \in {"fined", "inserted", "judged"}}

\* Call d goes on as next without changing the books.
Continue(d, next) == desk' = [desk EXCEPT ![d] = next]

\* Call d goes on as next after a change that the others have not seen; a
\* committed transfer of d overtakes those in late.
Change(d, next, late) ==
    desk' = [e \in Desks |->
        IF e = d THEN next
        ELSE IF ~Busy(e) THEN Resting
        ELSE [desk[e] EXCEPT !.stale = TRUE, !.overtaken = @ \/ e \in late]]

\* currentFines becomes g; without fines nothing is owed.
SetCurrentFines(g) ==
    /\ currentFines' = g
    /\ owed' = IF g = None THEN {} ELSE owed

\* Two of the calls that use no transaction work on one group.
Overlap(d, g) ==
    contended' = contended \cup
        (IF \E e \in Desks \ {d} : desk[e].group = g /\ desk[e].pc # "fined"
         THEN {g} ELSE {})

\* An id that is in nobody's hands.
Fresh(id) ==
    \A d \in Desks :
        id \notin {desk[d].group, desk[d].fine, desk[d].waiver} \cup desk[d].known

-----------------------------------------------------------------------------
(* POST /fines/handout *)

\* The balance on the reference date was read before, and is any balance.  The
\* transaction finds the group of the user, or makes one, and inserts the
\* transfer and the fine.
OpenHandout(d) ==
    /\ ~Busy(d)
    /\ \E b \in RefBalances, f \in FineIds, g \in Groups :
           /\ fines[f] = None /\ f \notin charges /\ Fresh(f)
           /\ IF currentFines # None THEN g = currentFines
              ELSE g \notin groups /\ Fresh(g) /\ WaiversOf(g) = {}
           /\ Continue(d, [Resting EXCEPT !.pc = "fined", !.fine = f, !.group = g,
                  !.amount = CalculateFine(b), !.whole = currentFines = None,
                  !.before = Inserted])
    /\ UNCHANGED <<books, owed, contended, stranded, fineFaults>>

\* The group that the handout found is not the user's any more.
Moved(d) == currentFines # (IF desk[d].whole THEN None ELSE desk[d].group)

\* mutant: a new group is not saved as the user's
CommitHandout_NotCurrent(d) ==
    LET me == desk[d] IN
    /\ me.pc = "fined"
    /\ balance' = balance - me.amount
    /\ fines' = [fines EXCEPT ![me.fine] = [group |-> me.group, amount |-> me.amount]]
    /\ charges' = charges \cup {me.fine}
    /\ groups' = groups \cup {me.group}
    /\ owed' = owed \cup (IF me.amount > 0 THEN {me.fine} ELSE {})
    /\ contended' = (contended \ (IF me.whole THEN {me.group} ELSE {})) \cup
           (IF Moved(d) THEN {me.group, currentFines} \ {None} ELSE {})
    /\ Change(d, Resting, me.before)
    /\ UNCHANGED <<currentFines, waivers, waivedTransfer, stranded, fineFaults>>

\* A new group becomes the user's only if there is something to pay.
CommitHandout(d) ==
    LET me == desk[d] IN
    /\ me.pc = "fined"
    /\ balance' = balance - me.amount
    /\ fines' = [fines EXCEPT ![me.fine] = [group |-> me.group, amount |-> me.amount]]
    /\ charges' = charges \cup {me.fine}
    /\ groups' = groups \cup {me.group}
    /\ currentFines' = IF me.whole /\ me.amount > 0 THEN me.group ELSE currentFines
    /\ owed' = owed \cup (IF me.amount > 0 THEN {me.fine} ELSE {})
    /\ contended' = (contended \ (IF me.whole THEN {me.group} ELSE {})) \cup
           (IF Moved(d) THEN {me.group, currentFines} \ {None} ELSE {})
    /\ Change(d, Resting, me.before)
    /\ UNCHANGED <<waivers, waivedTransfer, stranded, fineFaults>>

-----------------------------------------------------------------------------
(* A transfer to the user, and TransferSubscriber.afterInsert *)

\* A top-up, a manual transfer, an invoice, ...
InsertCredit(d, a) ==
    /\ ~Busy(d)
    /\ balance + a <= MaxBalance
    /\ Continue(d, [Resting EXCEPT !.pc = "inserted", !.amount = a,
                        !.holds = currentFines # None, !.before = Inserted])
    /\ UNCHANGED <<books, owed, contended, stranded, fineFaults>>

\* mutant: a transfer is thought to be part of the balance already
Judge_Included(d) ==
    /\ desk[d].pc = "inserted"
    /\ desk[d].holds
    /\ Continue(d, [desk[d] EXCEPT !.pc = "judged", !.clears = balance >= 0])
    /\ UNCHANGED <<books, owed, contended, stranded, fineFaults>>

\* The balance comes from another connection, which does not see the transfer.
\* It is added unless that balance includes a transfer with a higher id.
Judge(d) ==
    /\ desk[d].pc = "inserted"
    /\ desk[d].holds
    /\ Continue(d, [desk[d] EXCEPT !.pc = "judged",
           !.clears = balance + (IF desk[d].overtaken THEN 0 ELSE desk[d].amount) >= 0])
    /\ UNCHANGED <<books, owed, contended, stranded, fineFaults>>

CommitCredit(d) ==
    LET me == desk[d] IN
    /\ me.pc = IF me.holds THEN "judged" ELSE "inserted"
    /\ balance' = balance + me.amount
    /\ currentFines' = IF me.clears THEN None ELSE currentFines
    /\ owed' = IF me.clears THEN {} ELSE owed
    /\ waivers' = IF me.group = None THEN waivers
                  ELSE [waivers EXCEPT ![me.waiver] =
                            [group |-> me.group, amount |-> me.amount]]
    /\ Change(d, IF me.group = None THEN Resting ELSE [me EXCEPT !.pc = "granted"],
              me.before)
    /\ UNCHANGED <<fines, charges, groups, waivedTransfer, contended, stranded, fineFaults>>

\* A statement fails and its transaction is rolled back.
RollBack(d) ==
    /\ d \in Inserted
    /\ Continue(d, Resting)
    /\ UNCHANGED <<books, owed, contended, stranded, fineFaults>>

-----------------------------------------------------------------------------
(* POST /users/{id}/fines/waive *)

\* The user's fines are loaded; at most their total can be waived.
Weigh(d, a) ==
    LET g == currentFines IN
    /\ ~Busy(d)
    /\ g # None
    /\ a <= TotalFines(g)
    /\ Continue(d, [Resting EXCEPT !.pc = "weighed", !.group = g, !.amount = a,
           !.waiver = waivedTransfer[g], !.known = FinesOf(g),
           !.whole = a = TotalFines(g)])
    /\ Overlap(d, g)
    /\ UNCHANGED <<books, owed, stranded, fineFaults>>

\* mutant: the waiver that the group had is kept
RemoveOldWaiver_Kept(d) ==
    /\ desk[d].pc = "weighed"
    /\ Continue(d, [desk[d] EXCEPT !.pc = "emptied", !.waiver = None])
    /\ UNCHANGED <<books, owed, contended, stranded, fineFaults>>

\* The waiver that the group had is removed; the reference to it is set to null.
RemoveOldWaiver(d) ==
    LET w == desk[d].waiver
        next == [desk[d] EXCEPT !.pc = "emptied", !.waiver = None]
    IN
    /\ desk[d].pc = "weighed"
    /\ IF w # None /\ waivers[w] # None
       THEN /\ balance' = balance - waivers[w].amount
            /\ waivers' = [waivers EXCEPT ![w] = None]
            /\ waivedTransfer' = [g \in Groups |->
                   IF waivedTransfer[g] = w THEN None ELSE waivedTransfer[g]]
            /\ Change(d, next, {})
       ELSE /\ Continue(d, next)
            /\ UNCHANGED <<balance, waivers, waivedTransfer>>
    /\ UNCHANGED <<fines, charges, groups, currentFines, owed, contended,
                   stranded, fineFaults>>

\* The new transfer goes through the subscriber like any other.
InsertWaiver(d) ==
    /\ desk[d].pc = "emptied"
    /\ \E w \in Waivers :
           /\ waivers[w] = None /\ Fresh(w)
           /\ Continue(d, [desk[d] EXCEPT !.pc = "inserted", !.waiver = w,
                  !.holds = currentFines # None, !.before = Inserted])
    /\ UNCHANGED <<books, owed, contended, stranded, fineFaults>>

\* Saving the group stores it again if it was removed.
LinkWaiver(d) ==
    LET me == desk[d] IN
    /\ me.pc = "granted"
    /\ FinesOf(me.group) \subseteq me.known
    /\ groups' = groups \cup {me.group}
    /\ waivedTransfer' = [waivedTransfer EXCEPT ![me.group] = me.waiver]
    /\ Continue(d, IF me.whole THEN [me EXCEPT !.pc = "linked"] ELSE Resting)
    /\ UNCHANGED <<balance, fines, charges, currentFines, waivers, owed,
                   contended, stranded, fineFaults>>

\* A fine that was added since the group was loaded would be taken out of the
\* group by saving it, but its reference cannot be null: the new waiver stays a
\* transfer that no group refers to.
LinkFails(d) ==
    LET me == desk[d] IN
    /\ me.pc = "granted"
    /\ ~ FinesOf(me.group) \subseteq me.known
    /\ stranded' = stranded \cup {me.waiver}
    /\ Continue(d, Resting)
    /\ UNCHANGED <<books, owed, contended, fineFaults>>

\* currentFines is set to null, whatever group it refers to by now; settled are
\* the fines that this is meant to clear.
Forget(d, settled) ==
    LET me == desk[d] IN
    /\ currentFines' = None
    /\ owed' = owed \ settled
    /\ contended' = contended \cup (IF me.stale THEN {currentFines} \ {None} ELSE {})
    /\ Change(d, Resting, {})
    /\ UNCHANGED <<balance, fines, charges, groups, waivers, waivedTransfer,
                   stranded, fineFaults>>

\* All was waived.
ForgetWaived(d) ==
    /\ desk[d].pc = "linked"
    /\ Forget(d, FinesOf(desk[d].group))

-----------------------------------------------------------------------------
(* DELETE /fines/single/{id}, and for every fine of DELETE /fines/handout/{id} *)

\* The fine is loaded with its transfer and the fines of its group.
Choose(d, f) ==
    /\ ~Busy(d)
    /\ fines[f] # None
    /\ Continue(d, [Resting EXCEPT !.pc = "chosen", !.fine = f,
           !.group = fines[f].group, !.amount = fines[f].amount,
           !.whole = FinesOf(fines[f].group) = {f}])
    /\ Overlap(d, fines[f].group)
    /\ UNCHANGED <<books, owed, stranded, fineFaults>>

\* A waiver of the group stays what it was.
RemoveFine(d) ==
    LET me == desk[d] IN
    /\ me.pc = "chosen"
    /\ fines' = [fines EXCEPT ![me.fine] = None]
    /\ owed' = owed \ {me.fine}
    /\ contended' = contended \cup
           (IF WaiversOf(me.group) # {} THEN {me.group} ELSE {})
    /\ Change(d, [me EXCEPT !.pc = "removed"], {})
    /\ UNCHANGED <<balance, charges, groups, currentFines, waivers,
                   waivedTransfer, stranded, fineFaults>>

RemoveCharge(d) ==
    LET me == desk[d] IN
    /\ me.pc = "removed"
    /\ balance' = IF me.fine \in charges THEN balance + me.amount ELSE balance
    /\ charges' = charges \ {me.fine}
    /\ Change(d, [me EXCEPT !.pc = "refunded"], {})
    /\ UNCHANGED <<fines, groups, currentFines, waivers, waivedTransfer, owed,
                   contended, stranded, fineFaults>>

\* mutant: the user still refers to a group that is gone
RemoveGroup_Dangling(d) ==
    LET g == desk[d].group IN
    /\ desk[d].pc = "refunded" /\ desk[d].whole
    /\ groups' = IF FinesOf(g) = {} THEN groups \ {g} ELSE groups
    /\ Change(d, Resting, {})
    /\ UNCHANGED <<balance, fines, charges, currentFines, waivers,
                   waivedTransfer, owed, contended, stranded, fineFaults>>

\* The last fine takes its group with it, and with that the reference of the
\* user, unless another fine refers to the group by now.  A handout that has
\* inserted one holds a lock on the group.
RemoveGroup(d) ==
    LET g == desk[d].group IN
    /\ desk[d].pc = "refunded" /\ desk[d].whole
    /\ \A e \in Desks : desk[e].pc = "fined" => desk[e].group # g
    /\ IF FinesOf(g) = {}
       THEN /\ groups' = groups \ {g}
            /\ waivedTransfer' = [waivedTransfer EXCEPT ![g] = None]
            /\ SetCurrentFines(IF currentFines = g THEN None ELSE currentFines)
            /\ Change(d, Resting, {})
       ELSE /\ Continue(d, Resting)
            /\ UNCHANGED <<groups, waivedTransfer, currentFines, owed>>
    /\ UNCHANGED <<balance, fines, charges, waivers, contended, stranded, fineFaults>>

\* Otherwise the fines are forgotten if the balance is not negative any more.
Spare(d) ==
    /\ desk[d].pc = "refunded" /\ ~desk[d].whole
    /\ Continue(d, IF balance < 0 THEN Resting ELSE [desk[d] EXCEPT !.pc = "spared"])
    /\ UNCHANGED <<books, owed, contended, stranded, fineFaults>>

\* A user without a debt owes no fine of any group.
ForgetSpared(d) ==
    /\ desk[d].pc = "spared"
    /\ Forget(d, IF desk[d].stale THEN FinesOf(desk[d].group) ELSE owed)

-----------------------------------------------------------------------------
(* The rest of the system *)

\* A purchase or a sale of the user, of which the subscriber hears nothing.
Trade(a) ==
    /\ balance' = balance + a
    /\ balance' \in MinBalance .. MaxBalance
    /\ desk' = [d \in Desks |-> IF Busy(d) THEN [desk[d] EXCEPT !.stale = TRUE]
                                ELSE Resting]
    /\ UNCHANGED <<fines, charges, groups, currentFines, waivers,
                   waivedTransfer, owed, contended, stranded, fineFaults>>

\* Waivers and deletions are cut short, transactions are rolled back.
FinesCrash ==
    /\ fineFaults < MaxFineFaults
    /\ fineFaults' = fineFaults + 1
    /\ contended' = contended \cup ({desk[d].group : d \in Desks} \ {None})
    /\ desk' = [d \in Desks |-> Resting]
    /\ UNCHANGED <<books, owed, stranded>>

FinesNext ==
    \/ \E d \in Desks :
           \/ OpenHandout(d) \/ CommitHandout(d)
           \/ Judge(d) \/ CommitCredit(d) \/ RollBack(d)
           \/ RemoveOldWaiver(d) \/ InsertWaiver(d) \/ LinkWaiver(d)
           \/ LinkFails(d) \/ ForgetWaived(d)
           \/ RemoveFine(d) \/ RemoveCharge(d) \/ RemoveGroup(d)
           \/ Spare(d) \/ ForgetSpared(d)
           \/ \E a \in FineAmounts : InsertCredit(d, a) \/ Weigh(d, a)
           \/ \E f \in FineIds : Choose(d, f)
    \/ \E a \in FineAmounts : Trade(a) \/ Trade(- a)
    \/ FinesCrash

FinesSpec == FinesInit /\ [][FinesNext]_finesVars

-----------------------------------------------------------------------------
(* Properties *)

\* The values of the variables.
FinesTypeOK ==
    /\ balance \in Int
    /\ fines \in [FineIds -> FineRows \cup {None}]
    /\ charges \subseteq FineIds
    /\ groups \subseteq Groups
    /\ currentFines \in groups \cup {None}
    /\ waivers \in [Waivers -> WaiverRows \cup {None}]
    /\ waivedTransfer \in [Groups -> Waivers \cup {None}]
    /\ desk \in [Desks -> DeskStates]
    /\ owed \subseteq FineIds
    /\ contended \subseteq Groups
    /\ stranded \subseteq Waivers
    /\ fineFaults \in 0 .. MaxFineFaults

\* A waiver replaces the one before it: the transfers that waive the fines of a
\* group are the one that it refers to, or that a call is about to link, and
\* give back at most the sum of its fines.  Except if two calls on the group
\* overlapped, one was cut short, or a fine was deleted after a waiver; and besides
\* the waivers that a handout in the middle of the call left stranded.
WaivedWithinFines ==
    \A g \in Groups \ contended :
        /\ WaiversOf(g) \subseteq
               {waivedTransfer[g]} \cup {desk[d].waiver : d \in Desks}
        /\ TotalWaived(g) <= TotalFines(g)

\* The group that the user sees is the right one: every fine handed out since the
\* user's fines were last cleared is in it, unless the handout, a waiver or a
\* deletion met another change of the fines; and it has a fine, or a deletion is
\* about to see to it.
OwedIsCurrent ==
    /\ \A f \in owed : fines[f].group \in {currentFines} \cup contended
    /\ \/ currentFines \in {None} \cup contended
       \/ FinesOf(currentFines) # {}
       \/ \E d \in Desks :
              desk[d].pc \in {"removed", "refunded"} /\ desk[d].group = currentFines

\* A credit clears the fines of its user exactly when the new balance is not
\* negative, if nobody else changed the books since it was inserted.
CreditClearsFines ==
    [][\A d \in Desks :
          CommitCredit(d) /\ desk[d].holds /\ ~desk[d].stale =>
              (currentFines' = None <=> balance' >= 0)]_finesVars
=============================================================================
