----------------------------- MODULE Purchases -----------------------------
(***************************************************************************)
(* The purchases of one user: POST, PATCH and DELETE on transactions, and  *)
(* the sales that the webhook of a terminal payment books, among the other *)
(* rows that make the balance: transfers from and to the user, and what    *)
(* others buy of the user.  The balance is checked by one statement and    *)
(* lowered by another.  While a transaction is inserted, a subscriber      *)
(* decides on another connection whether it puts the user into debt, from  *)
(* the balance of all rows and from that of the rows before it.  Rows are  *)
(* numbered in the order of their insertion, as their ids and their times  *)
(* are.                                                                    *)
(***************************************************************************)
EXTENDS Integers

CONSTANTS
    Tills,         \* calls in progress at once
    Totals,         \* prices of purchases and amounts of deposits
    MaxEntries,    \* bound on the rows of the ledger
    MaxTillFaults  \* bound on crashes and failing statements

ASSUME PurchasesAssumption ==
    /\ Totals \subseteq Nat \ {0}
    /\ MaxEntries \in Nat /\ MaxTillFaults \in Nat

VARIABLES
    canGoIntoDebt,   \* of the user
    getsNotices,     \* whether notices of debt go to users of this type
    ledger,          \* committed rows: what each adds to the balance, 0 is no row
    transferred,     \* those that are transfers
    paying,          \* the purchase that a transfer paid at a terminal, or 0
    entries,         \* rows inserted so far
    paidByTerminal,  \* purchases that a terminal payment refers to
    till,            \* calls in progress
    expected,        \* history: those of them that nobody deleted
    clashed,         \* history: purchases deleted during an update
    unchecked,       \* history: since the user is in debt, something went unchecked
    noticed,         \* history: since then, a notice was sent
    unnoticed,       \* history: since then, something happened without a notice
    tillFaults       \* faults so far

purchasesVars == <<canGoIntoDebt, getsNotices, ledger, transferred, paying,
                   entries, paidByTerminal, till, expected, clashed, unchecked, noticed,
                   unnoticed, tillFaults>>

buyer == <<canGoIntoDebt, getsNotices>>
book == <<ledger, transferred, paying, paidByTerminal, expected,
          unchecked, noticed, unnoticed>>

-----------------------------------------------------------------------------

Positions == 1 .. MaxEntries

\* What a call remembers.  sale: booked by a webhook; update: it replaces a row;
\* told: a notice was sent; blind (history): rows of its own millisecond escaped
\* the look at the balance before it; met (history): the ledger or the user
\* changed since the balance was checked.
TillStates ==
    [pc : {"idle", "verified", "editing", "replacing", "inserted", "told"},
     position : Positions \cup {0}, cost : Totals \cup {0},
     sale : BOOLEAN, update : BOOLEAN, told : BOOLEAN,
     blind : BOOLEAN, met : BOOLEAN]

Closed ==
    [pc |-> "idle", position |-> 0, cost |-> 0, sale |-> FALSE,
     update |-> FALSE, told |-> FALSE, blind |-> FALSE, met |-> FALSE]

PurchasesInit ==
    /\ canGoIntoDebt \in BOOLEAN
    /\ getsNotices \in BOOLEAN
    /\ ledger = [p \in Positions |-> 0]
    /\ transferred = {}
    /\ paying = [p \in Positions |-> 0]
    /\ entries = 0
    /\ paidByTerminal = {}
    /\ till = [t \in Tills |-> Closed]
    /\ expected = {}
    /\ clashed = {}
    /\ unchecked = FALSE
    /\ noticed = FALSE
    /\ unnoticed = FALSE
    /\ tillFaults = 0

Unused(t) == till[t] = Closed

\* A transaction in which the user is the buyer.
IsPurchase(p) == ledger[p] < 0 /\ p \notin transferred

Use(t, next) == till' = [till EXCEPT ![t] = next]

\* Running(rows)[p] is the balance of the rows up to p.
Running(rows) ==
    LET sum[p \in 0 .. MaxEntries] == IF p = 0 THEN 0 ELSE sum[p - 1] + rows[p]
    IN sum

FundsBefore(position) == Running(ledger)[position - 1]
Funds == Running(ledger)[MaxEntries]

\* The committed rows become rows, the calls in mine go on as next, and the
\* histories of a debt go on as given, or end with the debt.
Write(rows, mine, next, check, notice, other) ==
    LET inDebt == Running(rows)[MaxEntries] < 0 IN
    /\ ledger' = rows
    /\ till' = [t \in Tills |-> IF t \in mine THEN next
                   ELSE IF Unused(t) THEN Closed ELSE [till[t] EXCEPT !.met = TRUE]]
    /\ unchecked' = (inDebt /\ (unchecked \/ check))
    /\ noticed' = (inDebt /\ (noticed \/ notice))
    /\ unnoticed' = (inDebt /\ (unnoticed \/ other))

-----------------------------------------------------------------------------
(* POST /transactions *)

\* mutant: any positive balance will do
VerifyBalance_Positive(t, cost) ==
    /\ Unused(t)
    /\ canGoIntoDebt \/ Funds > 0
    /\ Use(t, [Closed EXCEPT !.pc = "verified", !.cost = cost])
    /\ UNCHANGED <<buyer, book, entries, clashed, tillFaults>>

\* verifyTransaction, and verifyBalance for a user that cannot go into debt
VerifyBalance(t, cost) ==
    /\ Unused(t)
    /\ canGoIntoDebt \/ Funds >= cost
    /\ Use(t, [Closed EXCEPT !.pc = "verified", !.cost = cost])
    /\ UNCHANGED <<buyer, book, entries, clashed, tillFaults>>

NewEntry == entries < MaxEntries /\ entries' = entries + 1

\* That others overtook the check is kept until the row is committed.
InsertPurchase(t) ==
    /\ till[t].pc = "verified"
    /\ NewEntry
    /\ Use(t, [till[t] EXCEPT !.pc = "inserted", !.position = entries + 1])
    /\ UNCHANGED <<buyer, book, clashed, tillFaults>>

\* mutant: the purchase itself is always thought to be in the balance
NoticeDebt_Included(t, first) ==
    LET me == till[t]
        current == Funds
    IN
    /\ me.pc = "inserted"
    /\ first <= me.position
    /\ Use(t, [me EXCEPT !.pc = "told",
                  !.told = getsNotices /\ current < 0 /\ FundsBefore(first) >= 0,
                  !.blind = FundsBefore(first) # FundsBefore(me.position)])
    /\ UNCHANGED <<buyer, book, entries, clashed, tillFaults>>

\* TransactionSubscriber.afterInsert: the purchase is not in the balance, which
\* is corrected unless the user bought or sold something with a higher id.  The
\* balance before is that of a millisecond ago: first is the first of the rows
\* since then.
NoticeDebt(t, first) ==
    LET me == till[t]
        overtaken == \E p \in Positions \ transferred : p > me.position /\ ledger[p] # 0
        current == Funds - (IF overtaken THEN 0 ELSE me.cost)
    IN
    /\ me.pc = "inserted"
    /\ first <= me.position
    /\ Use(t, [me EXCEPT !.pc = "told",
                  !.told = getsNotices /\ current < 0 /\ FundsBefore(first) >= 0,
                  !.blind = FundsBefore(first) # FundsBefore(me.position)])
    /\ UNCHANGED <<buyer, book, entries, clashed, tillFaults>>

CommitPurchase(t) ==
    LET me == till[t] IN
    /\ me.pc = "told" /\ ~me.sale
    /\ Write([ledger EXCEPT ![me.position] = - me.cost], {t},
             Closed, me.met \/ me.update, me.told, me.met \/ me.update \/ me.blind)
    /\ expected' = IF me.update THEN expected ELSE expected \cup {me.position}
    /\ UNCHANGED <<buyer, entries, transferred, paying, paidByTerminal, clashed,
                   tillFaults>>

-----------------------------------------------------------------------------
(* handleTerminalPaymentSuccess, in the transaction of the webhook *)

InsertSale(t, cost) ==
    /\ Unused(t)
    /\ NewEntry
    /\ Use(t, [Closed EXCEPT !.pc = "inserted", !.position = entries + 1,
                             !.cost = cost, !.sale = TRUE])
    /\ UNCHANGED <<buyer, book, clashed, tillFaults>>

\* With the transfer that pays.
CommitSale(t) ==
    LET me == till[t] IN
    /\ me.pc = "told" /\ me.sale
    /\ NewEntry
    /\ Write([ledger EXCEPT ![me.position] = - me.cost, ![entries + 1] = me.cost],
             {t}, Closed, FALSE, FALSE, FALSE)
    /\ transferred' = transferred \cup {entries + 1}
    /\ paying' = [paying EXCEPT ![entries + 1] = me.position]
    /\ expected' = expected \cup {me.position}
    /\ paidByTerminal' = paidByTerminal \cup {me.position}
    /\ UNCHANGED <<buyer, clashed, tillFaults>>

\* A later step of the webhook fails.
RollBackSale(t) ==
    /\ till[t].sale
    /\ Use(t, Closed)
    /\ UNCHANGED <<buyer, book, entries, clashed, tillFaults>>

-----------------------------------------------------------------------------
(* PATCH and DELETE /transactions/{id} *)

\* verifyTransaction, but not the balance
BeginReplace(t, p, cost) ==
    /\ Unused(t)
    /\ IsPurchase(p)
    /\ Use(t, [Closed EXCEPT !.pc = "editing", !.position = p, !.cost = cost,
                             !.update = TRUE])
    /\ UNCHANGED <<buyer, book, entries, clashed, tillFaults>>

\* mutant: the new version is verified when the old one is gone
DeleteOld_BeforeVerifying(t) ==
    LET me == till[t] IN
    /\ me.pc = "editing"
    /\ me.position \notin paidByTerminal /\ IsPurchase(me.position)
    /\ \E next \in {[me EXCEPT !.pc = "replacing"], Closed} :
           Write([ledger EXCEPT ![me.position] = 0], {t}, next, FALSE, FALSE, FALSE)
    /\ UNCHANGED <<buyer, entries, transferred, paying, paidByTerminal, expected,
                   clashed, tillFaults>>

\* deleteTransaction within updateTransaction
DeleteOld(t) ==
    LET me == till[t] IN
    /\ me.pc = "editing"
    /\ me.position \notin paidByTerminal /\ IsPurchase(me.position)
    /\ Write([ledger EXCEPT ![me.position] = 0], {t}, [me EXCEPT !.pc = "replacing"],
             FALSE, FALSE, FALSE)
    /\ UNCHANGED <<buyer, entries, transferred, paying, paidByTerminal, expected,
                   clashed, tillFaults>>

\* A 409 for what a terminal paid; a 500 for what is gone, of which the cache
\* cannot be cleared.
RefuseUpdate(t) ==
    LET p == till[t].position IN
    /\ till[t].pc = "editing"
    /\ p \in paidByTerminal \/ ~IsPurchase(p)
    /\ Use(t, Closed)
    /\ UNCHANGED <<buyer, book, entries, clashed, tillFaults>>

\* The new version has the id and the time of the old one.
InsertNew(t) ==
    /\ till[t].pc = "replacing"
    /\ Use(t, [till[t] EXCEPT !.pc = "inserted"])
    /\ UNCHANGED <<buyer, book, entries, clashed, tillFaults>>

\* mutant: also what a terminal paid can be deleted
DeletePurchase_Paid(p) ==
    /\ IsPurchase(p)
    /\ Write([ledger EXCEPT ![p] = 0], {}, Closed, FALSE, FALSE, FALSE)
    /\ expected' = expected \ {p}
    /\ clashed' = clashed \cup {q \in {p} : \E t \in Tills : till[t].position = q}
    /\ UNCHANGED <<buyer, entries, transferred, paying, paidByTerminal, tillFaults>>

\* deleteTransaction
DeletePurchase(p) ==
    /\ IsPurchase(p) /\ p \notin paidByTerminal
    /\ Write([ledger EXCEPT ![p] = 0], {}, Closed, FALSE, FALSE, FALSE)
    /\ expected' = expected \ {p}
    /\ clashed' = clashed \cup {q \in {p} : \E t \in Tills : till[t].position = q}
    /\ UNCHANGED <<buyer, entries, transferred, paying, paidByTerminal, tillFaults>>

-----------------------------------------------------------------------------
(* The rest of the system *)

\* A top-up, a payment of an invoice, a waiver: a transfer to the user.
Deposit(amount) ==
    /\ NewEntry
    /\ transferred' = transferred \cup {entries + 1}
    /\ Write([ledger EXCEPT ![entries + 1] = amount], {}, Closed, FALSE, FALSE, FALSE)
    /\ UNCHANGED <<buyer, paying, paidByTerminal, expected, clashed, tillFaults>>

\* Somebody buys something of the user's.
Sell(amount) ==
    /\ NewEntry
    /\ Write([ledger EXCEPT ![entries + 1] = amount], {}, Closed, FALSE, FALSE, FALSE)
    /\ UNCHANGED <<buyer, transferred, paying, paidByTerminal, expected, clashed,
                   tillFaults>>

\* A fine, a payout, an administrative cost, a transfer by hand: a transfer from
\* the user, which looks at no balance and sends no notice of debt.
Debit(amount) ==
    /\ NewEntry
    /\ transferred' = transferred \cup {entries + 1}
    /\ Write([ledger EXCEPT ![entries + 1] = - amount], {}, Closed, TRUE, FALSE, TRUE)
    /\ UNCHANGED <<buyer, paying, paidByTerminal, expected, clashed, tillFaults>>

\* A transfer or a sale is deleted, which looks at no balance either.  With the
\* transfer that paid a purchase at a terminal goes the terminal payment.
RemoveEntry(p) ==
    LET lowers == ledger[p] > 0 IN
    /\ ledger[p] # 0 /\ ~IsPurchase(p)
    /\ Write([ledger EXCEPT ![p] = 0], {}, Closed, lowers, FALSE, lowers)
    /\ paidByTerminal' = paidByTerminal \ {paying[p]}
    /\ UNCHANGED <<buyer, entries, transferred, paying, expected, clashed, tillFaults>>

\* PATCH and DELETE /users/{id}: whether the user can go into debt is changed,
\* also while the user is in debt.
ChangeUser(debt) ==
    /\ canGoIntoDebt # debt
    /\ canGoIntoDebt' = debt
    /\ Write(ledger, {}, Closed, TRUE, FALSE, FALSE)
    /\ UNCHANGED <<getsNotices, entries, transferred, paying, paidByTerminal, expected,
                   clashed, tillFaults>>

\* A failing statement or a crash; what is inserted is rolled back.
TillFails(t) ==
    /\ tillFaults < MaxTillFaults
    /\ ~Unused(t) /\ ~till[t].sale
    /\ tillFaults' = tillFaults + 1
    /\ Use(t, Closed)
    /\ UNCHANGED <<buyer, book, entries, clashed>>

PurchasesNext ==
    \/ \E t \in Tills :
           \/ InsertPurchase(t) \/ CommitPurchase(t)
           \/ CommitSale(t) \/ RollBackSale(t)
           \/ DeleteOld(t) \/ RefuseUpdate(t) \/ InsertNew(t) \/ TillFails(t)
           \/ \E cost \in Totals :
                  \/ VerifyBalance(t, cost) \/ InsertSale(t, cost)
                  \/ \E p \in Positions : BeginReplace(t, p, cost)
           \/ \E first \in Positions : NoticeDebt(t, first)
    \/ \E p \in Positions : DeletePurchase(p) \/ RemoveEntry(p)
    \/ \E amount \in Totals : Deposit(amount) \/ Sell(amount) \/ Debit(amount)
    \/ \E debt \in BOOLEAN : ChangeUser(debt)

PurchasesSpec == PurchasesInit /\ [][PurchasesNext]_purchasesVars

-----------------------------------------------------------------------------
(* Properties *)

\* The values of the variables; "the transaction is immutable" while the terminal
\* payment that paid for it is there.
PurchasesTypeOK ==
    /\ canGoIntoDebt \in BOOLEAN /\ getsNotices \in BOOLEAN
    /\ ledger \in [Positions -> Int]
    /\ transferred \subseteq Positions
    /\ paying \in [Positions -> 0 .. MaxEntries]
    /\ entries \in 0 .. MaxEntries
    /\ paidByTerminal \subseteq {p \in Positions : IsPurchase(p)}
    /\ till \in [Tills -> TillStates]
    /\ expected \subseteq Positions
    /\ clashed \subseteq Positions
    /\ unchecked \in BOOLEAN /\ noticed \in BOOLEAN /\ unnoticed \in BOOLEAN
    /\ tillFaults \in 0 .. MaxTillFaults

\* Debt is explained and noticed.  A user who cannot go into debt is in debt only
\* if, since it began, a purchase was committed after its check had been
\* overtaken, or something was written that nothing checks: an update, a debiting
\* transfer, the deletion of a crediting row, a change of the right to debt.  And
\* a user of a type that gets notices who is in debt got one, unless the debt was
\* touched by an update, a debiting transfer or a deletion, by a purchase during
\* which ledger or user changed, or by one with others in its millisecond.
DebtIsExplained ==
    Funds < 0 =>
        /\ canGoIntoDebt \/ unchecked
        /\ getsNotices => noticed \/ unnoticed

\* A purchase is stored until it is deleted, and then stays away: an update in
\* between has it, a fault there loses it, and a deletion during an update is
\* undone by it.
PurchaseSurvives ==
    \A p \in Positions :
        \/ IsPurchase(p) <=> p \in expected
        \/ p \in clashed
        \/ tillFaults > 0
        \/ \E t \in Tills : till[t].update /\ till[t].position = p

=============================================================================
