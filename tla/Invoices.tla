------------------------------ MODULE Invoices ------------------------------
(***************************************************************************)
(* The invoices of one user and the rows of the purchases they settle.     *)
(* Creating, patching and deleting an invoice is one database transaction, *)
(* which decides on the snapshot of its first read and writes to what the  *)
(* tables hold by then; nothing locks what was only read.  Where the       *)
(* database can also refuse to write a row that changed since the          *)
(* snapshot, the transaction is rolled back.                               *)
(***************************************************************************)
EXTENDS Integers

CONSTANTS
    Invoices,        \* ids of invoices
    Rows,            \* ids of sub-transaction rows
    Clerks,          \* calls in progress at once
    NoInvoice,       \* the invoice of a row that has none
    InvoiceAmounts,  \* amounts that clerks type in
    NoAmount,        \* the amount of a transfer that is not there
    MaxUndone        \* bound on the undo transfers of one invoice

ASSUME InvoicesAssumption ==
    /\ NoInvoice \notin Invoices /\ NoAmount \notin InvoiceAmounts
    /\ MaxUndone \in Nat

VARIABLES
    rows,            \* the stored rows
    rowInvoice,      \* the invoice of a stored row
    invoiceState,    \* the latest status of each invoice
    transferAmount,  \* the amount of its transfer, to the user
    creditAmount,    \* the amount of its credit transfer, from the user
    undone,          \* how many undo transfers were made for it
    deletedRows,     \* subTransactionRowsDeletedInvoice
    clerk,           \* calls in progress
    listed,          \* history: the rows it was created for
    shared,          \* history: rows that overlapping creations listed
    crossed,         \* history: invoices whose deletion overlapped a patch
    bare             \* history: invoices deleted with no row left on them

invoicesVars == <<rows, rowInvoice, invoiceState, transferAmount, creditAmount,
                  undone, deletedRows, clerk, listed, shared, crossed, bare>>

stored == <<rows, rowInvoice, invoiceState, transferAmount, creditAmount,
            undone, deletedRows>>
invoiceHistory == <<listed, shared, crossed, bare>>

-----------------------------------------------------------------------------

InvoiceStates == {"CREATED", "SENT", "PAID", "DELETED"}

\* What a call has read and was asked for.  to: the status to add, or "none";
\* amount: the amount typed in or read, if any.
ClerkStates ==
    [pc : {"idle", "creating", "patching", "deleting"},
     invoice : Invoices \cup {NoInvoice}, rows : SUBSET Rows,
     amount : InvoiceAmounts \cup {NoAmount}, to : InvoiceStates \cup {"none"}]

AtDesk ==
    [pc |-> "idle", invoice |-> NoInvoice, rows |-> {}, amount |-> NoAmount, to |-> "none"]

\* Rows that come later are there from the start, on no invoice.
InvoicesInit ==
    /\ rows = Rows
    /\ rowInvoice = [r \in Rows |-> NoInvoice]
    /\ invoiceState = [i \in Invoices |-> "none"]
    /\ transferAmount = [i \in Invoices |-> NoAmount]
    /\ creditAmount = [i \in Invoices |-> NoAmount]
    /\ undone = [i \in Invoices |-> 0]
    /\ deletedRows = [i \in Invoices |-> {}]
    /\ clerk = [c \in Clerks |-> AtDesk]
    /\ listed = [i \in Invoices |-> {}]
    /\ shared = {}
    /\ crossed = {}
    /\ bare = {}

Waiting(c) == clerk[c] = AtDesk

Serve(c, next) == clerk' = [clerk EXCEPT ![c] = next]

RowsOf(i) == {r \in rows : rowInvoice[r] = i}

\* The invoice is stored and nobody took its money back.
Live(i) == invoiceState[i] # "none" /\ undone[i] = 0

\* Another call of this kind works on the invoice of call c.
Meanwhile(c, pc) ==
    \E d \in Clerks \ {c} :
        clerk[d].pc = pc /\ clerk[d].invoice = clerk[c].invoice

-----------------------------------------------------------------------------
(* POST /invoices *)

\* mutant: rows that are on an invoice already are accepted
BeginCreateInvoice_Any(c, S, a) ==
    /\ Waiting(c)
    /\ S # {} /\ S \subseteq rows
    /\ \E i \in Invoices :
           /\ invoiceState[i] = "none"
           /\ \A d \in Clerks : clerk[d].invoice # i
           /\ Serve(c, [AtDesk EXCEPT !.pc = "creating", !.invoice = i,
                                      !.rows = S, !.amount = a])
    /\ UNCHANGED <<stored, invoiceHistory>>

\* checkIfInvoiced looks at the rows of the snapshot.
BeginCreateInvoice(c, S, a) ==
    /\ Waiting(c)
    /\ S # {} /\ S \subseteq rows
    /\ \A r \in S : rowInvoice[r] = NoInvoice
    /\ \E i \in Invoices :
           /\ invoiceState[i] = "none"
           /\ \A d \in Clerks : clerk[d].invoice # i
           /\ Serve(c, [AtDesk EXCEPT !.pc = "creating", !.invoice = i,
                                      !.rows = S, !.amount = a])
    /\ UNCHANGED <<stored, invoiceHistory>>

\* The user is credited whatever became of the rows; those still stored get the
\* invoice, also if another creation gave them one meanwhile.
CommitCreateInvoice(c) ==
    LET me == clerk[c] IN
    /\ me.pc = "creating"
    /\ invoiceState' = [invoiceState EXCEPT ![me.invoice] = "CREATED"]
    /\ transferAmount' = [transferAmount EXCEPT ![me.invoice] = me.amount]
    /\ rowInvoice' = [r \in Rows |-> IF r \in me.rows \cap rows THEN me.invoice
                                     ELSE rowInvoice[r]]
    /\ listed' = [listed EXCEPT ![me.invoice] = me.rows]
    /\ shared' = shared \cup
           {r \in me.rows : \E d \in Clerks \ {c} :
                clerk[d].pc = "creating" /\ r \in clerk[d].rows}
    /\ Serve(c, AtDesk)
    /\ UNCHANGED <<rows, creditAmount, undone, deletedRows, crossed, bare>>

-----------------------------------------------------------------------------
(* PATCH /invoices/{id} with a status, an amount or both *)

\* mutant: a deleted invoice can be patched
BeginPatchInvoice_Deleted(c, i) ==
    /\ Waiting(c)
    /\ invoiceState[i] \in {"CREATED", "SENT", "DELETED"}
    /\ \E to \in {"CREATED", "SENT", "PAID", "none"}, a \in InvoiceAmounts \cup {NoAmount} :
           Serve(c, [AtDesk EXCEPT !.pc = "patching", !.invoice = i,
                                   !.amount = a, !.to = to])
    /\ UNCHANGED <<stored, invoiceHistory>>

\* That the status differs was checked on an earlier read; one that is added
\* twice changes nothing.
BeginPatchInvoice(c, i) ==
    /\ Waiting(c)
    /\ invoiceState[i] \in {"CREATED", "SENT"}
    /\ \E to \in {"CREATED", "SENT", "PAID", "none"}, a \in InvoiceAmounts \cup {NoAmount} :
           Serve(c, [AtDesk EXCEPT !.pc = "patching", !.invoice = i,
                                   !.amount = a, !.to = to])
    /\ UNCHANGED <<stored, invoiceHistory>>

\* The time of a status is that of its statement, which may have waited for the
\* deletion: then DELETED is the later of the two.
CommitPatchInvoice(c) ==
    LET me == clerk[c]
        i == me.invoice
    IN
    /\ me.pc = "patching"
    /\ \E s \in {me.to} \cup (IF undone[i] > 0 THEN {invoiceState[i]} ELSE {}) :
           invoiceState' = IF me.to = "none" THEN invoiceState
                           ELSE [invoiceState EXCEPT ![i] = s]
    /\ transferAmount' = IF me.amount = NoAmount THEN transferAmount
                         ELSE [transferAmount EXCEPT ![i] = me.amount]
    /\ crossed' = IF me.amount # NoAmount /\ Meanwhile(c, "deleting")
                  THEN crossed \cup {i} ELSE crossed
    /\ Serve(c, AtDesk)
    /\ UNCHANGED <<rows, rowInvoice, creditAmount, undone, deletedRows, listed,
                   shared, bare>>

-----------------------------------------------------------------------------
(* DELETE /invoices/{id}, or PATCH with DELETED *)

\* PATCH refuses a paid invoice, DELETE does not.
BeginDeleteInvoice(c, i) ==
    /\ Waiting(c)
    /\ invoiceState[i] \in {"CREATED", "SENT", "PAID"}
    /\ Serve(c, [AtDesk EXCEPT !.pc = "deleting", !.invoice = i,
                     !.rows = RowsOf(i), !.amount = transferAmount[i]])
    /\ UNCHANGED <<stored, invoiceHistory>>

\* mutant: that the rows were kept by another deletion goes unnoticed
CommitDeleteInvoice_Twice(c) ==
    LET me == clerk[c]
        i == me.invoice
    IN
    /\ me.pc = "deleting"
    /\ undone[i] < MaxUndone
    /\ me.rows \subseteq rows
    /\ invoiceState' = [invoiceState EXCEPT ![i] = "DELETED"]
    /\ undone' = [undone EXCEPT ![i] = @ + 1]
    /\ creditAmount' = [creditAmount EXCEPT ![i] = me.amount]
    /\ deletedRows' = [deletedRows EXCEPT ![i] = @ \cup me.rows]
    /\ rowInvoice' = [r \in Rows |-> IF r \in me.rows THEN NoInvoice ELSE rowInvoice[r]]
    /\ crossed' = IF Meanwhile(c, "patching") THEN crossed \cup {i} ELSE crossed
    /\ bare' = IF me.rows = {} THEN bare \cup {i} ELSE bare
    /\ Serve(c, AtDesk)
    /\ UNCHANGED <<rows, transferAmount, listed, shared>>

\* The undo transfer has the amount that was read.  The table of the deleted
\* rows has a primary key and refers to the rows: rows that another deletion has
\* put there, or that are gone, roll this one back.
CommitDeleteInvoice(c) ==
    LET me == clerk[c]
        i == me.invoice
    IN
    /\ me.pc = "deleting"
    /\ undone[i] < MaxUndone
    /\ me.rows \subseteq rows \ deletedRows[i]
    /\ invoiceState' = [invoiceState EXCEPT ![i] = "DELETED"]
    /\ undone' = [undone EXCEPT ![i] = @ + 1]
    /\ creditAmount' = [creditAmount EXCEPT ![i] = me.amount]
    /\ deletedRows' = [deletedRows EXCEPT ![i] = @ \cup me.rows]
    /\ rowInvoice' = [r \in Rows |-> IF r \in me.rows THEN NoInvoice ELSE rowInvoice[r]]
    /\ crossed' = IF Meanwhile(c, "patching") THEN crossed \cup {i} ELSE crossed
    /\ bare' = IF me.rows = {} THEN bare \cup {i} ELSE bare
    /\ Serve(c, AtDesk)
    /\ UNCHANGED <<rows, transferAmount, listed, shared>>

\* A refusal, a duplicate key, a deadlock or a crash.
RollBackInvoice(c) ==
    /\ ~Waiting(c)
    /\ Serve(c, AtDesk)
    /\ UNCHANGED <<stored, invoiceHistory>>

-----------------------------------------------------------------------------
(* The rows *)

\* deleteTransaction, of a purchase that was deleted or changed: its invoice is
\* not asked.
RemoveRow(r) ==
    /\ r \in rows
    /\ rows' = rows \ {r}
    /\ rowInvoice' = [rowInvoice EXCEPT ![r] = NoInvoice]
    /\ deletedRows' = [i \in Invoices |-> deletedRows[i] \ {r}]
    /\ UNCHANGED <<invoiceState, transferAmount, creditAmount, undone, clerk,
                   invoiceHistory>>

InvoicesNext ==
    \/ \E c \in Clerks :
           \/ \E S \in SUBSET Rows, a \in InvoiceAmounts : BeginCreateInvoice(c, S, a)
           \/ \E i \in Invoices : BeginPatchInvoice(c, i) \/ BeginDeleteInvoice(c, i)
           \/ CommitCreateInvoice(c) \/ CommitPatchInvoice(c)
           \/ CommitDeleteInvoice(c) \/ RollBackInvoice(c)
    \/ \E r \in Rows : RemoveRow(r)

InvoicesSpec == InvoicesInit /\ [][InvoicesNext]_invoicesVars

-----------------------------------------------------------------------------
(* Properties *)

\* The values of the variables; a stored invoice has the amount of its transfer.
InvoicesTypeOK ==
    /\ rows \subseteq Rows
    /\ rowInvoice \in [Rows -> Invoices \cup {NoInvoice}]
    /\ invoiceState \in [Invoices -> InvoiceStates \cup {"none"}]
    /\ transferAmount \in [Invoices -> InvoiceAmounts \cup {NoAmount}]
    /\ creditAmount \in [Invoices -> InvoiceAmounts \cup {NoAmount}]
    /\ \A i \in Invoices : invoiceState[i] = "none" <=> transferAmount[i] = NoAmount
    /\ undone \in [Invoices -> 0 .. MaxUndone]
    /\ deletedRows \in [Invoices -> SUBSET Rows]
    /\ clerk \in [Clerks -> ClerkStates]
    /\ listed \in [Invoices -> SUBSET Rows]
    /\ shared \subseteq Rows /\ crossed \subseteq Invoices /\ bare \subseteq Invoices

\* No row is credited by two invoices that both stand, unless their creations
\* overlapped: validTransactionIds and checkIfInvoiced do not see each other's.
\* And a row that is on an invoice is on one that was made for it and whose money
\* was not taken back: no deletion leaves a row that cannot be invoiced again.
RowCreditedOnce ==
    /\ \A i, j \in Invoices :
           i # j /\ Live(i) /\ Live(j) => listed[i] \cap listed[j] \subseteq shared
    /\ \A r \in Rows : rowInvoice[r] # NoInvoice =>
           Live(rowInvoice[r]) /\ r \in listed[rowInvoice[r]]

\* Unless a patch and the deletion overlapped, an invoice is DELETED exactly when
\* its money was taken back: all of it, and once, however deletions overlap, unless
\* no row was left to tell the second deletion of the first.
UndoMatchesState ==
    \A i \in Invoices \ crossed :
        /\ invoiceState[i] = "DELETED" <=> undone[i] > 0
        /\ undone[i] > 0 => creditAmount[i] = transferAmount[i]
        /\ undone[i] <= 1 \/ i \in bare
=============================================================================
