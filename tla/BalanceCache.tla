---------------------------- MODULE BalanceCache ----------------------------
(***************************************************************************)
(* The balance table: per user a cached sum with a cursor into the         *)
(* transactions and the transfers, to which a read adds what was created   *)
(* after the cursor.  The nightly task refreshes it with one statement;    *)
(* deletions and updates of rows are meant to clear it, in a statement of  *)
(* their own, and several services change transfers without clearing it.   *)
(*                                                                         *)
(* A sum is represented by the set of rows it sums, so that a balance is   *)
(* right exactly when it sums the stored rows, each of them once.  A row   *)
(* has the set of accounts it moves: buyer and sellers of a transaction,   *)
(* the sides of a transfer.                                                *)
(***************************************************************************)
EXTENDS Integers, FiniteSets

CONSTANTS
    Users,      \* the users whose balances are looked at
    Amounts,    \* amounts a row can have
    Calls,      \* deletions and updates that can be in progress at once
    NoRow,      \* no such row
    NoDate,     \* the date of a read of the current balance
    MaxTransactions, MaxTransfers,  \* bounds on the ids of the two tables
    MaxNow      \* bound on the instants

ASSUME NoDateAssumption == NoDate \notin Nat
ASSUME BoundsAssumption ==
    MaxTransactions \in Nat /\ MaxTransfers \in Nat /\ MaxNow \in Nat

VARIABLES
    rows,       \* the tables transaction and transfer
    nextId,     \* the next id of each table
    balance,    \* the table balance: a cache row per user
    now,        \* the last instant at which something was created
    calls,      \* deletions and updates in progress
    silent      \* history: users whose cached past changed with nobody left
                \* to clear it

tables == <<rows, nextId, now>>
vars == <<tables, balance, calls, silent>>

-----------------------------------------------------------------------------

Kinds == {"transaction", "transfer"}
Keys == ({"transaction"} \X (1 .. MaxTransactions))
        \cup ({"transfer"} \X (1 .. MaxTransfers))
Rows == [at : 1 .. MaxNow, moves : SUBSET Users, amount : Amounts]

\* The rows that move the balance of u.
Entries(u) ==
    {<<key, rows[key]>> : key \in
        {k \in Keys : rows[k] # NoRow /\ u \in rows[k].moves}}

\* Of the rows of kind k, the one of the latest createdAt; of several, the
\* one with the largest id; 0 is NULL.
LastId(u, k) ==
    LET own == {e \in Entries(u) : e[1][1] = k}
        latest == {e \in own : \A f \in own : f[2].at <= e[2].at}
    IN  IF own = {} THEN 0
        ELSE CHOOSE i \in {e[1][2] : e \in latest} :
                 \A e \in latest : e[1][2] <= i

CacheRows == [sums : SUBSET (Keys \X Rows), last : [Kinds -> Nat]]

ASSUME NoRowAssumption == NoRow \notin Rows /\ NoRow \notin CacheRows

\* The createdAt up to which the cache row of u covers the rows of kind k.
CursorAt(u, k) ==
    IF balance[u].last[k] = 0 THEN 0 ELSE rows[<<k, balance[u].last[k]>>].at

\* Whether the cache row of u, if any, claims to cover a row.
Covers(u, key, row) == balance[u] # NoRow /\ row.at <= CursorAt(u, key[1])

-----------------------------------------------------------------------------
(* BalanceService.getBalances                                               *)

UsesCache(u, date) ==
    /\ balance[u] # NoRow
    /\ \/ date = NoDate
       \/ \A k \in Kinds : balance[u].last[k] # 0 /\ CursorAt(u, k) <= date

InTime(row, date) == date = NoDate \/ row.at <= date

Cached(u, date) == IF UsesCache(u, date) THEN balance[u].sums ELSE {}

\* What a read adds to the cached amount.
Delta(u, date) ==
    {e \in Entries(u) :
        /\ InTime(e[2], date)
        /\ UsesCache(u, date) => e[2].at > CursorAt(u, e[1][1])}

\* The balance a read returns is the sum of the stored rows up to its date.
Right(u, date) ==
    /\ Cached(u, date) \cap Delta(u, date) = {}
    /\ Cached(u, date) \cup Delta(u, date) =
           {e \in Entries(u) : InTime(e[2], date)}

-----------------------------------------------------------------------------

Idle == [op |-> "none", pc |-> "idle", key |-> <<"transfer", 0>>,
         who |-> {}, row |-> NoRow]

CallStates ==
    {Idle} \cup
    [op : {"delete", "update"}, pc : {"read", "gone", "cleared", "saved"},
     key : Keys, who : SUBSET Users, row : Rows \cup {NoRow}]

Init ==
    /\ rows = [key \in Keys |-> NoRow]
    /\ nextId = [k \in Kinds |-> 1]
    /\ balance = [u \in Users |-> NoRow]
    /\ now = 0
    /\ calls = [c \in Calls |-> Idle]
    /\ silent = {}

\* A new row of kind k, whose createdAt some cache rows may already cover.
Insert(k, row) ==
    LET key == <<k, nextId[k]>> IN
    /\ key \in Keys
    /\ rows' = [rows EXCEPT ![key] = row]
    /\ nextId' = [nextId EXCEPT ![k] = @ + 1]
    /\ silent' = silent \cup {u \in row.moves : Covers(u, key, row)}
    /\ UNCHANGED <<balance, calls>>

\* createTransaction; two statements never share a microsecond.
CreateTransaction ==
    \E who \in SUBSET Users, amount \in Amounts :
        /\ now < MaxNow
        /\ now' = now + 1
        /\ Insert("transaction", [at |-> now + 1, moves |-> who, amount |-> amount])

\* createTransfer for a request without createdAt.
CreateTransfer ==
    \E who \in SUBSET Users, amount \in Amounts :
        /\ now < MaxNow
        /\ now' = now + 1
        /\ Insert("transfer", [at |-> now + 1, moves |-> who, amount |-> amount])

\* createTransfer for a request with a createdAt, in the past or the future.
CreateDatedTransfer ==
    \E who \in SUBSET Users, amount \in Amounts, at \in 1 .. MaxNow :
        /\ Insert("transfer", [at |-> at, moves |-> who, amount |-> amount])
        /\ UNCHANGED now

\* updateInvoice and updateSellerPayout change the amount of a transfer.
ChangeAmount(key) ==
    /\ key[1] = "transfer" /\ rows[key] # NoRow
    /\ \E amount \in Amounts : rows' = [rows EXCEPT ![key].amount = amount]
    /\ silent' = silent \cup {u \in rows[key].moves : Covers(u, key, rows[key])}
    /\ UNCHANGED <<nextId, now, balance, calls>>

\* Mutant: The foreign keys of the table balance without ON DELETE CASCADE.
Cascade_None(key) == balance

\* The cache rows that point at a row are deleted with it (ON DELETE CASCADE).
Cascade(key) ==
    [u \in Users |->
        IF balance[u] # NoRow /\ balance[u].last[key[1]] = key[2]
        THEN NoRow ELSE balance[u]]

\* Delete a row whose deleter clears the caches of the users in who later.
RemoveRow(key, who) ==
    /\ rows' = [rows EXCEPT ![key] = NoRow]
    /\ balance' = Cascade(key)
    /\ silent' = silent \cup
           (IF rows[key] = NoRow THEN {}
            ELSE {u \in rows[key].moves \ who : Covers(u, key, rows[key])})
    /\ UNCHANGED <<nextId, now>>

\* deleteSellerPayout, deleteFine and waiveFines remove a transfer and leave
\* the caches alone.
RemoveTransfer(key) ==
    /\ key[1] = "transfer" /\ rows[key] # NoRow
    /\ RemoveRow(key, {})
    /\ UNCHANGED calls

-----------------------------------------------------------------------------
(* deleteTransaction, deleteTransfer and updateTransaction, statement by    *)
(* statement                                                                *)

BeginDelete(c, key) ==
    /\ calls[c] = Idle
    /\ rows[key] # NoRow
    /\ calls' = [calls EXCEPT ![c] =
           [op |-> "delete", pc |-> "read", key |-> key,
            who |-> rows[key].moves, row |-> NoRow]]
    /\ UNCHANGED <<tables, balance, silent>>

\* One update of a transaction at a time.
BeginUpdate(c, key) ==
    /\ calls[c] = Idle
    /\ key[1] = "transaction" /\ rows[key] # NoRow
    /\ \A d \in Calls : calls[d].op # "update" \/ calls[d].key # key
    /\ \E who \in SUBSET Users, amount \in Amounts :
           calls' = [calls EXCEPT ![c] =
               [op |-> "update", pc |-> "read", key |-> key,
                who |-> rows[key].moves,
                row |-> [at |-> rows[key].at, moves |-> who, amount |-> amount]]]
    /\ UNCHANGED <<tables, balance, silent>>

DeleteRow(c) ==
    /\ calls[c].pc = "read"
    /\ RemoveRow(calls[c].key, calls[c].who)
    /\ calls' = [calls EXCEPT ![c].pc = "gone"]

\* clearBalanceCache
Clear(who) ==
    /\ balance' = [u \in Users |-> IF u \in who THEN NoRow ELSE balance[u]]
    /\ silent' = silent \ who

ClearDeleted(c) ==
    /\ calls[c].pc = "gone"
    /\ Clear(calls[c].who)
    /\ calls' = [calls EXCEPT ![c] =
           IF @.op = "delete" THEN Idle ELSE [@ EXCEPT !.pc = "cleared"]]
    /\ UNCHANGED tables

\* The same id and createdAt again.
SaveUpdated(c) ==
    /\ calls[c].pc = "cleared"
    /\ rows' = [rows EXCEPT ![calls[c].key] = calls[c].row]
    /\ calls' = [calls EXCEPT ![c].pc = "saved",
                              ![c].who = calls[c].row.moves]
    /\ UNCHANGED <<nextId, now, balance, silent>>

\* Mutant: updateTransaction without the second invalidation.
ClearUpdated_None(c) ==
    /\ calls[c].pc = "saved"
    /\ calls' = [calls EXCEPT ![c] = Idle]
    /\ UNCHANGED <<tables, balance, silent>>

\* The users to clear are those of the row as it is read back; if it was
\* deleted in the meantime nothing is cleared.
ClearUpdated(c) ==
    /\ calls[c].pc = "saved"
    /\ IF rows[calls[c].key] = NoRow
       THEN silent' = silent \cup calls[c].who /\ UNCHANGED balance
       ELSE Clear(rows[calls[c].key].moves)
    /\ calls' = [calls EXCEPT ![c] = Idle]
    /\ UNCHANGED tables

\* The users whose caches a call has yet to clear.
Pending ==
    UNION {calls[c].who : c \in {d \in Calls : calls[d].pc \in {"gone", "saved"}}}

Crash ==
    /\ \E c \in Calls : calls[c] # Idle
    /\ calls' = [c \in Calls |-> Idle]
    /\ silent' = silent \cup Pending
    /\ UNCHANGED <<tables, balance>>

\* Mutant: updateBalances inserts the rows that are missing, as with INSERT IGNORE.
Refresh_Ignore ==
    /\ balance' = [u \in Users |->
           IF Entries(u) = {} \/ balance[u] # NoRow THEN balance[u]
           ELSE [sums |-> Entries(u), last |-> [k \in Kinds |-> LastId(u, k)]]]
    /\ silent' = {}
    /\ UNCHANGED <<tables, calls>>

\* updateBalances: one REPLACE ... SELECT, which yields no row for a user
\* without transactions and transfers.
Refresh ==
    /\ balance' = [u \in Users |->
           IF Entries(u) = {} THEN balance[u]
           ELSE [sums |-> Entries(u), last |-> [k \in Kinds |-> LastId(u, k)]]]
    /\ silent' = {}
    /\ UNCHANGED <<tables, calls>>

Next ==
    \/ CreateTransaction
    \/ CreateTransfer
    \/ CreateDatedTransfer
    \/ \E key \in Keys : ChangeAmount(key) \/ RemoveTransfer(key)
    \/ \E c \in Calls, key \in Keys : BeginDelete(c, key) \/ BeginUpdate(c, key)
    \/ \E c \in Calls :
           DeleteRow(c) \/ ClearDeleted(c) \/ SaveUpdated(c) \/ ClearUpdated(c)
    \/ Crash
    \/ Refresh

Spec == Init /\ [][Next]_vars

-----------------------------------------------------------------------------
(* Properties                                                               *)

\* The values of the variables; the cursor of a cache row points at stored rows
\* of its user.
TypeOK ==
    /\ rows \in [Keys -> Rows \cup {NoRow}]
    /\ nextId \in [Kinds -> Nat \ {0}]
    /\ balance \in [Users -> CacheRows \cup {NoRow}]
    /\ now \in 0 .. MaxNow
    /\ calls \in [Calls -> CallStates]
    /\ silent \in SUBSET Users
    /\ \A u \in Users, k \in Kinds :
           balance[u] # NoRow /\ balance[u].last[k] # 0 =>
               LET key == <<k, balance[u].last[k]>>
               IN  key \in Keys /\ rows[key] # NoRow /\ u \in rows[key].moves

\* Whatever deletions, updates and refreshes interleave, getBalances counts
\* every stored row of a user up to its date once, unless a call has yet to
\* clear the user's cache, or a write that nobody clears up after changed what
\* it covers since the last refresh.
ReadIsTruth ==
    \A u \in Users \ (silent \cup Pending), date \in (0 .. MaxNow) \cup {NoDate} :
        Right(u, date)

\* updateBalances repairs every balance, whatever was written silently before:
\* no cache row survives that it does not rewrite.
RefreshRepairs == [][Refresh => \A u \in Users : Right(u, NoDate)']_vars

-----------------------------------------------------------------------------
(* What the documentation says and the code does not do                     *)

\* "If the cache is out of date the read still returns the correct value":
\* also after the amount of a transfer changes.
ChangesShow ==
    [][\A u \in Users, key \in Keys :
          ChangeAmount(key) /\ Right(u, NoDate) => Right(u, NoDate)']_vars
=============================================================================
