--------------------------- MODULE AccountClosing ---------------------------
(***************************************************************************)
(* How one account is closed: a write-off, DELETE and PATCH on the user,   *)
(* the GEWISDB synchronisation and the expiry of local accounts.  None of  *)
(* them uses a database transaction, and save() of a loaded user writes    *)
(* back every column that differs from the table by then, so a call that   *)
(* loaded the user before another saved it undoes what that one did.       *)
(* canGoIntoDebt is only ever cleared with active, and follows it here.    *)
(***************************************************************************)
EXTENDS Integers

CONSTANTS
    WriteOffs,       \* ids of write-offs
    Closers,         \* calls and scheduled tasks in progress at once
    NoWriteOff,      \* what a call that writes nothing off holds
    MaxWorth,        \* bound on the balance
    MaxClosingFaults \* bound on crashes

ASSUME ClosingAssumption ==
    /\ NoWriteOff \notin WriteOffs
    /\ MaxWorth \in Nat /\ MaxClosingFaults \in Nat

VARIABLES
    worth,         \* the balance of the user
    account,       \* the columns deleted and active of the user
    writeOffs,     \* how far each write-off has come
    closer,        \* calls in progress
    moved,         \* history: the deletion is not one of a settled account
    closingFaults  \* crashes so far

closingVars == <<worth, account, writeOffs, closer, moved, closingFaults>>

-----------------------------------------------------------------------------

Accounts == [deleted : BOOLEAN, active : BOOLEAN]

\* none, a row, with its transfer, linked to it, and with the account closed
WriteOffStates == {"none", "stored", "paid", "linked", "done"}

\* What a call remembers.  deleted, active: the columns that it will save;
\* stale (history): the balance changed since the call read it; old (history):
\* the account was deleted since the call loaded or listed it.
CloserStates ==
    [pc : {"idle", "owing", "stored", "paid", "listed", "closing", "checked",
           "editing", "patching"},
     writeOff : WriteOffs \cup {NoWriteOff}, amount : Nat,
     deleted : BOOLEAN, active : BOOLEAN, stale : BOOLEAN, old : BOOLEAN]

NewAccount == [deleted |-> FALSE, active |-> TRUE]

Off ==
    [pc |-> "idle", writeOff |-> NoWriteOff, amount |-> 0, deleted |-> FALSE,
     active |-> FALSE, stale |-> FALSE, old |-> FALSE]

ClosingInit ==
    /\ worth = 0
    /\ account = NewAccount
    /\ writeOffs = [w \in WriteOffs |-> "none"]
    /\ closer = [c \in Closers |-> Off]
    /\ moved = FALSE
    /\ closingFaults = 0

Free(c) == closer[c] = Off

Proceed(c, next) == closer' = [closer EXCEPT ![c] = next]

\* The balance changes; the call in mine, if any, does it and goes on as next.
Move(amount, mine, next) ==
    /\ worth' = worth + amount
    /\ closer' = [d \in Closers |->
           IF d \in mine THEN next
           ELSE IF Free(d) THEN Off ELSE [closer[d] EXCEPT !.stale = TRUE]]
    /\ moved' = (moved \/ account.deleted)

\* Call c saves the user and ends.  settled: if this deletes the account, its
\* balance was zero and has not changed since.
Store(c, columns, settled) ==
    /\ account' = columns
    /\ moved' = (columns.deleted /\ (moved \/ ~(account.deleted \/ settled)))
    /\ closer' = [d \in Closers |->
           IF d = c \/ Free(d) THEN Off
           ELSE [closer[d] EXCEPT !.old = @ \/ columns.deleted]]

-----------------------------------------------------------------------------
(* POST /writeoffs *)

\* The balance is read and must not be positive.
BeginWriteOff(c) ==
    /\ Free(c)
    /\ ~account.deleted
    /\ worth <= 0
    /\ \E w \in WriteOffs :
           /\ writeOffs[w] = "none"
           /\ \A d \in Closers : closer[d].writeOff # w
           /\ Proceed(c, [Off EXCEPT !.pc = "owing", !.writeOff = w,
                                     !.amount = - worth])
    /\ UNCHANGED <<worth, account, writeOffs, moved, closingFaults>>

StoreWriteOff(c) ==
    /\ closer[c].pc = "owing"
    /\ writeOffs' = [writeOffs EXCEPT ![closer[c].writeOff] = "stored"]
    /\ Proceed(c, [closer[c] EXCEPT !.pc = "stored"])
    /\ UNCHANGED <<worth, account, moved, closingFaults>>

\* mutant: the debt is debited once more
PayWriteOff_Debits(c) ==
    /\ closer[c].pc = "stored"
    /\ writeOffs' = [writeOffs EXCEPT ![closer[c].writeOff] = "paid"]
    /\ Move(- closer[c].amount, {c}, [closer[c] EXCEPT !.pc = "paid"])
    /\ UNCHANGED <<account, closingFaults>>

\* createTransfer, void -> user
PayWriteOff(c) ==
    /\ closer[c].pc = "stored"
    /\ writeOffs' = [writeOffs EXCEPT ![closer[c].writeOff] = "paid"]
    /\ Move(closer[c].amount, {c}, [closer[c] EXCEPT !.pc = "paid"])
    /\ UNCHANGED <<account, closingFaults>>

\* Both rows are saved with their references; closeUser is next.
LinkWriteOff(c) ==
    /\ closer[c].pc = "paid"
    /\ writeOffs' = [writeOffs EXCEPT ![closer[c].writeOff] = "linked"]
    /\ Proceed(c, [closer[c] EXCEPT !.pc = "closing", !.deleted = TRUE])
    /\ UNCHANGED <<worth, account, moved, closingFaults>>

-----------------------------------------------------------------------------
(* GewisDBSyncService: up and down, for a user that was listed *)

\* getTargets lists all users first; their turn comes one by one.
ListForSync(c) ==
    /\ Free(c)
    /\ ~account.deleted
    /\ Proceed(c, [Off EXCEPT !.pc = "listed"])
    /\ UNCHANGED <<worth, account, writeOffs, moved, closingFaults>>

\* The membership has ended: delete the user if the balance is zero.
SyncDown(c) ==
    /\ closer[c].pc = "listed"
    /\ Proceed(c, [closer[c] EXCEPT !.pc = "closing", !.deleted = worth = 0])
    /\ UNCHANGED <<worth, account, writeOffs, moved, closingFaults>>

-----------------------------------------------------------------------------
(* UserService.closeUser, and DELETE /users/{id} *)

\* The user is loaded; that the account is active stays so.
DeleteUser(c) ==
    /\ Free(c)
    /\ ~account.deleted
    /\ Proceed(c, [Off EXCEPT !.pc = "closing", !.deleted = TRUE,
                              !.active = account.active])
    /\ UNCHANGED <<worth, account, writeOffs, moved, closingFaults>>

\* mutant: the balance is not read
CheckClose_Unchecked(c) ==
    /\ closer[c].pc = "closing"
    /\ Proceed(c, [closer[c] EXCEPT !.pc = "checked", !.stale = FALSE])
    /\ UNCHANGED <<worth, account, writeOffs, moved, closingFaults>>

\* The balance is read.  closeUser without deletion only deactivates, and may
\* find a user that was deleted before.
CheckClose(c) ==
    /\ closer[c].pc = "closing"
    /\ closer[c].deleted => worth = 0
    /\ Proceed(c, [closer[c] EXCEPT !.pc = "checked", !.stale = FALSE])
    /\ UNCHANGED <<worth, account, writeOffs, moved, closingFaults>>

\* A 400 or a 500; a write-off stays as it is.
RefuseClose(c) ==
    /\ closer[c].pc = "closing"
    /\ closer[c].deleted /\ worth # 0
    /\ Proceed(c, Off)
    /\ UNCHANGED <<worth, account, writeOffs, moved, closingFaults>>

Columns(c) == [deleted |-> closer[c].deleted, active |-> closer[c].active]

SaveClose(c) ==
    LET w == closer[c].writeOff IN
    /\ closer[c].pc = "checked"
    /\ Store(c, Columns(c), ~closer[c].stale)
    /\ writeOffs' = IF w = NoWriteOff THEN writeOffs
                    ELSE [writeOffs EXCEPT ![w] = "done"]
    /\ UNCHANGED <<worth, closingFaults>>

-----------------------------------------------------------------------------
(* Calls that load the user, change another column and save it *)

Load(c, active) ==
    Proceed(c, [Off EXCEPT !.pc = "editing", !.deleted = account.deleted,
                           !.active = active])

\* The sync finds that the membership goes on, a member logs in, or a purchase
\* clears inactiveNotificationSend: also a deleted user is found.
BeginUserUpdate(c) ==
    /\ Free(c) \/ closer[c].pc = "listed"
    /\ \E active \in {TRUE, account.active} : Load(c, active)
    /\ UNCHANGED <<worth, account, writeOffs, moved, closingFaults>>

\* mutant: expired accounts are found whether deleted or not, and brought back
BeginExpiry_Restores(c) ==
    /\ Free(c)
    /\ account.active
    /\ Proceed(c, [Off EXCEPT !.pc = "editing"])
    /\ UNCHANGED <<worth, account, writeOffs, moved, closingFaults>>

\* deactivateExpiredUsers finds a local account that has expired, and mails.
BeginExpiry(c) ==
    /\ Free(c)
    /\ account.active /\ ~account.deleted
    /\ Load(c, FALSE)
    /\ UNCHANGED <<worth, account, writeOffs, moved, closingFaults>>

SaveUser(c) ==
    /\ closer[c].pc = "editing"
    /\ Store(c, Columns(c), FALSE)
    /\ UNCHANGED <<worth, writeOffs, closingFaults>>

\* PATCH /users/{id} looks the user up ...
BeginPatch(c) ==
    /\ Free(c)
    /\ ~account.deleted
    /\ Proceed(c, [Off EXCEPT !.pc = "patching"])
    /\ UNCHANGED <<worth, account, writeOffs, moved, closingFaults>>

\* ... and updates the columns of its body, which may be deleted or active.
Patch(c) ==
    /\ closer[c].pc = "patching"
    /\ \E deleted, active \in BOOLEAN :
           Store(c, [deleted |-> deleted, active |-> active], worth = 0)
    /\ UNCHANGED <<worth, writeOffs, closingFaults>>

-----------------------------------------------------------------------------
(* The rest of the system *)

\* A transfer or a transaction, which a deleted account can also be part of.
MoveMoney(amount) ==
    /\ worth + amount \in - MaxWorth .. MaxWorth
    /\ Move(amount, {}, Off)
    /\ UNCHANGED <<account, writeOffs, closingFaults>>

\* A failing statement: no high VAT group to link a write-off with, an expiry
\* mail that cannot be sent, or the process dies.
Fail(c) ==
    /\ closingFaults < MaxClosingFaults
    /\ ~Free(c)
    /\ closingFaults' = closingFaults + 1
    /\ Proceed(c, Off)
    /\ UNCHANGED <<worth, account, writeOffs, moved>>

ClosingNext ==
    \/ \E c \in Closers :
           \/ BeginWriteOff(c) \/ StoreWriteOff(c) \/ PayWriteOff(c)
           \/ LinkWriteOff(c) \/ ListForSync(c) \/ SyncDown(c) \/ DeleteUser(c)
           \/ CheckClose(c) \/ RefuseClose(c) \/ SaveClose(c)
           \/ BeginUserUpdate(c) \/ BeginExpiry(c) \/ SaveUser(c)
           \/ BeginPatch(c) \/ Patch(c) \/ Fail(c)
    \/ \E amount \in {-1, 1} : MoveMoney(amount)

ClosingSpec == ClosingInit /\ [][ClosingNext]_closingVars

-----------------------------------------------------------------------------
(* Properties *)

\* The values of the variables.
ClosingTypeOK ==
    /\ worth \in Int
    /\ account \in Accounts
    /\ writeOffs \in [WriteOffs -> WriteOffStates]
    /\ closer \in [Closers -> CloserStates]
    /\ moved \in BOOLEAN
    /\ closingFaults \in 0 .. MaxClosingFaults

\* A deleted account has a balance of zero, unless money moved between the
\* check and the deletion or afterwards, or the deletion was not checked: by
\* PATCH, or by a call that saved a deleted user it had loaded.
DeletedIsSettled == account.deleted => worth = 0 \/ moved

\* A deleted account does not come back, unless a call that loaded or listed
\* the user before the deletion saves it afterwards.
DeletedStaysDeleted ==
    [][account.deleted /\ ~account'.deleted =>
          \E c \in Closers : closer[c].old /\ closer'[c] = Off]_closingVars

\* A write-off during which nobody else moves money ends with its transfer and
\* a deleted account without balance; the closing never refuses it.
WriteOffSettles ==
    [][\A c \in Closers :
          closer[c].writeOff # NoWriteOff /\ ~closer[c].stale =>
              /\ ~RefuseClose(c)
              /\ SaveClose(c) => worth' = 0 /\ account'.deleted]_closingVars

=============================================================================
