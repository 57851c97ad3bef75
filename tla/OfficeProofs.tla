---------------------------- MODULE OfficeProofs ----------------------------
(***************************************************************************)
(* Proofs about Invoices and QrLogin, for any number of invoices, rows and *)
(* clerks, and of sessions, members, telephones, lost connections and      *)
(* failing calls; and the types of the office.                             *)
(***************************************************************************)
EXTENDS MCOffice, FinesProofs

-----------------------------------------------------------------------------
(* Invoices *)

-----------------------------------------------------------------------------
(* The inductive invariant *)

\* What is not stored was never undone.
FreshInvoices == \A i \in Invoices : invoiceState[i] = "none" => undone[i] = 0

\* A row is on an invoice that stands and was made for it.
HeldRows ==
    \A r \in Rows : rowInvoice[r] # NoInvoice =>
        r \in rows /\ Live(rowInvoice[r]) /\ r \in listed[rowInvoice[r]]

\* And an invoice that stands has its rows, unless they were shared or removed.
KeptRows ==
    \A i \in Invoices : Live(i) =>
        \A r \in listed[i] \cap rows : rowInvoice[r] = i \/ r \in shared

CreditedOnce ==
    \A i, j \in Invoices :
        i # j /\ Live(i) /\ Live(j) => listed[i] \cap listed[j] \subseteq shared

BookInv == FreshInvoices /\ HeldRows /\ KeptRows /\ CreditedOnce /\ UndoMatchesState

\* A creation has rows that nobody else was credited for since it looked at
\* them, or that are known as shared.
CreationOK(s) ==
    s.pc = "creating" =>
        /\ s.invoice \in Invoices /\ s.amount \in InvoiceAmounts
        /\ invoiceState[s.invoice] = "none"
        /\ \A j \in Invoices : Live(j) => s.rows \cap listed[j] \subseteq shared

\* A patch works on an invoice that was not deleted, or crossed.
PatchOK(s) ==
    s.pc = "patching" =>
        /\ s.invoice \in Invoices
        /\ invoiceState[s.invoice] # "none"
        /\ s.to \in {"CREATED", "SENT", "PAID", "none"}
        /\ s.invoice \notin crossed => undone[s.invoice] = 0

\* What a deletion can still take back: rows that are stored and that no other
\* deletion has taken back.
Left(s) == (s.rows \cap rows) \ deletedRows[s.invoice]

\* A deletion read the amount that stands, and at least the rows that are still
\* on the invoice; what it can take back is credited by this invoice only.
DeletionOK(s) ==
    s.pc = "deleting" =>
        /\ s.invoice \in Invoices /\ s.amount \in InvoiceAmounts
        /\ invoiceState[s.invoice] # "none"
        /\ s.invoice \notin crossed => s.amount = transferAmount[s.invoice]
        /\ s.rows \subseteq listed[s.invoice]
        /\ RowsOf(s.invoice) \subseteq s.rows
        /\ Live(s.invoice) \/ Left(s) \subseteq shared

\* Where a deletion left its rows, no other passes with rows of its own.
SecondOK(s) ==
    /\ s.pc = "deleting" /\ s.rows # {}
    /\ undone[s.invoice] > 0 /\ s.invoice \notin bare
    => \E r \in s.rows : r \notin rows \ deletedRows[s.invoice]

Sound(s) == CreationOK(s) /\ PatchOK(s) /\ DeletionOK(s) /\ SecondOK(s)

\* Of two deletions of one invoice, one read all rows that the other read, and
\* what can still be taken back was read by both.
Nested(s, t) ==
    s.pc = "deleting" /\ t.pc = "deleting" /\ s.invoice = t.invoice =>
        /\ s.rows \subseteq t.rows \/ t.rows \subseteq s.rows
        /\ Left(s) \subseteq t.rows \cup shared

\* A creation has its invoice for itself.
Apart(s, t) == s.pc = "creating" => t.invoice # s.invoice

ClerkInv ==
    /\ \A c \in Clerks : Sound(clerk[c])
    /\ \A c, d \in Clerks : c # d =>
           Apart(clerk[c], clerk[d]) /\ Nested(clerk[c], clerk[d])

InvoicesIInv == InvoicesTypeOK /\ BookInv /\ ClerkInv

USE InvoicesAssumption DEF InvoiceStates

LEMMA AtDeskIsFree ==
  /\ AtDesk \in ClerkStates
  /\ AtDesk.pc = "idle" /\ AtDesk.invoice = NoInvoice
BY DEF AtDesk, ClerkStates

LEMMA InvoicesInitInv == InvoicesInit => InvoicesIInv
<1> SUFFICES ASSUME InvoicesInit PROVE InvoicesIInv
  OBVIOUS
<1>1. \A c \in Clerks : clerk[c] = AtDesk
  BY DEF InvoicesInit
<1>2. InvoicesTypeOK
  <2>1. clerk \in [Clerks -> ClerkStates]
    BY AtDeskIsFree DEF InvoicesInit
  <2>2. /\ rows \subseteq Rows
        /\ rowInvoice \in [Rows -> Invoices \cup {NoInvoice}]
        /\ invoiceState \in [Invoices -> InvoiceStates \cup {"none"}]
    BY DEF InvoicesInit
  <2>3. /\ transferAmount \in [Invoices -> InvoiceAmounts \cup {NoAmount}]
        /\ creditAmount \in [Invoices -> InvoiceAmounts \cup {NoAmount}]
        /\ \A i \in Invoices : invoiceState[i] = "none" <=> transferAmount[i] = NoAmount
    BY DEF InvoicesInit
  <2>4. /\ undone \in [Invoices -> 0 .. MaxUndone]
        /\ deletedRows \in [Invoices -> SUBSET Rows]
        /\ listed \in [Invoices -> SUBSET Rows]
    BY DEF InvoicesInit
  <2>5. shared \subseteq Rows /\ crossed \subseteq Invoices /\ bare \subseteq Invoices
    BY DEF InvoicesInit
  <2> QED
    BY <2>1, <2>2, <2>3, <2>4, <2>5 DEF InvoicesTypeOK
<1>3. BookInv
  BY DEF InvoicesInit, BookInv, FreshInvoices, HeldRows, KeptRows, CreditedOnce,
         UndoMatchesState, Live
<1>4. ClerkInv
  BY <1>1, AtDeskIsFree DEF ClerkInv, Sound, CreationOK, PatchOK, DeletionOK,
         SecondOK, Apart, Nested
<1> QED
  BY <1>2, <1>3, <1>4 DEF InvoicesIInv

-----------------------------------------------------------------------------
(* Steps of which only the clerk knows *)

\* The books stay what they are while nothing is stored.
LEMMA FrameBooks ==
  ASSUME BookInv, UNCHANGED <<stored, invoiceHistory>>
  PROVE  BookInv'
BY DEF stored, invoiceHistory, BookInv, FreshInvoices, HeldRows, KeptRows, CreditedOnce,
       UndoMatchesState, Live

LEMMA ClerkOnlyInv ==
  ASSUME InvoicesIInv, NEW c \in Clerks, NEW next \in ClerkStates, Serve(c, next),
         UNCHANGED <<stored, invoiceHistory>>, Sound(next),
         \A d \in Clerks \ {c} :
             /\ Apart(next, clerk[d]) /\ Apart(clerk[d], next)
             /\ Nested(next, clerk[d]) /\ Nested(clerk[d], next)
  PROVE  InvoicesIInv'
<1>1. clerk \in [Clerks -> ClerkStates]
  BY DEF InvoicesIInv, InvoicesTypeOK
<1>2. /\ clerk' \in [Clerks -> ClerkStates]
      /\ clerk'[c] = next
      /\ \A d \in Clerks \ {c} : clerk'[d] = clerk[d]
  BY <1>1 DEF Serve
<1>3. InvoicesTypeOK'
  BY <1>2 DEF InvoicesIInv, InvoicesTypeOK, stored, invoiceHistory
<1>4. BookInv'
  BY FrameBooks DEF InvoicesIInv
<1>5. ASSUME NEW d \in Clerks PROVE Sound(clerk[d])'
  <2>1. Sound(clerk[d]) /\ Sound(next)
    BY DEF InvoicesIInv, ClerkInv
  <2> QED
    BY <1>2, <2>1 DEF stored, invoiceHistory, Sound, CreationOK, PatchOK,
       DeletionOK, SecondOK, Left, RowsOf, Live
<1>6. ASSUME NEW d \in Clerks, NEW e \in Clerks, d # e
      PROVE  (Apart(clerk[d], clerk[e]) /\ Nested(clerk[d], clerk[e]))'
  <2>1. \A f, g \in Clerks : f # g => Apart(clerk[f], clerk[g]) /\ Nested(clerk[f], clerk[g])
    BY DEF InvoicesIInv, ClerkInv
  <2>2. Apart(clerk'[d], clerk'[e]) /\ Nested(clerk'[d], clerk'[e])
    BY <1>2, <1>6, <2>1
  <2> QED
    BY <2>2 DEF Apart, Nested, Left, stored, invoiceHistory
<1>7. ClerkInv'
  BY <1>5, <1>6 DEF ClerkInv
<1> QED
  BY <1>3, <1>4, <1>7 DEF InvoicesIInv

\* A call that is asked to create, patch or delete an invoice, or ends.
LEMMA BeginCreateInv ==
  ASSUME InvoicesIInv, NEW c \in Clerks, NEW S \in SUBSET Rows, NEW a \in InvoiceAmounts,
         BeginCreateInvoice(c, S, a)
  PROVE  InvoicesIInv'
<1>1. PICK i \in Invoices :
        /\ invoiceState[i] = "none"
        /\ \A d \in Clerks : clerk[d].invoice # i
        /\ Serve(c, [AtDesk EXCEPT !.pc = "creating", !.invoice = i,
                                   !.rows = S, !.amount = a])
  BY DEF BeginCreateInvoice
<1>2. S \subseteq rows /\ \A r \in S : rowInvoice[r] = NoInvoice
  BY DEF BeginCreateInvoice
<1>3. UNCHANGED <<stored, invoiceHistory>>
  BY DEF BeginCreateInvoice
<1> DEFINE next == [AtDesk EXCEPT !.pc = "creating", !.invoice = i,
                                  !.rows = S, !.amount = a]
<1>4. /\ next \in ClerkStates
      /\ next.pc = "creating" /\ next.invoice = i /\ next.rows = S /\ next.amount = a
  BY DEF AtDesk, ClerkStates
<1>5. Serve(c, next)
  BY <1>1
<1> HIDE DEF next
<1>6. ASSUME NEW j \in Invoices, Live(j) PROVE S \cap listed[j] \subseteq shared
  BY <1>2, <1>6 DEF InvoicesIInv, BookInv, KeptRows
<1>7. Sound(next)
  BY <1>1, <1>4, <1>6 DEF Sound, CreationOK, PatchOK, DeletionOK, SecondOK
<1>8. ASSUME NEW d \in Clerks \ {c}
      PROVE  /\ Apart(next, clerk[d]) /\ Apart(clerk[d], next)
             /\ Nested(next, clerk[d]) /\ Nested(clerk[d], next)
  BY <1>1, <1>4 DEF Apart, Nested
<1> QED
  BY <1>3, <1>4, <1>5, <1>7, <1>8, ClerkOnlyInv

LEMMA BeginPatchInv ==
  ASSUME InvoicesIInv, NEW c \in Clerks, NEW i \in Invoices, BeginPatchInvoice(c, i)
  PROVE  InvoicesIInv'
<1>1. PICK to \in {"CREATED", "SENT", "PAID", "none"}, a \in InvoiceAmounts \cup {NoAmount} :
        Serve(c, [AtDesk EXCEPT !.pc = "patching", !.invoice = i,
                                !.amount = a, !.to = to])
  BY DEF BeginPatchInvoice
<1>2. invoiceState[i] \in {"CREATED", "SENT"} /\ UNCHANGED <<stored, invoiceHistory>>
  BY DEF BeginPatchInvoice
<1> DEFINE next == [AtDesk EXCEPT !.pc = "patching", !.invoice = i,
                                  !.amount = a, !.to = to]
<1>3. /\ next \in ClerkStates
      /\ next.pc = "patching" /\ next.invoice = i /\ next.to = to
  BY DEF AtDesk, ClerkStates
<1>4. Serve(c, next)
  BY <1>1
<1> HIDE DEF next
<1>5. i \notin crossed => undone[i] = 0
  <2>1. undone[i] \in 0 .. MaxUndone
    BY DEF InvoicesIInv, InvoicesTypeOK
  <2> QED
    BY <1>2, <2>1 DEF InvoicesIInv, BookInv, UndoMatchesState
<1>6. Sound(next)
  BY <1>2, <1>3, <1>5 DEF Sound, CreationOK, PatchOK, DeletionOK, SecondOK
<1>7. ASSUME NEW d \in Clerks \ {c}
      PROVE  /\ Apart(next, clerk[d]) /\ Apart(clerk[d], next)
             /\ Nested(next, clerk[d]) /\ Nested(clerk[d], next)
  <2>1. CreationOK(clerk[d])
    BY DEF InvoicesIInv, ClerkInv, Sound
  <2> QED
    BY <1>2, <1>3, <2>1 DEF Apart, Nested, CreationOK
<1> QED
  BY <1>2, <1>3, <1>4, <1>6, <1>7, ClerkOnlyInv

LEMMA BeginDeleteInv ==
  ASSUME InvoicesIInv, NEW c \in Clerks, NEW i \in Invoices, BeginDeleteInvoice(c, i)
  PROVE  InvoicesIInv'
<1> DEFINE next == [AtDesk EXCEPT !.pc = "deleting", !.invoice = i,
                        !.rows = RowsOf(i), !.amount = transferAmount[i]]
<1>1. /\ invoiceState[i] \in {"CREATED", "SENT", "PAID"}
      /\ Serve(c, next) /\ UNCHANGED <<stored, invoiceHistory>>
  BY DEF BeginDeleteInvoice
<1>2. /\ transferAmount[i] \in InvoiceAmounts /\ RowsOf(i) \subseteq Rows
      /\ undone[i] \in 0 .. MaxUndone
  BY <1>1 DEF InvoicesIInv, InvoicesTypeOK, RowsOf
<1>3. /\ next \in ClerkStates
      /\ next.pc = "deleting" /\ next.invoice = i /\ next.rows = RowsOf(i)
      /\ next.amount = transferAmount[i]
  BY <1>2 DEF AtDesk, ClerkStates
<1> HIDE DEF next
<1>4. /\ RowsOf(i) \subseteq listed[i]
      /\ RowsOf(i) # {} => Live(i)
  BY <1>2 DEF InvoicesIInv, BookInv, HeldRows, RowsOf
<1>5. DeletionOK(next)
  BY <1>1, <1>2, <1>3, <1>4 DEF DeletionOK, Left
<1>6. SecondOK(next)
  BY <1>2, <1>3, <1>4 DEF SecondOK, Live
<1>7. Sound(next)
  BY <1>3, <1>5, <1>6 DEF Sound, CreationOK, PatchOK
<1>8. ASSUME NEW d \in Clerks \ {c}
      PROVE  /\ Apart(next, clerk[d]) /\ Apart(clerk[d], next)
             /\ Nested(next, clerk[d]) /\ Nested(clerk[d], next)
  <2>1. CreationOK(clerk[d]) /\ DeletionOK(clerk[d])
    BY DEF InvoicesIInv, ClerkInv, Sound
  <2>2. Apart(next, clerk[d]) /\ Apart(clerk[d], next)
    BY <1>1, <1>3, <2>1 DEF Apart, CreationOK
  <2>3. ASSUME clerk[d].pc = "deleting", clerk[d].invoice = i
        PROVE  RowsOf(i) \subseteq clerk[d].rows /\ Left(clerk[d]) \subseteq RowsOf(i) \cup shared
    <3>1. /\ RowsOf(i) \subseteq clerk[d].rows /\ clerk[d].rows \subseteq listed[i]
          /\ Live(i) \/ Left(clerk[d]) \subseteq shared
      BY <2>1, <2>3 DEF DeletionOK
    <3>2. Live(i) => listed[i] \cap rows \subseteq RowsOf(i) \cup shared
      BY DEF InvoicesIInv, BookInv, KeptRows, RowsOf
    <3> QED
      BY <3>1, <3>2 DEF Left
  <2>4. Nested(next, clerk[d]) /\ Nested(clerk[d], next)
    BY <1>3, <2>3 DEF Nested, Left
  <2> QED
    BY <2>2, <2>4
<1> QED
  BY <1>1, <1>3, <1>7, <1>8, ClerkOnlyInv

LEMMA InvoicesRollBackInv ==
  ASSUME InvoicesIInv, NEW c \in Clerks, RollBackInvoice(c)
  PROVE  InvoicesIInv'
<1>1. Serve(c, AtDesk) /\ UNCHANGED <<stored, invoiceHistory>>
  BY DEF RollBackInvoice
<1>2. Sound(AtDesk)
  BY AtDeskIsFree DEF Sound, CreationOK, PatchOK, DeletionOK, SecondOK
<1>3. ASSUME NEW d \in Clerks \ {c}
      PROVE  /\ Apart(AtDesk, clerk[d]) /\ Apart(clerk[d], AtDesk)
             /\ Nested(AtDesk, clerk[d]) /\ Nested(clerk[d], AtDesk)
  <2>1. CreationOK(clerk[d])
    BY DEF InvoicesIInv, ClerkInv, Sound
  <2> QED
    BY <2>1, AtDeskIsFree DEF Apart, Nested, CreationOK
<1> QED
  BY <1>1, <1>2, <1>3, AtDeskIsFree, ClerkOnlyInv

-----------------------------------------------------------------------------
(* Commits *)

\* The call that commits is done; the others remember what they did.
LEMMA ServedInv ==
  ASSUME InvoicesTypeOK, NEW c \in Clerks, Serve(c, AtDesk),
         \A d \in Clerks \ {c} : Sound(clerk[d])',
         \A d, e \in Clerks \ {c} : d # e =>
             (Apart(clerk[d], clerk[e]) /\ Nested(clerk[d], clerk[e]))',
         \A d \in Clerks \ {c} : clerk[d].pc = "creating" => clerk[d].invoice \in Invoices
  PROVE  clerk' \in [Clerks -> ClerkStates] /\ ClerkInv'
<1>1. /\ clerk' \in [Clerks -> ClerkStates] /\ clerk'[c] = AtDesk
      /\ \A d \in Clerks \ {c} : clerk'[d] = clerk[d]
  BY AtDeskIsFree DEF InvoicesTypeOK, Serve
<1>2. Sound(clerk[c])'
  BY <1>1, AtDeskIsFree DEF Sound, CreationOK, PatchOK, DeletionOK, SecondOK
<1>3. ASSUME NEW d \in Clerks \ {c}
      PROVE  (/\ Apart(clerk[c], clerk[d]) /\ Apart(clerk[d], clerk[c])
              /\ Nested(clerk[c], clerk[d]) /\ Nested(clerk[d], clerk[c]))'
  BY <1>1, AtDeskIsFree DEF Apart, Nested
<1>4. \A d \in Clerks : Sound(clerk[d])'
  BY <1>2
<1>5. \A d, e \in Clerks : d # e =>
          (Apart(clerk[d], clerk[e]) /\ Nested(clerk[d], clerk[e]))'
  BY <1>3
<1> QED
  BY <1>1, <1>4, <1>5 DEF ClerkInv

\* What a clerk knows before a commit.
LEMMA Known ==
  ASSUME InvoicesIInv
  PROVE  /\ InvoicesTypeOK /\ BookInv
         /\ \A d \in Clerks : CreationOK(clerk[d]) /\ PatchOK(clerk[d])
                              /\ DeletionOK(clerk[d]) /\ SecondOK(clerk[d])
                              /\ clerk[d] \in ClerkStates
         /\ \A d, e \in Clerks : d # e =>
                Apart(clerk[d], clerk[e]) /\ Nested(clerk[d], clerk[e])
BY DEF InvoicesIInv, ClerkInv, Sound, InvoicesTypeOK

LEMMA CommitCreateInv ==
  ASSUME InvoicesIInv, NEW c \in Clerks, CommitCreateInvoice(c)
  PROVE  InvoicesIInv'
<1>0. PICK i, S : i = clerk[c].invoice /\ S = clerk[c].rows
  OBVIOUS
<1>1. /\ i \in Invoices /\ clerk[c].amount \in InvoiceAmounts /\ S \subseteq Rows
      /\ invoiceState[i] = "none" /\ undone[i] = 0
      /\ \A j \in Invoices : Live(j) => S \cap listed[j] \subseteq shared
  BY <1>0, Known DEF CommitCreateInvoice, CreationOK, BookInv, FreshInvoices, ClerkStates
<1>2. /\ invoiceState' = [invoiceState EXCEPT ![i] = "CREATED"]
      /\ transferAmount' = [transferAmount EXCEPT ![i] = clerk[c].amount]
      /\ rowInvoice' = [r \in Rows |-> IF r \in S \cap rows THEN i ELSE rowInvoice[r]]
      /\ listed' = [listed EXCEPT ![i] = S]
      /\ Serve(c, AtDesk)
      /\ UNCHANGED <<rows, creditAmount, undone, deletedRows, crossed, bare>>
  BY <1>0 DEF CommitCreateInvoice
<1>3. shared' = shared \cup {r \in S : \E d \in Clerks \ {c} :
                    clerk[d].pc = "creating" /\ r \in clerk[d].rows}
  BY <1>0 DEF CommitCreateInvoice
<1>4. /\ invoiceState \in [Invoices -> InvoiceStates \cup {"none"}]
      /\ transferAmount \in [Invoices -> InvoiceAmounts \cup {NoAmount}]
      /\ rowInvoice \in [Rows -> Invoices \cup {NoInvoice}]
      /\ listed \in [Invoices -> SUBSET Rows]
      /\ shared \subseteq Rows /\ rows \subseteq Rows
      /\ \A j \in Invoices : invoiceState[j] = "none" <=> transferAmount[j] = NoAmount
  BY Known DEF InvoicesTypeOK
<1>5. /\ invoiceState' \in [Invoices -> InvoiceStates \cup {"none"}]
      /\ invoiceState'[i] = "CREATED" /\ listed'[i] = S
      /\ transferAmount'[i] # NoAmount
      /\ \A j \in Invoices \ {i} :
             /\ invoiceState'[j] = invoiceState[j] /\ listed'[j] = listed[j]
             /\ transferAmount'[j] = transferAmount[j]
  BY <1>1, <1>2, <1>4
<1>6. Live(i)' /\ \A j \in Invoices \ {i} : Live(j)' <=> Live(j)
  BY <1>1, <1>2, <1>5 DEF Live
<1>7. shared \subseteq shared' /\ shared' \subseteq Rows
  BY <1>1, <1>3, <1>4
<1>8. /\ \A r \in S \cap rows : rowInvoice'[r] = i
      /\ \A r \in Rows \ (S \cap rows) : rowInvoice'[r] = rowInvoice[r]
  BY <1>1, <1>2
<1>9. BookInv'
  <2>1. FreshInvoices'
    BY <1>2, <1>5, Known DEF BookInv, FreshInvoices
  <2>2. HeldRows'
    <3> SUFFICES ASSUME NEW r \in Rows, NEW j, j = rowInvoice'[r], j # NoInvoice
                 PROVE  r \in rows /\ Live(j)' /\ r \in listed'[j]
      BY <1>2 DEF HeldRows, Live
    <3>1. CASE r \in S \cap rows
      BY <1>5, <1>6, <1>8, <3>1
    <3>2. CASE r \notin S \cap rows
      <4>1. j = rowInvoice[r] /\ r \in rows /\ Live(j) /\ r \in listed[j]
        BY <1>8, <3>2, Known DEF BookInv, HeldRows
      <4>2. j \in Invoices \ {i}
        BY <1>1, <1>4, <4>1 DEF Live
      <4> QED
        BY <1>5, <1>6, <4>1, <4>2
    <3> QED
      BY <3>1, <3>2
  <2>3. KeptRows'
    <3> SUFFICES ASSUME NEW j \in Invoices, Live(j)', NEW r \in listed'[j] \cap rows
                 PROVE  rowInvoice'[r] = j \/ r \in shared'
      BY <1>2 DEF KeptRows
    <3>1. CASE j = i
      BY <1>5, <1>8, <3>1
    <3>2. CASE j # i
      <4>1. Live(j) /\ r \in listed[j] \cap rows /\ r \in Rows
        BY <1>4, <1>5, <1>6, <3>2
      <4>2. rowInvoice[r] = j \/ r \in shared
        BY <4>1, Known DEF BookInv, KeptRows
      <4> QED
        BY <1>1, <1>7, <1>8, <4>1, <4>2
    <3> QED
      BY <3>1, <3>2
  <2>4. CreditedOnce'
    <3> SUFFICES ASSUME NEW j \in Invoices, NEW k \in Invoices, j # k, Live(j)', Live(k)'
                 PROVE  listed'[j] \cap listed'[k] \subseteq shared'
      BY DEF CreditedOnce
    <3>1. CASE j # i /\ k # i
      <4>1. listed[j] \cap listed[k] \subseteq shared
        BY <1>6, <3>1, Known DEF BookInv, CreditedOnce
      <4> QED
        BY <1>5, <1>7, <3>1, <4>1
    <3>2. CASE j = i
      BY <1>1, <1>5, <1>6, <1>7, <3>2
    <3>3. CASE k = i
      BY <1>1, <1>5, <1>6, <1>7, <3>3
    <3> QED
      BY <3>1, <3>2, <3>3
  <2>5. UndoMatchesState'
    <3> SUFFICES ASSUME NEW j \in Invoices \ crossed
                 PROVE  /\ invoiceState'[j] = "DELETED" <=> undone[j] > 0
                        /\ undone[j] > 0 => creditAmount[j] = transferAmount'[j]
                        /\ undone[j] <= 1 \/ j \in bare
      BY <1>2 DEF UndoMatchesState
    <3>1. CASE j = i
      BY <1>1, <1>5, <3>1
    <3>2. CASE j # i
      BY <1>5, <3>2, Known DEF BookInv, UndoMatchesState
    <3> QED
      BY <3>1, <3>2
  <2> QED
    BY <2>1, <2>2, <2>3, <2>4, <2>5 DEF BookInv
<1>10. ASSUME NEW d \in Clerks \ {c} PROVE Sound(clerk[d])'
  <2>0. PICK s : s = clerk[d] /\ s = clerk'[d]
    BY <1>2, Known DEF Serve, InvoicesTypeOK
  <2>1. /\ CreationOK(s) /\ PatchOK(s) /\ DeletionOK(s) /\ SecondOK(s)
        /\ Apart(clerk[c], s)
    BY <2>0, Known
  <2>2. s.invoice # i
    BY <1>0, <2>1 DEF Apart, CommitCreateInvoice
  <2>3. ASSUME s.pc = "creating", NEW j \in Invoices, Live(j)'
        PROVE  s.rows \cap listed'[j] \subseteq shared'
    <3>1. CASE j = i
      <4>1. S \cap s.rows \subseteq shared'
        BY <1>3, <2>0, <2>3
      <4> QED
        BY <1>5, <3>1, <4>1
    <3>2. CASE j # i
      BY <1>5, <1>6, <1>7, <2>1, <2>3, <3>2 DEF CreationOK
    <3> QED
      BY <3>1, <3>2
  <2>4. CreationOK(clerk[d])'
    BY <1>5, <2>0, <2>1, <2>2, <2>3 DEF CreationOK
  <2>5. PatchOK(clerk[d])'
    BY <1>2, <1>5, <2>0, <2>1, <2>2 DEF PatchOK
  <2>6. ASSUME s.pc = "deleting" PROVE RowsOf(s.invoice)' \subseteq RowsOf(s.invoice)
    BY <1>2, <1>4, <1>8, <2>2 DEF RowsOf
  <2>7. DeletionOK(clerk[d])'
    <3> SUFFICES ASSUME s.pc = "deleting" PROVE DeletionOK(clerk[d])'
      BY <2>0 DEF DeletionOK
    <3>1. /\ s.invoice \in Invoices \ {i} /\ s.amount \in InvoiceAmounts
          /\ invoiceState[s.invoice] # "none"
          /\ s.invoice \notin crossed => s.amount = transferAmount[s.invoice]
          /\ s.rows \subseteq listed[s.invoice]
          /\ RowsOf(s.invoice) \subseteq s.rows
          /\ Live(s.invoice) \/ Left(s) \subseteq shared
      BY <2>1, <2>2 DEF DeletionOK
    <3>2. Live(s.invoice)' \/ Left(s)' \subseteq shared'
      BY <1>2, <1>6, <1>7, <3>1 DEF Left
    <3> QED
      BY <1>2, <1>5, <2>0, <2>6, <3>1, <3>2 DEF DeletionOK, Left, RowsOf, Live
  <2>8. SecondOK(clerk[d])'
    BY <1>2, <2>0, <2>1 DEF SecondOK
  <2> QED
    BY <2>4, <2>5, <2>7, <2>8 DEF Sound
<1>11. ASSUME NEW d \in Clerks \ {c}, NEW e \in Clerks \ {c}, d # e
       PROVE  (Apart(clerk[d], clerk[e]) /\ Nested(clerk[d], clerk[e]))'
  <2>1. clerk'[d] = clerk[d] /\ clerk'[e] = clerk[e]
    BY <1>2, Known DEF Serve, InvoicesTypeOK
  <2>2. Apart(clerk[d], clerk[e]) /\ Nested(clerk[d], clerk[e])
    BY <1>11, Known
  <2> QED
    BY <1>2, <1>7, <2>1, <2>2 DEF Apart, Nested, Left
<1>12. clerk' \in [Clerks -> ClerkStates] /\ ClerkInv'
  <2>1. \A d \in Clerks \ {c} : clerk[d].pc = "creating" => clerk[d].invoice \in Invoices
    BY Known DEF CreationOK
  <2> QED
    BY <1>2, <1>10, <1>11, <2>1, Known, ServedInv
<1>13. InvoicesTypeOK'
  <2>1. /\ rowInvoice' \in [Rows -> Invoices \cup {NoInvoice}]
        /\ transferAmount' \in [Invoices -> InvoiceAmounts \cup {NoAmount}]
        /\ listed' \in [Invoices -> SUBSET Rows]
    BY <1>1, <1>2, <1>4
  <2>2. \A j \in Invoices : invoiceState'[j] = "none" <=> transferAmount'[j] = NoAmount
    BY <1>4, <1>5
  <2> QED
    BY <1>2, <1>5, <1>7, <1>12, <2>1, <2>2, Known DEF InvoicesTypeOK
<1> QED
  BY <1>9, <1>12, <1>13 DEF InvoicesIInv

LEMMA CommitPatchInv ==
  ASSUME InvoicesIInv, NEW c \in Clerks, CommitPatchInvoice(c)
  PROVE  InvoicesIInv'
<1>0. PICK i, to, a : i = clerk[c].invoice /\ to = clerk[c].to /\ a = clerk[c].amount
  OBVIOUS
<1>1. /\ i \in Invoices /\ invoiceState[i] # "none"
      /\ to \in {"CREATED", "SENT", "PAID", "none"}
      /\ a \in InvoiceAmounts \cup {NoAmount}
      /\ i \notin crossed => undone[i] = 0
  BY <1>0, Known DEF CommitPatchInvoice, PatchOK, ClerkStates
<1>2. PICK s \in {to} \cup (IF undone[i] > 0 THEN {invoiceState[i]} ELSE {}) :
        invoiceState' = IF to = "none" THEN invoiceState
                        ELSE [invoiceState EXCEPT ![i] = s]
  BY <1>0 DEF CommitPatchInvoice
<1>3. /\ transferAmount' = IF a = NoAmount THEN transferAmount
                           ELSE [transferAmount EXCEPT ![i] = a]
      /\ Serve(c, AtDesk)
      /\ UNCHANGED <<rows, rowInvoice, creditAmount, undone, deletedRows, listed,
                     shared, bare>>
  BY <1>0 DEF CommitPatchInvoice
<1>4. /\ crossed' \in {crossed, crossed \cup {i}}
      /\ a # NoAmount /\ Meanwhile(c, "deleting") => i \in crossed'
  BY <1>0 DEF CommitPatchInvoice
<1>5. /\ invoiceState \in [Invoices -> InvoiceStates \cup {"none"}]
      /\ transferAmount \in [Invoices -> InvoiceAmounts \cup {NoAmount}]
      /\ crossed \subseteq Invoices
      /\ undone \in [Invoices -> 0 .. MaxUndone]
      /\ \A j \in Invoices : invoiceState[j] = "none" <=> transferAmount[j] = NoAmount
  BY Known DEF InvoicesTypeOK
<1>6. /\ invoiceState' \in [Invoices -> InvoiceStates \cup {"none"}]
      /\ invoiceState'[i] # "none"
      /\ \A j \in Invoices \ {i} : invoiceState'[j] = invoiceState[j]
  BY <1>1, <1>2, <1>5
<1>7. /\ transferAmount' \in [Invoices -> InvoiceAmounts \cup {NoAmount}]
      /\ transferAmount'[i] # NoAmount
      /\ a = NoAmount => transferAmount' = transferAmount
      /\ \A j \in Invoices \ {i} : transferAmount'[j] = transferAmount[j]
  BY <1>1, <1>3, <1>5
<1>8. \A j \in Invoices : Live(j)' <=> Live(j)
  BY <1>1, <1>3, <1>6 DEF Live
<1>9. BookInv'
  <2>1. FreshInvoices'
    BY <1>3, <1>6, Known DEF BookInv, FreshInvoices
  <2>2. HeldRows'
    <3> SUFFICES ASSUME NEW r \in Rows, NEW j, j = rowInvoice'[r], j # NoInvoice
                 PROVE  r \in rows /\ Live(j)' /\ r \in listed'[j]
      BY <1>3 DEF HeldRows, Live
    <3>1. r \in rows /\ Live(j) /\ r \in listed[j] /\ j \in Invoices
      BY <1>3, Known DEF BookInv, HeldRows, InvoicesTypeOK
    <3> QED
      BY <1>3, <1>8, <3>1
  <2>3. KeptRows'
    <3> SUFFICES ASSUME NEW j \in Invoices, Live(j)', NEW r \in listed'[j] \cap rows
                 PROVE  rowInvoice'[r] = j \/ r \in shared'
      BY <1>3 DEF KeptRows
    <3> QED
      BY <1>3, <1>8, Known DEF BookInv, KeptRows
  <2>4. CreditedOnce'
    <3> SUFFICES ASSUME NEW j \in Invoices, NEW k \in Invoices, j # k, Live(j)', Live(k)'
                 PROVE  listed'[j] \cap listed'[k] \subseteq shared'
      BY DEF CreditedOnce
    <3> QED
      BY <1>3, <1>8, Known DEF BookInv, CreditedOnce
  <2>5. UndoMatchesState'
    <3> SUFFICES ASSUME NEW j \in Invoices \ crossed'
                 PROVE  /\ invoiceState'[j] = "DELETED" <=> undone[j] > 0
                        /\ undone[j] > 0 => creditAmount[j] = transferAmount'[j]
                        /\ undone[j] <= 1 \/ j \in bare
      BY <1>3 DEF UndoMatchesState
    <3>1. j \notin crossed
      BY <1>4
    <3>2. /\ invoiceState[j] = "DELETED" <=> undone[j] > 0
          /\ undone[j] > 0 => creditAmount[j] = transferAmount[j]
          /\ undone[j] <= 1 \/ j \in bare
      BY <3>1, Known DEF BookInv, UndoMatchesState
    <3>3. CASE j = i
      <4>1. undone[j] = 0
        BY <1>1, <3>1, <3>3
      <4>2. invoiceState'[j] # "DELETED"
        BY <1>1, <1>2, <1>5, <3>2, <3>3, <4>1
      <4> QED
        BY <4>1, <4>2
    <3>4. CASE j # i
      BY <1>6, <1>7, <3>2, <3>4
    <3> QED
      BY <3>3, <3>4
  <2> QED
    BY <2>1, <2>2, <2>3, <2>4, <2>5 DEF BookInv
<1>10. ASSUME NEW d \in Clerks \ {c} PROVE Sound(clerk[d])'
  <2>0. PICK t : t = clerk[d] /\ t = clerk'[d]
    BY <1>3, Known DEF Serve, InvoicesTypeOK
  <2>1. /\ CreationOK(t) /\ PatchOK(t) /\ DeletionOK(t) /\ SecondOK(t)
    BY <2>0, Known
  <2>2. CreationOK(clerk[d])'
    <3>1. t.pc = "creating" => t.invoice # i
      BY <1>1, <2>1 DEF CreationOK
    <3> QED
      BY <1>3, <1>6, <1>8, <2>0, <2>1, <3>1 DEF CreationOK
  <2>3. PatchOK(clerk[d])'
    BY <1>3, <1>4, <1>6, <2>0, <2>1 DEF PatchOK
  <2>4. DeletionOK(clerk[d])'
    <3> SUFFICES ASSUME t.pc = "deleting" PROVE DeletionOK(clerk[d])'
      BY <2>0 DEF DeletionOK
    <3>1. /\ t.invoice \in Invoices /\ t.amount \in InvoiceAmounts
          /\ invoiceState[t.invoice] # "none"
          /\ t.invoice \notin crossed => t.amount = transferAmount[t.invoice]
          /\ t.rows \subseteq listed[t.invoice]
          /\ RowsOf(t.invoice) \subseteq t.rows
          /\ Live(t.invoice) \/ Left(t) \subseteq shared
      BY <2>1 DEF DeletionOK
    <3>2. t.invoice \notin crossed' => t.amount = transferAmount'[t.invoice]
      <4>1. CASE t.invoice = i
        BY <1>4, <1>7, <2>0, <3>1, <4>1, <1>0 DEF Meanwhile
      <4>2. CASE t.invoice # i
        BY <1>4, <1>7, <3>1, <4>2
      <4> QED
        BY <4>1, <4>2
    <3>3. invoiceState'[t.invoice] # "none"
      BY <1>6, <3>1
    <3>4. Live(t.invoice)' \/ Left(t)' \subseteq shared'
      BY <1>3, <1>8, <3>1 DEF Left
    <3> QED
      BY <1>3, <2>0, <3>1, <3>2, <3>3, <3>4 DEF DeletionOK, RowsOf, Left, Live
  <2>5. SecondOK(clerk[d])'
    BY <1>3, <2>0, <2>1 DEF SecondOK
  <2> QED
    BY <2>2, <2>3, <2>4, <2>5 DEF Sound
<1>11. ASSUME NEW d \in Clerks \ {c}, NEW e \in Clerks \ {c}, d # e
       PROVE  (Apart(clerk[d], clerk[e]) /\ Nested(clerk[d], clerk[e]))'
  <2>1. clerk'[d] = clerk[d] /\ clerk'[e] = clerk[e]
    BY <1>3, Known DEF Serve, InvoicesTypeOK
  <2>2. Apart(clerk[d], clerk[e]) /\ Nested(clerk[d], clerk[e])
    BY <1>11, Known
  <2> QED
    BY <1>3, <2>1, <2>2 DEF Apart, Nested, Left
<1>12. clerk' \in [Clerks -> ClerkStates] /\ ClerkInv'
  <2>1. \A d \in Clerks \ {c} : clerk[d].pc = "creating" => clerk[d].invoice \in Invoices
    BY Known DEF CreationOK
  <2> QED
    BY <1>3, <1>10, <1>11, <2>1, Known, ServedInv
<1>13. InvoicesTypeOK'
  <2>1. \A j \in Invoices : invoiceState'[j] = "none" <=> transferAmount'[j] = NoAmount
    BY <1>5, <1>6, <1>7
  <2>2. crossed' \subseteq Invoices
    BY <1>1, <1>4, <1>5
  <2> QED
    BY <1>3, <1>6, <1>7, <1>12, <2>1, <2>2, Known DEF InvoicesTypeOK
<1> QED
  BY <1>9, <1>12, <1>13 DEF InvoicesIInv

LEMMA CommitDeleteInv ==
  ASSUME InvoicesIInv, NEW c \in Clerks, CommitDeleteInvoice(c)
  PROVE  InvoicesIInv'
<1>0. PICK i, S, me : i = clerk[c].invoice /\ S = clerk[c].rows /\ me = clerk[c]
  OBVIOUS
<1>1. /\ i \in Invoices /\ me.amount \in InvoiceAmounts /\ S \subseteq Rows
      /\ invoiceState[i] # "none"
      /\ i \notin crossed => me.amount = transferAmount[i]
      /\ S \subseteq listed[i] /\ RowsOf(i) \subseteq S
      /\ S \subseteq rows \ deletedRows[i]
      /\ me.pc = "deleting"
  BY <1>0, Known DEF CommitDeleteInvoice, DeletionOK, ClerkStates
<1>2. Live(i) \/ S \subseteq shared
  BY <1>0, <1>1, Known DEF DeletionOK, Left
<1>3. /\ undone[i] < MaxUndone
      /\ invoiceState' = [invoiceState EXCEPT ![i] = "DELETED"]
      /\ undone' = [undone EXCEPT ![i] = @ + 1]
      /\ creditAmount' = [creditAmount EXCEPT ![i] = me.amount]
      /\ deletedRows' = [deletedRows EXCEPT ![i] = @ \cup S]
      /\ rowInvoice' = [r \in Rows |-> IF r \in S THEN NoInvoice ELSE rowInvoice[r]]
      /\ Serve(c, AtDesk)
      /\ UNCHANGED <<rows, transferAmount, listed, shared>>
  BY <1>0 DEF CommitDeleteInvoice
<1>4. /\ crossed' \in {crossed, crossed \cup {i}}
      /\ bare' \in {bare, bare \cup {i}}
      /\ Meanwhile(c, "patching") => i \in crossed'
      /\ S = {} => i \in bare'
  BY <1>0 DEF CommitDeleteInvoice
<1>5. /\ invoiceState \in [Invoices -> InvoiceStates \cup {"none"}]
      /\ undone \in [Invoices -> 0 .. MaxUndone]
      /\ creditAmount \in [Invoices -> InvoiceAmounts \cup {NoAmount}]
      /\ deletedRows \in [Invoices -> SUBSET Rows]
      /\ rowInvoice \in [Rows -> Invoices \cup {NoInvoice}]
      /\ listed \in [Invoices -> SUBSET Rows]
      /\ rows \subseteq Rows /\ crossed \subseteq Invoices /\ bare \subseteq Invoices
      /\ \A j \in Invoices : invoiceState[j] = "none" <=> transferAmount[j] = NoAmount
  BY Known DEF InvoicesTypeOK
<1>6. /\ invoiceState'[i] = "DELETED" /\ creditAmount'[i] = me.amount
      /\ undone'[i] = undone[i] + 1 /\ deletedRows'[i] = deletedRows[i] \cup S
      /\ \A j \in Invoices \ {i} :
             /\ invoiceState'[j] = invoiceState[j] /\ creditAmount'[j] = creditAmount[j]
             /\ undone'[j] = undone[j] /\ deletedRows'[j] = deletedRows[j]
  BY <1>1, <1>3, <1>5
<1>7. undone' \in [Invoices -> 0 .. MaxUndone]
  <2>1. undone[i] + 1 \in 0 .. MaxUndone
    BY <1>1, <1>3, <1>5
  <2> QED
    BY <1>1, <1>3, <1>5, <2>1
<1>8. /\ invoiceState' \in [Invoices -> InvoiceStates \cup {"none"}]
      /\ creditAmount' \in [Invoices -> InvoiceAmounts \cup {NoAmount}]
      /\ deletedRows' \in [Invoices -> SUBSET Rows]
      /\ rowInvoice' \in [Rows -> Invoices \cup {NoInvoice}]
  BY <1>1, <1>3, <1>5
<1>9. ~Live(i)' /\ \A j \in Invoices \ {i} : Live(j)' <=> Live(j)
  BY <1>1, <1>5, <1>6 DEF Live
<1>10. /\ \A r \in S : rowInvoice'[r] = NoInvoice
       /\ \A r \in Rows \ S : rowInvoice'[r] = rowInvoice[r]
  BY <1>1, <1>3
<1>11. BookInv'
  <2>1. FreshInvoices'
    BY <1>1, <1>6, Known DEF BookInv, FreshInvoices
  <2>2. HeldRows'
    <3> SUFFICES ASSUME NEW r \in Rows, NEW j, j = rowInvoice'[r], j # NoInvoice
                 PROVE  r \in rows /\ Live(j)' /\ r \in listed[j]
      BY <1>3 DEF HeldRows, Live
    <3>1. r \notin S /\ j = rowInvoice[r]
      BY <1>10
    <3>2. r \in rows /\ Live(j) /\ r \in listed[j] /\ j \in Invoices
      BY <1>5, <3>1, Known DEF BookInv, HeldRows
    <3>3. j # i
      BY <1>1, <3>1, <3>2 DEF RowsOf
    <3> QED
      BY <1>9, <3>2, <3>3
  <2>3. KeptRows'
    <3> SUFFICES ASSUME NEW j \in Invoices, Live(j)', NEW r \in listed[j] \cap rows
                 PROVE  rowInvoice'[r] = j \/ r \in shared
      BY <1>3 DEF KeptRows
    <3>1. j # i /\ Live(j) /\ r \in Rows
      BY <1>5, <1>9
    <3>2. CASE r \notin S
      BY <1>10, <3>1, <3>2, Known DEF BookInv, KeptRows
    <3>3. CASE r \in S
      <4>1. Live(i) => listed[i] \cap listed[j] \subseteq shared
        BY <1>1, <3>1, Known DEF BookInv, CreditedOnce
      <4> QED
        BY <1>1, <1>2, <3>3, <4>1
    <3> QED
      BY <3>2, <3>3
  <2>4. CreditedOnce'
    <3> SUFFICES ASSUME NEW j \in Invoices, NEW k \in Invoices, j # k, Live(j)', Live(k)'
                 PROVE  listed[j] \cap listed[k] \subseteq shared
      BY <1>3 DEF CreditedOnce
    <3> QED
      BY <1>9, Known DEF BookInv, CreditedOnce
  <2>5. UndoMatchesState'
    <3> SUFFICES ASSUME NEW j \in Invoices \ crossed'
                 PROVE  /\ invoiceState'[j] = "DELETED" <=> undone'[j] > 0
                        /\ undone'[j] > 0 => creditAmount'[j] = transferAmount[j]
                        /\ undone'[j] <= 1 \/ j \in bare'
      BY <1>3 DEF UndoMatchesState
    <3>1. CASE j # i
      <4>1. /\ invoiceState[j] = "DELETED" <=> undone[j] > 0
            /\ undone[j] > 0 => creditAmount[j] = transferAmount[j]
            /\ undone[j] <= 1 \/ j \in bare
        BY <1>4, Known DEF BookInv, UndoMatchesState
      <4> QED
        BY <1>4, <1>6, <3>1, <4>1
    <3>2. CASE j = i
      <4>1. undone[i] \in Nat
        BY <1>1, <1>5
      <4>2. CASE undone[i] = 0
        BY <1>1, <1>4, <1>6, <3>2, <4>2
      <4>3. CASE undone[i] > 0
        <5>1. S = {} \/ i \in bare
          BY <1>0, <1>1, <4>3, Known DEF SecondOK
        <5> QED
          BY <1>1, <1>4, <1>6, <3>2, <4>1, <4>3, <5>1
      <4> QED
        BY <4>1, <4>2, <4>3
    <3> QED
      BY <3>1, <3>2
  <2> QED
    BY <2>1, <2>2, <2>3, <2>4, <2>5 DEF BookInv
<1>12. ASSUME NEW d \in Clerks \ {c} PROVE Sound(clerk[d])'
  <2>0. PICK t : t = clerk[d] /\ t = clerk'[d]
    BY <1>3, Known DEF Serve, InvoicesTypeOK
  <2>1. /\ CreationOK(t) /\ PatchOK(t) /\ DeletionOK(t) /\ SecondOK(t)
        /\ Nested(t, me) /\ Nested(me, t)
    BY <1>0, <2>0, Known
  <2>2. CreationOK(clerk[d])'
    <3>1. t.pc = "creating" => t.invoice # i
      BY <1>1, <2>1 DEF CreationOK
    <3> QED
      BY <1>3, <1>6, <1>9, <2>0, <2>1, <3>1 DEF CreationOK
  <2>3. PatchOK(clerk[d])'
    <3> SUFFICES ASSUME t.pc = "patching" PROVE PatchOK(clerk[d])'
      BY <2>0 DEF PatchOK
    <3>1. t.invoice = i => i \in crossed'
      BY <1>0, <1>4, <2>0 DEF Meanwhile
    <3> QED
      BY <1>4, <1>6, <2>0, <2>1, <3>1 DEF PatchOK
  <2>4. DeletionOK(clerk[d])'
    <3> SUFFICES ASSUME t.pc = "deleting" PROVE DeletionOK(clerk[d])'
      BY <2>0 DEF DeletionOK
    <3>1. /\ t.invoice \in Invoices /\ t.amount \in InvoiceAmounts
          /\ invoiceState[t.invoice] # "none"
          /\ t.invoice \notin crossed => t.amount = transferAmount[t.invoice]
          /\ t.rows \subseteq listed[t.invoice]
          /\ RowsOf(t.invoice) \subseteq t.rows
          /\ Live(t.invoice) \/ Left(t) \subseteq shared
      BY <2>1 DEF DeletionOK
    <3>2. RowsOf(t.invoice)' \subseteq RowsOf(t.invoice)
      BY <1>3, <1>5, <1>10, <3>1 DEF RowsOf
    <3>3. Live(t.invoice)' \/ Left(t)' \subseteq shared
      <4>1. CASE t.invoice = i
        <5>1. Left(t) \subseteq S \cup shared
          BY <1>0, <1>1, <2>1, <4>1 DEF Nested
        <5> QED
          BY <1>3, <1>6, <4>1, <5>1 DEF Left
      <4>2. CASE t.invoice # i
        BY <1>3, <1>6, <1>9, <3>1, <4>2 DEF Left
      <4> QED
        BY <4>1, <4>2
    <3>4. invoiceState'[t.invoice] # "none"
      BY <1>6, <3>1
    <3> QED
      BY <1>3, <1>4, <2>0, <3>1, <3>2, <3>3, <3>4 DEF DeletionOK, RowsOf, Left, Live
  <2>5. SecondOK(clerk[d])'
    <3> SUFFICES ASSUME t.pc = "deleting", t.rows # {},
                        undone'[t.invoice] > 0, t.invoice \notin bare'
                 PROVE  \E r \in t.rows : r \notin rows' \ deletedRows'[t.invoice]
      BY <2>0 DEF SecondOK
    <3>1. t.invoice \in Invoices
      BY <2>1 DEF DeletionOK
    <3>2. CASE t.invoice # i
      BY <1>3, <1>4, <1>6, <2>1, <3>1, <3>2 DEF SecondOK
    <3>3. CASE t.invoice = i
      <4>1. S # {} /\ (t.rows \subseteq S \/ S \subseteq t.rows)
        BY <1>0, <1>1, <1>4, <2>1, <3>3 DEF Nested
      <4>2. PICK r : r \in S \cap t.rows
        BY <4>1
      <4> QED
        BY <1>6, <3>3, <4>2
    <3> QED
      BY <3>2, <3>3
  <2> QED
    BY <2>2, <2>3, <2>4, <2>5 DEF Sound
<1>13. ASSUME NEW d \in Clerks \ {c}, NEW e \in Clerks \ {c}, d # e
       PROVE  (Apart(clerk[d], clerk[e]) /\ Nested(clerk[d], clerk[e]))'
  <2>1. clerk'[d] = clerk[d] /\ clerk'[e] = clerk[e]
    BY <1>3, Known DEF Serve, InvoicesTypeOK
  <2>2. Apart(clerk[d], clerk[e]) /\ Nested(clerk[d], clerk[e])
    BY <1>13, Known
  <2>3. clerk[d].pc = "deleting" =>
            deletedRows[clerk[d].invoice] \subseteq deletedRows'[clerk[d].invoice]
    BY <1>6, Known DEF DeletionOK
  <2> QED
    BY <1>3, <2>1, <2>2, <2>3 DEF Apart, Nested, Left
<1>14. clerk' \in [Clerks -> ClerkStates] /\ ClerkInv'
  <2>1. \A d \in Clerks \ {c} : clerk[d].pc = "creating" => clerk[d].invoice \in Invoices
    BY Known DEF CreationOK
  <2> QED
    BY <1>3, <1>12, <1>13, <2>1, Known, ServedInv
<1>15. InvoicesTypeOK'
  <2>1. \A j \in Invoices : invoiceState'[j] = "none" <=> transferAmount'[j] = NoAmount
    BY <1>1, <1>3, <1>5, <1>6
  <2>2. crossed' \subseteq Invoices /\ bare' \subseteq Invoices
    BY <1>1, <1>4, <1>5
  <2> QED
    BY <1>3, <1>7, <1>8, <1>14, <2>1, <2>2, Known DEF InvoicesTypeOK
<1> QED
  BY <1>11, <1>14, <1>15 DEF InvoicesIInv

LEMMA RemoveRowInv ==
  ASSUME InvoicesIInv, NEW r \in Rows, RemoveRow(r)
  PROVE  InvoicesIInv'
<1>1. /\ rows' = rows \ {r}
      /\ rowInvoice' = [rowInvoice EXCEPT ![r] = NoInvoice]
      /\ deletedRows' = [i \in Invoices |-> deletedRows[i] \ {r}]
      /\ UNCHANGED <<invoiceState, transferAmount, creditAmount, undone, clerk>>
      /\ UNCHANGED <<listed, shared, crossed, bare>>
  BY DEF RemoveRow, invoiceHistory
<1>2. /\ rowInvoice \in [Rows -> Invoices \cup {NoInvoice}]
      /\ deletedRows \in [Invoices -> SUBSET Rows] /\ rows \subseteq Rows
  BY Known DEF InvoicesTypeOK
<1>3. /\ rowInvoice'[r] = NoInvoice
      /\ \A q \in Rows \ {r} : rowInvoice'[q] = rowInvoice[q]
  BY <1>1, <1>2
<1>4. \A j : Live(j)' <=> Live(j)
  BY <1>1 DEF Live
<1>5. BookInv'
  <2>1. FreshInvoices'
    BY <1>1, Known DEF BookInv, FreshInvoices
  <2>2. HeldRows'
    <3> SUFFICES ASSUME NEW q \in Rows, NEW j, j = rowInvoice'[q], j # NoInvoice
                 PROVE  q \in rows' /\ Live(j)' /\ q \in listed[j]
      BY <1>1 DEF HeldRows, Live
    <3>1. q # r /\ j = rowInvoice[q]
      BY <1>3
    <3> QED
      BY <1>1, <1>4, <3>1, Known DEF BookInv, HeldRows
  <2>3. KeptRows'
    <3> SUFFICES ASSUME NEW j \in Invoices, Live(j)', NEW q \in listed[j] \cap rows'
                 PROVE  rowInvoice'[q] = j \/ q \in shared
      BY <1>1 DEF KeptRows
    <3>1. q \in listed[j] \cap rows /\ q \in Rows \ {r}
      BY <1>1, <1>2
    <3> QED
      BY <1>3, <1>4, <3>1, Known DEF BookInv, KeptRows
  <2>4. CreditedOnce' /\ UndoMatchesState'
    BY <1>1, Known DEF BookInv, CreditedOnce, UndoMatchesState, Live
  <2> QED
    BY <2>1, <2>2, <2>3, <2>4 DEF BookInv
<1>6. ASSUME NEW d \in Clerks PROVE Sound(clerk[d])'
  <2>0. PICK t : t = clerk[d] /\ t = clerk'[d]
    BY <1>1
  <2>1. CreationOK(t) /\ PatchOK(t) /\ DeletionOK(t) /\ SecondOK(t)
    BY <2>0, Known
  <2>2. CreationOK(clerk[d])' /\ PatchOK(clerk[d])'
    BY <1>1, <2>0, <2>1 DEF CreationOK, PatchOK, Live
  <2>3. DeletionOK(clerk[d])'
    <3> SUFFICES ASSUME t.pc = "deleting" PROVE DeletionOK(clerk[d])'
      BY <2>0 DEF DeletionOK
    <3>1. /\ t.invoice \in Invoices /\ t.amount \in InvoiceAmounts
          /\ invoiceState[t.invoice] # "none"
          /\ t.invoice \notin crossed => t.amount = transferAmount[t.invoice]
          /\ t.rows \subseteq listed[t.invoice]
          /\ RowsOf(t.invoice) \subseteq t.rows
          /\ Live(t.invoice) \/ Left(t) \subseteq shared
      BY <2>1 DEF DeletionOK
    <3>2. RowsOf(t.invoice)' \subseteq RowsOf(t.invoice)
      BY <1>1, <1>2, <1>3, <3>1 DEF RowsOf
    <3>3. Left(t)' \subseteq Left(t)
      BY <1>1, <1>2, <3>1 DEF Left
    <3> QED
      BY <1>1, <2>0, <3>1, <3>2, <3>3 DEF DeletionOK, RowsOf, Left, Live
  <2>4. SecondOK(clerk[d])'
    <3> SUFFICES ASSUME t.pc = "deleting", t.rows # {},
                        undone[t.invoice] > 0, t.invoice \notin bare
                 PROVE  \E q \in t.rows : q \notin rows' \ deletedRows'[t.invoice]
      BY <1>1, <2>0 DEF SecondOK
    <3>1. t.invoice \in Invoices
      BY <2>1 DEF DeletionOK
    <3>2. PICK q \in t.rows : q \notin rows \ deletedRows[t.invoice]
      BY <2>1 DEF SecondOK
    <3> QED
      BY <1>1, <3>1, <3>2
  <2> QED
    BY <2>2, <2>3, <2>4 DEF Sound
<1>7. ASSUME NEW d \in Clerks, NEW e \in Clerks, d # e
      PROVE  (Apart(clerk[d], clerk[e]) /\ Nested(clerk[d], clerk[e]))'
  <2>1. Apart(clerk[d], clerk[e]) /\ Nested(clerk[d], clerk[e])
    BY <1>7, Known
  <2>2. clerk[d].pc = "deleting" =>
            deletedRows'[clerk[d].invoice] = deletedRows[clerk[d].invoice] \ {r}
    BY <1>1, Known DEF DeletionOK
  <2> QED
    BY <1>1, <2>1, <2>2 DEF Apart, Nested, Left
<1>8. InvoicesTypeOK'
  <2>1. /\ rowInvoice' \in [Rows -> Invoices \cup {NoInvoice}]
        /\ deletedRows' \in [Invoices -> SUBSET Rows] /\ rows' \subseteq Rows
    BY <1>1, <1>2
  <2> QED
    BY <1>1, <2>1, Known DEF InvoicesTypeOK
<1> QED
  BY <1>5, <1>6, <1>7, <1>8 DEF InvoicesIInv, ClerkInv

LEMMA InvoicesNextInv == InvoicesIInv /\ [InvoicesNext]_invoicesVars => InvoicesIInv'
<1>1. ASSUME InvoicesIInv, InvoicesNext PROVE InvoicesIInv'
  BY <1>1, BeginCreateInv, BeginPatchInv, BeginDeleteInv, InvoicesRollBackInv,
     CommitCreateInv, CommitPatchInv, CommitDeleteInv, RemoveRowInv DEF InvoicesNext
<1>2. ASSUME InvoicesIInv, UNCHANGED invoicesVars PROVE InvoicesIInv'
  <2>1. /\ UNCHANGED <<stored, invoiceHistory>> /\ clerk' = clerk
    BY <1>2 DEF invoicesVars, stored, invoiceHistory
  <2>2. BookInv' /\ InvoicesTypeOK'
    BY <1>2, <2>1, FrameBooks DEF InvoicesIInv, InvoicesTypeOK, stored, invoiceHistory
  <2>3. ClerkInv'
    BY <1>2, <2>1 DEF InvoicesIInv, ClerkInv, Sound, CreationOK, PatchOK, DeletionOK,
       SecondOK, Apart, Nested, Left, RowsOf, Live, stored, invoiceHistory
  <2> QED
    BY <2>2, <2>3 DEF InvoicesIInv
<1> QED
  BY <1>1, <1>2

-----------------------------------------------------------------------------
(* Theorems *)

\* The inductive invariant: rows and invoices refer to each other as long as both
\* stand, and a transaction in progress read what it still may act upon.
THEOREM InvoicesInvariance == InvoicesSpec => []InvoicesIInv
<1>1. InvoicesInit => InvoicesIInv
  BY InvoicesInitInv
<1>2. InvoicesIInv /\ [InvoicesNext]_invoicesVars => InvoicesIInv'
  BY InvoicesNextInv
<1> QED
  BY <1>1, <1>2, PTL DEF InvoicesSpec

\* Type correctness of invoices, their rows and the transactions on them.
THEOREM InvoicesTypeCorrect == InvoicesSpec => []InvoicesTypeOK
<1>1. InvoicesIInv => InvoicesTypeOK
  BY DEF InvoicesIInv
<1> QED
  BY <1>1, InvoicesInvariance, PTL

\* createInvoice, deleteInvoice: no row is credited by two invoices that stand,
\* unless their creations overlapped, and none is left on one that was undone.
THEOREM RowsCreditedOnce == InvoicesSpec => []RowCreditedOnce
<1>1. InvoicesIInv => RowCreditedOnce
  BY DEF InvoicesIInv, BookInv, HeldRows, CreditedOnce, RowCreditedOnce
<1> QED
  BY <1>1, InvoicesInvariance, PTL

\* deleteInvoice: unless a patch overlapped, an invoice is DELETED exactly when its
\* amount was taken back, and once, unless no row was left to tell a second deletion.
THEOREM UndoneOnce == InvoicesSpec => []UndoMatchesState
<1>1. InvoicesIInv => UndoMatchesState
  BY DEF InvoicesIInv, BookInv
<1> QED
  BY <1>1, InvoicesInvariance, PTL

-----------------------------------------------------------------------------
(* QR login *)

-----------------------------------------------------------------------------
(* The inductive invariant *)

\* What is asked of the server and what it sends, and what is in a queue of them.
Asks == {"subscribe", "unsubscribe"} \X Codes

Tokens == [code : Codes, member : Members]

Elements(s) == {s[i] : i \in 1 .. Len(s)}

\* The values of the variables, exactly.
Types ==
    /\ session \in [Codes -> SessionRows]
    /\ generated \subseteq Codes
    /\ expired \subseteq generated /\ replies \subseteq generated
    /\ rooms \subseteq generated /\ raced \subseteq generated
    /\ phone \in [Phones -> PhoneStates]
    /\ screen \in [code : generated \cup {Nobody}, user : Members \cup {Nobody},
                   by : generated \cup {Nobody}]
    /\ asks \in Seq(Asks) /\ tokens \in Seq(Tokens)

\* A session that was not made yet is untouched.
Untouched == \A c \in Codes \ generated : session[c] = NewSession

\* A session still on its way to the screen has never been shown, so neither the
\* screen nor the server has said anything about it.
NotShown ==
    /\ screen.code \notin replies
    /\ rooms \cap replies = {}
    /\ \A a \in Elements(asks) : a[2] \in generated \ replies
    /\ \A k \in Elements(tokens) : k.code \in generated \ replies

\* What a call knows: a session that no two calls overlapped on still is what it
\* loaded, and after its confirmation is confirmed by its member.
KnowsSession(p) ==
    /\ p.pc # "idle" => p.code \in generated
    /\ p.pc \in {"checked", "saved"} => p.member \in Members
    /\ p.pc \in {"checked", "cancelling"} /\ p.code \notin raced =>
           p.row = session[p.code]
    /\ p.pc = "saved" /\ p.code \notin raced => session[p.code].by = p.member

CallsKnow == \A t \in Phones : KnowsSession(phone[t])

\* What is sent, and who is logged in, is who confirmed.
Genuine ==
    /\ \A k \in Elements(tokens) : k.code \notin raced => session[k.code].by = k.member
    /\ screen.by # Nobody => screen.user \in Members
    /\ screen.by \notin raced \cup {Nobody} => session[screen.by].by = screen.user

\* The screen is in the room of the session it shows, or will be, until that
\* session has logged somebody in.
Listening ==
    screen.code \notin missed \cup {Nobody} /\ screen.by # screen.code =>
        /\ screen.code \in rooms \/ <<"subscribe", screen.code>> \in Elements(asks)
        /\ <<"unsubscribe", screen.code>> \notin Elements(asks)

Announcing(c) == \E t \in Phones : phone[t].pc = "saved" /\ phone[t].code = c

\* A confirmation is about to be sent, on its way or received.
OnItsWay ==
    /\ \A c \in replies \ (raced \cup missed) : session[c].by # Nobody => Announcing(c)
    /\ LET c == screen.code IN
       c \notin raced \cup missed \cup {Nobody} /\ session[c].by # Nobody =>
           \/ Announcing(c)
           \/ \E k \in Elements(tokens) : k.code = c
           \/ screen.by = c

QrIInv ==
    /\ Types
    /\ Untouched
    /\ NotShown
    /\ CallsKnow
    /\ Genuine
    /\ Listening
    /\ OnItsWay

USE QrAssumption

-----------------------------------------------------------------------------
(* What the operators do *)

\* Append adds one element, and taking the head off leaves the others.
LEMMA AppendElements ==
  ASSUME NEW S, NEW s \in Seq(S), NEW e \in S
  PROVE  /\ Append(s, e) \in Seq(S)
         /\ Elements(Append(s, e)) = Elements(s) \cup {e}
<1>1. Append(s, e) \in Seq(S) /\ Len(s) \in Nat /\ Len(Append(s, e)) = Len(s) + 1
  OBVIOUS
<1>2. \A i \in 1 .. Len(s) : Append(s, e)[i] = s[i]
  OBVIOUS
<1>3. Append(s, e)[Len(s) + 1] = e
  OBVIOUS
<1>4. 1 .. Len(s) + 1 = (1 .. Len(s)) \cup {Len(s) + 1}
  BY <1>1
<1> QED
  BY <1>1, <1>2, <1>3, <1>4 DEF Elements

LEMMA HeadAndTail ==
  ASSUME NEW S, NEW s \in Seq(S), s # <<>>
  PROVE  /\ Head(s) \in S /\ Tail(s) \in Seq(S)
         /\ Elements(s) = Elements(Tail(s)) \cup {Head(s)}
<1>1. Len(s) \in Nat \ {0} /\ Head(s) = s[1] /\ Head(s) \in S
  OBVIOUS
<1>2. Tail(s) \in Seq(S) /\ Len(Tail(s)) = Len(s) - 1
  OBVIOUS
<1>3. \A i \in 1 .. Len(s) - 1 : Tail(s)[i] = s[i + 1]
  OBVIOUS
<1>4. ASSUME NEW x \in Elements(s) PROVE x \in Elements(Tail(s)) \cup {Head(s)}
  <2>1. PICK i \in 1 .. Len(s) : x = s[i]
    BY DEF Elements
  <2>2. CASE i = 1
    BY <2>1, <2>2, <1>1
  <2>3. CASE i # 1
    <3>1. i - 1 \in 1 .. Len(s) - 1 /\ (i - 1) + 1 = i
      BY <2>3, <1>1
    <3>2. Tail(s)[i - 1] = x
      BY <3>1, <1>3, <2>1
    <3> QED
      BY <3>1, <3>2, <1>2 DEF Elements
  <2> QED
    BY <2>2, <2>3
<1>5. ASSUME NEW x \in Elements(Tail(s)) PROVE x \in Elements(s)
  <2>1. PICK i \in 1 .. Len(s) - 1 : x = Tail(s)[i]
    BY <1>2 DEF Elements
  <2>2. i + 1 \in 1 .. Len(s) /\ x = s[i + 1]
    BY <2>1, <1>1, <1>3
  <2> QED
    BY <2>2 DEF Elements
<1>6. Head(s) \in Elements(s)
  <2>1. 1 \in 1 .. Len(s)
    BY <1>1
  <2> QED
    BY <2>1, <1>1 DEF Elements
<1> QED
  BY <1>1, <1>2, <1>4, <1>5, <1>6

LEMMA ElementsInSet ==
  ASSUME NEW S, NEW s \in Seq(S)
  PROVE  Elements(s) \subseteq S
  BY DEF Elements

LEMMA NoElements == Elements(<<>>) = {}
<1>1. Len(<<>>) = 0 /\ 1 .. 0 = {}
  OBVIOUS
<1> QED
  BY <1>1 DEF Elements

LEMMA QuietKnows ==
  /\ Quiet \in PhoneStates
  /\ Quiet.pc = "idle" /\ Quiet.code = Nobody /\ Quiet.member = Nobody
  BY DEF Quiet, PhoneStates, SessionRows, NewSession

LEMMA NewIsPending == NewSession \in SessionRows /\ NewSession.by = Nobody
  BY DEF NewSession, SessionRows

\* Only a session that nobody touched is pending.
LEMMA PendingIsNew ==
  ASSUME NEW c, NEW row \in SessionRows, Status(c, row) = "PENDING"
  PROVE  row = NewSession
<1>1. row.by # Nobody => Status(c, row) \in {"CONFIRMED", "CANCELLED", "EXPIRED"}
  BY NewIsPending DEF Status
<1>2. row.by = Nobody /\ row.cancelled /\ NewSession.cancelled = FALSE =>
          Status(c, row) = "CANCELLED"
  BY DEF Status
<1>3. row.by = Nobody /\ row.cancelled = FALSE => row = NewSession
  BY DEF SessionRows, NewSession
<1> QED
  BY <1>1, <1>2, <1>3 DEF SessionRows, NewSession

LEMMA QrInitInv == QrInit => QrIInv
<1> SUFFICES ASSUME QrInit PROVE QrIInv
  OBVIOUS
<1>1. Types
  BY QuietKnows, NewIsPending DEF QrInit, Types
<1>2. Untouched
  BY DEF QrInit, Untouched
<1>3. NotShown
  BY NoElements DEF QrInit, NotShown
<1>4. CallsKnow
  BY QuietKnows DEF QrInit, CallsKnow, KnowsSession
<1>5. Genuine
  BY NoElements DEF QrInit, Genuine
<1>6. Listening /\ OnItsWay
  BY DEF QrInit, Listening, OnItsWay
<1> QED
  BY <1>1, <1>2, <1>3, <1>4, <1>5, <1>6 DEF QrIInv

-----------------------------------------------------------------------------
(* The screen and the socket leave sessions and calls alone. *)

LEMMA BrowserKeepsCalls ==
  ASSUME QrIInv, generated \subseteq generated',
         UNCHANGED <<session, phone, raced>>
  PROVE  CallsKnow'
<1>1. ASSUME NEW t \in Phones PROVE KnowsSession(phone[t])'
  BY <1>1 DEF QrIInv, CallsKnow, KnowsSession
<1> QED
  BY <1>1 DEF CallsKnow

LEMMA GenerateInv ==
  ASSUME QrIInv, NEW c \in Codes, GenerateQrCode(c)
  PROVE  QrIInv'
<1> USE DEF QrIInv
<1>1. Types'
  BY DEF GenerateQrCode, Types
<1>2. Untouched'
  BY DEF GenerateQrCode, Untouched
<1>3. NotShown'
  BY DEF GenerateQrCode, NotShown, Types, Elements
<1>4. CallsKnow'
  BY BrowserKeepsCalls DEF GenerateQrCode
<1>5. Genuine'
  BY DEF GenerateQrCode, Genuine, Elements
<1>6. Listening'
  BY DEF GenerateQrCode, Listening, Elements
<1>7. OnItsWay'
  BY NewIsPending DEF GenerateQrCode, OnItsWay, Untouched, Announcing, Elements
<1> QED
  BY <1>1, <1>2, <1>3, <1>4, <1>5, <1>6, <1>7

LEMMA ShowInv ==
  ASSUME QrIInv, NEW c \in Codes, ShowQrCode(c)
  PROVE  QrIInv'
<1> USE DEF QrIInv
<1>0. /\ asks' \in Seq(Asks) /\ Elements(asks)' = Elements(asks) \cup {<<"subscribe", c>>}
      /\ Elements(tokens)' = Elements(tokens)
  <2>1. <<"subscribe", c>> \in Asks
    BY DEF Asks
  <2> QED
    BY <2>1, AppendElements DEF ShowQrCode, Types
<1>9. screen'.code = c /\ screen'.by = screen.by /\ screen'.user = screen.user
  BY DEF ShowQrCode, Types
<1>1. Types'
  BY <1>0 DEF ShowQrCode, Types
<1>2. Untouched'
  BY DEF ShowQrCode, Untouched
<1>3. NotShown'
  <2>1. <<"subscribe", c>>[2] = c /\ c \in generated /\ replies' = replies \ {c}
    BY DEF ShowQrCode, Types
  <2>2. UNCHANGED <<generated, rooms, tokens>>
    BY DEF ShowQrCode
  <2> QED
    BY <1>0, <1>9, <2>1, <2>2 DEF NotShown
<1>4. CallsKnow'
  BY BrowserKeepsCalls DEF ShowQrCode
<1>5. Genuine'
  BY <1>0, <1>9 DEF ShowQrCode, Genuine
<1>6. Listening'
  BY <1>0, <1>9 DEF ShowQrCode, Listening, NotShown
<1>7. OnItsWay'
  BY <1>9 DEF ShowQrCode, OnItsWay, Announcing
<1> QED
  BY <1>1, <1>2, <1>3, <1>4, <1>5, <1>6, <1>7

LEMMA HandleConfirmedInv ==
  ASSUME QrIInv, HandleConfirmed
  PROVE  QrIInv'
<1> USE DEF QrIInv
<1> DEFINE sent == Head(tokens)
<1>0. /\ sent \in Tokens /\ tokens' \in Seq(Tokens)
      /\ Elements(tokens) = Elements(tokens)' \cup {sent}
  BY HeadAndTail DEF HandleConfirmed, Types
<1>1. CASE sent.code = screen.code
  <2>0. /\ asks' \in Seq(Asks)
        /\ Elements(asks)' = Elements(asks) \cup {<<"unsubscribe", screen.code>>}
    <3>1. <<"unsubscribe", sent.code>> \in Asks
      BY <1>0 DEF Asks, Tokens
    <3>2. asks \in Seq(Asks) /\ asks' = Append(asks, <<"unsubscribe", sent.code>>)
      BY <1>1 DEF HandleConfirmed, Types
    <3>3. /\ asks' \in Seq(Asks)
          /\ Elements(asks') = Elements(asks) \cup {<<"unsubscribe", sent.code>>}
      BY <3>1, <3>2, AppendElements, Zenon
    <3> QED
      BY <3>3, <1>1
  <2>9. /\ screen'.code = screen.code /\ screen'.by = screen.code
        /\ screen'.user = sent.member /\ sent.member \in Members
        /\ screen.code \in generated
    BY <1>0, <1>1 DEF HandleConfirmed, Types, Tokens
  <2>1. Types'
    BY <1>0, <1>1, <2>0, <2>9 DEF HandleConfirmed, Types
  <2>2. Untouched'
    BY DEF HandleConfirmed, Untouched
  <2>3. NotShown'
    BY <1>0, <2>0, <2>9 DEF HandleConfirmed, NotShown
  <2>4. CallsKnow'
    BY BrowserKeepsCalls DEF HandleConfirmed
  <2>5. Genuine'
    BY <1>0, <1>1, <2>9 DEF HandleConfirmed, Genuine
  <2>6. Listening'
    BY <2>9 DEF Listening
  <2>7. OnItsWay'
    BY <2>9 DEF HandleConfirmed, OnItsWay, Announcing
  <2> QED
    BY <2>1, <2>2, <2>3, <2>4, <2>5, <2>6, <2>7
<1>2. CASE sent.code # screen.code
  <2>0. UNCHANGED <<screen, asks>> /\ Elements(asks)' = Elements(asks)
    BY <1>2 DEF HandleConfirmed, Elements
  <2>1. Types'
    BY <1>0, <2>0 DEF HandleConfirmed, Types
  <2>2. Untouched'
    BY DEF HandleConfirmed, Untouched
  <2>3. NotShown'
    BY <1>0, <2>0 DEF HandleConfirmed, NotShown
  <2>4. CallsKnow'
    BY BrowserKeepsCalls DEF HandleConfirmed
  <2>5. Genuine'
    BY <1>0, <2>0 DEF HandleConfirmed, Genuine
  <2>6. Listening'
    BY <2>0 DEF HandleConfirmed, Listening
  <2>7. OnItsWay'
    BY <1>0, <1>2, <2>0 DEF HandleConfirmed, OnItsWay, Announcing
  <2> QED
    BY <2>1, <2>2, <2>3, <2>4, <2>5, <2>6, <2>7
<1> QED
  BY <1>1, <1>2

LEMMA HandleAskInv ==
  ASSUME QrIInv, HandleAsk
  PROVE  QrIInv'
<1> USE DEF QrIInv
<1>0. /\ Head(asks) \in Asks /\ asks' \in Seq(Asks)
      /\ Elements(asks) = Elements(asks)' \cup {Head(asks)}
      /\ Elements(tokens)' = Elements(tokens)
  BY HeadAndTail DEF HandleAsk, Types
<1>9. PICK kind \in {"subscribe", "unsubscribe"}, c \in Codes : Head(asks) = <<kind, c>>
  BY <1>0 DEF Asks
<1>8. /\ c \in generated \ replies
      /\ rooms' = IF kind = "subscribe" THEN rooms \cup {c} ELSE rooms \ {c}
  <2>1. Head(asks)[1] = kind /\ Head(asks)[2] = c
    BY <1>9
  <2> QED
    BY <1>0, <2>1 DEF HandleAsk, NotShown
<1>1. Types'
  BY <1>0, <1>8 DEF HandleAsk, Types
<1>2. Untouched'
  BY DEF HandleAsk, Untouched
<1>3. NotShown'
  BY <1>0, <1>8 DEF HandleAsk, NotShown
<1>4. CallsKnow'
  BY BrowserKeepsCalls DEF HandleAsk
<1>5. Genuine'
  BY <1>0 DEF HandleAsk, Genuine
<1>6. Listening'
  <2>1. CASE kind = "subscribe"
    BY <1>0, <1>8, <1>9, <2>1 DEF HandleAsk, Listening
  <2>2. CASE kind = "unsubscribe"
    BY <1>0, <1>8, <1>9, <2>2 DEF HandleAsk, Listening
  <2> QED
    BY <2>1, <2>2
<1>7. OnItsWay'
  BY <1>0 DEF HandleAsk, OnItsWay, Announcing
<1> QED
  BY <1>1, <1>2, <1>3, <1>4, <1>5, <1>6, <1>7

LEMMA LoseConnectionInv ==
  ASSUME QrIInv, LoseConnection
  PROVE  QrIInv'
<1> USE DEF QrIInv
<1>0. /\ Elements(asks)' \subseteq Elements(asks) /\ Elements(tokens)' = {}
      /\ asks' \in Seq(Asks) /\ tokens' \in Seq(Tokens)
  <2>1. asks \in Seq(Asks) /\ (asks' = asks \/ asks' = <<>>) /\ tokens' = <<>>
    BY DEF LoseConnection, Types
  <2>2. <<>> \in Seq(Asks) /\ <<>> \in Seq(Tokens)
    OBVIOUS
  <2>3. Elements(tokens') = {} /\ Elements(asks') \in {Elements(asks), {}}
    BY <2>1, NoElements, Zenon
  <2> QED
    BY <2>1, <2>2, <2>3
<1>9. screen'.code = screen.code /\ screen.code \in missed' /\ missed \subseteq missed'
  BY DEF LoseConnection
<1>1. Types'
  BY <1>0 DEF LoseConnection, Types
<1>2. Untouched'
  BY DEF LoseConnection, Untouched
<1>3. NotShown'
  BY <1>0 DEF LoseConnection, NotShown
<1>4. CallsKnow'
  BY BrowserKeepsCalls DEF LoseConnection
<1>5. Genuine'
  BY <1>0 DEF LoseConnection, Genuine
<1>6. Listening'
  BY <1>9 DEF Listening
<1>7. OnItsWay'
  BY <1>9 DEF LoseConnection, OnItsWay, Announcing
<1> QED
  BY <1>1, <1>2, <1>3, <1>4, <1>5, <1>6, <1>7

-----------------------------------------------------------------------------
(* What a call changes *)

\* Beginning a call, ending one that announces nothing, and expiry.
LEMMA CallInv ==
  ASSUME QrIInv, NEW t \in Phones, NEW next \in PhoneStates,
         Call(t, next), KnowsSession(next), phone[t].pc # "saved",
         UNCHANGED <<session, generated, expired, raced, browser>>
  PROVE  QrIInv'
<1> USE DEF QrIInv, browser
<1>0. /\ phone' = [phone EXCEPT ![t] = next] /\ phone \in [Phones -> PhoneStates]
      /\ \A u \in Phones : phone'[u] = IF u = t THEN next ELSE phone[u]
  BY DEF Call, Types
<1>9. \A c : Announcing(c) => Announcing(c)'
  BY <1>0 DEF Announcing
<1>1. Types'
  BY <1>0 DEF Types
<1>2. Untouched' /\ NotShown' /\ Genuine' /\ Listening'
  BY DEF Untouched, NotShown, Genuine, Listening, Elements
<1>4. CallsKnow'
  <2>1. ASSUME NEW u \in Phones PROVE KnowsSession(phone[u])'
    BY <1>0 DEF CallsKnow, KnowsSession
  <2> QED
    BY <2>1 DEF CallsKnow
<1>7. OnItsWay'
  BY <1>9 DEF OnItsWay, Elements
<1> QED
  BY <1>1, <1>2, <1>4, <1>7

\* A save: of two calls on one session the one that loaded it earlier is not
\* trusted, and the one that saved is on its way to the screen.
LEMMA SaveInv ==
  ASSUME QrIInv, NEW t \in Phones, NEW row \in SessionRows, NEW next \in PhoneStates,
         phone[t].pc \in {"checked", "cancelling"},
         SaveSession(t, row, next),
         UNCHANGED <<generated, expired, browser>>,
         \/ /\ next = Quiet
            /\ row.by = phone[t].row.by
         \/ /\ next = [phone[t] EXCEPT !.pc = "saved"]
            /\ row.by = phone[t].member
            /\ phone[t].pc = "checked"
            /\ phone[t].row.by = Nobody
  PROVE  QrIInv'
<1> USE DEF QrIInv, browser
<1> DEFINE c == phone[t].code
<1>0. /\ session' = [session EXCEPT ![c] = row]
      /\ phone' = [phone EXCEPT ![t] = next]
      /\ phone \in [Phones -> PhoneStates] /\ phone[t] \in PhoneStates
      /\ \A u \in Phones : phone'[u] = IF u = t THEN next ELSE phone[u]
  BY DEF SaveSession, Call, Types
<1>a. /\ c \in generated /\ c \in Codes /\ c # Nobody
      /\ phone[t].pc = "checked" => phone[t].member \in Members
      /\ c \notin raced => phone[t].row = session[c]
  BY DEF CallsKnow, KnowsSession, Types
<1>b. /\ raced' = raced \cup {d \in {c} : \E u \in Phones \ {t} :
                                 phone[u].code = c /\ phone[u].pc # "saved"}
      /\ raced \subseteq raced'
  BY DEF SaveSession
<1>c. \A d \in Codes : session'[d] = IF d = c THEN row ELSE session[d]
  BY <1>0 DEF Types
<1>d. c \notin raced' => /\ c \notin raced
                         /\ row.by = session[c].by \/ session[c].by = Nobody
  BY <1>a, <1>b
<1>e. \A d : Announcing(d) => Announcing(d)'
  BY <1>0 DEF Announcing
<1>1. Types'
  <2>1. raced' \subseteq generated
    BY <1>a, <1>b DEF Types
  <2> QED
    BY <1>0, <1>a, <2>1 DEF Types
<1>2. Untouched'
  BY <1>a, <1>c DEF Untouched
<1>3. NotShown' /\ Listening'
  BY DEF NotShown, Listening, Elements
<1>4. CallsKnow'
  <2>1. ASSUME NEW u \in Phones PROVE KnowsSession(phone[u])'
    <3>1. CASE u = t
      <4>1. CASE next = Quiet
        BY <1>0, <3>1, <4>1, QuietKnows DEF KnowsSession
      <4>2. CASE /\ next = [phone[t] EXCEPT !.pc = "saved"]
                 /\ row.by = phone[t].member /\ phone[t].pc = "checked"
        <5>1. next.pc = "saved" /\ next.code = c /\ next.member = phone[t].member
          BY <4>2, <1>0 DEF PhoneStates
        <5> QED
          BY <1>0, <1>a, <1>c, <3>1, <4>2, <5>1 DEF KnowsSession
      <4> QED
        BY <4>1, <4>2
    <3>2. CASE u # t /\ phone[u].code # c
      <4>1. phone'[u] = phone[u] /\ phone[u] \in PhoneStates
        BY <1>0, <3>2
      <4>2. phone[u].pc # "idle" => session'[phone[u].code] = session[phone[u].code]
        BY <1>c, <3>2 DEF CallsKnow, KnowsSession, Types
      <4> QED
        BY <4>1, <4>2, <1>b DEF CallsKnow, KnowsSession
    <3>3. CASE u # t /\ phone[u].code = c /\ phone[u].pc = "saved"
      <4>1. phone'[u] = phone[u] /\ phone[u].member \in Members
        BY <1>0, <3>3 DEF CallsKnow, KnowsSession
      <4>2. c \notin raced => session[c].by = phone[u].member
        BY <3>3 DEF CallsKnow, KnowsSession
      <4>3. c \notin raced' => row.by = phone[u].member
        BY <4>1, <4>2, <1>d
      <4> QED
        BY <3>3, <4>1, <4>3, <1>a, <1>c DEF KnowsSession
    <3>4. CASE u # t /\ phone[u].code = c /\ phone[u].pc # "saved"
      <4>1. c \in raced' /\ phone'[u] = phone[u]
        BY <1>0, <1>b, <3>4
      <4> QED
        BY <3>4, <4>1 DEF CallsKnow, KnowsSession
    <3> QED
      BY <3>1, <3>2, <3>3, <3>4
  <2> QED
    BY <2>1 DEF CallsKnow
<1>5. Genuine'
  <2>1. ASSUME NEW k \in Elements(tokens), k.code \notin raced'
        PROVE  session'[k.code].by = k.member
    <3>1. k.code \in Codes /\ k.member \in Members
      <4>1. Elements(tokens) \subseteq Tokens
        BY ElementsInSet, Zenon DEF Types
      <4> QED
        BY <4>1 DEF Tokens
    <3>2. session[k.code].by = k.member
      BY <2>1, <1>b DEF Genuine
    <3> QED
      BY <1>c, <1>d, <2>1, <3>1, <3>2
  <2>2. ASSUME screen.by \notin raced' \cup {Nobody}
        PROVE  session'[screen.by].by = screen.user
    <3>1. screen.by \in Codes /\ screen.user \in Members
      BY <2>2 DEF Types, Genuine
    <3>2. session[screen.by].by = screen.user
      BY <2>2, <1>b DEF Genuine
    <3> QED
      BY <1>c, <1>d, <2>2, <3>1, <3>2
  <2> QED
    BY <2>1, <2>2 DEF Genuine, Elements
<1>7. OnItsWay'
  <2>1. ASSUME NEW d \in Codes, d \notin raced', session'[d].by # Nobody
        PROVE  session[d].by # Nobody \/ Announcing(d)'
    <3>1. CASE d # c
      BY <2>1, <3>1, <1>c
    <3>2. CASE d = c /\ next = Quiet /\ row.by = phone[t].row.by
      BY <2>1, <3>2, <1>a, <1>b, <1>c
    <3>3. CASE d = c /\ next = [phone[t] EXCEPT !.pc = "saved"]
      <4>1. next.pc = "saved" /\ next.code = c
        BY <3>3, <1>0 DEF PhoneStates
      <4> QED
        BY <4>1, <3>3, <1>0 DEF Announcing
    <3> QED
      BY <3>1, <3>2, <3>3
  <2>2. ASSUME NEW d \in replies \ (raced' \cup missed), session'[d].by # Nobody
        PROVE  Announcing(d)'
    <3>1. d \in Codes /\ d \in replies \ (raced \cup missed)
      BY <1>b DEF Types
    <3> QED
      BY <2>1, <2>2, <3>1, <1>e DEF OnItsWay
  <2>3. ASSUME screen.code \notin raced' \cup missed \cup {Nobody},
               session'[screen.code].by # Nobody
        PROVE  \/ Announcing(screen.code)'
               \/ \E k \in Elements(tokens) : k.code = screen.code
               \/ screen.by = screen.code
    <3>1. screen.code \in Codes /\ screen.code \notin raced \cup missed \cup {Nobody}
      BY <2>3, <1>b DEF Types
    <3> QED
      BY <2>1, <2>3, <3>1, <1>e DEF OnItsWay
  <2>4. UNCHANGED <<replies, missed, screen>> /\ Elements(tokens)' = Elements(tokens)
    BY DEF Elements
  <2>5. (\A d \in replies \ (raced \cup missed) : session[d].by # Nobody => Announcing(d))'
    BY <2>2, <2>4
  <2>6. (LET e == screen.code IN
         e \notin raced \cup missed \cup {Nobody} /\ session[e].by # Nobody =>
           \/ Announcing(e)
           \/ \E k \in Elements(tokens) : k.code = e
           \/ screen.by = e)'
    BY <2>3, <2>4
  <2> QED
    BY <2>5, <2>6 DEF OnItsWay
<1> QED
  BY <1>1, <1>2, <1>3, <1>4, <1>5, <1>7

-----------------------------------------------------------------------------
(* The calls *)

LEMMA EmitInv ==
  ASSUME QrIInv, NEW t \in Phones, EmitQRConfirmed(t)
  PROVE  QrIInv'
<1> USE DEF QrIInv
<1> DEFINE c == phone[t].code
<1>0. /\ phone' = [phone EXCEPT ![t] = Quiet]
      /\ phone \in [Phones -> PhoneStates]
      /\ \A u \in Phones : phone'[u] = IF u = t THEN Quiet ELSE phone[u]
      /\ phone[t].pc = "saved"
  BY DEF EmitQRConfirmed, Call, Types
<1>9. /\ c \in generated /\ c \in Codes /\ phone[t].member \in Members
      /\ c \notin raced => session[c].by = phone[t].member
  BY <1>0 DEF CallsKnow, KnowsSession, Types
<1>8. UNCHANGED <<session, generated, expired, replies, screen, rooms, asks, raced>>
      /\ Elements(asks)' = Elements(asks)
  BY DEF EmitQRConfirmed, Elements
<1>a. /\ missed \subseteq missed' /\ tokens' \in Seq(Tokens)
      /\ c \in rooms => Elements(tokens)' = Elements(tokens) \cup
                            {[code |-> c, member |-> phone[t].member]}
      /\ c \notin rooms => Elements(tokens)' = Elements(tokens)
  <2>1. [code |-> c, member |-> phone[t].member] \in Tokens
    BY <1>9 DEF Tokens
  <2>2. CASE c \in rooms
    <3>1. /\ tokens' = Append(tokens, [code |-> c, member |-> phone[t].member])
          /\ tokens \in Seq(Tokens) /\ UNCHANGED missed
      BY <2>2 DEF EmitQRConfirmed, Types
    <3>2. /\ tokens' \in Seq(Tokens)
          /\ Elements(tokens') = Elements(tokens) \cup
                {[code |-> c, member |-> phone[t].member]}
      <4> DEFINE sent == [code |-> c, member |-> phone[t].member]
      <4>1. sent \in Tokens /\ tokens' = Append(tokens, sent)
        BY <2>1, <3>1
      <4> HIDE DEF sent
      <4>2. /\ Append(tokens, sent) \in Seq(Tokens)
            /\ Elements(Append(tokens, sent)) = Elements(tokens) \cup {sent}
        BY <3>1, <4>1, AppendElements, Zenon
      <4>3. tokens' \in Seq(Tokens) /\ Elements(tokens') = Elements(tokens) \cup {sent}
        BY <4>1, <4>2
      <4> QED
        BY <4>3 DEF sent
    <3> QED
      BY <2>2, <3>1, <3>2
  <2>3. CASE c \notin rooms
    BY <2>3 DEF EmitQRConfirmed, Types, Elements
  <2> QED
    BY <2>2, <2>3
<1>b. c \notin rooms /\ (c \in replies \/ <<"subscribe", c>> \in Elements(asks))
      => c \in missed'
  <2>1. DOMAIN asks = 1 .. Len(asks)
    BY DEF Types
  <2> QED
    BY <2>1 DEF EmitQRConfirmed, Elements
<1>c. \A d : d # c /\ Announcing(d) => Announcing(d)'
  BY <1>0 DEF Announcing
<1>1. Types'
  BY <1>0, <1>8, <1>a, QuietKnows DEF Types
<1>2. Untouched'
  BY <1>8 DEF Untouched
<1>3. NotShown'
  BY <1>8, <1>9, <1>a DEF NotShown
<1>4. CallsKnow'
  <2>1. ASSUME NEW u \in Phones PROVE KnowsSession(phone[u])'
    BY <1>0, <1>8, QuietKnows DEF CallsKnow, KnowsSession
  <2> QED
    BY <2>1 DEF CallsKnow
<1>5. Genuine'
  BY <1>8, <1>9, <1>a DEF Genuine
<1>6. Listening'
  BY <1>8, <1>a DEF Listening
<1>7. OnItsWay'
  <2>1. ASSUME NEW d \in replies \ (raced \cup missed'), session[d].by # Nobody
        PROVE  Announcing(d)'
    <3>1. Announcing(d)
      BY <2>1, <1>a DEF OnItsWay
    <3>2. d # c
      BY <2>1, <1>b DEF NotShown
    <3> QED
      BY <3>1, <3>2, <1>c
  <2>2. ASSUME screen.code \notin raced \cup missed' \cup {Nobody},
               session[screen.code].by # Nobody
        PROVE  \/ Announcing(screen.code)'
               \/ \E k \in Elements(tokens)' : k.code = screen.code
               \/ screen.by = screen.code
    <3>1. CASE screen.code = c /\ c \in rooms
      <4>1. [code |-> c, member |-> phone[t].member] \in Elements(tokens)'
        BY <3>1, <1>a
      <4> QED
        BY <3>1, <4>1
    <3>2. CASE screen.code = c /\ c \notin rooms
      BY <3>2, <2>2, <1>a, <1>b DEF Listening
    <3>3. CASE screen.code # c
      <4>1. Elements(tokens) \subseteq Elements(tokens)'
        BY <1>a
      <4>2. \/ Announcing(screen.code)
            \/ \E k \in Elements(tokens) : k.code = screen.code
            \/ screen.by = screen.code
        BY <2>2, <1>a DEF OnItsWay
      <4>3. Announcing(screen.code) => Announcing(screen.code)'
        <5>1. phone[t].code # screen.code
          BY <3>3
        <5> QED
          BY <5>1, <1>0, <1>8 DEF Announcing
      <4> QED
        BY <4>1, <4>2, <4>3
    <3> QED
      BY <3>1, <3>2, <3>3
  <2> QED
    BY <2>1, <2>2, <1>8 DEF OnItsWay
<1> QED
  BY <1>1, <1>2, <1>3, <1>4, <1>5, <1>6, <1>7

LEMMA FailsInv ==
  ASSUME QrIInv, NEW t \in Phones, PhoneFails(t)
  PROVE  QrIInv'
<1> USE DEF QrIInv
<1>0. /\ phone' = [phone EXCEPT ![t] = Quiet]
      /\ phone \in [Phones -> PhoneStates]
      /\ \A u \in Phones : phone'[u] = IF u = t THEN Quiet ELSE phone[u]
      /\ missed' = missed \cup {phone[t].code}
  BY DEF PhoneFails, Call, Types
<1>8. /\ UNCHANGED <<session, generated, expired, replies, screen, rooms, asks, tokens, raced>>
      /\ Elements(asks)' = Elements(asks) /\ Elements(tokens)' = Elements(tokens)
  BY DEF PhoneFails, Elements
<1>c. \A d : d \notin missed' /\ Announcing(d) => Announcing(d)'
  BY <1>0 DEF Announcing
<1>1. Types'
  BY <1>0, <1>8, QuietKnows DEF Types
<1>2. Untouched' /\ NotShown' /\ Genuine'
  BY <1>8 DEF Untouched, NotShown, Genuine
<1>4. CallsKnow'
  <2>1. ASSUME NEW u \in Phones PROVE KnowsSession(phone[u])'
    BY <1>0, <1>8, QuietKnows DEF CallsKnow, KnowsSession
  <2> QED
    BY <2>1 DEF CallsKnow
<1>6. Listening'
  BY <1>0, <1>8 DEF Listening
<1>7. OnItsWay'
  BY <1>0, <1>8, <1>c DEF OnItsWay
<1> QED
  BY <1>1, <1>2, <1>4, <1>6, <1>7

LEMMA ConfirmInv ==
  ASSUME QrIInv, NEW t \in Phones, Confirm(t)
  PROVE  QrIInv'
<1> DEFINE row == [phone[t].row EXCEPT !.by = phone[t].member]
           next == [phone[t] EXCEPT !.pc = "saved"]
<1>1. phone[t] \in PhoneStates /\ phone[t].pc = "checked" /\ phone[t].row \in SessionRows
  BY DEF QrIInv, Types, Confirm, PhoneStates
<1>2. phone[t].row.by = Nobody
  BY <1>1, PendingIsNew, NewIsPending DEF Confirm
<1>3. row \in SessionRows /\ row.by = phone[t].member /\ next \in PhoneStates
  BY <1>1 DEF PhoneStates, SessionRows
<1>4. SaveSession(t, row, next) /\ UNCHANGED <<generated, expired, browser>>
  BY DEF Confirm
<1> HIDE DEF row, next
<1>5. next = [phone[t] EXCEPT !.pc = "saved"]
  BY DEF next
<1> QED
  BY <1>1, <1>2, <1>3, <1>4, <1>5, SaveInv

LEMMA CancelInv ==
  ASSUME QrIInv, NEW t \in Phones, Cancel(t)
  PROVE  QrIInv'
<1> DEFINE row == [phone[t].row EXCEPT !.cancelled = TRUE]
<1>1. phone[t] \in PhoneStates /\ phone[t].pc = "cancelling" /\ phone[t].row \in SessionRows
  BY DEF QrIInv, Types, Cancel, PhoneStates
<1>2. row \in SessionRows /\ row.by = phone[t].row.by
  BY <1>1 DEF SessionRows
<1>3. SaveSession(t, row, Quiet) /\ UNCHANGED <<generated, expired, browser>>
  BY DEF Cancel
<1> HIDE DEF row
<1> QED
  BY <1>1, <1>2, <1>3, QuietKnows, SaveInv

LEMMA BeginConfirmInv ==
  ASSUME QrIInv, NEW t \in Phones, NEW c \in Codes, NEW m \in Members, BeginConfirm(t, c, m)
  PROVE  QrIInv'
<1> DEFINE next == [pc |-> "checked", code |-> c, row |-> session[c], member |-> m]
<1>1. next \in PhoneStates /\ KnowsSession(next)
  BY DEF BeginConfirm, PhoneStates, QrIInv, Types, KnowsSession
<1>2. phone[t].pc # "saved"
  BY QuietKnows DEF BeginConfirm
<1>3. Call(t, next) /\ UNCHANGED <<session, generated, expired, raced, browser>>
  BY DEF BeginConfirm
<1> HIDE DEF next
<1> QED
  BY <1>1, <1>2, <1>3, CallInv

LEMMA BeginCancelInv ==
  ASSUME QrIInv, NEW t \in Phones, NEW c \in Codes, BeginCancel(t, c)
  PROVE  QrIInv'
<1> DEFINE next == [Quiet EXCEPT !.pc = "cancelling", !.code = c, !.row = session[c]]
<1>1. next \in PhoneStates /\ KnowsSession(next)
  BY DEF BeginCancel, Quiet, PhoneStates, SessionRows, NewSession, QrIInv, Types,
     KnowsSession
<1>2. phone[t].pc # "saved"
  BY QuietKnows DEF BeginCancel
<1>3. Call(t, next) /\ UNCHANGED <<session, generated, expired, raced, browser>>
  BY DEF BeginCancel
<1> HIDE DEF next
<1> QED
  BY <1>1, <1>2, <1>3, CallInv

LEMMA RefuseConfirmInv ==
  ASSUME QrIInv, NEW t \in Phones, RefuseConfirm(t)
  PROVE  QrIInv'
<1>1. KnowsSession(Quiet)
  BY QuietKnows DEF KnowsSession
<1> QED
  BY <1>1, QuietKnows, CallInv DEF RefuseConfirm

\* Time passing, a new connection and stuttering change nothing that counts.
LEMMA IdleInv ==
  ASSUME QrIInv, expired' \subseteq generated,
         UNCHANGED <<session, generated, replies, phone, screen, rooms, asks, tokens,
                     raced, missed>>
  PROVE  QrIInv'
<1>1. Types'
  BY DEF QrIInv, Types
<1>2. Untouched' /\ NotShown' /\ Genuine' /\ Listening'
  BY DEF QrIInv, Untouched, NotShown, Genuine, Listening, Elements
<1>3. CallsKnow'
  BY BrowserKeepsCalls
<1>4. OnItsWay'
  BY DEF QrIInv, OnItsWay, Announcing, Elements
<1> QED
  BY <1>1, <1>2, <1>3, <1>4 DEF QrIInv

LEMMA QrNextInv == QrIInv /\ [QrNext]_qrVars => QrIInv'
<1> SUFFICES ASSUME QrIInv, [QrNext]_qrVars PROVE QrIInv'
  OBVIOUS
<1>1. CASE UNCHANGED qrVars
  BY <1>1, IdleInv DEF qrVars, QrIInv, Types
<1>2. ASSUME NEW c \in Codes, GenerateQrCode(c) PROVE QrIInv'
  BY <1>2, GenerateInv
<1>3. ASSUME NEW c \in Codes, ShowQrCode(c) PROVE QrIInv'
  BY <1>3, ShowInv
<1>4. ASSUME NEW c \in Codes, Expire(c) PROVE QrIInv'
  BY <1>4, IdleInv DEF Expire, browser, QrIInv, Types
<1>5. CASE HandleConfirmed
  BY <1>5, HandleConfirmedInv
<1>6. CASE HandleAsk
  BY <1>6, HandleAskInv
<1>7. CASE LoseConnection
  BY <1>7, LoseConnectionInv
<1>8. CASE ConnectAgain
  BY <1>8, IdleInv DEF ConnectAgain, QrIInv, Types
<1>9. ASSUME NEW t \in Phones,
             Confirm(t) \/ RefuseConfirm(t) \/ EmitQRConfirmed(t) \/ Cancel(t) \/ PhoneFails(t)
      PROVE  QrIInv'
  BY <1>9, ConfirmInv, RefuseConfirmInv, EmitInv, CancelInv, FailsInv
<1>10. ASSUME NEW t \in Phones, NEW c \in Codes, BeginCancel(t, c) PROVE QrIInv'
  BY <1>10, BeginCancelInv
<1>11. ASSUME NEW t \in Phones, NEW c \in Codes, NEW m \in Members, BeginConfirm(t, c, m)
       PROVE  QrIInv'
  BY <1>11, BeginConfirmInv
<1> QED
  BY <1>1, <1>2, <1>3, <1>4, <1>5, <1>6, <1>7, <1>8, <1>9, <1>10, <1>11 DEF QrNext

-----------------------------------------------------------------------------
(* Theorems *)

\* The inductive invariant: as long as no two calls overlapped on a session, what a
\* call holds, what is sent and what the screen shows agree with its row; and a
\* confirmation is with a call, on its way or received.
THEOREM QrInvariance == QrSpec => []QrIInv
<1>1. QrInit => QrIInv
  BY QrInitInv
<1>2. QrIInv /\ [QrNext]_qrVars => QrIInv'
  BY QrNextInv
<1> QED
  BY <1>1, <1>2, PTL DEF QrSpec

\* Type correctness of sessions, calls and the screen.
THEOREM QrTypeCorrect == QrSpec => []QrTypeOK
<1>1. QrIInv => QrTypeOK
  BY DEF QrIInv, Types, QrTypeOK
<1> QED
  BY <1>1, QrInvariance, PTL

\* confirm, cancel, the sockets and the screen: the screen logs in whoever confirmed
\* its session, and nobody's confirmation is lost, but for the faults and overlaps
\* that the property names.
THEOREM LoginsAreConfirmed == QrSpec => []LoginIsConfirmed
<1>1. QrIInv => LoginIsConfirmed
  <2> SUFFICES ASSUME QrIInv PROVE LoginIsConfirmed
    OBVIOUS
  <2>1. screen.by \notin raced \cup {Nobody} => session[screen.by].by = screen.user
    BY DEF QrIInv, Genuine
  <2>2. ASSUME Delivered, screen.code \notin raced \cup missed \cup {Nobody},
               session[screen.code].by # Nobody
        PROVE  screen.by = screen.code /\ session[screen.code].by = screen.user
    <3>1. ~Announcing(screen.code)
      BY <2>2, QuietKnows DEF Delivered, Announcing
    <3>2. Elements(tokens) = {}
      BY <2>2, NoElements DEF Delivered
    <3>3. screen.by = screen.code
      BY <2>2, <3>1, <3>2 DEF QrIInv, OnItsWay
    <3> QED
      BY <2>1, <2>2, <3>3
  <2> QED
    BY <2>1, <2>2 DEF LoginIsConfirmed
<1> QED
  BY <1>1, QrInvariance, PTL

-----------------------------------------------------------------------------
(* The office *)

\* A step of one component leaves the others as they are.
LEMMA OfficeSteps ==
  ASSUME [OfficeNext]_officeVars
  PROVE  [FinesNext]_finesVars /\ [InvoicesNext]_invoicesVars /\ [QrNext]_qrVars
  BY DEF OfficeNext, officeVars

\* Fines, invoices and the login, side by side, keep their types for every value of
\* the constants.
THEOREM OfficeTypeCorrect == OfficeSpec => []OfficeTypeOK
<1> DEFINE All == FinesIInv /\ InvoicesIInv /\ QrIInv
<1>1. OfficeInit => All
  BY FinesInitInv, InvoicesInitInv, QrInitInv DEF OfficeInit
<1>2. All /\ [OfficeNext]_officeVars => All'
  BY OfficeSteps, FinesNextInv, InvoicesNextInv, QrNextInv
<1>3. QrIInv => QrTypeOK
  BY DEF QrIInv, Types, QrTypeOK
<1>4. All => OfficeTypeOK
  BY <1>3 DEF OfficeTypeOK, FinesIInv, InvoicesIInv
<1> HIDE DEF All
<1> QED
  BY <1>1, <1>2, <1>4, PTL DEF OfficeSpec
=============================================================================
