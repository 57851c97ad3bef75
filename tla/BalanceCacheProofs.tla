------------------------- MODULE BalanceCacheProofs -------------------------
(***************************************************************************)
(* Proofs about BalanceCache: a read is right for every number of users,   *)
(* rows and calls.  The invariant says which rows a cache row sums: those  *)
(* its cursor covers, unless the user is excused by a pending clear or a   *)
(* silent write.                                                           *)
(***************************************************************************)
EXTENDS BalanceCache, WellFoundedInduction, TLAPS

Excused == silent \cup Pending

\* The cache row of u, if any, sums exactly the stored rows it covers.
Honest(u) ==
    balance[u] # NoRow =>
        balance[u].sums = {e \in Entries(u) : Covers(u, e[1], e[2])}

\* Ids are not used again.
Fresh == \A key \in Keys : rows[key] # NoRow => key[2] < nextId[key[1]]

\* A cache row has a cursor, and what it points at is a row of its user.
Anchored ==
    \A u \in Users : balance[u] # NoRow =>
        \E k \in Kinds : balance[u].last[k] # 0

\* What the calls in progress rely on.
CallsOK ==
    \A c \in Calls : calls[c] # Idle =>
        /\ calls[c].key[2] < nextId[calls[c].key[1]]
        /\ calls[c].op = "delete" => calls[c].pc \in {"read", "gone"}
        /\ calls[c].op = "update" =>
              /\ calls[c].key[1] = "transaction"
              /\ calls[c].row \in Rows
              /\ calls[c].pc \in {"gone", "cleared"} => rows[calls[c].key] = NoRow
              /\ calls[c].pc = "saved" =>
                    /\ calls[c].who = calls[c].row.moves
                    /\ rows[calls[c].key] \in {NoRow, calls[c].row}
              /\ \A d \in Calls \ {c} :
                    calls[d].op # "update" \/ calls[d].key # calls[c].key

IInv ==
    /\ TypeOK
    /\ Fresh
    /\ Anchored
    /\ CallsOK
    /\ \A u \in Users \ Excused : Honest(u)

-----------------------------------------------------------------------------
(* The cursor of a refreshed cache row                                      *)

\* A nonempty set of naturals has a least element.
LEMMA LeastNatural ==
    ASSUME NEW S, S \subseteq Nat, S # {}
    PROVE  \E m \in S : \A n \in S : m <= n
<1> DEFINE R == {ss \in Nat \X Nat : ss[1] < ss[2]}
<1>1. IsWellFoundedOn(R, Nat)
  BY NatLessThanWellFounded DEF OpToRel
<1>2. \E m \in S : \A n \in S : <<n, m>> \notin R
  <2> HIDE DEF R
  <2> QED
    BY <1>1, WFMin
<1>3. PICK m \in S : \A n \in S : <<n, m>> \notin R
  BY <1>2
<1>4. ASSUME NEW n \in S
      PROVE  m <= n
  <2>1. <<n, m>> \in Nat \X Nat /\ ~ (n < m)
    BY <1>3
  <2> QED
    BY <2>1
<1> QED
  BY <1>4

\* A nonempty bounded set of naturals has a greatest element.
LEMMA GreatestNatural ==
    ASSUME NEW b \in Nat, NEW S, S \subseteq 0 .. b, S # {}
    PROVE  \E m \in S : \A n \in S : n <= m
<1> DEFINE T == {n \in Nat : \E m \in S : n = b - m}
<1>1. T # {}
  <2>1. PICK m \in S : TRUE
    OBVIOUS
  <2>2. b - m \in T
    BY <2>1
  <2> QED
    BY <2>2
<1>2. PICK t \in T : \A n \in T : t <= n
  BY <1>1, LeastNatural
<1>3. PICK m \in S : t = b - m
  BY <1>2
<1>4. ASSUME NEW n \in S
      PROVE  n <= m
  <2>1. b - n \in T
    OBVIOUS
  <2> QED
    BY <1>2, <1>3, <2>1
<1> QED
  BY <1>4

\* LastId is NULL when u has no row of kind k, and otherwise the id of a row
\* of u that no other row of u of that kind is newer than.
LEMMA LastIdIsLatest ==
    ASSUME TypeOK, NEW u \in Users, NEW k \in Kinds
    PROVE  LET own == {e \in Entries(u) : e[1][1] = k} IN
           \/ own = {} /\ LastId(u, k) = 0
           \/ \E e \in own :
                 /\ e[1] = <<k, LastId(u, k)>>
                 /\ LastId(u, k) \in Nat \ {0}
                 /\ \A f \in own : f[2].at <= e[2].at
<1> DEFINE own == {e \in Entries(u) : e[1][1] = k}
           latest == {e \in own : \A f \in own : f[2].at <= e[2].at}
           ids == {e[1][2] : e \in latest}
           bound == IF k = "transaction" THEN MaxTransactions ELSE MaxTransfers
<1> USE BoundsAssumption, NoRowAssumption
<1>1. ASSUME NEW e \in own
      PROVE  /\ e[1] \in Keys /\ e[1][1] = k /\ e[1][2] \in 1 .. bound
             /\ e[1] = <<k, e[1][2]>>
             /\ e[2] \in Rows /\ e[2].at \in 1 .. MaxNow
  BY <1>1 DEF Entries, Keys, Kinds, TypeOK, Rows
<1>2. CASE own = {}
  BY <1>2 DEF LastId
<1>3. CASE own # {}
  <2> DEFINE times == {e[2].at : e \in own}
  <2>1. times \subseteq 0 .. MaxNow /\ times # {}
    BY <1>1, <1>3
  <2>2. PICK m \in times : \A n \in times : n <= m
    <3> HIDE DEF times
    <3> QED
      BY <2>1, GreatestNatural
  <2>3. PICK e0 \in own : e0[2].at = m
    BY <2>2
  <2>4. e0 \in latest
    BY <2>2, <2>3
  <2>5. ids \subseteq 0 .. bound /\ ids # {}
    <3>1. \A e \in latest : e \in own
      OBVIOUS
    <3> HIDE DEF own, latest
    <3>2. \A e \in latest : e[1][2] \in 0 .. bound
      BY <1>1, <3>1
    <3> QED
      BY <2>4, <3>2
  <2>6. PICK i \in ids : \A j \in ids : j <= i
    <3> HIDE DEF ids
    <3>1. bound \in Nat
      OBVIOUS
    <3> HIDE DEF bound
    <3> QED
      BY <2>5, <3>1, GreatestNatural
  <2>7. LastId(u, k) \in ids
    <3>1. \E j \in ids : \A e \in latest : e[1][2] <= j
      <4> HIDE DEF own, latest
      <4>1. \A e \in latest : e[1][2] \in ids
        OBVIOUS
      <4> HIDE DEF ids
      <4> QED
        BY <2>6, <4>1
    <3>2. LastId(u, k) = CHOOSE j \in ids : \A e \in latest : e[1][2] <= j
      BY <1>3 DEF LastId
    <3> HIDE DEF ids, latest, own
    <3> QED
      BY <3>1, <3>2
  <2>8. PICK e \in latest : e[1][2] = LastId(u, k)
    BY <2>7
  <2>9. e \in own /\ \A f \in own : f[2].at <= e[2].at
    BY <2>8
  <2> HIDE DEF own
  <2>10. e[1] = <<k, LastId(u, k)>> /\ LastId(u, k) \in Nat \ {0}
    BY <1>1, <2>8, <2>9
  <2>11. \E f \in own :
            /\ f[1] = <<k, LastId(u, k)>>
            /\ LastId(u, k) \in Nat \ {0}
            /\ \A g \in own : g[2].at <= f[2].at
    BY <2>9, <2>10
  <2> USE DEF own
  <2> QED
    BY <2>11
<1> QED
  BY <1>2, <1>3

-----------------------------------------------------------------------------
(* The invariant implies the properties                                     *)

\* An honest cache row gives the right balance at every date.
LEMMA HonestIsRight ==
    ASSUME TypeOK, NEW u \in Users, Honest(u),
           NEW date \in (0 .. MaxNow) \cup {NoDate}
    PROVE  Right(u, date)
<1> USE BoundsAssumption, NoDateAssumption
<1>1. \A e \in Entries(u) : e[1][1] \in Kinds /\ e[2].at \in 1 .. MaxNow
  BY DEF Entries, Keys, Kinds, TypeOK, Rows
<1>2. ASSUME balance[u] # NoRow, NEW k \in Kinds
      PROVE  CursorAt(u, k) \in 0 .. MaxNow
  <2>1. balance[u].last[k] # 0 =>
            /\ <<k, balance[u].last[k]>> \in Keys
            /\ rows[<<k, balance[u].last[k]>>] \in Rows
    BY <1>2 DEF TypeOK
  <2> QED
    BY <2>1 DEF CursorAt, Rows
<1>3. CASE ~ UsesCache(u, date)
  BY <1>3 DEF Right, Cached, Delta
<1>4. CASE UsesCache(u, date)
  <2>1. balance[u] # NoRow
    BY <1>4 DEF UsesCache
  <2>2. Cached(u, date) = {e \in Entries(u) : e[2].at <= CursorAt(u, e[1][1])}
    BY <1>4, <2>1 DEF Cached, Honest, Covers
  <2>3. Delta(u, date) =
            {e \in Entries(u) : InTime(e[2], date) /\ e[2].at > CursorAt(u, e[1][1])}
    BY <1>4 DEF Delta
  <2>4. \A e \in Entries(u) :
            /\ e[2].at <= CursorAt(u, e[1][1]) => InTime(e[2], date)
            /\ ~ (e[2].at <= CursorAt(u, e[1][1]) /\ e[2].at > CursorAt(u, e[1][1]))
            /\ e[2].at <= CursorAt(u, e[1][1]) \/ e[2].at > CursorAt(u, e[1][1])
    BY <1>1, <1>2, <1>4, <2>1 DEF UsesCache, InTime
  <2> QED
    BY <2>2, <2>3, <2>4 DEF Right
<1> QED
  BY <1>3, <1>4

LEMMA InvImplies == IInv => TypeOK /\ ReadIsTruth
  BY HonestIsRight DEF IInv, ReadIsTruth, Excused

-----------------------------------------------------------------------------
(* The invariant is inductive                                               *)

LEMMA InitEstablishes == Init => IInv
<1> SUFFICES ASSUME Init PROVE IInv
  OBVIOUS
<1> USE DEF Init
<1>1. TypeOK
  BY BoundsAssumption DEF TypeOK, Keys, Kinds, CallStates
<1>2. Fresh /\ Anchored /\ CallsOK
  BY DEF Fresh, Anchored, CallsOK
<1>3. \A u \in Users : Honest(u)
  BY DEF Honest
<1> QED
  BY <1>1, <1>2, <1>3 DEF IInv

LEMMA KeyParts ==
    ASSUME NEW key \in Keys
    PROVE  key = <<key[1], key[2]>> /\ key[1] \in Kinds /\ key[2] \in Nat \ {0}
  BY BoundsAssumption DEF Keys, Kinds

\* What a step that changes neither rows nor caches leaves alone.
LEMMA SameBooks ==
    ASSUME UNCHANGED <<rows, balance>>, NEW u \in Users, Honest(u)
    PROVE  Honest(u)'
  BY DEF Honest, Entries, Covers, CursorAt

LEMMA InsertKeeps ==
    ASSUME IInv, NEW k \in Kinds, NEW row \in Rows, Insert(k, row),
           now' \in 0 .. MaxNow
    PROVE  IInv'
<1> DEFINE key == <<k, nextId[k]>>
<1> USE DEF IInv, Insert
<1>1. /\ key \in Keys /\ rows[key] = NoRow
      /\ nextId[k] \in Nat \ {0}
      /\ rows' = [rows EXCEPT ![key] = row] /\ row # NoRow
      /\ nextId' = [nextId EXCEPT ![k] = @ + 1]
  <2>1. nextId[k] \in Nat \ {0}
    BY DEF TypeOK
  <2> QED
    BY <2>1, NoRowAssumption DEF Fresh
<1> HIDE DEF key
<1>2. TypeOK'
  <2>1. rows' \in [Keys -> Rows \cup {NoRow}]
    BY <1>1 DEF TypeOK
  <2>2. nextId' \in [Kinds -> Nat \ {0}]
    BY <1>1 DEF TypeOK
  <2>3. silent' \in SUBSET Users
    BY DEF TypeOK, Rows
  <2>4. \A x \in Keys : rows[x] # NoRow => rows'[x] = rows[x]
    BY <1>1 DEF TypeOK
  <2> QED
    BY <2>1, <2>2, <2>3, <2>4 DEF TypeOK
<1>3. Fresh'
  <2> SUFFICES ASSUME NEW x \in Keys, rows'[x] # NoRow
               PROVE  x[2] < nextId'[x[1]]
    BY DEF Fresh
  <2>1. CASE x = key
    BY <1>1, <2>1 DEF TypeOK, key
  <2>2. CASE x # key
    <3>1. rows[x] # NoRow
      BY <1>1, <2>2 DEF TypeOK
    <3>2. x[2] < nextId[x[1]] /\ x[1] \in Kinds /\ x[2] \in Nat
      BY <3>1, KeyParts DEF Fresh
    <3> QED
      BY <1>1, <3>2 DEF TypeOK
  <2> QED
    BY <2>1, <2>2
<1>4. Anchored'
  BY DEF Anchored
<1>5. CallsOK'
  <2> SUFFICES ASSUME NEW c \in Calls, calls[c] # Idle
               PROVE  /\ calls[c].key \in Keys /\ calls[c].key # key
                      /\ calls[c].key[2] < nextId'[calls[c].key[1]]
    BY <1>1 DEF CallsOK, TypeOK
  <2>1. calls[c].key \in Keys /\ calls[c].key[2] < nextId[calls[c].key[1]]
    BY DEF CallsOK, TypeOK, CallStates
  <2>2. calls[c].key[1] \in Kinds /\ calls[c].key[2] \in Nat
    BY <2>1, KeyParts
  <2> QED
    BY <1>1, <2>1, <2>2 DEF TypeOK, key
<1>6. ASSUME NEW u \in Users \ Excused'
      PROVE  Honest(u)'
  <2>1. Honest(u) /\ (u \in row.moves => ~ Covers(u, key, row))
    BY <1>6 DEF Excused, Pending, key
  <2> SUFFICES ASSUME balance[u] # NoRow
               PROVE  {e \in Entries(u)' : Covers(u, e[1], e[2])'} =
                      {e \in Entries(u) : Covers(u, e[1], e[2])}
    BY <2>1 DEF Honest
  <2>2. \A j \in Kinds : CursorAt(u, j)' = CursorAt(u, j)
    BY <1>1 DEF CursorAt, TypeOK
  <2>3. \A x \in Keys, r \in Rows : Covers(u, x, r)' <=> Covers(u, x, r)
    BY <2>2, KeyParts DEF Covers
  <2>4. Entries(u)' = Entries(u) \cup (IF u \in row.moves THEN {<<key, row>>} ELSE {})
    BY <1>1 DEF Entries, TypeOK
  <2>5. \A e \in Entries(u) : e[1] \in Keys /\ e[2] \in Rows
    BY DEF Entries, TypeOK
  <2> QED
    BY <1>1, <2>1, <2>3, <2>4, <2>5
<1> QED
  BY <1>2, <1>3, <1>4, <1>5, <1>6

LEMMA ChangeAmountKeeps ==
    ASSUME IInv, NEW key \in Keys, ChangeAmount(key)
    PROVE  IInv'
<1> USE DEF IInv, ChangeAmount
<1>1. PICK amount \in Amounts : rows' = [rows EXCEPT ![key].amount = amount]
  OBVIOUS
<1>2. /\ rows[key] \in Rows /\ rows'[key] \in Rows
      /\ rows'[key].at = rows[key].at /\ rows'[key].moves = rows[key].moves
      /\ rows' = [rows EXCEPT ![key] = rows'[key]]
  BY <1>1 DEF TypeOK, Rows
<1>3. TypeOK'
  <2>1. rows' \in [Keys -> Rows \cup {NoRow}]
    BY <1>2 DEF TypeOK
  <2>2. silent' \in SUBSET Users
    BY <1>2 DEF TypeOK, Rows
  <2>3. \A x \in Keys : rows[x] # NoRow => rows'[x] # NoRow /\ rows'[x].moves = rows[x].moves
    BY <1>2, NoRowAssumption DEF TypeOK
  <2> QED
    BY <2>1, <2>2, <2>3 DEF TypeOK
<1>4. Fresh' /\ Anchored'
  BY <1>2 DEF Fresh, Anchored, TypeOK
<1>5. CallsOK'
  BY <1>2 DEF CallsOK, TypeOK, CallStates
<1>6. ASSUME NEW u \in Users \ Excused'
      PROVE  Honest(u)'
  <2>1. Honest(u) /\ (u \in rows[key].moves => ~ Covers(u, key, rows[key]))
    BY <1>6 DEF Excused, Pending
  <2> SUFFICES ASSUME balance[u] # NoRow
               PROVE  {e \in Entries(u)' : Covers(u, e[1], e[2])'} =
                      {e \in Entries(u) : Covers(u, e[1], e[2])}
    BY <2>1 DEF Honest
  <2>2. \A j \in Kinds : CursorAt(u, j)' = CursorAt(u, j)
    BY <1>2 DEF CursorAt, TypeOK
  <2>3. \A x \in Keys, r \in Rows : Covers(u, x, r)' <=> Covers(u, x, r)
    BY <2>2, KeyParts DEF Covers
  <2>4. \A x \in Keys, r \in Rows :
            x # key => (<<x, r>> \in Entries(u)' <=> <<x, r>> \in Entries(u))
    BY <1>2 DEF Entries, TypeOK
  <2>5. \A r \in Rows :
            <<key, r>> \in Entries(u) \/ <<key, r>> \in Entries(u)' =>
                u \in rows[key].moves /\ r.at = rows[key].at
    BY <1>2 DEF Entries, TypeOK
  <2>6. \A r \in Rows :
            <<key, r>> \in Entries(u) \/ <<key, r>> \in Entries(u)' =>
                ~ Covers(u, key, r)
    BY <2>1, <2>5 DEF Covers
  <2>7. \A e \in Entries(u) \cup Entries(u)' :
            e[1] \in Keys /\ e[2] \in Rows /\ e = <<e[1], e[2]>>
    BY <1>3 DEF Entries, TypeOK
  <2> QED
    BY <2>3, <2>4, <2>6, <2>7
<1> QED
  BY <1>3, <1>4, <1>5, <1>6

\* A deleted row takes the cache rows that point at it along; the others go
\* on to sum what they cover, except those that covered the row itself.
LEMMA RemoveKeepsBooks ==
    ASSUME IInv, NEW key \in Keys, NEW who \in SUBSET Users, RemoveRow(key, who),
           calls' \in [Calls -> CallStates]
    PROVE  /\ TypeOK' /\ Fresh' /\ Anchored'
           /\ \A u \in Users \ (silent' \cup who) : Honest(u) => Honest(u)'
<1> USE DEF IInv, RemoveRow
<1>1. \A x \in Keys : x # key => rows'[x] = rows[x]
  BY DEF TypeOK
<1>2. rows'[key] = NoRow
  BY DEF TypeOK
<1>3. \A u \in Users : balance'[u] # NoRow =>
          /\ balance[u] # NoRow /\ balance'[u] = balance[u]
          /\ \A k \in Kinds : balance[u].last[k] # 0 =>
                <<k, balance[u].last[k]>> # key
  BY DEF Cascade
<1>4. TypeOK'
  <2>1. rows' \in [Keys -> Rows \cup {NoRow}]
    BY DEF TypeOK
  <2>2. balance' \in [Users -> CacheRows \cup {NoRow}]
    BY DEF TypeOK, Cascade
  <2>3. silent' \in SUBSET Users
    BY DEF TypeOK, Rows
  <2> QED
    BY <1>1, <1>3, <2>1, <2>2, <2>3 DEF TypeOK
<1>5. Fresh'
  BY <1>1, <1>2 DEF Fresh
<1>6. Anchored'
  BY <1>3 DEF Anchored
<1>7. ASSUME NEW u \in Users \ (silent' \cup who), Honest(u)
      PROVE  Honest(u)'
  <2> SUFFICES ASSUME balance'[u] # NoRow
               PROVE  {e \in Entries(u)' : Covers(u, e[1], e[2])'} =
                      {e \in Entries(u) : Covers(u, e[1], e[2])}
    BY <1>3, <1>7 DEF Honest
  <2>1. \A j \in Kinds : CursorAt(u, j)' = CursorAt(u, j)
    BY <1>1, <1>3 DEF CursorAt, TypeOK
  <2>2. \A x \in Keys, r \in Rows : Covers(u, x, r)' <=> Covers(u, x, r)
    BY <1>3, <2>1, KeyParts DEF Covers
  <2>3. \A x \in Keys, r \in Rows :
            x # key => (<<x, r>> \in Entries(u)' <=> <<x, r>> \in Entries(u))
    BY <1>1 DEF Entries
  <2>4. \A r \in Rows : <<key, r>> \notin Entries(u)'
    BY <1>2 DEF Entries
  <2>5. \A r \in Rows : <<key, r>> \in Entries(u) => ~ Covers(u, key, r)
    BY <1>7 DEF Entries
  <2>6. \A e \in Entries(u) \cup Entries(u)' :
            e[1] \in Keys /\ e[2] \in Rows /\ e = <<e[1], e[2]>>
    BY <1>4 DEF Entries, TypeOK
  <2> QED
    BY <2>2, <2>3, <2>4, <2>5, <2>6
<1> QED
  BY <1>4, <1>5, <1>6, <1>7

LEMMA RemoveTransferKeeps ==
    ASSUME IInv, NEW key \in Keys, RemoveTransfer(key)
    PROVE  IInv'
<1> USE DEF IInv, RemoveTransfer
<1>1. calls' \in [Calls -> CallStates]
  BY DEF TypeOK
<1>2. /\ TypeOK' /\ Fresh' /\ Anchored'
      /\ \A u \in Users \ silent' : Honest(u) => Honest(u)'
  BY <1>1, RemoveKeepsBooks
<1>3. CallsOK'
  BY DEF CallsOK, RemoveRow, TypeOK, CallStates
<1>4. Excused \subseteq Excused'
  BY DEF Excused, Pending, RemoveRow
<1> QED
  BY <1>2, <1>3, <1>4 DEF Excused

LEMMA DeleteRowKeeps ==
    ASSUME IInv, NEW c \in Calls, DeleteRow(c)
    PROVE  IInv'
<1> USE DEF IInv, DeleteRow
<1> DEFINE key == calls[c].key
           who == calls[c].who
<1>1. /\ calls[c] # Idle
      /\ key \in Keys /\ who \in SUBSET Users
      /\ calls'[c] = [calls[c] EXCEPT !.pc = "gone"]
      /\ calls' \in [Calls -> CallStates]
  BY DEF TypeOK, CallStates, Idle
<1>2. /\ TypeOK' /\ Fresh' /\ Anchored'
      /\ \A u \in Users \ (silent' \cup who) : Honest(u) => Honest(u)'
  BY <1>1, RemoveKeepsBooks
<1>3. /\ rows' = [rows EXCEPT ![key] = NoRow] /\ nextId' = nextId
      /\ silent \subseteq silent'
  BY DEF RemoveRow
<1>4. CallsOK'
  <2> SUFFICES ASSUME NEW d \in Calls, calls'[d] # Idle
               PROVE  /\ calls'[d].key[2] < nextId'[calls'[d].key[1]]
                      /\ calls'[d].op = "delete" => calls'[d].pc \in {"read", "gone"}
                      /\ calls'[d].op = "update" =>
                          /\ calls'[d].key[1] = "transaction"
                          /\ calls'[d].row \in Rows
                          /\ calls'[d].pc \in {"gone", "cleared"} =>
                                rows'[calls'[d].key] = NoRow
                          /\ calls'[d].pc = "saved" =>
                                /\ calls'[d].who = calls'[d].row.moves
                                /\ rows'[calls'[d].key] \in {NoRow, calls'[d].row}
                          /\ \A e \in Calls \ {d} :
                                calls'[e].op # "update" \/ calls'[e].key # calls'[d].key
    BY DEF CallsOK
  <2>1. \A e \in Calls : /\ calls'[e].op = calls[e].op
                         /\ calls'[e].key = calls[e].key
                         /\ calls'[e].row = calls[e].row
                         /\ calls'[e].who = calls[e].who
                         /\ calls[e].pc = calls'[e].pc \/ e = c
    BY <1>1 DEF TypeOK, CallStates, Idle
  <2>2. calls[d] # Idle
    BY <1>1 DEF TypeOK
  <2>3. calls[d].key \in Keys
    BY <2>2 DEF TypeOK, CallStates
  <2>4. rows'[calls[d].key] \in {NoRow, rows[calls[d].key]}
    BY <1>3, <2>3 DEF TypeOK
  <2>5. rows'[key] = NoRow
    BY <1>1, <1>3 DEF TypeOK
  <2> QED
    BY <1>1, <1>3, <2>1, <2>2, <2>4, <2>5 DEF CallsOK
<1>5. Excused \cup who \subseteq Excused'
  BY <1>1, <1>3 DEF Excused, Pending, TypeOK
<1>6. \A u \in Users \ Excused' : u \notin silent' \cup who /\ Honest(u)
  BY <1>5 DEF Excused
<1> QED
  BY <1>2, <1>4, <1>6

LEMMA BeginDeleteKeeps ==
    ASSUME IInv, NEW c \in Calls, NEW key \in Keys, BeginDelete(c, key)
    PROVE  IInv'
<1> USE DEF IInv, BeginDelete, tables
<1>1. /\ calls'[c].pc = "read" /\ calls'[c].op = "delete" /\ calls'[c].key = key
      /\ calls' \in [Calls -> CallStates]
  BY DEF TypeOK, CallStates, Rows
<1>2. TypeOK' /\ Fresh' /\ Anchored'
  BY <1>1 DEF TypeOK, Fresh, Anchored
<1>3. \A d \in Calls : d # c => calls'[d] = calls[d]
  BY DEF TypeOK
<1>4. CallsOK'
  BY <1>1, <1>3 DEF CallsOK, Fresh
<1>5. Excused \subseteq Excused'
  BY <1>3 DEF Excused, Pending, Idle
<1> QED
  BY <1>2, <1>4, <1>5, SameBooks

LEMMA BeginUpdateKeeps ==
    ASSUME IInv, NEW c \in Calls, NEW key \in Keys, BeginUpdate(c, key)
    PROVE  IInv'
<1> USE DEF IInv, BeginUpdate, tables
<1>1. /\ calls'[c].pc = "read" /\ calls'[c].op = "update" /\ calls'[c].key = key
      /\ calls'[c].row \in Rows
      /\ calls' \in [Calls -> CallStates]
  BY DEF TypeOK, CallStates, Rows
<1>2. TypeOK' /\ Fresh' /\ Anchored'
  BY <1>1 DEF TypeOK, Fresh, Anchored
<1>3. \A d \in Calls : d # c => calls'[d] = calls[d]
  BY DEF TypeOK
<1>4. CallsOK'
  BY <1>1, <1>3 DEF CallsOK, Fresh
<1>5. Excused \subseteq Excused'
  BY <1>3 DEF Excused, Pending, Idle
<1> QED
  BY <1>2, <1>4, <1>5, SameBooks

\* Clearing cache rows keeps the others as they are.
LEMMA ClearKeepsBooks ==
    ASSUME IInv, NEW who \in SUBSET Users, Clear(who), UNCHANGED tables,
           calls' \in [Calls -> CallStates]
    PROVE  /\ TypeOK' /\ Fresh' /\ Anchored'
           /\ \A u \in who : Honest(u)'
           /\ \A u \in Users : Honest(u) => Honest(u)'
<1> USE DEF IInv, Clear, tables
<1>1. \A u \in Users : balance'[u] \in {balance[u], NoRow}
  OBVIOUS
<1>2. TypeOK'
  <2>1. balance' \in [Users -> CacheRows \cup {NoRow}]
    BY DEF TypeOK
  <2>2. silent' \in SUBSET Users
    BY DEF TypeOK
  <2> QED
    BY <1>1, <2>1, <2>2 DEF TypeOK
<1>3. Fresh' /\ Anchored'
  BY <1>1 DEF Fresh, Anchored
<1>4. \A u \in who : balance'[u] = NoRow
  OBVIOUS
<1>5. ASSUME NEW u \in Users, Honest(u)
      PROVE  Honest(u)'
  BY <1>1, <1>5 DEF Honest, Entries, Covers, CursorAt
<1> QED
  BY <1>2, <1>3, <1>4, <1>5 DEF Honest

LEMMA ClearDeletedKeeps ==
    ASSUME IInv, NEW c \in Calls, ClearDeleted(c)
    PROVE  IInv'
<1> USE DEF IInv, ClearDeleted
<1> DEFINE who == calls[c].who
<1>1. /\ calls[c] # Idle /\ calls[c].op \in {"delete", "update"}
      /\ who \in SUBSET Users
      /\ calls' \in [Calls -> CallStates]
      /\ \A d \in Calls : d # c => calls'[d] = calls[d]
      /\ calls[c].op = "delete" => calls'[c] = Idle
      /\ calls[c].op = "update" => calls'[c] = [calls[c] EXCEPT !.pc = "cleared"]
  BY DEF TypeOK, CallStates, Idle
<1>2. /\ TypeOK' /\ Fresh' /\ Anchored'
      /\ \A u \in who : Honest(u)'
      /\ \A u \in Users : Honest(u) => Honest(u)'
  BY <1>1, ClearKeepsBooks
<1>3. CallsOK'
  <2>1. UNCHANGED <<rows, nextId>>
    BY DEF tables
  <2>2. \A d \in Calls : calls'[d] # Idle =>
            /\ calls[d] # Idle
            /\ calls'[d].op = calls[d].op /\ calls'[d].key = calls[d].key
            /\ calls'[d].row = calls[d].row /\ calls'[d].who = calls[d].who
            /\ \/ d # c /\ calls'[d].pc = calls[d].pc
               \/ /\ d = c /\ calls[d].op = "update"
                  /\ calls[d].pc = "gone" /\ calls'[d].pc = "cleared"
    <3> SUFFICES ASSUME NEW d \in Calls, d = c, calls'[c] # Idle
                 PROVE  /\ calls[c].op = "update"
                        /\ calls'[c] = [calls[c] EXCEPT !.pc = "cleared"]
                        /\ calls[c] \in [op : {"delete", "update"},
                               pc : {"read", "gone", "cleared", "saved"},
                               key : Keys, who : SUBSET Users,
                               row : Rows \cup {NoRow}]
      BY <1>1
    <3> QED
      BY <1>1 DEF TypeOK, CallStates
  <2>3. \A d \in Calls : calls'[d].op = "update" =>
            calls[d].op = "update" /\ calls'[d].key = calls[d].key
    BY <2>2 DEF Idle
  <2> HIDE DEF IInv, ClearDeleted
  <2>4. CallsOK
    BY DEF IInv
  <2> QED
    BY <2>1, <2>2, <2>3, <2>4 DEF CallsOK
<1>4. Excused \subseteq Excused' \cup who
  BY <1>1 DEF Excused, Pending, Clear
<1> QED
  BY <1>2, <1>3, <1>4

LEMMA SaveUpdatedKeeps ==
    ASSUME IInv, NEW c \in Calls, SaveUpdated(c)
    PROVE  IInv'
<1> USE DEF IInv, SaveUpdated
<1> DEFINE key == calls[c].key
           row == calls[c].row
<1>1. /\ calls[c] # Idle /\ calls[c].op = "update"
      /\ key \in Keys /\ row \in Rows
      /\ key[2] < nextId[key[1]] /\ rows[key] = NoRow
      /\ rows' = [rows EXCEPT ![key] = row]
      /\ \A d \in Calls \ {c} : calls[d].op # "update" \/ calls[d].key # key
  BY DEF TypeOK, CallStates, CallsOK, Idle
<1>2. /\ calls' \in [Calls -> CallStates]
      /\ calls'[c].op = "update" /\ calls'[c].key = key /\ calls'[c].row = row
      /\ calls'[c].pc = "saved" /\ calls'[c].who = row.moves
      /\ \A d \in Calls : d # c => calls'[d] = calls[d]
  <2>1. /\ calls \in [Calls -> CallStates]
        /\ calls[c] \in [op : {"delete", "update"},
                         pc : {"read", "gone", "cleared", "saved"},
                         key : Keys, who : SUBSET Users, row : Rows \cup {NoRow}]
    BY <1>1 DEF TypeOK, CallStates
  <2>2. row.moves \in SUBSET Users
    BY <1>1 DEF Rows
  <2>3. calls'[c] = [calls[c] EXCEPT !.pc = "saved", !.who = row.moves]
    BY <2>1
  <2>4. calls'[c] \in CallStates
    BY <2>1, <2>2, <2>3 DEF CallStates
  <2>5. calls' = [calls EXCEPT ![c] = calls'[c]]
    BY <2>1
  <2> QED
    BY <1>1, <2>1, <2>3, <2>4, <2>5
<1>3. \A x \in Keys : x # key => rows'[x] = rows[x]
  BY <1>1 DEF TypeOK
<1>4. rows'[key] = row /\ row # NoRow
  BY <1>1, NoRowAssumption DEF TypeOK
<1>5. TypeOK'
  <2>1. rows' \in [Keys -> Rows \cup {NoRow}]
    BY <1>1 DEF TypeOK
  <2> QED
    BY <1>1, <1>2, <1>3, <2>1 DEF TypeOK
<1>6. Fresh' /\ Anchored'
  BY <1>1, <1>3 DEF Fresh, Anchored
<1>7. CallsOK'
  <2>1. \A d \in Calls : calls'[d].op = calls[d].op /\ calls'[d].key = calls[d].key
    BY <1>1, <1>2
  <2>2. \A d \in Calls : d # c /\ calls[d] # Idle =>
            /\ calls[d].key \in Keys
            /\ calls[d].op = "update" => rows'[calls[d].key] = rows[calls[d].key]
    BY <1>1, <1>3 DEF TypeOK, CallStates
  <2> QED
    BY <1>1, <1>2, <1>4, <2>1, <2>2 DEF CallsOK
<1>8. Excused \cup row.moves \subseteq Excused'
  <2>1. Pending \cup row.moves \subseteq Pending'
    BY <1>2 DEF Pending
  <2> QED
    BY <2>1 DEF Excused
<1>9. ASSUME NEW u \in Users \ Excused'
      PROVE  Honest(u)'
  <2>1. Honest(u) /\ u \notin row.moves
    BY <1>8
  <2> SUFFICES ASSUME balance[u] # NoRow
               PROVE  {e \in Entries(u)' : Covers(u, e[1], e[2])'} =
                      {e \in Entries(u) : Covers(u, e[1], e[2])}
    BY <2>1 DEF Honest
  <2>2. \A j \in Kinds : CursorAt(u, j)' = CursorAt(u, j)
    BY <1>1, <1>3 DEF CursorAt, TypeOK
  <2>3. \A x \in Keys, r \in Rows : Covers(u, x, r)' <=> Covers(u, x, r)
    BY <2>2, KeyParts DEF Covers
  <2>4. Entries(u)' = Entries(u)
    BY <1>1, <1>3, <1>4, <2>1 DEF Entries
  <2>5. \A e \in Entries(u) : e[1] \in Keys /\ e[2] \in Rows
    BY DEF Entries, TypeOK
  <2> QED
    BY <2>3, <2>4, <2>5
<1> QED
  BY <1>5, <1>6, <1>7, <1>9

LEMMA ClearUpdatedKeeps ==
    ASSUME IInv, NEW c \in Calls, ClearUpdated(c)
    PROVE  IInv'
<1> USE DEF IInv, ClearUpdated
<1> DEFINE who == calls[c].who
<1>1. /\ calls[c] # Idle /\ calls[c].op = "update"
      /\ who \in SUBSET Users /\ who = calls[c].row.moves
      /\ rows[calls[c].key] \in {NoRow, calls[c].row}
      /\ calls' \in [Calls -> CallStates]
      /\ calls'[c] = Idle
      /\ \A d \in Calls : d # c => calls'[d] = calls[d]
  BY DEF TypeOK, CallStates, CallsOK, Idle
<1>2. CallsOK'
  <2>1. rows' = rows /\ nextId' = nextId
    BY DEF tables
  <2>2. \A d \in Calls : calls'[d].op = "update" =>
            d # c /\ calls[d].op = "update" /\ calls'[d].key = calls[d].key
    BY <1>1 DEF Idle
  <2> QED
    BY <1>1, <2>1, <2>2 DEF CallsOK
<1>3. Pending \subseteq Pending' \cup who
  BY <1>1 DEF Pending
<1>4. CASE rows[calls[c].key] = NoRow
  <2>1. TypeOK' /\ Fresh' /\ Anchored'
    BY <1>1, <1>4 DEF TypeOK, Fresh, Anchored, tables
  <2>2. Excused \subseteq Excused'
    BY <1>3, <1>4 DEF Excused
  <2>3. UNCHANGED <<rows, balance>>
    BY <1>4 DEF tables
  <2> QED
    BY <1>2, <2>1, <2>2, <2>3, SameBooks
<1>5. CASE rows[calls[c].key] # NoRow
  <2>1. Clear(who)
    BY <1>1, <1>5
  <2>2. /\ TypeOK' /\ Fresh' /\ Anchored'
        /\ \A u \in who : Honest(u)'
        /\ \A u \in Users : Honest(u) => Honest(u)'
    BY <1>1, <2>1, ClearKeepsBooks
  <2>3. Excused \subseteq Excused' \cup who
    BY <1>3, <2>1 DEF Excused, Clear
  <2> QED
    BY <1>2, <2>2, <2>3
<1> QED
  BY <1>4, <1>5

LEMMA CrashKeeps ==
    ASSUME IInv, Crash
    PROVE  IInv'
<1> USE DEF IInv, Crash, tables
<1>1. TypeOK'
  <2>1. Pending \subseteq Users
    BY DEF Pending, TypeOK, CallStates, Idle
  <2> QED
    BY <2>1 DEF TypeOK, CallStates
<1>2. Fresh' /\ Anchored' /\ CallsOK'
  BY DEF Fresh, Anchored, CallsOK
<1>3. Excused \subseteq Excused'
  BY DEF Excused
<1> QED
  BY <1>1, <1>2, <1>3, SameBooks

\* A refreshed cache row sums what it covers, which is everything.
LEMMA RefreshMakesHonest ==
    ASSUME TypeOK, Anchored, Refresh
    PROVE  /\ TypeOK' /\ Anchored'
           /\ \A u \in Users : Honest(u)'
<1> USE DEF Refresh, tables
<1>1. ASSUME NEW u \in Users, Entries(u) = {}
      PROVE  balance'[u] = NoRow
  <2> SUFFICES ASSUME balance[u] # NoRow PROVE FALSE
    BY <1>1
  <2>1. PICK k \in Kinds : balance[u].last[k] # 0
    BY DEF Anchored
  <2>2. <<<<k, balance[u].last[k]>>, rows[<<k, balance[u].last[k]>>]>> \in Entries(u)
    BY <2>1 DEF TypeOK, Entries
  <2> QED
    BY <1>1, <2>2
<1>2. ASSUME NEW u \in Users, Entries(u) # {}
      PROVE  /\ balance'[u] \in CacheRows
             /\ balance'[u].sums = Entries(u)
             /\ \A k \in Kinds : balance'[u].last[k] = LastId(u, k)
  <2>1. balance'[u] = [sums |-> Entries(u), last |-> [k \in Kinds |-> LastId(u, k)]]
    BY <1>2
  <2>2. Entries(u) \in SUBSET (Keys \X Rows)
    BY DEF Entries, TypeOK
  <2>3. \A k \in Kinds : LastId(u, k) \in Nat
    BY LastIdIsLatest
  <2> QED
    BY <2>1, <2>2, <2>3 DEF CacheRows
<1>3. ASSUME NEW u \in Users, NEW k \in Kinds, LastId(u, k) # 0
      PROVE  /\ <<k, LastId(u, k)>> \in Keys
             /\ rows[<<k, LastId(u, k)>>] # NoRow
             /\ u \in rows[<<k, LastId(u, k)>>].moves
             /\ \A e \in Entries(u) : e[1][1] = k =>
                    e[2].at <= rows[<<k, LastId(u, k)>>].at
  <2>1. PICK e \in Entries(u) :
            /\ e[1] = <<k, LastId(u, k)>>
            /\ \A f \in Entries(u) : f[1][1] = k => f[2].at <= e[2].at
    BY <1>3, LastIdIsLatest
  <2>2. /\ e[1] \in Keys /\ e[2] = rows[e[1]]
        /\ rows[e[1]] # NoRow /\ u \in rows[e[1]].moves
    BY DEF Entries
  <2> QED
    BY <2>1, <2>2
<1>4. ASSUME NEW u \in Users, Entries(u) # {}
      PROVE  \E k \in Kinds : LastId(u, k) # 0
  <2>1. PICK e \in Entries(u) : TRUE
    BY <1>4
  <2>2. e[1][1] \in Kinds
    BY KeyParts DEF Entries
  <2>3. LastId(u, e[1][1]) # 0
    BY <2>2, LastIdIsLatest
  <2> QED
    BY <2>2, <2>3
<1>5. TypeOK'
  <2>1. balance' \in [Users -> CacheRows \cup {NoRow}]
    BY <1>2 DEF TypeOK
  <2>2. ASSUME NEW u \in Users, NEW k \in Kinds,
               balance'[u] # NoRow, balance'[u].last[k] # 0
        PROVE  /\ <<k, balance'[u].last[k]>> \in Keys
               /\ rows[<<k, balance'[u].last[k]>>] # NoRow
               /\ u \in rows[<<k, balance'[u].last[k]>>].moves
    BY <1>1, <1>2, <1>3, <2>2
  <2> QED
    BY <2>1, <2>2 DEF TypeOK
<1>6. Anchored'
  BY <1>1, <1>2, <1>4 DEF Anchored
<1>7. ASSUME NEW u \in Users, balance'[u] # NoRow
      PROVE  balance'[u].sums = {e \in Entries(u)' : Covers(u, e[1], e[2])'}
  <2>1. Entries(u)' = Entries(u) /\ Entries(u) # {}
    BY <1>1, <1>7 DEF Entries
  <2>2. ASSUME NEW e \in Entries(u)
        PROVE  Covers(u, e[1], e[2])'
    <3>1. e[1][1] \in Kinds
      BY KeyParts DEF Entries
    <3>2. LastId(u, e[1][1]) # 0
      BY <3>1, LastIdIsLatest
    <3>3. e[2].at <= rows[<<e[1][1], LastId(u, e[1][1])>>].at
      BY <1>3, <3>1, <3>2
    <3> QED
      BY <1>2, <1>7, <2>1, <3>1, <3>2, <3>3 DEF Covers, CursorAt
  <2> QED
    BY <1>2, <2>1, <2>2
<1> QED
  BY <1>5, <1>6, <1>7 DEF Honest

LEMMA RefreshKeeps ==
    ASSUME IInv, Refresh
    PROVE  IInv'
<1>1. TypeOK' /\ Anchored' /\ \A u \in Users : Honest(u)'
  BY RefreshMakesHonest DEF IInv
<1>2. Fresh' /\ CallsOK'
  BY DEF IInv, Refresh, tables, Fresh, CallsOK
<1> QED
  BY <1>1, <1>2 DEF IInv

LEMMA CreationsKeep ==
    ASSUME IInv, CreateTransaction \/ CreateTransfer \/ CreateDatedTransfer
    PROVE  IInv'
<1> USE BoundsAssumption
<1>1. now \in 0 .. MaxNow
  BY DEF IInv, TypeOK
<1>2. ASSUME NEW k \in Kinds, NEW who \in SUBSET Users, NEW amount \in Amounts,
             NEW at \in 1 .. MaxNow, now' \in 0 .. MaxNow,
             Insert(k, [at |-> at, moves |-> who, amount |-> amount])
      PROVE  IInv'
  <2>1. [at |-> at, moves |-> who, amount |-> amount] \in Rows
    BY DEF Rows
  <2> QED
    BY <1>2, <2>1, InsertKeeps
<1>3. now < MaxNow => now + 1 \in 1 .. MaxNow
  BY <1>1
<1>4. CASE CreateTransaction
  BY <1>2, <1>3, <1>4 DEF CreateTransaction, Kinds
<1>5. CASE CreateTransfer
  BY <1>2, <1>3, <1>5 DEF CreateTransfer, Kinds
<1>6. CASE CreateDatedTransfer
  BY <1>1, <1>2, <1>6 DEF CreateDatedTransfer, Kinds
<1> QED
  BY <1>4, <1>5, <1>6

LEMMA StepKeeps == IInv /\ [Next]_vars => IInv'
<1> SUFFICES ASSUME IInv, [Next]_vars PROVE IInv'
  OBVIOUS
<1>1. CASE CreateTransaction \/ CreateTransfer \/ CreateDatedTransfer
  BY <1>1, CreationsKeep
<1>2. CASE \E key \in Keys : ChangeAmount(key) \/ RemoveTransfer(key)
  BY <1>2, ChangeAmountKeeps, RemoveTransferKeeps
<1>3. CASE \E c \in Calls, key \in Keys : BeginDelete(c, key) \/ BeginUpdate(c, key)
  BY <1>3, BeginDeleteKeeps, BeginUpdateKeeps
<1>4. CASE \E c \in Calls :
            DeleteRow(c) \/ ClearDeleted(c) \/ SaveUpdated(c) \/ ClearUpdated(c)
  BY <1>4, DeleteRowKeeps, ClearDeletedKeeps, SaveUpdatedKeeps, ClearUpdatedKeeps
<1>5. CASE Crash
  BY <1>5, CrashKeeps
<1>6. CASE Refresh
  BY <1>6, RefreshKeeps
<1>7. CASE UNCHANGED vars
  <2>1. UNCHANGED <<rows, nextId, now, balance, calls, silent>>
    BY <1>7 DEF vars, tables
  <2>2. TypeOK' /\ Fresh' /\ Anchored' /\ CallsOK' /\ Excused' = Excused
    BY <2>1 DEF IInv, TypeOK, Fresh, Anchored, CallsOK, Excused, Pending
  <2> QED
    BY <2>1, <2>2, SameBooks DEF IInv
<1> QED
  BY <1>1, <1>2, <1>3, <1>4, <1>5, <1>6, <1>7 DEF Next

-----------------------------------------------------------------------------
(* Theorems                                                                 *)

\* The invariant holds in every reachable state.
THEOREM Invariance == Spec => []IInv
  BY InitEstablishes, StepKeeps, PTL DEF Spec

\* The variables keep their types and cursors point at rows of their users.
THEOREM TypeCorrect == Spec => []TypeOK
  BY Invariance, InvImplies, PTL

\* However deletions, updates, refreshes and crashes interleave, a read counts
\* every row up to its date once, unless a clear is still to come or was
\* never going to.
THEOREM ReadsAreRight == Spec => []ReadIsTruth
  BY Invariance, InvImplies, PTL

\* The nightly refresh repairs every balance, whatever went wrong before.
THEOREM RefreshIsRepair == Spec => RefreshRepairs
<1>1. TypeOK /\ (\A u \in Users : Honest(u)) =>
          \A u \in Users : Right(u, NoDate)
  BY HonestIsRight
<1>2. (TypeOK /\ (\A u \in Users : Honest(u)))' =>
          (\A u \in Users : Right(u, NoDate))'
  BY <1>1, PTL
<1>3. IInv /\ [Next]_vars =>
          [Refresh => \A u \in Users : Right(u, NoDate)']_vars
  BY <1>2, RefreshMakesHonest DEF IInv
<1> QED
  BY <1>3, Invariance, PTL DEF Spec, RefreshRepairs
=============================================================================
