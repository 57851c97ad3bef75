---------------------------- MODULE FinesProofs -----------------------------
(***************************************************************************)
(* Proofs about Fines, for any number of fines, waivers, groups and calls: *)
(* the waivers of a group that no two calls worked on at once stay within  *)
(* its fines, a user owes the fines of the current group, and a credit     *)
(* that clears a debt clears its fines.  What a group amounts to is a      *)
(* recursive sum: its laws follow from a least set that would break them.  *)
(***************************************************************************)
EXTENDS Fines, FiniteSetTheorems, WellFoundedInduction, TLAPS

(* Sums of amounts *)

\* Among sets of subsets of a finite set there is a least one.
LEMMA LeastSubset ==
  ASSUME NEW S, IsFiniteSet(S), NEW Bad, Bad \subseteq SUBSET S, Bad # {}
  PROVE  \E T \in Bad : \A R \in Bad : R \subseteq T => R = T
<1>1. Bad \subseteq FiniteSubsetsOf(S)
  <2>1. \A T \in Bad : IsFiniteSet(T)
    BY FS_Subset
  <2> QED
    BY <2>1 DEF FiniteSubsetsOf
<1>2. PICK T \in Bad : \A R \in Bad : ~ (<<R, T>> \in StrictSubsetOrdering(S))
  BY <1>1, FS_StrictSubsetOrderingWellFounded, WFMin
<1>3. ASSUME NEW R \in Bad, R \subseteq T, R # T PROVE FALSE
  <2>1. <<R, T>> \in StrictSubsetOrdering(S)
    BY <1>3 DEF StrictSubsetOrdering
  <2> QED
    BY <1>2, <2>1
<1> QED
  BY <1>3

\* The element that a sum over T takes first.
First(T) == CHOOSE x \in T : TRUE

\* F is the sum of the weights w, for every subset of S.
Adds(F, S, w) ==
    /\ F \in [SUBSET S -> Nat]
    /\ \A T \in SUBSET S :
           F[T] = IF T = {} THEN 0 ELSE w[First(T)] + F[T \ {First(T)}]

LEMMA FirstIsIn ==
  ASSUME NEW T, T # {}
  PROVE  First(T) \in T
  BY DEF First

LEMMA SumsAgree ==
  ASSUME NEW S, IsFiniteSet(S), NEW w, NEW F, Adds(F, S, w),
         NEW R, NEW H, Adds(H, R, w), NEW T, T \subseteq S, T \subseteq R
  PROVE  F[T] = H[T]
<1> DEFINE Bad == {X \in SUBSET T : F[X] # H[X]}
<1>1. SUFFICES ASSUME Bad # {} PROVE FALSE
  OBVIOUS
<1>2. PICK X \in Bad : \A Y \in Bad : Y \subseteq X => Y = X
  <2>1. Bad \subseteq SUBSET S
    OBVIOUS
  <2> HIDE DEF Bad
  <2> QED
    BY <1>1, <2>1, LeastSubset
<1>3. X # {}
  BY <1>2 DEF Adds
<1>4. First(X) \in X
  BY <1>3, FirstIsIn
<1>5. F[X \ {First(X)}] = H[X \ {First(X)}]
  BY <1>2, <1>4
<1>6. F[X] = w[First(X)] + F[X \ {First(X)}] /\ H[X] = w[First(X)] + H[X \ {First(X)}]
  BY <1>2, <1>3 DEF Adds
<1> QED
  BY <1>2, <1>5, <1>6

LEMMA SumExists ==
  ASSUME NEW S, IsFiniteSet(S), NEW w \in [S -> Nat]
  PROVE  \E F : Adds(F, S, w)
<1> DEFINE Bad == {T \in SUBSET S : ~ \E F : Adds(F, T, w)}
<1>1. SUFFICES ASSUME Bad # {} PROVE FALSE
  <2>1. S \in SUBSET S
    OBVIOUS
  <2> QED
    BY <2>1
<1>2. PICK T \in Bad : \A X \in Bad : X \subseteq T => X = T
  <2>1. Bad \subseteq SUBSET S
    OBVIOUS
  <2> HIDE DEF Bad
  <2> QED
    BY <1>1, <2>1, LeastSubset
<1> DEFINE Below == {X \in SUBSET T : X # T}
           sum(X) == CHOOSE F : Adds(F, X, w)
           G == [X \in Below |-> sum(X)[X]]
           H == [X \in SUBSET T |-> IF X = {} THEN 0
                                    ELSE w[First(X)] + G[X \ {First(X)}]]
<1>3. ASSUME NEW X \in Below PROVE Adds(sum(X), X, w) /\ IsFiniteSet(X)
  <2>1. \E F : Adds(F, X, w)
    BY <1>2
  <2>2. Adds(sum(X), X, w)
    BY <2>1, Zenon
  <2>3. X \subseteq S
    BY <1>2
  <2> QED
    BY <2>2, <2>3, FS_Subset
<1> HIDE DEF sum
<1>4. ASSUME NEW X \in Below
      PROVE  G[X] \in Nat /\ G[X] = IF X = {} THEN 0 ELSE w[First(X)] + G[X \ {First(X)}]
  <2>1. sum(X) \in [SUBSET X -> Nat] /\ G[X] = sum(X)[X]
    BY <1>3 DEF Adds
  <2>2. CASE X = {}
    BY <1>3, <2>1, <2>2 DEF Adds
  <2>3. CASE X # {}
    <3> DEFINE Y == X \ {First(X)}
    <3>1. Y \in Below /\ Y \subseteq X
      BY <2>3, FirstIsIn
    <3>2. sum(X)[X] = w[First(X)] + sum(X)[Y]
      BY <1>3, <2>3 DEF Adds
    <3>3. sum(X)[Y] = sum(Y)[Y]
      <4>1. Adds(sum(X), X, w) /\ Adds(sum(Y), Y, w) /\ IsFiniteSet(X)
        BY <1>3, <3>1
      <4> HIDE DEF Y
      <4> QED
        BY <3>1, <4>1, SumsAgree
    <3>4. G[Y] = sum(Y)[Y]
      BY <3>1
    <3> HIDE DEF Y, G
    <3> QED
      BY <2>1, <2>3, <3>2, <3>3, <3>4 DEF Y
  <2> QED
    BY <2>2, <2>3
<1> HIDE DEF G
<1>5. ASSUME NEW X \in SUBSET T, X # {}
      PROVE  First(X) \in S /\ X \ {First(X)} \in Below
  BY <1>2, <1>5, FirstIsIn
<1>6. H \in [SUBSET T -> Nat]
  <2>1. ASSUME NEW X \in SUBSET T, X # {} PROVE w[First(X)] + G[X \ {First(X)}] \in Nat
    <3>1. w[First(X)] \in Nat /\ G[X \ {First(X)}] \in Nat
      BY <1>4, <1>5, <2>1
    <3> QED
      BY <3>1
  <2> QED
    BY <2>1
<1>7. ASSUME NEW X \in SUBSET T, X # {}
      PROVE  H[X \ {First(X)}] = G[X \ {First(X)}]
  BY <1>4, <1>5, <1>7
<1>8. Adds(H, T, w)
  BY <1>6, <1>7 DEF Adds
<1> QED
  BY <1>2, <1>8

\* The order of the summands does not matter.
LEMMA SumSteps ==
  ASSUME NEW S, IsFiniteSet(S), NEW w \in [S -> Nat], NEW F, Adds(F, S, w),
         NEW T, T \subseteq S, NEW x \in T
  PROVE  F[T] = w[x] + F[T \ {x}]
<1> DEFINE Bad == {X \in SUBSET S : \E y \in X : F[X] # w[y] + F[X \ {y}]}
<1>1. SUFFICES ASSUME Bad # {} PROVE FALSE
  OBVIOUS
<1>2. PICK X \in Bad : \A Y \in Bad : Y \subseteq X => Y = X
  <2>1. Bad \subseteq SUBSET S
    OBVIOUS
  <2> HIDE DEF Bad
  <2> QED
    BY <1>1, <2>1, LeastSubset
<1>3. PICK y \in X : F[X] # w[y] + F[X \ {y}]
  BY <1>2
<1> DEFINE p == First(X)
<1>4. p \in X
  BY <1>3, FirstIsIn
<1>5. F[X] = w[p] + F[X \ {p}] /\ X \in SUBSET S
  BY <1>2, <1>3 DEF Adds
<1> HIDE DEF p
<1>6. y # p
  BY <1>3, <1>5
<1>7. X \ {p} \notin Bad /\ X \ {y} \notin Bad
  BY <1>2, <1>3, <1>4
<1>8. F[X \ {p}] = w[y] + F[(X \ {p}) \ {y}] /\ F[X \ {y}] = w[p] + F[(X \ {y}) \ {p}]
  BY <1>3, <1>4, <1>5, <1>6, <1>7
<1>9. (X \ {p}) \ {y} = (X \ {y}) \ {p}
  OBVIOUS
<1>10. /\ w[p] \in Nat /\ w[y] \in Nat
       /\ F[(X \ {p}) \ {y}] \in Nat
  BY <1>3, <1>4, <1>5 DEF Adds
<1>11. w[p] + (w[y] + F[(X \ {p}) \ {y}]) = w[y] + (w[p] + F[(X \ {p}) \ {y}])
  BY <1>10
<1> QED
  BY <1>3, <1>5, <1>8, <1>9, <1>11

\* The sums of the model are such sums.
LEMMA TotalIs ==
  ASSUME NEW S, IsFiniteSet(S), NEW v, NEW w, \A x \in S : v[x].amount = w[x],
         NEW F, Adds(F, S, w)
  PROVE  Total(v, S) = F[S]
<1> DEFINE Step(f) == [s \in SUBSET S |->
               IF s = {} THEN 0 ELSE v[First(s)].amount + f[s \ {First(s)}]]
           sum == CHOOSE f : f = Step(f)
<1>1. Total(v, S) = sum[S]
  BY DEF Total, MapThenSumSet, MapThenFoldSet, First
<1>2. F = Step(F)
  <2>1. ASSUME NEW s \in SUBSET S PROVE F[s] = Step(F)[s]
    <3>1. s # {} => First(s) \in S
      BY FirstIsIn
    <3> QED
      BY <3>1 DEF Adds
  <2>2. F = [s \in SUBSET S |-> F[s]]
    BY DEF Adds
  <2> QED
    BY <2>1, <2>2
<1> HIDE DEF Step
<1>3. sum = Step(sum)
  BY <1>2, Zenon
<1> HIDE DEF sum
<1> DEFINE Bad == {X \in SUBSET S : F[X] # sum[X]}
<1>4. SUFFICES ASSUME Bad # {} PROVE FALSE
  BY <1>1
<1>5. PICK X \in Bad : \A Y \in Bad : Y \subseteq X => Y = X
  <2>1. Bad \subseteq SUBSET S
    OBVIOUS
  <2> HIDE DEF Bad
  <2> QED
    BY <1>4, <2>1, LeastSubset
<1>6. sum[X] = IF X = {} THEN 0 ELSE v[First(X)].amount + sum[X \ {First(X)}]
  BY <1>3, <1>5 DEF Step
<1>7. X # {}
  BY <1>5, <1>6 DEF Adds
<1>8. First(X) \in X
  BY <1>7, FirstIsIn
<1>9. F[X \ {First(X)}] = sum[X \ {First(X)}]
  BY <1>5, <1>8
<1>10. F[X] = w[First(X)] + F[X \ {First(X)}]
  BY <1>5, <1>7 DEF Adds
<1> QED
  BY <1>5, <1>6, <1>7, <1>8, <1>9, <1>10

\* The amounts of rows are naturals.
Counts(v, S) == IsFiniteSet(S) /\ \A x \in S : v[x].amount \in Nat

LEMMA TotalOfNone ==
  ASSUME NEW v
  PROVE  Total(v, {}) = 0
<1> DEFINE w == [x \in {} |-> 0]
<1>1. IsFiniteSet({}) /\ w \in [{} -> Nat]
  BY FS_EmptySet
<1>2. PICK F : Adds(F, {}, w)
  BY <1>1, SumExists
<1>3. Total(v, {}) = F[{}]
  BY <1>1, <1>2, TotalIs
<1> QED
  BY <1>2, <1>3 DEF Adds

LEMMA TotalSteps ==
  ASSUME NEW v, NEW S, Counts(v, S), NEW x \in S
  PROVE  /\ Total(v, S) = v[x].amount + Total(v, S \ {x})
         /\ Total(v, S) \in Nat /\ Total(v, S \ {x}) \in Nat
<1> DEFINE w == [y \in S |-> v[y].amount]
           R == S \ {x}
<1>1. IsFiniteSet(S) /\ w \in [S -> Nat] /\ \A y \in S : v[y].amount = w[y]
  BY DEF Counts
<1> HIDE DEF w
<1>2. PICK F : Adds(F, S, w)
  BY <1>1, SumExists
<1>3. PICK H : Adds(H, R, w)
  <2>1. Adds([T \in SUBSET R |-> F[T]], R, w)
    BY <1>2, FirstIsIn DEF Adds
  <2> QED
    BY <2>1
<1>4. Total(v, S) = F[S]
  BY <1>1, <1>2, TotalIs
<1>5. Total(v, R) = H[R]
  <2>1. IsFiniteSet(R) /\ \A y \in R : v[y].amount = w[y]
    BY <1>1, FS_Subset
  <2> HIDE DEF R
  <2> QED
    BY <1>3, <2>1, TotalIs
<1>6. F[R] = H[R]
  <2>1. R \subseteq S /\ R \subseteq R
    OBVIOUS
  <2> HIDE DEF R
  <2> QED
    BY <1>1, <1>2, <1>3, <2>1, SumsAgree
<1>7. F[S] = w[x] + F[S \ {x}]
  <2>1. S \subseteq S
    OBVIOUS
  <2> QED
    BY <1>1, <1>2, <2>1, SumSteps
<1>8. F[S] \in Nat /\ F[R] \in Nat
  BY <1>2 DEF Adds
<1> QED
  BY <1>1, <1>4, <1>5, <1>6, <1>7, <1>8

LEMMA TotalIsNatural ==
  ASSUME NEW v, NEW S, Counts(v, S)
  PROVE  Total(v, S) \in Nat
<1>1. CASE S = {}
  BY <1>1, TotalOfNone
<1>2. CASE S # {}
  <2>1. PICK x \in S : TRUE
    BY <1>2
  <2> QED
    BY <2>1, TotalSteps
<1> QED
  BY <1>1, <1>2

\* The sum depends on nothing but the amounts.
LEMMA TotalOfSame ==
  ASSUME NEW v, NEW u, NEW S, Counts(v, S), \A x \in S : v[x].amount = u[x].amount
  PROVE  Total(v, S) = Total(u, S)
<1> DEFINE w == [y \in S |-> v[y].amount]
<1>1. IsFiniteSet(S) /\ w \in [S -> Nat] /\ \A y \in S : v[y].amount = w[y]
  BY DEF Counts
<1>2. \A y \in S : u[y].amount = w[y]
  OBVIOUS
<1> HIDE DEF w
<1>3. PICK F : Adds(F, S, w)
  BY <1>1, SumExists
<1>4. Total(v, S) = F[S]
  BY <1>1, <1>3, TotalIs
<1>5. Total(u, S) = F[S]
  BY <1>1, <1>2, <1>3, TotalIs
<1> QED
  BY <1>4, <1>5

-----------------------------------------------------------------------------
(* The fines and the waivers of a group *)

FineBooks == [FineIds -> FineRows \cup {None}]
WaiverBooks == [Waivers -> WaiverRows \cup {None}]

RowsIn(v, ids, g) == {x \in ids : v[x] # None /\ v[x].group = g}

LEMMA RowsAreOf ==
  ASSUME NEW g
  PROVE  /\ FinesOf(g) = RowsIn(fines, FineIds, g)
         /\ WaiversOf(g) = RowsIn(waivers, Waivers \ stranded, g)
         /\ FinesOf(g)' = RowsIn(fines', FineIds, g)
         /\ WaiversOf(g)' = RowsIn(waivers', Waivers \ stranded', g)
         /\ TotalFines(g) = Total(fines, FinesOf(g))
         /\ TotalWaived(g) = Total(waivers, WaiversOf(g))
         /\ TotalFines(g)' = Total(fines', FinesOf(g)')
         /\ TotalWaived(g)' = Total(waivers', WaiversOf(g)')
<1>1. /\ FinesOf(g) = RowsIn(fines, FineIds, g)
      /\ WaiversOf(g) = RowsIn(waivers, Waivers \ stranded, g)
  BY DEF FinesOf, WaiversOf, RowsIn
<1>2. /\ FinesOf(g)' = RowsIn(fines', FineIds, g)
      /\ WaiversOf(g)' = RowsIn(waivers', Waivers \ stranded', g)
  BY DEF FinesOf, WaiversOf, RowsIn
<1>3. /\ TotalFines(g) = Total(fines, FinesOf(g))
      /\ TotalWaived(g) = Total(waivers, WaiversOf(g))
      /\ TotalFines(g)' = Total(fines', FinesOf(g)')
      /\ TotalWaived(g)' = Total(waivers', WaiversOf(g)')
  BY DEF TotalFines, TotalWaived
<1> QED
  BY <1>1, <1>2, <1>3

LEMMA FinesCount ==
  ASSUME NEW v \in FineBooks, NEW g
  PROVE  Counts(v, RowsIn(v, FineIds, g))
<1>1. IsFiniteSet(RowsIn(v, FineIds, g))
  <2>1. RowsIn(v, FineIds, g) \subseteq FineIds /\ IsFiniteSet(FineIds)
    BY FinesAssumption DEF RowsIn
  <2> QED
    BY <2>1, FS_Subset
<1>2. \A x \in RowsIn(v, FineIds, g) : v[x].amount \in Nat
  BY DEF RowsIn, FineBooks, FineRows
<1> QED
  BY <1>1, <1>2 DEF Counts

LEMMA WaiversCount ==
  ASSUME NEW v \in WaiverBooks, NEW ids, NEW g
  PROVE  /\ Counts(v, RowsIn(v, Waivers \ ids, g))
         /\ \A x \in RowsIn(v, Waivers \ ids, g) : v[x].amount > 0
<1>1. IsFiniteSet(RowsIn(v, Waivers \ ids, g))
  <2>1. RowsIn(v, Waivers \ ids, g) \subseteq Waivers /\ IsFiniteSet(Waivers)
    BY FinesAssumption DEF RowsIn
  <2> QED
    BY <2>1, FS_Subset
<1>2. \A x \in RowsIn(v, Waivers \ ids, g) : v[x].amount \in Nat /\ v[x].amount > 0
  BY FinesAssumption DEF RowsIn, WaiverBooks, WaiverRows
<1> QED
  BY <1>1, <1>2 DEF Counts

\* What changes no row changes no sum.
LEMMA SameFines ==
  ASSUME FinesTypeOK, NEW g, FinesOf(g)' = FinesOf(g),
         \A f \in FinesOf(g) : fines'[f] = fines[f]
  PROVE  TotalFines(g)' = TotalFines(g)
<1>1. Counts(fines, FinesOf(g))
  BY FinesCount, RowsAreOf DEF FinesTypeOK, FineBooks
<1>2. \A f \in FinesOf(g) : fines[f].amount = fines'[f].amount
  OBVIOUS
<1>3. Total(fines, FinesOf(g)) = Total(fines', FinesOf(g))
  BY <1>1, <1>2, TotalOfSame
<1> QED
  BY <1>3, RowsAreOf

LEMMA SameWaivers ==
  ASSUME FinesTypeOK, NEW g, WaiversOf(g)' = WaiversOf(g),
         \A w \in WaiversOf(g) : waivers'[w] = waivers[w]
  PROVE  TotalWaived(g)' = TotalWaived(g)
<1>1. Counts(waivers, WaiversOf(g))
  <2>1. waivers \in WaiverBooks
    BY DEF FinesTypeOK, WaiverBooks
  <2>2. Counts(waivers, RowsIn(waivers, Waivers \ stranded, g))
    BY <2>1, WaiversCount
  <2> QED
    BY <2>2, RowsAreOf
<1>2. \A w \in WaiversOf(g) : waivers[w].amount = waivers'[w].amount
  OBVIOUS
<1>3. Total(waivers, WaiversOf(g)) = Total(waivers', WaiversOf(g))
  BY <1>1, <1>2, TotalOfSame
<1> QED
  BY <1>3, RowsAreOf

LEMMA TotalsAreNatural ==
  ASSUME FinesTypeOK, NEW g
  PROVE  TotalFines(g) \in Nat /\ TotalWaived(g) \in Nat
<1>1. Counts(fines, FinesOf(g)) /\ Counts(waivers, WaiversOf(g))
  <2>1. fines \in FineBooks /\ waivers \in WaiverBooks
    BY DEF FinesTypeOK, FineBooks, WaiverBooks
  <2>2. /\ Counts(fines, RowsIn(fines, FineIds, g))
        /\ Counts(waivers, RowsIn(waivers, Waivers \ stranded, g))
    BY <2>1, FinesCount, WaiversCount
  <2> QED
    BY <2>2, RowsAreOf
<1> QED
  BY <1>1, TotalIsNatural, RowsAreOf

\* A fine that is stored adds its amount.
LEMMA OneMoreFine ==
  ASSUME FinesTypeOK, FinesTypeOK', NEW g, NEW f \in FineIds, f \notin FinesOf(g),
         FinesOf(g)' = FinesOf(g) \cup {f},
         \A x \in FinesOf(g) : fines'[x] = fines[x]
  PROVE  TotalFines(g)' >= TotalFines(g)
<1>1. /\ Counts(fines, FinesOf(g))
      /\ Counts(fines', FinesOf(g)')
  <2>1. fines \in FineBooks
    BY DEF FinesTypeOK, FineBooks
  <2>2. fines' \in FineBooks
    BY DEF FinesTypeOK, FineBooks
  <2>3. Counts(fines, RowsIn(fines, FineIds, g))
    BY <2>1, FinesCount
  <2>4. Counts(fines', RowsIn(fines', FineIds, g))
    BY <2>2, FinesCount
  <2> QED
    BY <2>3, <2>4, RowsAreOf
<1>2. \A x \in FinesOf(g) : fines[x].amount = fines'[x].amount
  OBVIOUS
<1>3. Total(fines, FinesOf(g)) = Total(fines', FinesOf(g))
  BY <1>1, <1>2, TotalOfSame
<1>4. f \in FinesOf(g)' /\ FinesOf(g)' \ {f} = FinesOf(g)
  OBVIOUS
<1>5. /\ Total(fines', FinesOf(g)') =
             fines'[f].amount + Total(fines', FinesOf(g)' \ {f})
      /\ Total(fines', FinesOf(g)' \ {f}) \in Nat
  BY <1>1, <1>4, TotalSteps
<1>6. fines'[f].amount \in Nat
  BY <1>1, <1>4 DEF Counts
<1>7. \A m, n \in Nat : m + n >= n
  OBVIOUS
<1>8. fines'[f].amount + Total(fines', FinesOf(g)) >= Total(fines', FinesOf(g))
  BY <1>4, <1>5, <1>6, <1>7
<1> QED
  BY <1>3, <1>4, <1>5, <1>8, RowsAreOf

LEMMA NothingWaived ==
  ASSUME NEW g
  PROVE  /\ WaiversOf(g) = {} => TotalWaived(g) = 0
         /\ WaiversOf(g)' = {} => TotalWaived(g)' = 0
  BY TotalOfNone, RowsAreOf

LEMMA OneWaiver ==
  ASSUME FinesTypeOK', NEW g, NEW w, WaiversOf(g)' = {w}
  PROVE  TotalWaived(g)' = waivers'[w].amount
<1>1. waivers' \in WaiverBooks
  BY DEF FinesTypeOK, WaiverBooks
<1>2. Counts(waivers', WaiversOf(g)')
  <2>1. Counts(waivers', RowsIn(waivers', Waivers \ stranded', g))
    BY <1>1, WaiversCount
  <2> QED
    BY <2>1, RowsAreOf
<1>3. w \in WaiversOf(g)' /\ WaiversOf(g)' \ {w} = {}
  OBVIOUS
<1>4. Total(waivers', WaiversOf(g)') =
          waivers'[w].amount + Total(waivers', WaiversOf(g)' \ {w})
  BY <1>2, <1>3, TotalSteps
<1>5. waivers'[w].amount \in Nat
  BY <1>2, <1>3 DEF Counts
<1>6. Total(waivers', {}) = 0 /\ TotalWaived(g)' = Total(waivers', WaiversOf(g)')
  BY TotalOfNone, RowsAreOf
<1> QED
  BY <1>3, <1>4, <1>5, <1>6

LEMMA TotalsStayNatural ==
  ASSUME FinesTypeOK', NEW g
  PROVE  TotalFines(g)' \in Nat
<1>1. fines' \in FineBooks
  BY DEF FinesTypeOK, FineBooks
<1>2. Counts(fines', FinesOf(g)')
  BY <1>1, FinesCount, RowsAreOf
<1> QED
  BY <1>2, TotalIsNatural, RowsAreOf

LEMMA SomethingWaived ==
  ASSUME FinesTypeOK, NEW g, WaiversOf(g) # {}
  PROVE  TotalWaived(g) > 0
<1>1. /\ Counts(waivers, WaiversOf(g))
      /\ \A x \in WaiversOf(g) : waivers[x].amount > 0
  <2>1. waivers \in WaiverBooks
    BY DEF FinesTypeOK, WaiverBooks
  <2>2. /\ Counts(waivers, RowsIn(waivers, Waivers \ stranded, g))
        /\ \A x \in RowsIn(waivers, Waivers \ stranded, g) : waivers[x].amount > 0
    BY <2>1, WaiversCount
  <2> QED
    BY <2>2, RowsAreOf
<1>2. PICK w \in WaiversOf(g) : TRUE
  OBVIOUS
<1>3. /\ Total(waivers, WaiversOf(g)) = waivers[w].amount + Total(waivers, WaiversOf(g) \ {w})
      /\ Total(waivers, WaiversOf(g) \ {w}) \in Nat
  BY <1>1, <1>2, TotalSteps
<1>4. waivers[w].amount \in Nat /\ waivers[w].amount > 0
  BY <1>1, <1>2 DEF Counts
<1>5. waivers[w].amount + Total(waivers, WaiversOf(g) \ {w}) > 0
  BY <1>3, <1>4
<1> QED
  BY <1>3, <1>5, RowsAreOf

LEMMA NoFines ==
  ASSUME NEW g, FinesOf(g) = {}
  PROVE  TotalFines(g) = 0
  BY TotalOfNone, RowsAreOf

-----------------------------------------------------------------------------
(* The inductive invariant *)

\* The steps of a waiver, and of a deletion.
Waiving(d) ==
    /\ desk[d].pc \in {"weighed", "emptied", "inserted", "judged", "granted", "linked"}
    /\ desk[d].group # None
Deleting(d) == desk[d].pc \in {"chosen", "removed", "refunded", "spared"}

\* Calls that use no transaction.
Working(d) == Waiving(d) \/ Deleting(d)

\* A credit or a waiver that is not committed yet.
Pending(d) == desk[d].pc \in {"inserted", "judged"}

FinesHaveGroups ==
    /\ \A f \in FineIds : fines[f] # None => fines[f].group \in groups
    /\ \A f \in owed : fines[f] # None

HandoutsAreNew ==
    \A d \in Desks : desk[d].pc = "fined" =>
        /\ desk[d].fine \in FineIds /\ desk[d].group \in Groups
        /\ desk[d].amount \in 0 .. 500 /\ desk[d].waiver = None
        /\ fines[desk[d].fine] = None
        /\ \A e \in Desks \ {d} : desk[e].fine # desk[d].fine
        /\ desk[d].whole =>
               /\ desk[d].group \notin groups
               /\ WaiversOf(desk[d].group) = {}
               /\ \A e \in Desks \ {d} : desk[e].group # desk[d].group

CallsHaveTheirRows ==
    \A d \in Desks :
        /\ Pending(d) \/ Waiving(d) => desk[d].amount \in FineAmounts
        /\ desk[d].pc \in {"weighed", "emptied", "granted", "linked"} \/ Deleting(d)
               => desk[d].group \in Groups
        /\ ~Waiving(d) => desk[d].waiver = None
        /\ desk[d].pc = "chosen" =>
               /\ desk[d].fine \in FineIds
               /\ fines[desk[d].fine] # None
                      => fines[desk[d].fine].group = desk[d].group

WaiversAreHeld ==
    \A d \in Desks :
        /\ desk[d].waiver # None /\ waivers[desk[d].waiver] # None
               => waivers[desk[d].waiver].group = desk[d].group
        /\ Waiving(d) /\ desk[d].pc \in {"inserted", "judged", "granted"} =>
               /\ desk[d].waiver \in Waivers
               /\ \A e \in Desks \ {d} : desk[e].waiver # desk[d].waiver
               /\ \A g \in Groups : waivedTransfer[g] # desk[d].waiver
        /\ Waiving(d) /\ Pending(d) => waivers[desk[d].waiver] = None
        /\ desk[d].pc = "granted" =>
               waivers[desk[d].waiver] =
                   [group |-> desk[d].group, amount |-> desk[d].amount]

GroupsReferToWaivers ==
    \A g \in Groups : waivedTransfer[g] # None =>
        /\ waivers[waivedTransfer[g]] # None
        /\ waivers[waivedTransfer[g]].group = g

OverlapsAreKnown ==
    \A d, e \in Desks :
        d # e /\ Working(d) /\ Working(e) /\ desk[d].group = desk[e].group
            => desk[d].group \in contended

\* What a call on a group knows of it, as long as it is the only one.
Knows(d, g) ==
    /\ desk[d].pc \in {"weighed", "linked"} => waivedTransfer[g] = desk[d].waiver
    /\ desk[d].pc \in {"emptied", "inserted", "judged"} => WaiversOf(g) = {}
    /\ desk[d].pc = "granted" => WaiversOf(g) \subseteq {desk[d].waiver}
    /\ desk[d].pc \in {"weighed", "emptied", "inserted", "judged"}
           => desk[d].amount <= TotalFines(g)
    /\ desk[d].pc \in {"chosen", "removed", "refunded"} /\ ~desk[d].whole
           => FinesOf(g) \ {desk[d].fine} # {}

CallsKnowTheirGroup ==
    \A d \in Desks, g \in Groups \ contended :
        Working(d) /\ desk[d].group = g => Knows(d, g)

CallsAreUpToDate ==
    \A d \in Desks : ~desk[d].stale =>
        /\ ~desk[d].overtaken
        /\ Waiving(d) => currentFines \in {desk[d].group, None}
        /\ Pending(d) /\ desk[d].holds => currentFines # None
        /\ desk[d].pc = "judged" => (desk[d].clears <=> balance + desk[d].amount >= 0)

FinesIInv ==
    /\ FinesTypeOK
    /\ FinesHaveGroups /\ HandoutsAreNew /\ CallsHaveTheirRows
    /\ WaiversAreHeld /\ GroupsReferToWaivers
    /\ OverlapsAreKnown /\ CallsKnowTheirGroup /\ CallsAreUpToDate
    /\ WaivedWithinFines /\ OwedIsCurrent

\* A call that keeps all but its view of the others.
Same(e) ==
    /\ desk'[e].pc = desk[e].pc /\ desk'[e].group = desk[e].group
    /\ desk'[e].fine = desk[e].fine /\ desk'[e].waiver = desk[e].waiver
    /\ desk'[e].amount = desk[e].amount /\ desk'[e].whole = desk[e].whole
    /\ desk'[e].holds = desk[e].holds /\ desk'[e].clears = desk[e].clears

\* The others, when d continues and when d makes a change.
OthersStay(d) == \A e \in Desks \ {d} : desk'[e] = desk[e]
OthersRest(d) ==
    \A e \in Desks \ {d} : Same(e) /\ (desk'[e].stale \/ desk'[e] = Resting)

LEMMA FinesStay ==
  ASSUME fines' = fines, NEW g
  PROVE  FinesOf(g)' = FinesOf(g) /\ TotalFines(g)' = TotalFines(g)
  BY DEF FinesOf, TotalFines

LEMMA WaiversStay ==
  ASSUME waivers' = waivers, stranded' = stranded, NEW g
  PROVE  WaiversOf(g)' = WaiversOf(g) /\ TotalWaived(g)' = TotalWaived(g)
  BY DEF WaiversOf, TotalWaived

LEMMA Continuing ==
  ASSUME FinesTypeOK, NEW d \in Desks, NEW STATE next, next \in DeskStates, Continue(d, next)
  PROVE  /\ desk' \in [Desks -> DeskStates]
         /\ desk'[d] = next
         /\ OthersStay(d)
  BY DEF Continue, FinesTypeOK, OthersStay

LEMMA Changing ==
  ASSUME FinesTypeOK, NEW d \in Desks, NEW STATE next, next \in DeskStates,
         NEW STATE late, Change(d, next, late)
  PROVE  /\ desk' \in [Desks -> DeskStates]
         /\ desk'[d] = next
         /\ OthersRest(d)
<1>1. Resting \in DeskStates
  BY DEF Resting, DeskStates
<1>2. ASSUME NEW e \in Desks
      PROVE  [desk[e] EXCEPT !.stale = TRUE, !.overtaken = @ \/ e \in late] \in DeskStates
  BY DEF FinesTypeOK, DeskStates
<1>3. desk' \in [Desks -> DeskStates] /\ desk'[d] = next
  BY <1>1, <1>2 DEF Change
<1>4. ASSUME NEW e \in Desks \ {d}, Busy(e)
      PROVE  Same(e) /\ desk'[e].stale
  <2>1. desk[e] \in DeskStates
    BY DEF FinesTypeOK
  <2>2. desk'[e] = [desk[e] EXCEPT !.stale = TRUE, !.overtaken = @ \/ e \in late]
    BY <1>4 DEF Change
  <2> QED
    BY <2>1, <2>2 DEF Same, DeskStates
<1>5. ASSUME NEW e \in Desks \ {d}, ~Busy(e)
      PROVE  Same(e) /\ desk'[e] = Resting
  BY <1>5 DEF Change, Busy, Same
<1> QED
  BY <1>3, <1>4, <1>5 DEF OthersRest

LEMMA RestingIsTyped ==
  /\ Resting \in DeskStates
  /\ Resting.pc = "idle" /\ Resting.group = None /\ Resting.fine = None
  /\ Resting.waiver = None /\ Resting.amount = 0
  /\ ~Resting.overtaken /\ ~Resting.stale
  BY DEF Resting, DeskStates

LEMMA FineAmount ==
  ASSUME NEW b \in RefBalances
  PROVE  CalculateFine(b) \in 0 .. 500
<1>1. b \in Int
  BY FinesAssumption
<1>2. (- b) \div 500 \in Int
  BY <1>1
<1> DEFINE fine == 100 * ((- b) \div 500)
<1>3. fine \in Int
  BY <1>2
<1> HIDE DEF fine
<1>4. CalculateFine(b) = IF fine < 0 THEN 0 ELSE IF fine > 500 THEN 500 ELSE fine
  BY DEF CalculateFine, fine
<1> QED
  BY <1>3, <1>4

\* The only call on a group holds its waivers.
LEMMA HeldByOne ==
  ASSUME FinesIInv, NEW d \in Desks, Working(d), NEW g \in Groups \ contended,
         desk[d].group = g
  PROVE  WaiversOf(g) \subseteq {waivedTransfer[g], desk[d].waiver}
<1> USE FinesAssumption DEF FinesIInv
<1> SUFFICES ASSUME NEW w \in WaiversOf(g), w # waivedTransfer[g]
             PROVE  w = desk[d].waiver
  OBVIOUS
<1>1. PICK e \in Desks : desk[e].waiver = w
  BY DEF WaivedWithinFines
<1>2. w \in Waivers /\ w # None /\ waivers[w] # None /\ waivers[w].group = g
  BY DEF WaiversOf
<1>3. desk[e].group = g /\ Working(e)
  BY <1>1, <1>2 DEF WaiversAreHeld, CallsHaveTheirRows, Working
<1> QED
  BY <1>1, <1>3 DEF OverlapsAreKnown

LEMMA InsertCreditInv ==
  ASSUME FinesIInv, NEW d \in Desks, NEW a \in FineAmounts, InsertCredit(d, a)
  PROVE  FinesIInv'
<1> USE FinesAssumption DEF FinesIInv
<1> DEFINE next == [Resting EXCEPT !.pc = "inserted", !.amount = a,
                        !.holds = currentFines # None, !.before = Inserted]
<1>1. Continue(d, next)
  BY DEF InsertCredit
<1>2. /\ next \in DeskStates
      /\ next.pc = "inserted"
      /\ next.group = None
      /\ next.fine = None
      /\ next.waiver = None
      /\ next.amount = a
      /\ ~next.whole
      /\ next.holds = (currentFines # None)
      /\ ~next.overtaken
      /\ ~next.clears
      /\ ~next.stale
  <2>1. Resting \in DeskStates
    BY RestingIsTyped
  <2>2. Inserted \in SUBSET Desks
    BY DEF Inserted
  <2>3. a \in Nat
    OBVIOUS
  <2>4. (currentFines # None) \in BOOLEAN
    OBVIOUS
  <2> QED
    BY <2>1, <2>2, <2>3, <2>4 DEF DeskStates, Resting
<1> HIDE DEF next
<1>3. /\ desk' \in [Desks -> DeskStates]
      /\ desk'[d] = next
      /\ OthersStay(d)
  BY <1>1, <1>2, Continuing
<1>4. UNCHANGED <<balance, fines, charges, groups, currentFines, waivers, waivedTransfer>>
  BY DEF InsertCredit, books
<1>5. UNCHANGED <<owed, contended, stranded, fineFaults>>
  BY DEF InsertCredit, books
<1>6. desk[d] = Resting
  BY DEF InsertCredit, Busy
<1>7. \A g \in Groups : /\ FinesOf(g)' = FinesOf(g) /\ TotalFines(g)' = TotalFines(g)
                        /\ WaiversOf(g)' = WaiversOf(g) /\ TotalWaived(g)' = TotalWaived(g)
  BY FinesStay, WaiversStay DEF InsertCredit, books
<1>8. FinesTypeOK'
  BY <1>3, <1>4, <1>5 DEF FinesTypeOK, FineRows, WaiverRows
<1>9. FinesHaveGroups'
  BY <1>4, <1>5 DEF FinesHaveGroups, FinesTypeOK
<1>10. HandoutsAreNew'
  BY <1>5, <1>2, <1>3, <1>4, <1>6 DEF HandoutsAreNew, FinesTypeOK, WaiversOf, OthersStay,
     Resting
<1>11. CallsHaveTheirRows'
  BY <1>2, <1>3, <1>4, <1>6 DEF CallsHaveTheirRows, HandoutsAreNew, FinesTypeOK,
     OthersStay, Resting, Waiving, Deleting, Pending
<1>12. WaiversAreHeld'
  BY <1>2, <1>3, <1>4, <1>6 DEF WaiversAreHeld, CallsHaveTheirRows, FinesTypeOK,
     OthersStay, Resting, Waiving, Deleting, Pending
<1>13. GroupsReferToWaivers'
  BY <1>4 DEF GroupsReferToWaivers, FinesTypeOK
<1>14. OverlapsAreKnown'
  BY <1>2, <1>3, <1>5 DEF OverlapsAreKnown, CallsHaveTheirRows, FinesTypeOK, OthersStay,
     Waiving, Deleting, Pending, Working
<1>15. CallsKnowTheirGroup'
  <2>1. ASSUME NEW e \in Desks \ {d}, NEW g \in Groups \ contended',
               Working(e)', desk'[e].group = g
        PROVE  Knows(e, g)'
    <3>1. Working(e) /\ desk[e].group = g /\ g \notin contended
      BY <1>3, <1>5, <2>1 DEF OthersStay, Waiving, Deleting, Working
    <3>2. Knows(e, g)
      BY <3>1 DEF CallsKnowTheirGroup
    <3> QED
      BY <1>3, <1>4, <1>7, <3>2 DEF Knows, OthersStay
  <2>2. ASSUME NEW g \in Groups \ contended', Working(d)', desk'[d].group = g
        PROVE  Knows(d, g)'
    BY <1>2, <1>3, <2>2
  <2> QED
    BY <2>1, <2>2 DEF CallsKnowTheirGroup
<1>16. CallsAreUpToDate'
  BY <1>2, <1>3, <1>4, <1>5, <1>6, <1>7 DEF CallsAreUpToDate, CallsHaveTheirRows,
     FinesTypeOK, Same, OthersStay, OthersRest, Resting, Waiving, Deleting, Pending,
     Working
<1>17. WaivedWithinFines'
  <2> SUFFICES ASSUME NEW g \in Groups \ contended'
               PROVE  /\ \A w \in WaiversOf(g)' :
                             w = waivedTransfer'[g] \/ \E e \in Desks : desk'[e].waiver = w
                      /\ TotalWaived(g)' <= TotalFines(g)'
    BY DEF WaivedWithinFines
  <2>1. ASSUME NEW w \in WaiversOf(g)'
        PROVE  w = waivedTransfer'[g] \/ \E e \in Desks : desk'[e].waiver = w
    <3>1. \/ w = waivedTransfer'[g]
          \/ \E e \in Desks \ {d} : desk[e].waiver = w
          \/ w = desk[d].waiver /\ w # None
      BY <1>4, <1>5, <1>6 DEF WaivedWithinFines, WaiversOf
    <3>2. CASE \E e \in Desks \ {d} : desk[e].waiver = w
      BY <1>3, <1>4, <3>2 DEF OthersStay
    <3>3. CASE w = desk[d].waiver /\ w # None /\ w # waivedTransfer'[g]
      BY <1>6, <3>3 DEF Resting
    <3> QED
      BY <3>1, <3>2, <3>3
  <2>2. TotalWaived(g)' <= TotalFines(g)'
    BY <1>5, <1>7 DEF WaivedWithinFines
  <2> QED
    BY <2>1, <2>2
<1>18. OwedIsCurrent'
  <2>1. ASSUME NEW x \in owed' PROVE fines'[x].group \in {currentFines'} \cup contended'
    BY <1>4, <1>5 DEF OwedIsCurrent, FinesTypeOK
  <2>2. \/ currentFines' \in {None} \cup contended'
        \/ FinesOf(currentFines)' # {}
        \/ \E e \in Desks :
               desk'[e].pc \in {"removed", "refunded"} /\ desk'[e].group = currentFines'
    <3>1. ASSUME currentFines # None, currentFines \notin contended', FinesOf(currentFines) = {}
          PROVE  \E e \in Desks :
                     desk'[e].pc \in {"removed", "refunded"} /\ desk'[e].group = currentFines
      <4>1. PICK e \in Desks : /\ desk[e].pc \in {"removed", "refunded"}
                               /\ desk[e].group = currentFines
        BY <1>5, <3>1 DEF OwedIsCurrent
      <4> QED
        BY <1>2, <1>3, <1>6, <4>1 DEF OthersStay, Resting
    <3> QED
      BY <1>3, <1>4, <1>5, <3>1 DEF FinesOf
  <2> QED
    BY <2>1, <2>2 DEF OwedIsCurrent
<1> QED
  BY <1>8, <1>9, <1>10, <1>11, <1>12, <1>13, <1>14, <1>15, <1>16, <1>17, <1>18

LEMMA JudgeInv ==
  ASSUME FinesIInv, NEW d \in Desks, Judge(d)
  PROVE  FinesIInv'
<1> USE FinesAssumption DEF FinesIInv
<1> DEFINE next == [desk[d] EXCEPT !.pc = "judged",
           !.clears = balance + (IF desk[d].overtaken THEN 0 ELSE desk[d].amount) >= 0]
<1>1. Continue(d, next)
  BY DEF Judge
<1>2. /\ next \in DeskStates
      /\ next.pc = "judged"
      /\ next.group = desk[d].group
      /\ next.fine = desk[d].fine
      /\ next.waiver = desk[d].waiver
      /\ next.amount = desk[d].amount
      /\ next.whole = desk[d].whole
      /\ next.holds = desk[d].holds
      /\ next.overtaken = desk[d].overtaken
      /\ next.clears = (balance + (IF desk[d].overtaken THEN 0 ELSE desk[d].amount) >= 0)
      /\ next.stale = desk[d].stale
  <2>1. desk[d] \in DeskStates
    BY DEF FinesTypeOK
  <2>2. (balance + (IF desk[d].overtaken THEN 0 ELSE desk[d].amount) >= 0) \in BOOLEAN
    OBVIOUS
  <2> QED
    BY <2>1, <2>2 DEF DeskStates
<1> HIDE DEF next
<1>3. /\ desk' \in [Desks -> DeskStates]
      /\ desk'[d] = next
      /\ OthersStay(d)
  BY <1>1, <1>2, Continuing
<1>4. UNCHANGED <<balance, fines, charges, groups, currentFines, waivers, waivedTransfer>>
  BY DEF Judge, books
<1>5. UNCHANGED <<owed, contended, stranded, fineFaults>>
  BY DEF Judge, books
<1>6. desk[d].pc = "inserted"
  BY DEF Judge
<1>7. \A g \in Groups : /\ FinesOf(g)' = FinesOf(g) /\ TotalFines(g)' = TotalFines(g)
                        /\ WaiversOf(g)' = WaiversOf(g) /\ TotalWaived(g)' = TotalWaived(g)
  BY FinesStay, WaiversStay DEF Judge, books
<1>8. FinesTypeOK'
  BY <1>2, <1>3, <1>4, <1>5, <1>6 DEF FinesTypeOK, FineRows, WaiverRows
<1>9. FinesHaveGroups'
  BY <1>4, <1>5 DEF FinesHaveGroups, FinesTypeOK
<1>10. HandoutsAreNew'
  BY <1>5, <1>2, <1>3, <1>4, <1>6 DEF HandoutsAreNew, FinesTypeOK, WaiversOf, OthersStay
<1>11. CallsHaveTheirRows'
  BY <1>2, <1>3, <1>4, <1>6 DEF CallsHaveTheirRows, HandoutsAreNew, FinesTypeOK,
     OthersStay, Waiving, Deleting, Pending
<1>12. WaiversAreHeld'
  BY <1>2, <1>3, <1>4, <1>6 DEF WaiversAreHeld, CallsHaveTheirRows, FinesTypeOK,
     OthersStay, Waiving, Deleting, Pending
<1>13. GroupsReferToWaivers'
  BY <1>4 DEF GroupsReferToWaivers, FinesTypeOK
<1>14. OverlapsAreKnown'
  BY <1>2, <1>3, <1>5, <1>6 DEF OverlapsAreKnown, CallsHaveTheirRows, FinesTypeOK,
     OthersStay, Waiving, Deleting, Pending, Working
<1>15. CallsKnowTheirGroup'
  <2>1. ASSUME NEW e \in Desks \ {d}, NEW g \in Groups \ contended',
               Working(e)', desk'[e].group = g
        PROVE  Knows(e, g)'
    <3>1. Working(e) /\ desk[e].group = g /\ g \notin contended
      BY <1>3, <1>5, <2>1 DEF OthersStay, Waiving, Deleting, Working
    <3>2. Knows(e, g)
      BY <3>1 DEF CallsKnowTheirGroup
    <3> QED
      BY <1>3, <1>4, <1>7, <3>2 DEF Knows, OthersStay
  <2>2. ASSUME NEW g \in Groups \ contended', Working(d)', desk'[d].group = g
        PROVE  Knows(d, g)'
    <3>1. Knows(d, g)
      BY <1>2, <1>3, <1>4, <1>5, <1>6, <1>7, <2>2 DEF CallsKnowTheirGroup, Same,
         OthersStay, OthersRest, Resting, Waiving, Deleting, Pending, Working
    <3> QED
      BY <1>2, <1>3, <1>4, <1>6, <1>7, <3>1 DEF Knows
  <2> QED
    BY <2>1, <2>2 DEF CallsKnowTheirGroup
<1>16. CallsAreUpToDate'
  <2> DEFINE UpToDate(e) ==
        ~desk[e].stale =>
            /\ ~desk[e].overtaken
            /\ Waiving(e) => currentFines \in {desk[e].group, None}
            /\ Pending(e) /\ desk[e].holds => currentFines # None
            /\ desk[e].pc = "judged" => (desk[e].clears <=> balance + desk[e].amount >= 0)
  <2>1. \A e \in Desks : UpToDate(e)
    BY DEF CallsAreUpToDate
  <2>2. ASSUME NEW e \in Desks \ {d} PROVE UpToDate(e)'
    <3>1. desk'[e] = desk[e]
      BY <1>3 DEF OthersStay
    <3> QED
      BY <1>4, <2>1, <3>1 DEF Waiving, Pending
  <2>3. UpToDate(d)'
    <3>1. UpToDate(d)
      BY <2>1
    <3> QED
      BY <1>2, <1>3, <1>4, <1>6, <3>1 DEF Waiving, Pending
  <2> QED
    BY <2>2, <2>3 DEF CallsAreUpToDate
<1>17. WaivedWithinFines'
  <2> SUFFICES ASSUME NEW g \in Groups \ contended'
               PROVE  /\ \A w \in WaiversOf(g)' :
                             w = waivedTransfer'[g] \/ \E e \in Desks : desk'[e].waiver = w
                      /\ TotalWaived(g)' <= TotalFines(g)'
    BY DEF WaivedWithinFines
  <2>1. ASSUME NEW w \in WaiversOf(g)'
        PROVE  w = waivedTransfer'[g] \/ \E e \in Desks : desk'[e].waiver = w
    <3>1. \/ w = waivedTransfer'[g]
          \/ \E e \in Desks \ {d} : desk[e].waiver = w
          \/ w = desk[d].waiver /\ w # None
      BY <1>4, <1>5 DEF WaivedWithinFines, WaiversOf
    <3>2. CASE \E e \in Desks \ {d} : desk[e].waiver = w
      BY <1>3, <1>4, <3>2 DEF OthersStay
    <3>3. CASE w = desk[d].waiver /\ w # None /\ w # waivedTransfer'[g]
      BY <1>2, <1>3, <1>4, <3>3
    <3> QED
      BY <3>1, <3>2, <3>3
  <2>2. TotalWaived(g)' <= TotalFines(g)'
    BY <1>5, <1>7 DEF WaivedWithinFines
  <2> QED
    BY <2>1, <2>2
<1>18. OwedIsCurrent'
  <2>1. ASSUME NEW x \in owed' PROVE fines'[x].group \in {currentFines'} \cup contended'
    BY <1>4, <1>5 DEF OwedIsCurrent, FinesTypeOK
  <2>2. \/ currentFines' \in {None} \cup contended'
        \/ FinesOf(currentFines)' # {}
        \/ \E e \in Desks :
               desk'[e].pc \in {"removed", "refunded"} /\ desk'[e].group = currentFines'
    <3>1. ASSUME currentFines # None, currentFines \notin contended', FinesOf(currentFines) = {}
          PROVE  \E e \in Desks :
                     desk'[e].pc \in {"removed", "refunded"} /\ desk'[e].group = currentFines
      <4>1. PICK e \in Desks : /\ desk[e].pc \in {"removed", "refunded"}
                               /\ desk[e].group = currentFines
        BY <1>5, <3>1 DEF OwedIsCurrent
      <4> QED
        BY <1>2, <1>3, <1>6, <4>1 DEF OthersStay
    <3> QED
      BY <1>3, <1>4, <1>5, <3>1 DEF FinesOf
  <2> QED
    BY <2>1, <2>2 DEF OwedIsCurrent
<1> QED
  BY <1>8, <1>9, <1>10, <1>11, <1>12, <1>13, <1>14, <1>15, <1>16, <1>17, <1>18

LEMMA RollBackInv ==
  ASSUME FinesIInv, NEW d \in Desks, RollBack(d)
  PROVE  FinesIInv'
<1> USE FinesAssumption DEF FinesIInv
<1>1. Continue(d, Resting)
  BY DEF RollBack
<1>2. /\ desk' \in [Desks -> DeskStates]
      /\ desk'[d] = Resting
      /\ OthersStay(d)
  BY <1>1, RestingIsTyped, Continuing
<1>3. UNCHANGED <<balance, fines, charges, groups, currentFines, waivers, waivedTransfer>>
  BY DEF RollBack, books
<1>4. UNCHANGED <<owed, contended, stranded, fineFaults>>
  BY DEF RollBack, books
<1>5. Pending(d) \/ desk[d].pc = "fined"
  BY DEF RollBack, Inserted, Pending
<1>6. \A g \in Groups : /\ FinesOf(g)' = FinesOf(g) /\ TotalFines(g)' = TotalFines(g)
                        /\ WaiversOf(g)' = WaiversOf(g) /\ TotalWaived(g)' = TotalWaived(g)
  BY FinesStay, WaiversStay DEF RollBack, books
<1>7. FinesTypeOK'
  BY <1>2, <1>3, <1>4 DEF FinesTypeOK, FineRows, WaiverRows
<1>8. FinesHaveGroups'
  BY <1>3, <1>4 DEF FinesHaveGroups, FinesTypeOK
<1>9. HandoutsAreNew'
  BY <1>1, <1>2, <1>3, <1>4, <1>5, <1>6 DEF HandoutsAreNew, FinesTypeOK,
     FinesHaveGroups, WaiversOf, Same, OthersStay, OthersRest, Resting, Waiving,
     Deleting, Pending, Working
<1>10. CallsHaveTheirRows'
  BY <1>1, <1>2, <1>3 DEF CallsHaveTheirRows, HandoutsAreNew, FinesTypeOK, OthersStay,
     Resting, Waiving, Deleting, Pending
<1>11. WaiversAreHeld'
  BY <1>1, <1>2, <1>3, <1>5 DEF WaiversAreHeld, CallsHaveTheirRows, FinesTypeOK,
     OthersStay, Resting, Waiving, Deleting, Pending
<1>12. GroupsReferToWaivers'
  BY <1>3 DEF GroupsReferToWaivers, FinesTypeOK
<1>13. OverlapsAreKnown'
  BY <1>1, <1>2, <1>4 DEF OverlapsAreKnown, CallsHaveTheirRows, HandoutsAreNew,
     FinesTypeOK, OthersStay, Resting, Waiving, Deleting, Pending, Working
<1>14. CallsKnowTheirGroup'
  <2>1. ASSUME NEW e \in Desks \ {d}, NEW g \in Groups \ contended',
               Working(e)', desk'[e].group = g
        PROVE  Knows(e, g)'
    <3>1. Working(e) /\ desk[e].group = g /\ g \notin contended
      BY <1>2, <1>4, <2>1 DEF OthersStay, Waiving, Deleting, Working
    <3>2. Knows(e, g)
      BY <3>1 DEF CallsKnowTheirGroup
    <3> QED
      BY <1>2, <1>3, <1>6, <3>2 DEF Knows, OthersStay
  <2>2. ASSUME NEW g \in Groups \ contended', Working(d)', desk'[d].group = g
        PROVE  Knows(d, g)'
    BY <1>2 DEF Knows, Resting
  <2> QED
    BY <2>1, <2>2 DEF CallsKnowTheirGroup
<1>15. CallsAreUpToDate'
  BY <1>1, <1>2, <1>3, <1>4, <1>5, <1>6 DEF CallsAreUpToDate, CallsHaveTheirRows,
     FinesTypeOK, OthersStay, Resting, Waiving, Deleting, Pending, Working
<1>16. WaivedWithinFines'
  <2> SUFFICES ASSUME NEW g \in Groups \ contended'
               PROVE  /\ \A w \in WaiversOf(g)' :
                             w = waivedTransfer'[g] \/ \E e \in Desks : desk'[e].waiver = w
                      /\ TotalWaived(g)' <= TotalFines(g)'
    BY DEF WaivedWithinFines
  <2>1. ASSUME NEW w \in WaiversOf(g)'
        PROVE  w = waivedTransfer'[g] \/ \E e \in Desks : desk'[e].waiver = w
    <3>1. \/ w = waivedTransfer'[g]
          \/ \E e \in Desks \ {d} : desk[e].waiver = w
          \/ w = desk[d].waiver /\ w # None
      BY <1>3, <1>4 DEF WaivedWithinFines, WaiversOf
    <3>2. CASE \E e \in Desks \ {d} : desk[e].waiver = w
      BY <1>2, <1>3, <3>2 DEF OthersStay
    <3>3. CASE w = desk[d].waiver /\ w # None /\ w # waivedTransfer'[g]
      BY <1>1, <1>2, <1>3, <1>4, <1>5, <1>6, <2>1, <3>3 DEF CallsHaveTheirRows,
         WaiversAreHeld, WaiversOf, Same, OthersStay, OthersRest, Resting, Waiving,
         Deleting, Pending, Working
    <3> QED
      BY <3>1, <3>2, <3>3
  <2>2. TotalWaived(g)' <= TotalFines(g)'
    BY <1>4, <1>6 DEF WaivedWithinFines
  <2> QED
    BY <2>1, <2>2
<1>17. OwedIsCurrent'
  <2>1. ASSUME NEW x \in owed' PROVE fines'[x].group \in {currentFines'} \cup contended'
    BY <1>3, <1>4 DEF OwedIsCurrent, FinesTypeOK
  <2>2. \/ currentFines' \in {None} \cup contended'
        \/ FinesOf(currentFines)' # {}
        \/ \E e \in Desks :
               desk'[e].pc \in {"removed", "refunded"} /\ desk'[e].group = currentFines'
    <3>1. ASSUME currentFines # None, currentFines \notin contended', FinesOf(currentFines) = {}
          PROVE  \E e \in Desks :
                     desk'[e].pc \in {"removed", "refunded"} /\ desk'[e].group = currentFines
      <4>1. PICK e \in Desks : /\ desk[e].pc \in {"removed", "refunded"}
                               /\ desk[e].group = currentFines
        BY <1>4, <3>1 DEF OwedIsCurrent
      <4> QED
        BY <1>1, <1>2, <1>5, <4>1 DEF OthersStay, Resting, Pending
    <3> QED
      BY <1>2, <1>3, <1>4, <3>1 DEF FinesOf
  <2> QED
    BY <2>1, <2>2 DEF OwedIsCurrent
<1> QED
  BY <1>7, <1>8, <1>9, <1>10, <1>11, <1>12, <1>13, <1>14, <1>15, <1>16, <1>17

LEMMA WeighInv ==
  ASSUME FinesIInv, NEW d \in Desks, NEW a \in FineAmounts, Weigh(d, a)
  PROVE  FinesIInv'
<1> USE FinesAssumption DEF FinesIInv
<1> DEFINE next == [Resting EXCEPT !.pc = "weighed", !.group = currentFines,
           !.amount = a, !.waiver = waivedTransfer[currentFines],
           !.known = FinesOf(currentFines), !.whole = a = TotalFines(currentFines)]
<1>1. Continue(d, next)
  BY DEF Weigh, Overlap
<1>2. /\ next \in DeskStates
      /\ next.pc = "weighed"
      /\ next.group = currentFines
      /\ next.fine = None
      /\ next.waiver = waivedTransfer[currentFines]
      /\ next.amount = a
      /\ next.whole = (a = TotalFines(currentFines))
      /\ ~next.holds
      /\ ~next.overtaken
      /\ ~next.clears
      /\ ~next.stale
  <2>1. Resting \in DeskStates
    BY RestingIsTyped
  <2>2. (a = TotalFines(currentFines)) \in BOOLEAN
    OBVIOUS
  <2>3. currentFines \in Groups /\ waivedTransfer[currentFines] \in Waivers \cup {None} /\ a \in Nat
    BY DEF Weigh, FinesTypeOK
  <2>4. FinesOf(currentFines) \in SUBSET FineIds
    BY DEF FinesOf
  <2> QED
    BY <2>1, <2>2, <2>3, <2>4 DEF DeskStates, Resting
<1> HIDE DEF next
<1>3. /\ desk' \in [Desks -> DeskStates]
      /\ desk'[d] = next
      /\ OthersStay(d)
  BY <1>1, <1>2, Continuing
<1>4. UNCHANGED <<balance, fines, charges, groups, currentFines, waivers,
                 waivedTransfer, owed, stranded, fineFaults>>
  BY DEF Weigh, Overlap, books
<1>5. desk[d] = Resting
  BY DEF Weigh, Busy
<1>6. currentFines \in groups \ {None} /\ a <= TotalFines(currentFines)
  BY DEF Weigh, FinesTypeOK
<1>7. contended \subseteq contended' /\ contended' \subseteq contended \cup {currentFines}
  BY DEF Weigh, Overlap, books
<1>8. \A e \in Desks \ {d} :
           desk[e].group = currentFines /\ desk[e].pc # "fined"
               => currentFines \in contended'
  BY DEF Weigh, Overlap, books
<1>9. \A g \in Groups : /\ FinesOf(g)' = FinesOf(g) /\ TotalFines(g)' = TotalFines(g)
                        /\ WaiversOf(g)' = WaiversOf(g) /\ TotalWaived(g)' = TotalWaived(g)
  BY FinesStay, WaiversStay DEF Weigh, books
<1>10. FinesTypeOK'
  BY <1>3, <1>4, <1>6, <1>7 DEF FinesTypeOK, FineRows, WaiverRows
<1>11. FinesHaveGroups'
  BY <1>4 DEF FinesHaveGroups, FinesTypeOK
<1>12. HandoutsAreNew'
  BY <1>2, <1>3, <1>4, <1>5, <1>6, <1>7 DEF HandoutsAreNew, FinesTypeOK, WaiversOf,
     OthersStay, Resting
<1>13. CallsHaveTheirRows'
  BY <1>2, <1>3, <1>4, <1>5, <1>6, <1>7 DEF CallsHaveTheirRows, HandoutsAreNew,
     FinesTypeOK, OthersStay, Resting, Waiving, Deleting, Pending
<1>14. WaiversAreHeld'
  BY <1>2, <1>3, <1>4, <1>5, <1>6, <1>7, <1>8 DEF WaiversAreHeld, GroupsReferToWaivers,
     CallsHaveTheirRows, FinesTypeOK, OthersStay, Resting, Waiving, Deleting, Pending
<1>15. GroupsReferToWaivers'
  BY <1>4 DEF GroupsReferToWaivers, FinesTypeOK
<1>16. OverlapsAreKnown'
  BY <1>2, <1>3, <1>5, <1>7, <1>8 DEF OverlapsAreKnown, HandoutsAreNew, FinesTypeOK,
     OthersStay, Resting, Waiving, Deleting, Working
<1>17. CallsKnowTheirGroup'
  <2>1. ASSUME NEW e \in Desks \ {d}, NEW g \in Groups \ contended',
               Working(e)', desk'[e].group = g
        PROVE  Knows(e, g)'
    <3>1. Working(e) /\ desk[e].group = g /\ g \notin contended
      BY <1>3, <1>7, <2>1 DEF OthersStay, Waiving, Deleting, Working
    <3>2. Knows(e, g)
      BY <3>1 DEF CallsKnowTheirGroup
    <3> QED
      BY <1>3, <1>4, <1>9, <3>2 DEF Knows, OthersStay
  <2>2. ASSUME NEW g \in Groups \ contended', Working(d)', desk'[d].group = g
        PROVE  Knows(d, g)'
    BY <1>2, <1>3, <1>4, <1>5, <1>6, <1>7, <1>8, <1>9, <2>2 DEF Knows,
       CallsHaveTheirRows, Resting, Waiving, Deleting, Working
  <2> QED
    BY <2>1, <2>2 DEF CallsKnowTheirGroup
<1>18. CallsAreUpToDate'
  BY <1>2, <1>3, <1>4, <1>5, <1>7, <1>8 DEF CallsAreUpToDate, CallsHaveTheirRows,
     FinesTypeOK, OthersStay, Resting, Waiving, Deleting, Pending
<1>19. WaivedWithinFines'
  <2> SUFFICES ASSUME NEW g \in Groups \ contended'
               PROVE  /\ \A w \in WaiversOf(g)' :
                             w = waivedTransfer'[g] \/ \E e \in Desks : desk'[e].waiver = w
                      /\ TotalWaived(g)' <= TotalFines(g)'
    BY DEF WaivedWithinFines
  <2>1. ASSUME NEW w \in WaiversOf(g)'
        PROVE  w = waivedTransfer'[g] \/ \E e \in Desks : desk'[e].waiver = w
    <3>1. \/ w = waivedTransfer'[g]
          \/ \E e \in Desks \ {d} : desk[e].waiver = w
          \/ w = desk[d].waiver /\ w # None
      BY <1>4, <1>5, <1>7 DEF WaivedWithinFines, WaiversOf
    <3>2. CASE \E e \in Desks \ {d} : desk[e].waiver = w
      BY <1>3, <1>4, <3>2 DEF OthersStay
    <3>3. CASE w = desk[d].waiver /\ w # None /\ w # waivedTransfer'[g]
      BY <1>5, <3>3 DEF Resting
    <3> QED
      BY <3>1, <3>2, <3>3
  <2>2. TotalWaived(g)' <= TotalFines(g)'
    BY <1>7, <1>9 DEF WaivedWithinFines
  <2> QED
    BY <2>1, <2>2
<1>20. OwedIsCurrent'
  <2>1. ASSUME NEW x \in owed' PROVE fines'[x].group \in {currentFines'} \cup contended'
    BY <1>4, <1>7 DEF OwedIsCurrent, FinesTypeOK
  <2>2. \/ currentFines' \in {None} \cup contended'
        \/ FinesOf(currentFines)' # {}
        \/ \E e \in Desks :
               desk'[e].pc \in {"removed", "refunded"} /\ desk'[e].group = currentFines'
    <3>1. ASSUME currentFines # None, currentFines \notin contended', FinesOf(currentFines) = {}
          PROVE  \E e \in Desks :
                     desk'[e].pc \in {"removed", "refunded"} /\ desk'[e].group = currentFines
      <4>1. PICK e \in Desks : /\ desk[e].pc \in {"removed", "refunded"}
                               /\ desk[e].group = currentFines
        BY <1>7, <3>1 DEF OwedIsCurrent
      <4> QED
        BY <1>3, <1>5, <1>6, <1>7, <4>1 DEF OthersStay, Resting
    <3> QED
      BY <1>3, <1>4, <1>6, <3>1 DEF FinesOf
  <2> QED
    BY <2>1, <2>2 DEF OwedIsCurrent
<1> QED
  BY <1>10, <1>11, <1>12, <1>13, <1>14, <1>15, <1>16, <1>17, <1>18, <1>19, <1>20

LEMMA ChooseInv ==
  ASSUME FinesIInv, NEW d \in Desks, NEW f \in FineIds, Choose(d, f)
  PROVE  FinesIInv'
<1> USE FinesAssumption DEF FinesIInv
<1> DEFINE next == [Resting EXCEPT !.pc = "chosen", !.fine = f,
           !.group = fines[f].group, !.amount = fines[f].amount,
           !.whole = FinesOf(fines[f].group) = {f}]
<1>1. Continue(d, next)
  BY DEF Choose, Overlap
<1>2. /\ next \in DeskStates
      /\ next.pc = "chosen"
      /\ next.group = fines[f].group
      /\ next.fine = f
      /\ next.waiver = None
      /\ next.amount = fines[f].amount
      /\ next.whole = (FinesOf(fines[f].group) = {f})
      /\ ~next.holds
      /\ ~next.overtaken
      /\ ~next.clears
      /\ ~next.stale
  <2>1. Resting \in DeskStates
    BY RestingIsTyped
  <2>2. (FinesOf(fines[f].group) = {f}) \in BOOLEAN
    OBVIOUS
  <2>3. fines[f].group \in Groups /\ fines[f].amount \in Nat
    BY DEF Choose, FinesTypeOK, FineRows
  <2> QED
    BY <2>1, <2>2, <2>3 DEF DeskStates, Resting
<1> HIDE DEF next
<1>3. /\ desk' \in [Desks -> DeskStates]
      /\ desk'[d] = next
      /\ OthersStay(d)
  BY <1>1, <1>2, Continuing
<1>4. UNCHANGED <<balance, fines, charges, groups, currentFines, waivers,
                 waivedTransfer, owed, stranded, fineFaults>>
  BY DEF Choose, Overlap, books
<1>5. desk[d] = Resting
  BY DEF Choose, Busy
<1>6. fines[f] # None /\ fines[f].group \in groups
  BY DEF Choose, FinesTypeOK, FinesHaveGroups
<1>7. contended \subseteq contended' /\ contended' \subseteq contended \cup {fines[f].group}
  BY DEF Choose, Overlap, books
<1>8. \A e \in Desks \ {d} :
           desk[e].group = fines[f].group /\ desk[e].pc # "fined"
               => fines[f].group \in contended'
  BY DEF Choose, Overlap, books
<1>9. \A g \in Groups : /\ FinesOf(g)' = FinesOf(g) /\ TotalFines(g)' = TotalFines(g)
                        /\ WaiversOf(g)' = WaiversOf(g) /\ TotalWaived(g)' = TotalWaived(g)
  BY FinesStay, WaiversStay DEF Choose, books
<1>10. FinesTypeOK'
  BY <1>2, <1>3, <1>4, <1>6, <1>7 DEF FinesTypeOK, FineRows, WaiverRows
<1>11. FinesHaveGroups'
  BY <1>4 DEF FinesHaveGroups, FinesTypeOK
<1>12. HandoutsAreNew'
  BY <1>2, <1>3, <1>4, <1>5, <1>6, <1>7 DEF HandoutsAreNew, FinesTypeOK, WaiversOf,
     OthersStay, Resting
<1>13. CallsHaveTheirRows'
  BY <1>2, <1>3, <1>4, <1>5, <1>6, <1>7 DEF CallsHaveTheirRows, HandoutsAreNew,
     FinesTypeOK, OthersStay, Resting, Waiving, Deleting, Pending
<1>14. WaiversAreHeld'
  BY <1>2, <1>3, <1>4, <1>5, <1>7, <1>8 DEF WaiversAreHeld, CallsHaveTheirRows,
     FinesTypeOK, OthersStay, Resting, Waiving, Deleting, Pending
<1>15. GroupsReferToWaivers'
  BY <1>4 DEF GroupsReferToWaivers, FinesTypeOK
<1>16. OverlapsAreKnown'
  BY <1>2, <1>3, <1>5, <1>7, <1>8 DEF OverlapsAreKnown, HandoutsAreNew, FinesTypeOK,
     OthersStay, Resting, Waiving, Deleting, Working
<1>17. CallsKnowTheirGroup'
  <2>1. ASSUME NEW e \in Desks \ {d}, NEW g \in Groups \ contended',
               Working(e)', desk'[e].group = g
        PROVE  Knows(e, g)'
    <3>1. Working(e) /\ desk[e].group = g /\ g \notin contended
      BY <1>3, <1>7, <2>1 DEF OthersStay, Waiving, Deleting, Working
    <3>2. Knows(e, g)
      BY <3>1 DEF CallsKnowTheirGroup
    <3> QED
      BY <1>3, <1>4, <1>9, <3>2 DEF Knows, OthersStay
  <2>2. ASSUME NEW g \in Groups \ contended', Working(d)', desk'[d].group = g
        PROVE  Knows(d, g)'
    <3>1. f \in FinesOf(g) /\ fines[f].group = g
      BY <1>2, <1>3, <1>4, <1>5, <1>6, <1>7, <1>8, <1>9, <2>2 DEF FinesOf
    <3>2. FinesOf(g) = {f} => desk'[d].whole
      BY <1>2, <1>3, <1>4, <1>5, <1>6, <1>7, <1>8, <1>9, <3>1
    <3>3. ~desk'[d].whole => FinesOf(g)' \ {desk'[d].fine} # {}
      BY <1>3, <1>9, <3>1, <3>2
    <3> QED
      BY <1>2, <1>3, <1>4, <1>7, <1>8, <3>3 DEF Knows
  <2> QED
    BY <2>1, <2>2 DEF CallsKnowTheirGroup
<1>18. CallsAreUpToDate'
  BY <1>2, <1>3, <1>4, <1>5, <1>7, <1>8 DEF CallsAreUpToDate, CallsHaveTheirRows,
     FinesTypeOK, OthersStay, Resting, Waiving, Deleting, Pending
<1>19. WaivedWithinFines'
  <2> SUFFICES ASSUME NEW g \in Groups \ contended'
               PROVE  /\ \A w \in WaiversOf(g)' :
                             w = waivedTransfer'[g] \/ \E e \in Desks : desk'[e].waiver = w
                      /\ TotalWaived(g)' <= TotalFines(g)'
    BY DEF WaivedWithinFines
  <2>1. ASSUME NEW w \in WaiversOf(g)'
        PROVE  w = waivedTransfer'[g] \/ \E e \in Desks : desk'[e].waiver = w
    <3>1. \/ w = waivedTransfer'[g]
          \/ \E e \in Desks \ {d} : desk[e].waiver = w
          \/ w = desk[d].waiver /\ w # None
      BY <1>4, <1>5, <1>7 DEF WaivedWithinFines, WaiversOf
    <3>2. CASE \E e \in Desks \ {d} : desk[e].waiver = w
      BY <1>3, <1>4, <3>2 DEF OthersStay
    <3>3. CASE w = desk[d].waiver /\ w # None /\ w # waivedTransfer'[g]
      BY <1>5, <3>3 DEF Resting
    <3> QED
      BY <3>1, <3>2, <3>3
  <2>2. TotalWaived(g)' <= TotalFines(g)'
    BY <1>7, <1>9 DEF WaivedWithinFines
  <2> QED
    BY <2>1, <2>2
<1>20. OwedIsCurrent'
  <2>1. ASSUME NEW x \in owed' PROVE fines'[x].group \in {currentFines'} \cup contended'
    BY <1>4, <1>7 DEF OwedIsCurrent, FinesTypeOK
  <2>2. \/ currentFines' \in {None} \cup contended'
        \/ FinesOf(currentFines)' # {}
        \/ \E e \in Desks :
               desk'[e].pc \in {"removed", "refunded"} /\ desk'[e].group = currentFines'
    <3>1. ASSUME currentFines # None, currentFines \notin contended', FinesOf(currentFines) = {}
          PROVE  \E e \in Desks :
                     desk'[e].pc \in {"removed", "refunded"} /\ desk'[e].group = currentFines
      <4>1. PICK e \in Desks : /\ desk[e].pc \in {"removed", "refunded"}
                               /\ desk[e].group = currentFines
        BY <1>7, <3>1 DEF OwedIsCurrent
      <4> QED
        BY <1>2, <1>3, <1>5, <1>7, <1>8, <4>1 DEF OthersStay, Resting
    <3> QED
      BY <1>3, <1>4, <3>1 DEF FinesOf
  <2> QED
    BY <2>1, <2>2 DEF OwedIsCurrent
<1> QED
  BY <1>10, <1>11, <1>12, <1>13, <1>14, <1>15, <1>16, <1>17, <1>18, <1>19, <1>20

LEMMA RemoveChargeInv ==
  ASSUME FinesIInv, NEW d \in Desks, RemoveCharge(d)
  PROVE  FinesIInv'
<1> USE FinesAssumption DEF FinesIInv
<1> DEFINE next == [desk[d] EXCEPT !.pc = "refunded"]
<1>1. Change(d, next, {})
  BY DEF RemoveCharge
<1>2. /\ next \in DeskStates
      /\ next.pc = "refunded"
      /\ next.group = desk[d].group
      /\ next.fine = desk[d].fine
      /\ next.waiver = desk[d].waiver
      /\ next.amount = desk[d].amount
      /\ next.whole = desk[d].whole
      /\ next.holds = desk[d].holds
      /\ next.overtaken = desk[d].overtaken
      /\ next.clears = desk[d].clears
      /\ next.stale = desk[d].stale
  <2>1. desk[d] \in DeskStates
    BY DEF FinesTypeOK
  <2> QED
    BY <2>1 DEF DeskStates
<1> HIDE DEF next
<1>3. /\ desk' \in [Desks -> DeskStates]
      /\ desk'[d] = next
      /\ OthersRest(d)
  BY <1>1, <1>2, Changing
<1>4. desk[d].pc = "removed"
  BY DEF RemoveCharge
<1>5. UNCHANGED <<owed, contended, stranded, fineFaults>>
  BY DEF RemoveCharge, books
<1>6. UNCHANGED <<fines, groups, currentFines, waivers, waivedTransfer>>
  BY DEF RemoveCharge, books
<1>7. balance' \in Int /\ charges' \subseteq FineIds
  BY DEF RemoveCharge, FinesTypeOK, DeskStates
<1>8. \A g \in Groups : /\ FinesOf(g)' = FinesOf(g) /\ TotalFines(g)' = TotalFines(g)
                        /\ WaiversOf(g)' = WaiversOf(g) /\ TotalWaived(g)' = TotalWaived(g)
  BY FinesStay, WaiversStay DEF RemoveCharge, books
<1>9. FinesTypeOK'
  BY <1>3, <1>4, <1>5, <1>6, <1>7 DEF FinesTypeOK, FineRows, WaiverRows
<1>10. FinesHaveGroups'
  BY <1>5, <1>6 DEF FinesHaveGroups, FinesTypeOK
<1>11. HandoutsAreNew'
  BY <1>5, <1>2, <1>3, <1>4, <1>6, <1>7 DEF HandoutsAreNew, FinesTypeOK, WaiversOf, Same,
     OthersRest, Resting
<1>12. CallsHaveTheirRows'
  BY <1>2, <1>3, <1>4, <1>6, <1>7 DEF CallsHaveTheirRows, HandoutsAreNew, FinesTypeOK,
     Same, OthersRest, Resting, Waiving, Deleting, Pending
<1>13. WaiversAreHeld'
  BY <1>2, <1>3, <1>4, <1>6, <1>7 DEF WaiversAreHeld, CallsHaveTheirRows, FinesTypeOK,
     Same, OthersRest, Resting, Waiving, Deleting, Pending
<1>14. GroupsReferToWaivers'
  BY <1>6 DEF GroupsReferToWaivers, FinesTypeOK
<1>15. OverlapsAreKnown'
  BY <1>2, <1>3, <1>4, <1>5, <1>7 DEF OverlapsAreKnown, HandoutsAreNew, FinesTypeOK,
     Same, OthersRest, Resting, Waiving, Deleting, Working
<1>16. CallsKnowTheirGroup'
  <2>1. ASSUME NEW e \in Desks \ {d}, NEW g \in Groups \ contended',
               Working(e)', desk'[e].group = g
        PROVE  Knows(e, g)'
    <3>1. Working(e) /\ desk[e].group = g /\ g \notin contended
      BY <1>3, <1>5, <1>7, <2>1 DEF Same, OthersRest, Resting, Waiving, Deleting,
         Working
    <3>2. Knows(e, g)
      BY <3>1 DEF CallsKnowTheirGroup
    <3> QED
      BY <1>3, <1>6, <1>7, <1>8, <3>2 DEF Knows, Same, OthersRest, Resting
  <2>2. ASSUME NEW g \in Groups \ contended', Working(d)', desk'[d].group = g
        PROVE  Knows(d, g)'
    <3>1. Knows(d, g)
      BY <1>2, <1>3, <1>4, <1>5, <1>6, <1>7, <1>8, <2>2 DEF CallsKnowTheirGroup, Same,
         OthersStay, OthersRest, Resting, Waiving, Deleting, Pending, Working
    <3> QED
      BY <1>2, <1>3, <1>4, <1>6, <1>7, <1>8, <3>1 DEF Knows
  <2> QED
    BY <2>1, <2>2 DEF CallsKnowTheirGroup
<1>17. CallsAreUpToDate'
  BY <1>2, <1>3, <1>6, <1>7 DEF CallsAreUpToDate, CallsHaveTheirRows, FinesTypeOK, Same,
     OthersStay, OthersRest, Resting, Waiving, Deleting, Pending, Working
<1>18. WaivedWithinFines'
  <2> SUFFICES ASSUME NEW g \in Groups \ contended'
               PROVE  /\ \A w \in WaiversOf(g)' :
                             w = waivedTransfer'[g] \/ \E e \in Desks : desk'[e].waiver = w
                      /\ TotalWaived(g)' <= TotalFines(g)'
    BY DEF WaivedWithinFines
  <2>1. ASSUME NEW w \in WaiversOf(g)'
        PROVE  w = waivedTransfer'[g] \/ \E e \in Desks : desk'[e].waiver = w
    <3>1. \/ w = waivedTransfer'[g]
          \/ \E e \in Desks \ {d} : desk[e].waiver = w
          \/ w = desk[d].waiver /\ w # None
      BY <1>5, <1>6 DEF WaivedWithinFines, WaiversOf
    <3>2. CASE \E e \in Desks \ {d} : desk[e].waiver = w
      BY <1>3, <1>6, <3>2 DEF Same, OthersRest
    <3>3. CASE w = desk[d].waiver /\ w # None /\ w # waivedTransfer'[g]
      BY <1>2, <1>3, <1>6, <3>3
    <3> QED
      BY <3>1, <3>2, <3>3
  <2>2. TotalWaived(g)' <= TotalFines(g)'
    BY <1>5, <1>8 DEF WaivedWithinFines
  <2> QED
    BY <2>1, <2>2
<1>19. OwedIsCurrent'
  <2>1. ASSUME NEW x \in owed' PROVE fines'[x].group \in {currentFines'} \cup contended'
    BY <1>5, <1>6 DEF OwedIsCurrent, FinesTypeOK
  <2>2. \/ currentFines' \in {None} \cup contended'
        \/ FinesOf(currentFines)' # {}
        \/ \E e \in Desks :
               desk'[e].pc \in {"removed", "refunded"} /\ desk'[e].group = currentFines'
    <3>1. ASSUME currentFines # None, currentFines \notin contended', FinesOf(currentFines) = {}
          PROVE  \E e \in Desks :
                     desk'[e].pc \in {"removed", "refunded"} /\ desk'[e].group = currentFines
      <4>1. PICK e \in Desks : /\ desk[e].pc \in {"removed", "refunded"}
                               /\ desk[e].group = currentFines
        BY <1>5, <3>1 DEF OwedIsCurrent
      <4> QED
        BY <1>2, <1>3, <1>7, <4>1 DEF Same, OthersRest, Resting
    <3> QED
      BY <1>3, <1>5, <1>6, <3>1 DEF FinesOf
  <2> QED
    BY <2>1, <2>2 DEF OwedIsCurrent
<1> QED
  BY <1>9, <1>10, <1>11, <1>12, <1>13, <1>14, <1>15, <1>16, <1>17, <1>18, <1>19

LEMMA SpareInv ==
  ASSUME FinesIInv, NEW d \in Desks, Spare(d)
  PROVE  FinesIInv'
<1> USE FinesAssumption DEF FinesIInv
<1> DEFINE next == IF balance < 0 THEN Resting ELSE [desk[d] EXCEPT !.pc = "spared"]
<1>1. Continue(d, next)
  BY DEF Spare
<1>2. /\ next \in DeskStates
      /\ \/ next = Resting
         \/ /\ next.pc = "spared"
            /\ next.group = desk[d].group
            /\ next.fine = desk[d].fine
            /\ next.waiver = desk[d].waiver
            /\ next.amount = desk[d].amount
            /\ next.stale = desk[d].stale
            /\ next.overtaken = desk[d].overtaken
  <2>1. desk[d] \in DeskStates
    BY DEF FinesTypeOK
  <2>2. Resting \in DeskStates
    BY RestingIsTyped
  <2> QED
    BY <2>1, <2>2 DEF DeskStates
<1> HIDE DEF next
<1>3. /\ desk' \in [Desks -> DeskStates]
      /\ desk'[d] = next
      /\ OthersStay(d)
  BY <1>1, <1>2, Continuing
<1>4. UNCHANGED <<balance, fines, charges, groups, currentFines, waivers, waivedTransfer>>
  BY DEF Spare, books
<1>5. UNCHANGED <<owed, contended, stranded, fineFaults>>
  BY DEF Spare, books
<1>6. desk[d].pc = "refunded" /\ ~desk[d].whole
  BY DEF Spare
<1>7. \A g \in Groups : /\ FinesOf(g)' = FinesOf(g) /\ TotalFines(g)' = TotalFines(g)
                        /\ WaiversOf(g)' = WaiversOf(g) /\ TotalWaived(g)' = TotalWaived(g)
  BY FinesStay, WaiversStay DEF Spare, books
<1>8. FinesTypeOK'
  BY <1>3, <1>4, <1>5 DEF FinesTypeOK, FineRows, WaiverRows
<1>9. FinesHaveGroups'
  BY <1>4, <1>5 DEF FinesHaveGroups, FinesTypeOK
<1>10. HandoutsAreNew'
  BY <1>5, <1>2, <1>3, <1>4, <1>6 DEF HandoutsAreNew, FinesTypeOK, WaiversOf, OthersStay,
     Resting
<1>11. CallsHaveTheirRows'
  BY <1>2, <1>3, <1>4, <1>6 DEF CallsHaveTheirRows, HandoutsAreNew, FinesTypeOK,
     OthersStay, Resting, Waiving, Deleting, Pending
<1>12. WaiversAreHeld'
  BY <1>2, <1>3, <1>4 DEF WaiversAreHeld, CallsHaveTheirRows, FinesTypeOK, OthersStay,
     Resting, Waiving, Deleting, Pending
<1>13. GroupsReferToWaivers'
  BY <1>4 DEF GroupsReferToWaivers, FinesTypeOK
<1>14. OverlapsAreKnown'
  BY <1>2, <1>3, <1>5, <1>6 DEF OverlapsAreKnown, HandoutsAreNew, FinesTypeOK,
     OthersStay, Resting, Waiving, Deleting, Working
<1>15. CallsKnowTheirGroup'
  <2>1. ASSUME NEW e \in Desks \ {d}, NEW g \in Groups \ contended',
               Working(e)', desk'[e].group = g
        PROVE  Knows(e, g)'
    <3>1. Working(e) /\ desk[e].group = g /\ g \notin contended
      BY <1>3, <1>5, <2>1 DEF OthersStay, Waiving, Deleting, Working
    <3>2. Knows(e, g)
      BY <3>1 DEF CallsKnowTheirGroup
    <3> QED
      BY <1>3, <1>4, <1>7, <3>2 DEF Knows, OthersStay
  <2>2. ASSUME NEW g \in Groups \ contended', Working(d)', desk'[d].group = g
        PROVE  Knows(d, g)'
    BY <1>2, <1>3, <1>4, <2>2 DEF Knows, Resting
  <2> QED
    BY <2>1, <2>2 DEF CallsKnowTheirGroup
<1>16. CallsAreUpToDate'
  BY <1>2, <1>3, <1>4 DEF CallsAreUpToDate, CallsHaveTheirRows, FinesTypeOK, OthersStay,
     Resting, Waiving, Deleting, Pending
<1>17. WaivedWithinFines'
  <2> SUFFICES ASSUME NEW g \in Groups \ contended'
               PROVE  /\ \A w \in WaiversOf(g)' :
                             w = waivedTransfer'[g] \/ \E e \in Desks : desk'[e].waiver = w
                      /\ TotalWaived(g)' <= TotalFines(g)'
    BY DEF WaivedWithinFines
  <2>1. ASSUME NEW w \in WaiversOf(g)'
        PROVE  w = waivedTransfer'[g] \/ \E e \in Desks : desk'[e].waiver = w
    <3>1. \/ w = waivedTransfer'[g]
          \/ \E e \in Desks \ {d} : desk[e].waiver = w
          \/ w = desk[d].waiver /\ w # None
      BY <1>4, <1>5 DEF WaivedWithinFines, WaiversOf
    <3>2. CASE \E e \in Desks \ {d} : desk[e].waiver = w
      BY <1>3, <1>4, <3>2 DEF OthersStay
    <3>3. CASE w = desk[d].waiver /\ w # None /\ w # waivedTransfer'[g]
      BY <1>2, <1>3, <1>6, <3>3 DEF CallsHaveTheirRows, Resting, Waiving, Deleting,
         Pending
    <3> QED
      BY <3>1, <3>2, <3>3
  <2>2. TotalWaived(g)' <= TotalFines(g)'
    BY <1>5, <1>7 DEF WaivedWithinFines
  <2> QED
    BY <2>1, <2>2
<1>18. OwedIsCurrent'
  <2>1. ASSUME NEW x \in owed' PROVE fines'[x].group \in {currentFines'} \cup contended'
    BY <1>4, <1>5 DEF OwedIsCurrent, FinesTypeOK
  <2>2. \/ currentFines' \in {None} \cup contended'
        \/ FinesOf(currentFines)' # {}
        \/ \E e \in Desks :
               desk'[e].pc \in {"removed", "refunded"} /\ desk'[e].group = currentFines'
    <3>1. ASSUME currentFines # None, currentFines \notin contended', FinesOf(currentFines) = {}
          PROVE  \E e \in Desks :
                     desk'[e].pc \in {"removed", "refunded"} /\ desk'[e].group = currentFines
      <4>1. PICK e \in Desks : /\ desk[e].pc \in {"removed", "refunded"}
                               /\ desk[e].group = currentFines
        BY <1>5, <3>1 DEF OwedIsCurrent
      <4>2. currentFines \in Groups \ contended
        BY <1>5, <3>1 DEF FinesTypeOK
      <4>3. e # d
        BY <1>6, <3>1, <4>1, <4>2 DEF CallsKnowTheirGroup, Knows, Waiving, Deleting,
           Working
      <4> QED
        BY <1>3, <4>1, <4>3 DEF OthersStay
    <3> QED
      BY <1>3, <1>4, <1>5, <3>1 DEF FinesOf
  <2> QED
    BY <2>1, <2>2 DEF OwedIsCurrent
<1> QED
  BY <1>8, <1>9, <1>10, <1>11, <1>12, <1>13, <1>14, <1>15, <1>16, <1>17, <1>18

LEMMA OpenHandoutInv ==
  ASSUME FinesIInv, NEW d \in Desks, OpenHandout(d)
  PROVE  FinesIInv'
<1> USE FinesAssumption DEF FinesIInv
<1>0. PICK b \in RefBalances, f \in FineIds, h \in Groups :
          /\ ~Busy(d)
          /\ fines[f] = None /\ f \notin charges /\ Fresh(f)
          /\ IF currentFines # None THEN h = currentFines
             ELSE h \notin groups /\ Fresh(h) /\ WaiversOf(h) = {}
          /\ Continue(d, [Resting EXCEPT !.pc = "fined", !.fine = f, !.group = h,
                 !.amount = CalculateFine(b), !.whole = currentFines = None,
                 !.before = Inserted])
          /\ UNCHANGED <<books, owed, contended, stranded, fineFaults>>
  BY DEF OpenHandout
<1> DEFINE next == [Resting EXCEPT !.pc = "fined", !.fine = f, !.group = h,
           !.amount = CalculateFine(b), !.whole = currentFines = None,
           !.before = Inserted]
<1>1. Continue(d, next)
  BY <1>0
<1>2. /\ next \in DeskStates
      /\ next.pc = "fined"
      /\ next.group = h
      /\ next.fine = f
      /\ next.waiver = None
      /\ next.amount = CalculateFine(b)
      /\ next.whole = (currentFines = None)
      /\ ~next.holds
      /\ ~next.overtaken
      /\ ~next.clears
      /\ ~next.stale
  <2>1. Resting \in DeskStates
    BY RestingIsTyped
  <2>2. Inserted \in SUBSET Desks
    BY DEF Inserted
  <2>3. CalculateFine(b) \in Nat
    BY FineAmount
  <2>4. (currentFines = None) \in BOOLEAN
    OBVIOUS
  <2> QED
    BY <2>1, <2>2, <2>3, <2>4 DEF DeskStates, Resting
<1> HIDE DEF next
<1>3. /\ desk' \in [Desks -> DeskStates]
      /\ desk'[d] = next
      /\ OthersStay(d)
  BY <1>1, <1>2, Continuing
<1>4. UNCHANGED <<balance, fines, charges, groups, currentFines, waivers, waivedTransfer>>
  BY <1>0 DEF books
<1>5. UNCHANGED <<owed, contended, stranded, fineFaults>>
  BY <1>0 DEF books
<1>6. CalculateFine(b) \in 0 .. 500
  BY FineAmount
<1>7. desk[d] = Resting /\ fines[f] = None
  BY <1>0 DEF Busy
<1>8. \A e \in Desks : desk[e].fine # f
  BY <1>0 DEF Fresh
<1>9. \/ currentFines # None /\ h = currentFines
      \/ /\ currentFines = None /\ h \notin groups /\ WaiversOf(h) = {}
         /\ \A e \in Desks : desk[e].group # h
  BY <1>0 DEF Fresh
<1>10. \A g \in Groups : /\ FinesOf(g)' = FinesOf(g) /\ TotalFines(g)' = TotalFines(g)
                         /\ WaiversOf(g)' = WaiversOf(g) /\ TotalWaived(g)' = TotalWaived(g)
  BY FinesStay, WaiversStay, <1>0 DEF books
<1>11. FinesTypeOK'
  BY <1>3, <1>4, <1>5, <1>7, <1>9 DEF FinesTypeOK, FineRows, WaiverRows
<1>12. FinesHaveGroups'
  BY <1>4, <1>5 DEF FinesHaveGroups, FinesTypeOK
<1>13. HandoutsAreNew'
  <2> DEFINE New(e) ==
        /\ desk[e].fine \in FineIds /\ desk[e].group \in Groups
        /\ desk[e].amount \in 0 .. 500 /\ desk[e].waiver = None
        /\ fines[desk[e].fine] = None
        /\ \A c \in Desks \ {e} : desk[c].fine # desk[e].fine
        /\ desk[e].whole =>
               /\ desk[e].group \notin groups
               /\ WaiversOf(desk[e].group) = {}
               /\ \A c \in Desks \ {e} : desk[c].group # desk[e].group
  <2>1. ASSUME NEW e \in Desks \ {d}, desk'[e].pc = "fined" PROVE New(e)'
    <3>1. desk[e].pc = "fined" /\ desk'[e] = desk[e]
      BY <1>3, <2>1 DEF OthersStay
    <3>2. New(e)
      BY <3>1 DEF HandoutsAreNew
    <3>3. desk[e].whole => desk[e].group # h
      BY <1>9, <3>2 DEF FinesTypeOK
    <3> QED
      BY <1>2, <1>3, <1>4, <1>5, <1>8, <3>1, <3>2, <3>3 DEF OthersStay, WaiversOf
  <2>2. New(d)'
    <3>1. desk'[d].whole =>
              /\ h \notin groups /\ WaiversOf(h) = {}
              /\ \A e \in Desks : desk[e].group # h
      BY <1>2, <1>3, <1>4, <1>5, <1>6, <1>7, <1>8, <1>9, <1>10
    <3> QED
      BY <1>2, <1>3, <1>4, <1>5, <1>6, <1>7, <1>8, <3>1 DEF OthersStay, WaiversOf
  <2> QED
    BY <2>1, <2>2 DEF HandoutsAreNew
<1>14. CallsHaveTheirRows'
  BY <1>2, <1>3, <1>4, <1>7, <1>9 DEF CallsHaveTheirRows, HandoutsAreNew, FinesTypeOK,
     OthersStay, Resting, Waiving, Deleting, Pending
<1>15. WaiversAreHeld'
  BY <1>2, <1>3, <1>4, <1>7, <1>9 DEF WaiversAreHeld, CallsHaveTheirRows, FinesTypeOK,
     OthersStay, Resting, Waiving, Deleting, Pending
<1>16. GroupsReferToWaivers'
  BY <1>4 DEF GroupsReferToWaivers, FinesTypeOK
<1>17. OverlapsAreKnown'
  BY <1>2, <1>3, <1>5, <1>7, <1>9 DEF OverlapsAreKnown, HandoutsAreNew, FinesTypeOK,
     OthersStay, Resting, Waiving, Deleting, Working
<1>18. CallsKnowTheirGroup'
  <2>1. ASSUME NEW e \in Desks \ {d}, NEW g \in Groups \ contended',
               Working(e)', desk'[e].group = g
        PROVE  Knows(e, g)'
    <3>1. Working(e) /\ desk[e].group = g /\ g \notin contended
      BY <1>3, <1>5, <2>1 DEF OthersStay, Waiving, Deleting, Working
    <3>2. Knows(e, g)
      BY <3>1 DEF CallsKnowTheirGroup
    <3> QED
      BY <1>3, <1>4, <1>10, <3>2 DEF Knows, OthersStay
  <2>2. ASSUME NEW g \in Groups \ contended', Working(d)', desk'[d].group = g
        PROVE  Knows(d, g)'
    BY <1>2, <1>3, <1>4, <1>7, <1>9 DEF Knows, Resting, Deleting
  <2> QED
    BY <2>1, <2>2 DEF CallsKnowTheirGroup
<1>19. CallsAreUpToDate'
  BY <1>2, <1>3, <1>4, <1>7, <1>9 DEF CallsAreUpToDate, CallsHaveTheirRows, FinesTypeOK,
     OthersStay, Resting, Waiving, Deleting, Pending
<1>20. WaivedWithinFines'
  <2> SUFFICES ASSUME NEW g \in Groups \ contended'
               PROVE  /\ \A w \in WaiversOf(g)' :
                             w = waivedTransfer'[g] \/ \E e \in Desks : desk'[e].waiver = w
                      /\ TotalWaived(g)' <= TotalFines(g)'
    BY DEF WaivedWithinFines
  <2>1. ASSUME NEW w \in WaiversOf(g)'
        PROVE  w = waivedTransfer'[g] \/ \E e \in Desks : desk'[e].waiver = w
    <3>1. \/ w = waivedTransfer'[g]
          \/ \E e \in Desks \ {d} : desk[e].waiver = w
          \/ w = desk[d].waiver /\ w # None
      BY <1>4, <1>5, <1>7 DEF WaivedWithinFines, WaiversOf
    <3>2. CASE \E e \in Desks \ {d} : desk[e].waiver = w
      BY <1>3, <1>4, <3>2 DEF OthersStay
    <3>3. CASE w = desk[d].waiver /\ w # None /\ w # waivedTransfer'[g]
      BY <1>7, <3>3 DEF Resting
    <3> QED
      BY <3>1, <3>2, <3>3
  <2>2. TotalWaived(g)' <= TotalFines(g)'
    BY <1>5, <1>10 DEF WaivedWithinFines
  <2> QED
    BY <2>1, <2>2
<1>21. OwedIsCurrent'
  <2>1. ASSUME NEW x \in owed' PROVE fines'[x].group \in {currentFines'} \cup contended'
    BY <1>4, <1>5 DEF OwedIsCurrent, FinesTypeOK
  <2>2. \/ currentFines' \in {None} \cup contended'
        \/ FinesOf(currentFines)' # {}
        \/ \E e \in Desks :
               desk'[e].pc \in {"removed", "refunded"} /\ desk'[e].group = currentFines'
    <3>1. ASSUME currentFines # None, currentFines \notin contended', FinesOf(currentFines) = {}
          PROVE  \E e \in Desks :
                     desk'[e].pc \in {"removed", "refunded"} /\ desk'[e].group = currentFines
      <4>1. PICK e \in Desks : /\ desk[e].pc \in {"removed", "refunded"}
                               /\ desk[e].group = currentFines
        BY <1>5, <3>1 DEF OwedIsCurrent
      <4> QED
        BY <1>2, <1>3, <1>7, <1>9, <4>1 DEF OthersStay, Resting
    <3> QED
      BY <1>3, <1>4, <1>5, <3>1 DEF FinesOf
  <2> QED
    BY <2>1, <2>2 DEF OwedIsCurrent
<1> QED
  BY <1>11, <1>12, <1>13, <1>14, <1>15, <1>16, <1>17, <1>18, <1>19, <1>20, <1>21

LEMMA InsertWaiverInv ==
  ASSUME FinesIInv, NEW d \in Desks, InsertWaiver(d)
  PROVE  FinesIInv'
<1> USE FinesAssumption DEF FinesIInv
<1>0. PICK v \in Waivers :
          /\ desk[d].pc = "emptied"
          /\ waivers[v] = None /\ Fresh(v)
          /\ Continue(d, [desk[d] EXCEPT !.pc = "inserted", !.waiver = v,
                 !.holds = currentFines # None, !.before = Inserted])
          /\ UNCHANGED <<books, owed, contended, stranded, fineFaults>>
  BY DEF InsertWaiver
<1> DEFINE next == [desk[d] EXCEPT !.pc = "inserted", !.waiver = v,
           !.holds = currentFines # None, !.before = Inserted]
<1>1. Continue(d, next)
  BY <1>0
<1>2. /\ next \in DeskStates
      /\ next.pc = "inserted"
      /\ next.group = desk[d].group
      /\ next.fine = desk[d].fine
      /\ next.waiver = v
      /\ next.amount = desk[d].amount
      /\ next.whole = desk[d].whole
      /\ next.holds = (currentFines # None)
      /\ next.overtaken = desk[d].overtaken
      /\ next.clears = desk[d].clears
      /\ next.stale = desk[d].stale
  <2>1. desk[d] \in DeskStates
    BY DEF FinesTypeOK
  <2>2. Inserted \in SUBSET Desks
    BY DEF Inserted
  <2>3. (currentFines # None) \in BOOLEAN
    OBVIOUS
  <2> QED
    BY <2>1, <2>2, <2>3 DEF DeskStates
<1> HIDE DEF next
<1>3. /\ desk' \in [Desks -> DeskStates]
      /\ desk'[d] = next
      /\ OthersStay(d)
  BY <1>1, <1>2, Continuing
<1>4. UNCHANGED <<balance, fines, charges, groups, currentFines, waivers, waivedTransfer>>
  BY <1>0 DEF books
<1>5. UNCHANGED <<owed, contended, stranded, fineFaults>>
  BY <1>0 DEF books
<1>6. desk[d].pc = "emptied" /\ waivers[v] = None
  BY <1>0
<1>7. \A e \in Desks : desk[e].waiver # v
  BY <1>0 DEF Fresh
<1>8. \A g \in Groups : /\ FinesOf(g)' = FinesOf(g) /\ TotalFines(g)' = TotalFines(g)
                        /\ WaiversOf(g)' = WaiversOf(g) /\ TotalWaived(g)' = TotalWaived(g)
  BY FinesStay, WaiversStay, <1>0 DEF books
<1>9. FinesTypeOK'
  BY <1>3, <1>4, <1>5 DEF FinesTypeOK, FineRows, WaiverRows
<1>10. FinesHaveGroups'
  BY <1>4, <1>5 DEF FinesHaveGroups, FinesTypeOK
<1>11. HandoutsAreNew'
  BY <1>5, <1>2, <1>3, <1>4, <1>6 DEF HandoutsAreNew, FinesTypeOK, WaiversOf, OthersStay
<1>12. CallsHaveTheirRows'
  BY <1>2, <1>3, <1>4, <1>6 DEF CallsHaveTheirRows, HandoutsAreNew, FinesTypeOK,
     OthersStay, Waiving, Deleting, Pending
<1>13. WaiversAreHeld'
  BY <1>2, <1>3, <1>4, <1>6, <1>7 DEF WaiversAreHeld, GroupsReferToWaivers,
     CallsHaveTheirRows, FinesTypeOK, OthersStay, Waiving, Deleting, Pending
<1>14. GroupsReferToWaivers'
  BY <1>4 DEF GroupsReferToWaivers, FinesTypeOK
<1>15. OverlapsAreKnown'
  BY <1>2, <1>3, <1>5, <1>6 DEF OverlapsAreKnown, CallsHaveTheirRows, FinesTypeOK,
     OthersStay, Waiving, Deleting, Pending, Working
<1>16. CallsKnowTheirGroup'
  <2>1. ASSUME NEW e \in Desks \ {d}, NEW g \in Groups \ contended',
               Working(e)', desk'[e].group = g
        PROVE  Knows(e, g)'
    <3>1. Working(e) /\ desk[e].group = g /\ g \notin contended
      BY <1>3, <1>5, <2>1 DEF OthersStay, Waiving, Deleting, Working
    <3>2. Knows(e, g)
      BY <3>1 DEF CallsKnowTheirGroup
    <3> QED
      BY <1>3, <1>4, <1>8, <3>2 DEF Knows, OthersStay
  <2>2. ASSUME NEW g \in Groups \ contended', Working(d)', desk'[d].group = g
        PROVE  Knows(d, g)'
    <3>1. Knows(d, g)
      BY <1>2, <1>3, <1>4, <1>5, <1>6, <1>7, <1>8, <2>2 DEF CallsKnowTheirGroup, Same,
         OthersStay, OthersRest, Resting, Waiving, Deleting, Pending, Working
    <3> QED
      BY <1>2, <1>3, <1>4, <1>6, <1>8, <3>1 DEF Knows
  <2> QED
    BY <2>1, <2>2 DEF CallsKnowTheirGroup
<1>17. CallsAreUpToDate'
  <2>1. desk'[d].holds => currentFines # None
    BY <1>2, <1>3, <1>4, <1>5, <1>6, <1>7, <1>8
  <2> QED
    BY <1>2, <1>3, <1>4, <1>6, <2>1 DEF CallsAreUpToDate, CallsHaveTheirRows,
       OthersStay, Waiving, Deleting, Pending
<1>18. WaivedWithinFines'
  <2> SUFFICES ASSUME NEW g \in Groups \ contended'
               PROVE  /\ \A w \in WaiversOf(g)' :
                             w = waivedTransfer'[g] \/ \E e \in Desks : desk'[e].waiver = w
                      /\ TotalWaived(g)' <= TotalFines(g)'
    BY DEF WaivedWithinFines
  <2>1. ASSUME NEW w \in WaiversOf(g)'
        PROVE  w = waivedTransfer'[g] \/ \E e \in Desks : desk'[e].waiver = w
    <3>1. \/ w = waivedTransfer'[g]
          \/ \E e \in Desks \ {d} : desk[e].waiver = w
          \/ w = desk[d].waiver /\ w # None
      BY <1>4, <1>5 DEF WaivedWithinFines, WaiversOf
    <3>2. CASE \E e \in Desks \ {d} : desk[e].waiver = w
      BY <1>3, <1>4, <3>2 DEF OthersStay
    <3>3. CASE w = desk[d].waiver /\ w # None /\ w # waivedTransfer'[g]
      <4>1. waivers[w] # None /\ waivers[w].group = g
        BY <1>4 DEF WaiversOf
      <4>2. desk[d].group = g /\ Working(d)
        BY <1>2, <1>3, <1>4, <1>5, <1>6, <1>7, <1>8, <3>3, <4>1 DEF WaiversAreHeld,
           Same, OthersStay, OthersRest, Resting, Waiving, Deleting, Pending, Working
      <4>3. WaiversOf(g) = {}
        BY <1>5, <1>6, <4>2 DEF CallsKnowTheirGroup, Knows
      <4> QED
        BY <1>8, <4>3
    <3> QED
      BY <3>1, <3>2, <3>3
  <2>2. TotalWaived(g)' <= TotalFines(g)'
    BY <1>5, <1>8 DEF WaivedWithinFines
  <2> QED
    BY <2>1, <2>2
<1>19. OwedIsCurrent'
  <2>1. ASSUME NEW x \in owed' PROVE fines'[x].group \in {currentFines'} \cup contended'
    BY <1>4, <1>5 DEF OwedIsCurrent, FinesTypeOK
  <2>2. \/ currentFines' \in {None} \cup contended'
        \/ FinesOf(currentFines)' # {}
        \/ \E e \in Desks :
               desk'[e].pc \in {"removed", "refunded"} /\ desk'[e].group = currentFines'
    <3>1. ASSUME currentFines # None, currentFines \notin contended', FinesOf(currentFines) = {}
          PROVE  \E e \in Desks :
                     desk'[e].pc \in {"removed", "refunded"} /\ desk'[e].group = currentFines
      <4>1. PICK e \in Desks : /\ desk[e].pc \in {"removed", "refunded"}
                               /\ desk[e].group = currentFines
        BY <1>5, <3>1 DEF OwedIsCurrent
      <4> QED
        BY <1>2, <1>3, <1>6, <4>1 DEF OthersStay
    <3> QED
      BY <1>3, <1>4, <1>5, <3>1 DEF FinesOf
  <2> QED
    BY <2>1, <2>2 DEF OwedIsCurrent
<1> QED
  BY <1>9, <1>10, <1>11, <1>12, <1>13, <1>14, <1>15, <1>16, <1>17, <1>18, <1>19

LEMMA CommitPlainInv ==
  ASSUME FinesIInv, NEW d \in Desks, CommitCredit(d), desk[d].group = None
  PROVE  FinesIInv'
<1> USE FinesAssumption DEF FinesIInv
<1>1. Change(d, Resting, desk[d].before)
  BY DEF CommitCredit
<1>2. /\ desk' \in [Desks -> DeskStates]
      /\ desk'[d] = Resting
      /\ OthersRest(d)
  BY <1>1, RestingIsTyped, Changing
<1>3. balance' \in Int
  BY DEF CommitCredit, FinesTypeOK, DeskStates
<1>4. UNCHANGED <<fines, charges, groups, waivers, waivedTransfer, contended, stranded, fineFaults>>
  BY DEF CommitCredit
<1>5. \/ UNCHANGED <<currentFines, owed>>
      \/ currentFines' = None /\ owed' = {}
  BY DEF CommitCredit
<1>6. Pending(d) /\ ~Waiving(d)
  BY DEF CommitCredit, Pending, Waiving
<1>7. \A g \in Groups : /\ FinesOf(g)' = FinesOf(g) /\ TotalFines(g)' = TotalFines(g)
                        /\ WaiversOf(g)' = WaiversOf(g) /\ TotalWaived(g)' = TotalWaived(g)
  BY FinesStay, WaiversStay DEF CommitCredit, books
<1>8. FinesTypeOK'
  BY <1>2, <1>3, <1>4, <1>5 DEF FinesTypeOK, FineRows, WaiverRows
<1>9. FinesHaveGroups'
  BY <1>4, <1>5 DEF FinesHaveGroups, FinesTypeOK
<1>10. HandoutsAreNew'
  BY <1>1, <1>2, <1>3, <1>4, <1>5, <1>6, <1>7 DEF HandoutsAreNew, FinesTypeOK,
     FinesHaveGroups, WaiversOf, Same, OthersStay, OthersRest, Resting, Waiving,
     Deleting, Pending, Working
<1>11. CallsHaveTheirRows'
  BY <1>1, <1>2, <1>4, <1>5 DEF CallsHaveTheirRows, HandoutsAreNew, FinesTypeOK, Same,
     OthersRest, Resting, Waiving, Deleting, Pending
<1>12. WaiversAreHeld'
  BY <1>1, <1>2, <1>4, <1>5 DEF WaiversAreHeld, CallsHaveTheirRows, FinesTypeOK, Same,
     OthersRest, Resting, Waiving, Deleting, Pending
<1>13. GroupsReferToWaivers'
  BY <1>4 DEF GroupsReferToWaivers, FinesTypeOK
<1>14. OverlapsAreKnown'
  BY <1>1, <1>2, <1>4, <1>5 DEF OverlapsAreKnown, CallsHaveTheirRows, HandoutsAreNew,
     FinesTypeOK, Same, OthersRest, Resting, Waiving, Deleting, Pending, Working
<1>15. CallsKnowTheirGroup'
  <2>1. ASSUME NEW e \in Desks \ {d}, NEW g \in Groups \ contended',
               Working(e)', desk'[e].group = g
        PROVE  Knows(e, g)'
    <3>1. Working(e) /\ desk[e].group = g /\ g \notin contended
      BY <1>1, <1>2, <1>4, <1>5, <2>1 DEF Same, OthersRest, Resting, Waiving, Deleting,
         Working
    <3>2. Knows(e, g)
      BY <3>1 DEF CallsKnowTheirGroup
    <3> QED
      BY <1>1, <1>2, <1>4, <1>5, <1>7, <3>2 DEF Knows, Same, OthersRest, Resting
  <2>2. ASSUME NEW g \in Groups \ contended', Working(d)', desk'[d].group = g
        PROVE  Knows(d, g)'
    BY <1>2 DEF Knows, Resting
  <2> QED
    BY <2>1, <2>2 DEF CallsKnowTheirGroup
<1>16. CallsAreUpToDate'
  BY <1>1, <1>2, <1>5 DEF CallsAreUpToDate, CallsHaveTheirRows, FinesTypeOK, Same,
     OthersStay, OthersRest, Resting, Waiving, Deleting, Pending, Working
<1>17. WaivedWithinFines'
  <2> SUFFICES ASSUME NEW g \in Groups \ contended'
               PROVE  /\ \A w \in WaiversOf(g)' :
                             w = waivedTransfer'[g] \/ \E e \in Desks : desk'[e].waiver = w
                      /\ TotalWaived(g)' <= TotalFines(g)'
    BY DEF WaivedWithinFines
  <2>1. ASSUME NEW w \in WaiversOf(g)'
        PROVE  w = waivedTransfer'[g] \/ \E e \in Desks : desk'[e].waiver = w
    <3>1. \/ w = waivedTransfer'[g]
          \/ \E e \in Desks \ {d} : desk[e].waiver = w
          \/ w = desk[d].waiver /\ w # None
      BY <1>4 DEF WaivedWithinFines, WaiversOf
    <3>2. CASE \E e \in Desks \ {d} : desk[e].waiver = w
      BY <1>2, <1>4, <3>2 DEF Same, OthersRest
    <3>3. CASE w = desk[d].waiver /\ w # None /\ w # waivedTransfer'[g]
      BY <3>3 DEF CallsHaveTheirRows, Waiving, Deleting, Pending
    <3> QED
      BY <3>1, <3>2, <3>3
  <2>2. TotalWaived(g)' <= TotalFines(g)'
    BY <1>4, <1>7 DEF WaivedWithinFines
  <2> QED
    BY <2>1, <2>2
<1>18. OwedIsCurrent'
  <2>1. ASSUME NEW x \in owed' PROVE fines'[x].group \in {currentFines'} \cup contended'
    BY <1>4, <1>5 DEF OwedIsCurrent, FinesTypeOK
  <2>2. \/ currentFines' \in {None} \cup contended'
        \/ FinesOf(currentFines)' # {}
        \/ \E e \in Desks :
               desk'[e].pc \in {"removed", "refunded"} /\ desk'[e].group = currentFines'
    <3>1. ASSUME currentFines # None, currentFines \notin contended', FinesOf(currentFines) = {}
          PROVE  \E e \in Desks :
                     desk'[e].pc \in {"removed", "refunded"} /\ desk'[e].group = currentFines
      <4>1. PICK e \in Desks : /\ desk[e].pc \in {"removed", "refunded"}
                               /\ desk[e].group = currentFines
        BY <1>4, <3>1 DEF OwedIsCurrent
      <4> QED
        BY <1>1, <1>2, <1>5, <1>6, <4>1 DEF Same, OthersRest, Resting, Pending
    <3> QED
      BY <1>2, <1>4, <1>5, <3>1 DEF FinesOf
  <2> QED
    BY <2>1, <2>2 DEF OwedIsCurrent
<1> QED
  BY <1>8, <1>9, <1>10, <1>11, <1>12, <1>13, <1>14, <1>15, <1>16, <1>17, <1>18

LEMMA CommitWaiverInv ==
  ASSUME FinesIInv, NEW d \in Desks, CommitCredit(d), desk[d].group # None
  PROVE  FinesIInv'
<1> USE FinesAssumption DEF FinesIInv
<1> DEFINE next == [desk[d] EXCEPT !.pc = "granted"]
<1>1. Change(d, next, desk[d].before)
  BY DEF CommitCredit
<1>2. /\ next \in DeskStates
      /\ next.pc = "granted"
      /\ next.group = desk[d].group
      /\ next.fine = desk[d].fine
      /\ next.waiver = desk[d].waiver
      /\ next.amount = desk[d].amount
      /\ next.whole = desk[d].whole
      /\ next.holds = desk[d].holds
      /\ next.overtaken = desk[d].overtaken
      /\ next.clears = desk[d].clears
      /\ next.stale = desk[d].stale
  <2>1. desk[d] \in DeskStates
    BY DEF FinesTypeOK
  <2> QED
    BY <2>1 DEF DeskStates
<1> HIDE DEF next
<1>3. /\ desk' \in [Desks -> DeskStates]
      /\ desk'[d] = next
      /\ OthersRest(d)
  BY <1>1, <1>2, Changing
<1>4. balance' \in Int
  BY DEF CommitCredit, FinesTypeOK, DeskStates
<1>5. UNCHANGED <<fines, charges, groups, waivedTransfer, contended, stranded, fineFaults>>
  BY DEF CommitCredit
<1>6. \/ UNCHANGED <<currentFines, owed>>
      \/ currentFines' = None /\ owed' = {}
  BY DEF CommitCredit
<1>7. Pending(d) /\ Waiving(d)
  BY DEF CommitCredit, Pending, Waiving
<1>8. /\ desk[d].group \in Groups /\ desk[d].amount \in FineAmounts
      /\ desk[d].waiver \in Waivers /\ waivers[desk[d].waiver] = None
      /\ \A e \in Desks \ {d} : desk[e].waiver # desk[d].waiver
      /\ \A g \in Groups : waivedTransfer[g] # desk[d].waiver
  BY <1>2, <1>3, <1>4, <1>5, <1>6, <1>7, FinesAssumption DEF FinesTypeOK, DeskStates,
     WaiversAreHeld, CallsHaveTheirRows, Pending, Waiving
<1>9. /\ waivers' = [waivers EXCEPT ![desk[d].waiver] =
                        [group |-> desk[d].group, amount |-> desk[d].amount]]
      /\ waivers'[desk[d].waiver] = [group |-> desk[d].group, amount |-> desk[d].amount]
  BY <1>3, <1>6, <1>8 DEF CommitCredit, FinesTypeOK
<1>10. [group |-> desk[d].group, amount |-> desk[d].amount] # None
  <2>1. [group |-> desk[d].group, amount |-> desk[d].amount] \in [group : Groups, amount : Nat]
    BY <1>2, <1>3, <1>4, <1>5, <1>6, <1>7, <1>8, <1>9, FinesAssumption
  <2> QED
    BY <2>1, FinesAssumption
<1>11. FinesTypeOK'
  BY <1>3, <1>4, <1>5, <1>6, <1>7, <1>8, <1>9 DEF FinesTypeOK, WaiverRows
<1>12. \A g \in Groups : FinesOf(g)' = FinesOf(g) /\ TotalFines(g)' = TotalFines(g)
  BY <1>5, FinesStay
<1>13. \A g \in Groups \ {desk[d].group} :
           WaiversOf(g)' = WaiversOf(g) /\ TotalWaived(g)' = TotalWaived(g)
  <2> TAKE g \in Groups \ {desk[d].group}
  <2>1. WaiversOf(g)' = WaiversOf(g) /\ \A w \in WaiversOf(g) : waivers'[w] = waivers[w]
    BY <1>3, <1>5, <1>6, <1>8, <1>9, <1>11 DEF FinesTypeOK, WaiversOf
  <2> QED
    BY <2>1, SameWaivers
<1>14. \A g \in Groups : g = desk[d].group =>
           WaiversOf(g)' \subseteq WaiversOf(g) \cup {desk[d].waiver}
  BY <1>3, <1>5, <1>6, <1>9, <1>10, <1>11, <1>13 DEF FinesTypeOK, WaiversOf
<1>15. FinesTypeOK'
  BY <1>11
<1>16. FinesHaveGroups'
  BY <1>5, <1>6 DEF FinesHaveGroups, FinesTypeOK
<1>17. HandoutsAreNew'
  BY <1>2, <1>3, <1>5, <1>6, <1>7, <1>9, <1>11, <1>13, <1>14 DEF HandoutsAreNew,
     FinesTypeOK, WaiversOf, Same, OthersRest, Resting, Waiving
<1>18. CallsHaveTheirRows'
  BY <1>2, <1>3, <1>5, <1>6, <1>8, <1>9, <1>11, <1>14 DEF CallsHaveTheirRows,
     HandoutsAreNew, FinesTypeOK, Same, OthersRest, Resting, Waiving, Deleting, Pending
<1>19. WaiversAreHeld'
  BY <1>2, <1>3, <1>4, <1>5, <1>6, <1>7, <1>8, <1>9, <1>10, <1>11, <1>12, <1>13, <1>14
     DEF WaiversAreHeld, GroupsReferToWaivers, CallsHaveTheirRows, FinesTypeOK, Same,
     OthersStay, OthersRest, Resting, Waiving, Deleting, Pending, Working
<1>20. GroupsReferToWaivers'
  BY <1>3, <1>5, <1>6, <1>8, <1>9, <1>11, <1>14 DEF GroupsReferToWaivers, FinesTypeOK,
     OthersRest, Resting
<1>21. OverlapsAreKnown'
  BY <1>2, <1>3, <1>5, <1>6, <1>7, <1>9, <1>11, <1>14 DEF OverlapsAreKnown,
     HandoutsAreNew, FinesTypeOK, Same, OthersRest, Resting, Waiving, Deleting, Pending,
     Working
<1>22. CallsKnowTheirGroup'
  <2>1. ASSUME NEW e \in Desks \ {d}, NEW g \in Groups \ contended',
               Working(e)', desk'[e].group = g
        PROVE  Knows(e, g)'
    <3>1. Working(e) /\ desk[e].group = g /\ g \notin contended
      BY <1>3, <1>5, <1>6, <1>9, <1>14, <2>1 DEF Same, OthersRest, Resting, Waiving,
         Deleting, Working
    <3>2. Knows(e, g)
      BY <3>1 DEF CallsKnowTheirGroup
    <3>3. g # desk[d].group
      BY <1>3, <1>6, <1>7, <1>9, <1>14, <2>1, <3>1 DEF OverlapsAreKnown, Same,
         OthersRest, Resting, Waiving, Deleting, Working
    <3> QED
      BY <1>3, <1>5, <1>6, <1>9, <1>12, <1>13, <1>14, <3>2, <3>3 DEF Knows, Same,
         OthersRest, Resting
  <2>2. ASSUME NEW g \in Groups \ contended', Working(d)', desk'[d].group = g
        PROVE  Knows(d, g)'
    <3>1. Knows(d, g)
      BY <1>2, <1>3, <1>4, <1>5, <1>6, <1>7, <1>8, <1>9, <1>10, <1>11, <1>12, <1>13,
         <1>14, <2>2 DEF CallsKnowTheirGroup, Same, OthersStay, OthersRest, Resting,
         Waiving, Deleting, Pending, Working
    <3>2. WaiversOf(g)' \subseteq {desk[d].waiver}
      BY <1>2, <1>3, <1>7, <1>14, <2>2, <3>1 DEF Knows, Pending
    <3> QED
      BY <1>2, <1>3, <1>5, <1>6, <1>9, <1>14, <3>2 DEF Knows
  <2> QED
    BY <2>1, <2>2 DEF CallsKnowTheirGroup
<1>23. CallsAreUpToDate'
  BY <1>2, <1>3, <1>5, <1>6, <1>7, <1>9, <1>11, <1>12, <1>14 DEF CallsAreUpToDate,
     CallsHaveTheirRows, FinesTypeOK, Same, OthersStay, OthersRest, Resting, Waiving,
     Deleting, Pending, Working
<1>24. WaivedWithinFines'
  <2> SUFFICES ASSUME NEW g \in Groups \ contended'
               PROVE  /\ \A w \in WaiversOf(g)' :
                             w = waivedTransfer'[g] \/ \E e \in Desks : desk'[e].waiver = w
                      /\ TotalWaived(g)' <= TotalFines(g)'
    BY DEF WaivedWithinFines
  <2>1. ASSUME NEW w \in WaiversOf(g)'
        PROVE  w = waivedTransfer'[g] \/ \E e \in Desks : desk'[e].waiver = w
    <3>1. \/ w = waivedTransfer'[g]
          \/ \E e \in Desks \ {d} : desk[e].waiver = w
          \/ w = desk[d].waiver /\ w # None
      BY <1>3, <1>5, <1>6, <1>9, <1>13, <1>14, FinesAssumption DEF WaivedWithinFines,
         WaiversOf
    <3>2. CASE \E e \in Desks \ {d} : desk[e].waiver = w
      BY <1>3, <1>5, <3>2 DEF Same, OthersRest
    <3>3. CASE w = desk[d].waiver /\ w # None /\ w # waivedTransfer'[g]
      BY <1>2, <1>3, <1>5, <3>3
    <3> QED
      BY <3>1, <3>2, <3>3
  <2>2. TotalWaived(g)' <= TotalFines(g)'
    <3>1. CASE g # desk[d].group
      BY <1>5, <1>12, <1>13, <3>1 DEF WaivedWithinFines
    <3>2. CASE g = desk[d].group
      <4>1. Knows(d, g)
        BY <1>5, <1>7, <3>2 DEF CallsKnowTheirGroup, Working
      <4>2. WaiversOf(g)' = {} \/ WaiversOf(g)' = {desk[d].waiver}
        BY <1>7, <1>8, <1>14, <3>2, <4>1 DEF Knows, Pending
      <4>3. TotalWaived(g)' = desk[d].amount \/ TotalWaived(g)' = 0
        BY <1>3, <1>6, <1>8, <1>9, <1>10, <1>11, <1>14, <3>2, <4>2, OneWaiver,
           NothingWaived
      <4>4. desk[d].amount <= TotalFines(g)
        BY <1>7, <4>1 DEF Knows, Pending
      <4>5. TotalFines(g) \in Nat
        BY TotalsAreNatural
      <4> QED
        BY <1>8, <1>12, <3>2, <4>3, <4>4, <4>5
    <3> QED
      BY <3>1, <3>2
  <2> QED
    BY <2>1, <2>2
<1>25. OwedIsCurrent'
  <2>1. ASSUME NEW x \in owed' PROVE fines'[x].group \in {currentFines'} \cup contended'
    BY <1>5, <1>6 DEF OwedIsCurrent, FinesTypeOK
  <2>2. \/ currentFines' \in {None} \cup contended'
        \/ FinesOf(currentFines)' # {}
        \/ \E e \in Desks :
               desk'[e].pc \in {"removed", "refunded"} /\ desk'[e].group = currentFines'
    <3>1. ASSUME currentFines # None, currentFines \notin contended', FinesOf(currentFines) = {}
          PROVE  \E e \in Desks :
                     desk'[e].pc \in {"removed", "refunded"} /\ desk'[e].group = currentFines
      <4>1. PICK e \in Desks : /\ desk[e].pc \in {"removed", "refunded"}
                               /\ desk[e].group = currentFines
        BY <1>5, <3>1 DEF OwedIsCurrent
      <4> QED
        BY <1>3, <1>6, <1>7, <1>9, <1>14, <4>1 DEF Same, OthersRest, Resting, Waiving,
           Pending
    <3> QED
      BY <1>3, <1>5, <1>6, <3>1 DEF FinesOf
  <2> QED
    BY <2>1, <2>2 DEF OwedIsCurrent
<1> QED
  BY <1>15, <1>16, <1>17, <1>18, <1>19, <1>20, <1>21, <1>22, <1>23, <1>24, <1>25

LEMMA NoOldWaiverInv ==
  ASSUME FinesIInv, NEW d \in Desks, RemoveOldWaiver(d),
         desk[d].waiver = None \/ waivers[desk[d].waiver] = None
  PROVE  FinesIInv'
<1> USE FinesAssumption DEF FinesIInv
<1> DEFINE next == [desk[d] EXCEPT !.pc = "emptied", !.waiver = None]
<1>1. Continue(d, next)
  BY DEF RemoveOldWaiver
<1>2. /\ next \in DeskStates
      /\ next.pc = "emptied"
      /\ next.group = desk[d].group
      /\ next.fine = desk[d].fine
      /\ next.waiver = None
      /\ next.amount = desk[d].amount
      /\ next.whole = desk[d].whole
      /\ next.holds = desk[d].holds
      /\ next.overtaken = desk[d].overtaken
      /\ next.clears = desk[d].clears
      /\ next.stale = desk[d].stale
  <2>1. desk[d] \in DeskStates
    BY DEF FinesTypeOK
  <2> QED
    BY <2>1 DEF DeskStates
<1> HIDE DEF next
<1>3. /\ desk' \in [Desks -> DeskStates]
      /\ desk'[d] = next
      /\ OthersStay(d)
  BY <1>1, <1>2, Continuing
<1>4. UNCHANGED <<balance, fines, charges, groups, currentFines, waivers, waivedTransfer>>
  BY DEF RemoveOldWaiver, books
<1>5. UNCHANGED <<owed, contended, stranded, fineFaults>>
  BY DEF RemoveOldWaiver, books
<1>6. desk[d].pc = "weighed"
  BY DEF RemoveOldWaiver
<1>7. \A g \in Groups : /\ FinesOf(g)' = FinesOf(g) /\ TotalFines(g)' = TotalFines(g)
                        /\ WaiversOf(g)' = WaiversOf(g) /\ TotalWaived(g)' = TotalWaived(g)
  BY FinesStay, WaiversStay DEF RemoveOldWaiver, books
<1>8. FinesTypeOK'
  BY <1>3, <1>4, <1>5 DEF FinesTypeOK, FineRows, WaiverRows
<1>9. FinesHaveGroups'
  BY <1>4, <1>5 DEF FinesHaveGroups, FinesTypeOK
<1>10. HandoutsAreNew'
  BY <1>5, <1>2, <1>3, <1>4, <1>6 DEF HandoutsAreNew, OthersStay, WaiversOf
<1>11. CallsHaveTheirRows'
  BY <1>2, <1>3, <1>4, <1>6 DEF CallsHaveTheirRows, HandoutsAreNew, FinesTypeOK,
     OthersStay, Waiving, Deleting, Pending
<1>12. WaiversAreHeld'
  BY <1>2, <1>3, <1>4 DEF WaiversAreHeld, CallsHaveTheirRows, FinesTypeOK, OthersStay,
     Waiving, Deleting, Pending
<1>13. GroupsReferToWaivers'
  BY <1>4 DEF GroupsReferToWaivers, FinesTypeOK
<1>14. OverlapsAreKnown'
  BY <1>2, <1>3, <1>5, <1>6 DEF OverlapsAreKnown, CallsHaveTheirRows, FinesTypeOK,
     OthersStay, Waiving, Deleting, Pending, Working
<1>15. CallsKnowTheirGroup'
  <2>1. ASSUME NEW e \in Desks \ {d}, NEW g \in Groups \ contended',
               Working(e)', desk'[e].group = g
        PROVE  Knows(e, g)'
    <3>1. Working(e) /\ desk[e].group = g /\ g \notin contended
      BY <1>3, <1>5, <2>1 DEF OthersStay, Waiving, Deleting, Working
    <3>2. Knows(e, g)
      BY <3>1 DEF CallsKnowTheirGroup
    <3> QED
      BY <1>3, <1>4, <1>7, <3>2 DEF Knows, OthersStay
  <2>2. ASSUME NEW g \in Groups \ contended', Working(d)', desk'[d].group = g
        PROVE  Knows(d, g)'
    <3>1. Knows(d, g) /\ WaiversOf(g) \subseteq {waivedTransfer[g], desk[d].waiver}
      BY <1>2, <1>3, <1>4, <1>5, <1>6, <1>7, <2>2, HeldByOne DEF CallsKnowTheirGroup,
         Same, OthersStay, OthersRest, Resting, Waiving, Deleting, Pending, Working
    <3>2. WaiversOf(g) = {}
      BY <1>6, <3>1 DEF Knows, WaiversOf
    <3> QED
      BY <1>2, <1>3, <1>4, <1>6, <1>7, <3>1, <3>2 DEF Knows
  <2> QED
    BY <2>1, <2>2 DEF CallsKnowTheirGroup
<1>16. CallsAreUpToDate'
  BY <1>2, <1>3, <1>4, <1>6 DEF CallsAreUpToDate, CallsHaveTheirRows, FinesTypeOK,
     OthersStay, Waiving, Deleting, Pending
<1>17. WaivedWithinFines'
  <2> SUFFICES ASSUME NEW g \in Groups \ contended'
               PROVE  /\ \A w \in WaiversOf(g)' :
                             w = waivedTransfer'[g] \/ \E e \in Desks : desk'[e].waiver = w
                      /\ TotalWaived(g)' <= TotalFines(g)'
    BY DEF WaivedWithinFines
  <2>1. ASSUME NEW w \in WaiversOf(g)'
        PROVE  w = waivedTransfer'[g] \/ \E e \in Desks : desk'[e].waiver = w
    <3>1. \/ w = waivedTransfer'[g]
          \/ \E e \in Desks \ {d} : desk[e].waiver = w
          \/ w = desk[d].waiver /\ w # None
      BY <1>4, <1>5 DEF WaivedWithinFines, WaiversOf
    <3>2. CASE \E e \in Desks \ {d} : desk[e].waiver = w
      BY <1>3, <1>4, <3>2 DEF OthersStay
    <3>3. CASE w = desk[d].waiver /\ w # None /\ w # waivedTransfer'[g]
      BY <1>4, <3>3 DEF WaiversOf
    <3> QED
      BY <3>1, <3>2, <3>3
  <2>2. TotalWaived(g)' <= TotalFines(g)'
    BY <1>5, <1>7 DEF WaivedWithinFines
  <2> QED
    BY <2>1, <2>2
<1>18. OwedIsCurrent'
  <2>1. ASSUME NEW x \in owed' PROVE fines'[x].group \in {currentFines'} \cup contended'
    BY <1>4, <1>5 DEF OwedIsCurrent, FinesTypeOK
  <2>2. \/ currentFines' \in {None} \cup contended'
        \/ FinesOf(currentFines)' # {}
        \/ \E e \in Desks :
               desk'[e].pc \in {"removed", "refunded"} /\ desk'[e].group = currentFines'
    <3>1. ASSUME currentFines # None, currentFines \notin contended', FinesOf(currentFines) = {}
          PROVE  \E e \in Desks :
                     desk'[e].pc \in {"removed", "refunded"} /\ desk'[e].group = currentFines
      <4>1. PICK e \in Desks : /\ desk[e].pc \in {"removed", "refunded"}
                               /\ desk[e].group = currentFines
        BY <1>5, <3>1 DEF OwedIsCurrent
      <4> QED
        BY <1>2, <1>3, <1>6, <4>1 DEF OthersStay
    <3> QED
      BY <1>3, <1>4, <1>5, <3>1 DEF FinesOf
  <2> QED
    BY <2>1, <2>2 DEF OwedIsCurrent
<1> QED
  BY <1>8, <1>9, <1>10, <1>11, <1>12, <1>13, <1>14, <1>15, <1>16, <1>17, <1>18

LEMMA OldWaiverInv ==
  ASSUME FinesIInv, NEW d \in Desks, RemoveOldWaiver(d),
         desk[d].waiver # None, waivers[desk[d].waiver] # None
  PROVE  FinesIInv'
<1> USE FinesAssumption DEF FinesIInv
<1> DEFINE next == [desk[d] EXCEPT !.pc = "emptied", !.waiver = None]
<1>1. Change(d, next, {})
  BY DEF RemoveOldWaiver
<1>2. /\ next \in DeskStates
      /\ next.pc = "emptied"
      /\ next.group = desk[d].group
      /\ next.fine = desk[d].fine
      /\ next.waiver = None
      /\ next.amount = desk[d].amount
      /\ next.whole = desk[d].whole
      /\ next.holds = desk[d].holds
      /\ next.overtaken = desk[d].overtaken
      /\ next.clears = desk[d].clears
      /\ next.stale = desk[d].stale
  <2>1. desk[d] \in DeskStates
    BY DEF FinesTypeOK
  <2> QED
    BY <2>1 DEF DeskStates
<1> HIDE DEF next
<1>3. /\ desk' \in [Desks -> DeskStates]
      /\ desk'[d] = next
      /\ OthersRest(d)
  BY <1>1, <1>2, Changing
<1>4. desk[d].pc = "weighed" /\ Waiving(d) /\ desk[d].group \in Groups
  BY DEF RemoveOldWaiver, Waiving, CallsHaveTheirRows, Deleting, FinesTypeOK, DeskStates
<1>5. desk[d].waiver \in Waivers /\ waivers[desk[d].waiver].group = desk[d].group
  BY DEF FinesTypeOK, DeskStates, WaiversAreHeld
<1>6. UNCHANGED <<fines, charges, groups, currentFines, owed, contended, stranded, fineFaults>>
  BY DEF RemoveOldWaiver
<1>7. balance' \in Int
  <2>1. waivers[desk[d].waiver] \in WaiverRows
    BY <1>5 DEF FinesTypeOK
  <2>2. waivers[desk[d].waiver].amount \in FineAmounts
    BY <2>1 DEF WaiverRows
  <2>3. balance' = balance - waivers[desk[d].waiver].amount
    BY DEF RemoveOldWaiver
  <2>4. balance \in Int
    BY DEF FinesTypeOK
  <2>5. waivers[desk[d].waiver].amount \in Nat
    BY <2>2, FinesAssumption
  <2> QED
    BY <2>3, <2>4, <2>5
<1>8. /\ waivers' = [waivers EXCEPT ![desk[d].waiver] = None]
      /\ waivers'[desk[d].waiver] = None
      /\ waivedTransfer' = [g \in Groups |->
             IF waivedTransfer[g] = desk[d].waiver THEN None ELSE waivedTransfer[g]]
  BY <1>5 DEF RemoveOldWaiver, FinesTypeOK
<1>9. FinesTypeOK'
  BY <1>3, <1>5, <1>6, <1>7, <1>8 DEF FinesTypeOK
<1>10. \A g \in Groups : FinesOf(g)' = FinesOf(g) /\ TotalFines(g)' = TotalFines(g)
  BY <1>6, FinesStay
<1>11. \A g \in Groups \ {desk[d].group} :
           WaiversOf(g)' = WaiversOf(g) /\ TotalWaived(g)' = TotalWaived(g)
  <2> TAKE g \in Groups \ {desk[d].group}
  <2>1. WaiversOf(g)' = WaiversOf(g) /\ \A w \in WaiversOf(g) : waivers'[w] = waivers[w]
    BY <1>5, <1>6, <1>8, <1>9 DEF FinesTypeOK, WaiversOf
  <2> QED
    BY <2>1, SameWaivers
<1>12. \A g \in Groups : g = desk[d].group =>
           WaiversOf(g)' = WaiversOf(g) \ {desk[d].waiver}
  BY <1>6, <1>8, <1>9 DEF FinesTypeOK, WaiversOf
<1>13. FinesTypeOK'
  BY <1>9
<1>14. FinesHaveGroups'
  BY <1>6 DEF FinesHaveGroups, FinesTypeOK
<1>15. HandoutsAreNew'
  BY <1>2, <1>3, <1>4, <1>6, <1>8, <1>9, <1>11, <1>12 DEF HandoutsAreNew, FinesTypeOK,
     WaiversOf, Same, OthersRest, Resting
<1>16. CallsHaveTheirRows'
  BY <1>2, <1>3, <1>4, <1>6, <1>8, <1>9, <1>12 DEF CallsHaveTheirRows, HandoutsAreNew,
     FinesTypeOK, Same, OthersRest, Resting, Waiving, Deleting, Pending
<1>17. WaiversAreHeld'
  BY <1>2, <1>3, <1>8, <1>9, <1>12 DEF WaiversAreHeld, CallsHaveTheirRows, FinesTypeOK,
     Same, OthersRest, Resting, Waiving, Deleting, Pending
<1>18. GroupsReferToWaivers'
  BY <1>8, <1>9 DEF GroupsReferToWaivers, FinesTypeOK
<1>19. OverlapsAreKnown'
  BY <1>2, <1>3, <1>4, <1>6, <1>8, <1>9, <1>12 DEF OverlapsAreKnown, CallsHaveTheirRows,
     HandoutsAreNew, FinesTypeOK, Same, OthersRest, Resting, Waiving, Deleting, Pending,
     Working
<1>20. CallsKnowTheirGroup'
  <2>1. ASSUME NEW e \in Desks \ {d}, NEW g \in Groups \ contended',
               Working(e)', desk'[e].group = g
        PROVE  Knows(e, g)'
    <3>1. Working(e) /\ desk[e].group = g /\ g \notin contended
      BY <1>3, <1>6, <1>8, <1>12, <2>1 DEF Same, OthersRest, Resting, Waiving, Deleting,
         Working
    <3>2. Knows(e, g)
      BY <3>1 DEF CallsKnowTheirGroup
    <3>3. g # desk[d].group
      BY <1>3, <1>4, <1>8, <1>12, <2>1, <3>1 DEF OverlapsAreKnown, Same, OthersRest,
         Resting, Waiving, Deleting, Working
    <3>4. waivedTransfer'[g] = waivedTransfer[g]
      BY <1>5, <1>8, <3>3 DEF GroupsReferToWaivers
    <3> QED
      BY <1>3, <1>8, <1>10, <1>11, <1>12, <3>2, <3>3, <3>4 DEF Knows, Same, OthersRest,
         Resting
  <2>2. ASSUME NEW g \in Groups \ contended', Working(d)', desk'[d].group = g
        PROVE  Knows(d, g)'
    <3>1. Knows(d, g) /\ WaiversOf(g) \subseteq {waivedTransfer[g], desk[d].waiver}
      BY <1>2, <1>3, <1>4, <1>5, <1>6, <1>7, <1>8, <1>9, <1>10, <1>11, <1>12, <2>2,
         HeldByOne DEF CallsKnowTheirGroup, Same, OthersStay, OthersRest, Resting,
         Waiving, Deleting, Pending, Working
    <3>2. WaiversOf(g)' = {}
      BY <1>2, <1>3, <1>4, <1>12, <2>2, <3>1 DEF Knows
    <3> QED
      BY <1>2, <1>3, <1>4, <1>8, <1>10, <1>12, <3>1, <3>2 DEF Knows
  <2> QED
    BY <2>1, <2>2 DEF CallsKnowTheirGroup
<1>21. CallsAreUpToDate'
  BY <1>2, <1>3, <1>4, <1>6, <1>8, <1>9, <1>12 DEF CallsAreUpToDate, CallsHaveTheirRows,
     FinesTypeOK, Same, OthersStay, OthersRest, Resting, Waiving, Deleting, Pending,
     Working
<1>22. WaivedWithinFines'
  <2> SUFFICES ASSUME NEW g \in Groups \ contended'
               PROVE  /\ \A w \in WaiversOf(g)' :
                             w = waivedTransfer'[g] \/ \E e \in Desks : desk'[e].waiver = w
                      /\ TotalWaived(g)' <= TotalFines(g)'
    BY DEF WaivedWithinFines
  <2>1. ASSUME NEW w \in WaiversOf(g)'
        PROVE  w = waivedTransfer'[g] \/ \E e \in Desks : desk'[e].waiver = w
    <3>1. \/ w = waivedTransfer'[g]
          \/ \E e \in Desks \ {d} : desk[e].waiver = w
          \/ w = desk[d].waiver /\ w # None
      BY <1>6, <1>8 DEF WaivedWithinFines, WaiversOf
    <3>2. CASE \E e \in Desks \ {d} : desk[e].waiver = w
      BY <1>3, <1>8, <3>2 DEF Same, OthersRest
    <3>3. CASE w = desk[d].waiver /\ w # None /\ w # waivedTransfer'[g]
      BY <1>8, <3>3 DEF WaiversOf
    <3> QED
      BY <3>1, <3>2, <3>3
  <2>2. TotalWaived(g)' <= TotalFines(g)'
    <3>1. CASE g # desk[d].group
      BY <1>6, <1>10, <1>11, <3>1 DEF WaivedWithinFines
    <3>2. CASE g = desk[d].group
      <4>1. Knows(d, g) /\ WaiversOf(g) \subseteq {waivedTransfer[g], desk[d].waiver}
        BY <1>4, <1>6, <3>2, HeldByOne DEF CallsKnowTheirGroup, Working
      <4>2. WaiversOf(g)' = {}
        BY <1>4, <1>12, <3>2, <4>1 DEF Knows
      <4>3. TotalWaived(g)' = 0
        BY <4>2, NothingWaived
      <4>4. TotalFines(g)' \in Nat
        BY <1>9, TotalsStayNatural
      <4> QED
        BY <4>3, <4>4
    <3> QED
      BY <3>1, <3>2
  <2> QED
    BY <2>1, <2>2
<1>23. OwedIsCurrent'
  <2>1. ASSUME NEW x \in owed' PROVE fines'[x].group \in {currentFines'} \cup contended'
    BY <1>6 DEF OwedIsCurrent, FinesTypeOK
  <2>2. \/ currentFines' \in {None} \cup contended'
        \/ FinesOf(currentFines)' # {}
        \/ \E e \in Desks :
               desk'[e].pc \in {"removed", "refunded"} /\ desk'[e].group = currentFines'
    <3>1. ASSUME currentFines # None, currentFines \notin contended', FinesOf(currentFines) = {}
          PROVE  \E e \in Desks :
                     desk'[e].pc \in {"removed", "refunded"} /\ desk'[e].group = currentFines
      <4>1. PICK e \in Desks : /\ desk[e].pc \in {"removed", "refunded"}
                               /\ desk[e].group = currentFines
        BY <1>6, <3>1 DEF OwedIsCurrent
      <4> QED
        BY <1>2, <1>3, <1>4, <1>8, <1>12, <4>1 DEF Same, OthersRest, Resting
    <3> QED
      BY <1>3, <1>6, <3>1 DEF FinesOf
  <2> QED
    BY <2>1, <2>2 DEF OwedIsCurrent
<1> QED
  BY <1>13, <1>14, <1>15, <1>16, <1>17, <1>18, <1>19, <1>20, <1>21, <1>22, <1>23

LEMMA LinkWaiverInv ==
  ASSUME FinesIInv, NEW d \in Desks, LinkWaiver(d)
  PROVE  FinesIInv'
<1> USE FinesAssumption DEF FinesIInv
<1> DEFINE next == IF desk[d].whole THEN [desk[d] EXCEPT !.pc = "linked"] ELSE Resting
<1>1. Continue(d, next)
  BY DEF LinkWaiver
<1>2. /\ next \in DeskStates
      /\ \/ next = Resting
         \/ /\ next.pc = "linked"
            /\ next.group = desk[d].group
            /\ next.fine = desk[d].fine
            /\ next.waiver = desk[d].waiver
            /\ next.amount = desk[d].amount
            /\ next.stale = desk[d].stale
            /\ next.overtaken = desk[d].overtaken
  <2>1. desk[d] \in DeskStates
    BY DEF FinesTypeOK
  <2>2. Resting \in DeskStates
    BY RestingIsTyped
  <2> QED
    BY <2>1, <2>2 DEF DeskStates
<1> HIDE DEF next
<1>3. /\ desk' \in [Desks -> DeskStates]
      /\ desk'[d] = next
      /\ OthersStay(d)
  BY <1>1, <1>2, Continuing
<1>4. desk[d].pc = "granted" /\ Waiving(d) /\ desk[d].group \in Groups
  BY DEF LinkWaiver, Waiving, CallsHaveTheirRows, Deleting, FinesTypeOK
<1>5. /\ desk[d].waiver \in Waivers
      /\ waivers[desk[d].waiver] = [group |-> desk[d].group, amount |-> desk[d].amount]
      /\ waivers[desk[d].waiver] # None /\ desk[d].amount \in Nat
      /\ \A e \in Desks \ {d} : desk[e].waiver # desk[d].waiver
  BY <1>2, <1>3, <1>4, FinesAssumption DEF FinesTypeOK, DeskStates, WaiversAreHeld
<1>6. UNCHANGED <<balance, fines, charges, currentFines, waivers, owed, contended, stranded, fineFaults>>
  BY DEF LinkWaiver
<1>7. groups' = groups \cup {desk[d].group}
  BY DEF LinkWaiver
<1>8. /\ waivedTransfer' = [waivedTransfer EXCEPT ![desk[d].group] = desk[d].waiver]
      /\ waivedTransfer'[desk[d].group] = desk[d].waiver
  BY <1>4 DEF LinkWaiver, FinesTypeOK
<1>9. \A g \in Groups : /\ FinesOf(g)' = FinesOf(g) /\ TotalFines(g)' = TotalFines(g)
                        /\ WaiversOf(g)' = WaiversOf(g) /\ TotalWaived(g)' = TotalWaived(g)
  BY FinesStay, WaiversStay DEF LinkWaiver, books
<1>10. FinesTypeOK'
  BY <1>2, <1>3, <1>4, <1>5, <1>6, <1>7, <1>8, <1>9 DEF FinesTypeOK, FineRows,
     WaiverRows
<1>11. FinesHaveGroups'
  BY <1>6, <1>7 DEF FinesHaveGroups, FinesTypeOK
<1>12. HandoutsAreNew'
  BY <1>2, <1>3, <1>4, <1>5, <1>6, <1>7, <1>8 DEF HandoutsAreNew, FinesTypeOK,
     WaiversOf, OthersStay, Resting
<1>13. CallsHaveTheirRows'
  BY <1>2, <1>3, <1>4, <1>5, <1>6, <1>7, <1>8 DEF CallsHaveTheirRows, HandoutsAreNew,
     FinesTypeOK, OthersStay, Resting, Waiving, Deleting, Pending
<1>14. WaiversAreHeld'
  BY <1>2, <1>3, <1>5, <1>6, <1>7, <1>8 DEF WaiversAreHeld, CallsHaveTheirRows,
     FinesTypeOK, OthersStay, Resting, Waiving, Deleting, Pending
<1>15. GroupsReferToWaivers'
  BY <1>2, <1>3, <1>5, <1>6, <1>7, <1>8 DEF GroupsReferToWaivers, WaiversAreHeld,
     FinesTypeOK, Resting, Waiving, Pending
<1>16. OverlapsAreKnown'
  BY <1>2, <1>3, <1>4, <1>6, <1>7, <1>8 DEF OverlapsAreKnown, CallsHaveTheirRows,
     HandoutsAreNew, FinesTypeOK, OthersStay, Resting, Waiving, Deleting, Pending,
     Working
<1>17. CallsKnowTheirGroup'
  <2>1. ASSUME NEW e \in Desks \ {d}, NEW g \in Groups \ contended',
               Working(e)', desk'[e].group = g
        PROVE  Knows(e, g)'
    <3>1. Working(e) /\ desk[e].group = g /\ g \notin contended
      BY <1>3, <1>6, <2>1 DEF OthersStay, Waiving, Deleting, Working
    <3>2. Knows(e, g)
      BY <3>1 DEF CallsKnowTheirGroup
    <3>3. g # desk[d].group
      BY <1>3, <1>4, <2>1, <3>1 DEF OverlapsAreKnown, OthersStay, Waiving, Deleting,
         Working
    <3> QED
      BY <1>3, <1>8, <1>9, <3>2, <3>3 DEF Knows, OthersStay
  <2>2. ASSUME NEW g \in Groups \ contended', Working(d)', desk'[d].group = g
        PROVE  Knows(d, g)'
    <3>1. desk'[d].pc = "linked" /\ desk'[d].waiver = desk[d].waiver
          /\ desk'[d].group = desk[d].group
      BY <1>2, <1>3, <1>7, <1>8, <2>2 DEF Resting
    <3> QED
      BY <1>8, <2>2, <3>1 DEF Knows
  <2> QED
    BY <2>1, <2>2 DEF CallsKnowTheirGroup
<1>18. CallsAreUpToDate'
  BY <1>2, <1>3, <1>4, <1>5, <1>6, <1>7, <1>8 DEF CallsAreUpToDate, CallsHaveTheirRows,
     FinesTypeOK, OthersStay, Resting, Waiving, Deleting, Pending
<1>19. WaivedWithinFines'
  <2> SUFFICES ASSUME NEW g \in Groups \ contended'
               PROVE  /\ \A w \in WaiversOf(g)' :
                             w = waivedTransfer'[g] \/ \E e \in Desks : desk'[e].waiver = w
                      /\ TotalWaived(g)' <= TotalFines(g)'
    BY DEF WaivedWithinFines
  <2>1. ASSUME NEW w \in WaiversOf(g)'
        PROVE  w = waivedTransfer'[g] \/ \E e \in Desks : desk'[e].waiver = w
    <3>1. \/ w = waivedTransfer'[g]
          \/ \E e \in Desks \ {d} : desk[e].waiver = w
          \/ w = desk[d].waiver /\ w # None
      <4>1. CASE g = desk[d].group
        <5>1. Knows(d, g)
          BY <1>4, <1>6, <4>1 DEF CallsKnowTheirGroup, Working
        <5> QED
          BY <1>4, <1>8, <1>9, <4>1, <5>1 DEF Knows, FinesTypeOK
      <4>2. CASE g # desk[d].group
        BY <1>6, <1>8, <4>2 DEF WaivedWithinFines, WaiversOf, FinesTypeOK
      <4> QED
        BY <4>1, <4>2
    <3>2. CASE \E e \in Desks \ {d} : desk[e].waiver = w
      BY <1>3, <1>8, <3>2 DEF OthersStay
    <3>3. CASE w = desk[d].waiver /\ w # None /\ w # waivedTransfer'[g]
      BY <1>3, <1>5, <1>6, <1>7, <1>8, <3>3 DEF WaiversOf, FinesTypeOK
    <3> QED
      BY <3>1, <3>2, <3>3
  <2>2. TotalWaived(g)' <= TotalFines(g)'
    BY <1>6, <1>8, <1>9 DEF WaivedWithinFines
  <2> QED
    BY <2>1, <2>2
<1>20. OwedIsCurrent'
  <2>1. ASSUME NEW x \in owed' PROVE fines'[x].group \in {currentFines'} \cup contended'
    BY <1>6 DEF OwedIsCurrent, FinesTypeOK
  <2>2. \/ currentFines' \in {None} \cup contended'
        \/ FinesOf(currentFines)' # {}
        \/ \E e \in Desks :
               desk'[e].pc \in {"removed", "refunded"} /\ desk'[e].group = currentFines'
    <3>1. ASSUME currentFines # None, currentFines \notin contended', FinesOf(currentFines) = {}
          PROVE  \E e \in Desks :
                     desk'[e].pc \in {"removed", "refunded"} /\ desk'[e].group = currentFines
      <4>1. PICK e \in Desks : /\ desk[e].pc \in {"removed", "refunded"}
                               /\ desk[e].group = currentFines
        BY <1>6, <3>1 DEF OwedIsCurrent
      <4> QED
        BY <1>2, <1>3, <1>4, <1>5, <1>7, <1>8, <4>1 DEF OthersStay, Resting
    <3> QED
      BY <1>3, <1>6, <3>1 DEF FinesOf
  <2> QED
    BY <2>1, <2>2 DEF OwedIsCurrent
<1> QED
  BY <1>10, <1>11, <1>12, <1>13, <1>14, <1>15, <1>16, <1>17, <1>18, <1>19, <1>20

\* A stranded waiver leaves its group, of which it was the only one that stood.
LEMMA LinkFailsInv ==
  ASSUME FinesIInv, NEW d \in Desks, LinkFails(d)
  PROVE  FinesIInv'
<1> USE FinesAssumption DEF FinesIInv
<1>1. Continue(d, Resting)
  BY DEF LinkFails
<1>2. /\ Resting \in DeskStates /\ Resting.pc = "idle" /\ Resting.waiver = None
      /\ Resting.group = None /\ ~Resting.overtaken
  BY RestingIsTyped
<1>3. /\ desk' \in [Desks -> DeskStates]
      /\ desk'[d] = Resting
      /\ OthersStay(d)
  BY <1>1, <1>2, Continuing
<1>4. desk[d].pc = "granted" /\ Waiving(d) /\ desk[d].group \in Groups
  BY DEF LinkFails, Waiving, CallsHaveTheirRows, Deleting, FinesTypeOK
<1>5. /\ desk[d].waiver \in Waivers
      /\ waivers[desk[d].waiver] = [group |-> desk[d].group, amount |-> desk[d].amount]
      /\ waivers[desk[d].waiver].group = desk[d].group
      /\ \A e \in Desks \ {d} : desk[e].waiver # desk[d].waiver
  BY <1>4, FinesAssumption DEF FinesTypeOK, DeskStates, WaiversAreHeld
<1>6. UNCHANGED <<balance, fines, charges, groups, currentFines, waivers,
                  waivedTransfer, owed, contended, fineFaults>>
  BY DEF LinkFails, books
<1>7. stranded' = stranded \cup {desk[d].waiver}
  BY DEF LinkFails
<1>8. \A g : FinesOf(g)' = FinesOf(g) /\ TotalFines(g)' = TotalFines(g)
  BY <1>6, FinesStay
<1>9. \A g : WaiversOf(g)' = WaiversOf(g) \ {desk[d].waiver}
  BY <1>6, <1>7 DEF WaiversOf
<1>10. \A g \in Groups \ {desk[d].group} :
           WaiversOf(g)' = WaiversOf(g) /\ TotalWaived(g)' = TotalWaived(g)
  <2> TAKE g \in Groups \ {desk[d].group}
  <2>1. WaiversOf(g)' = WaiversOf(g)
    BY <1>5, <1>9 DEF WaiversOf
  <2>2. \A w \in WaiversOf(g) : waivers'[w] = waivers[w]
    BY <1>6
  <2> QED
    BY <2>1, <2>2, SameWaivers
<1>11. FinesTypeOK'
  BY <1>3, <1>5, <1>6, <1>7 DEF FinesTypeOK
<1>12. FinesHaveGroups' /\ GroupsReferToWaivers'
  BY <1>6 DEF FinesHaveGroups, GroupsReferToWaivers
<1>13. HandoutsAreNew'
  <2>1. desk'[d].pc # "fined" /\ \A g : desk'[d].group = g => g = None
    BY <1>2, <1>3
  <2>2. \A e \in Desks \ {d} : desk'[e] = desk[e]
    BY <1>3 DEF OthersStay
  <2>3. desk'[d].fine = None /\ None \notin FineIds /\ None \notin Groups
    BY <1>3, RestingIsTyped
  <2> SUFFICES ASSUME NEW e \in Desks \ {d}, desk[e].pc = "fined"
               PROVE  /\ desk[e].fine \in FineIds /\ desk[e].group \in Groups
                      /\ desk[e].amount \in 0 .. 500 /\ desk[e].waiver = None
                      /\ fines[desk[e].fine] = None
                      /\ \A c \in Desks \ {e} : desk'[c].fine # desk[e].fine
                      /\ desk[e].whole =>
                             /\ desk[e].group \notin groups
                             /\ WaiversOf(desk[e].group) = {}
                             /\ \A c \in Desks \ {e} : desk'[c].group # desk[e].group
    BY <1>6, <1>7, <2>1, <2>2 DEF HandoutsAreNew, WaiversOf
  <2> QED
    BY <2>1, <2>2, <2>3 DEF HandoutsAreNew
<1>14. CallsHaveTheirRows'
  BY <1>2, <1>3, <1>6 DEF CallsHaveTheirRows, OthersStay, Waiving, Deleting, Pending
<1>15. WaiversAreHeld'
  BY <1>2, <1>3, <1>6 DEF WaiversAreHeld, OthersStay, Waiving, Deleting, Pending
<1>16. OverlapsAreKnown'
  BY <1>2, <1>3, <1>6 DEF OverlapsAreKnown, OthersStay, Waiving, Deleting, Pending,
     Working
<1>17. CallsKnowTheirGroup'
  <2> SUFFICES ASSUME NEW e \in Desks, NEW g \in Groups \ contended',
                      Working(e)', desk'[e].group = g
               PROVE  Knows(e, g)'
    BY DEF CallsKnowTheirGroup
  <2>1. e # d /\ desk'[e] = desk[e]
    BY <1>2, <1>3 DEF OthersStay, Working, Waiving, Deleting
  <2>2. Working(e) /\ desk[e].group = g /\ g \notin contended
    BY <1>6, <2>1 DEF Waiving, Deleting, Working
  <2>3. Knows(e, g)
    BY <2>2 DEF CallsKnowTheirGroup
  <2> QED
    BY <1>6, <1>8, <1>9, <2>1, <2>3 DEF Knows
<1>18. CallsAreUpToDate'
  BY <1>2, <1>3, <1>6 DEF CallsAreUpToDate, OthersStay, Waiving, Deleting, Pending
<1>19. WaivedWithinFines'
  <2> SUFFICES ASSUME NEW g \in Groups \ contended'
               PROVE  /\ \A w \in WaiversOf(g)' :
                             w = waivedTransfer'[g] \/ \E e \in Desks : desk'[e].waiver = w
                      /\ TotalWaived(g)' <= TotalFines(g)'
    BY DEF WaivedWithinFines
  <2>1. ASSUME NEW w \in WaiversOf(g)'
        PROVE  w = waivedTransfer'[g] \/ \E e \in Desks : desk'[e].waiver = w
    <3>1. w = waivedTransfer[g] \/ \E e \in Desks : desk[e].waiver = w
      BY <1>6, <1>9 DEF WaivedWithinFines
    <3>2. w # desk[d].waiver
      BY <1>9
    <3> QED
      BY <1>3, <1>6, <3>1, <3>2 DEF OthersStay
  <2>2. CASE g # desk[d].group
    BY <1>6, <1>8, <1>10, <2>1, <2>2 DEF WaivedWithinFines
  <2>3. CASE g = desk[d].group
    <3>1. Knows(d, g)
      BY <1>4, <1>6, <2>3 DEF CallsKnowTheirGroup, Working
    <3>2. WaiversOf(g)' = {}
      BY <1>4, <1>9, <2>3, <3>1 DEF Knows
    <3>3. TotalWaived(g)' = 0 /\ TotalFines(g)' \in Nat
      BY <1>11, <3>2, NothingWaived, TotalsStayNatural
    <3> QED
      BY <2>1, <3>3
  <2> QED
    BY <2>2, <2>3
<1>20. OwedIsCurrent'
  <2>1. \A x \in owed' : fines'[x].group \in {currentFines'} \cup contended'
    BY <1>6 DEF OwedIsCurrent
  <2>2. ASSUME NEW e \in Desks,
               desk[e].pc \in {"removed", "refunded"}, desk[e].group = currentFines
        PROVE  desk'[e].pc \in {"removed", "refunded"} /\ desk'[e].group = currentFines
    BY <1>3, <1>4, <2>2 DEF OthersStay
  <2>3. \/ currentFines' \in {None} \cup contended'
        \/ FinesOf(currentFines)' # {}
        \/ \E e \in Desks :
               desk'[e].pc \in {"removed", "refunded"} /\ desk'[e].group = currentFines'
    BY <1>6, <2>2 DEF OwedIsCurrent, FinesOf
  <2> QED
    BY <2>1, <2>3 DEF OwedIsCurrent
<1> QED
  BY <1>11, <1>12, <1>13, <1>14, <1>15, <1>16, <1>17, <1>18, <1>19, <1>20

LEMMA ForgetWaivedInv ==
  ASSUME FinesIInv, NEW d \in Desks, ForgetWaived(d)
  PROVE  FinesIInv'
<1> USE FinesAssumption DEF FinesIInv
<1>1. Change(d, Resting, {})
  BY DEF ForgetWaived, Forget
<1>2. /\ desk' \in [Desks -> DeskStates]
      /\ desk'[d] = Resting
      /\ OthersRest(d)
  BY <1>1, RestingIsTyped, Changing
<1>3. UNCHANGED <<balance, fines, charges, groups, waivers, waivedTransfer, stranded, fineFaults>>
  BY DEF ForgetWaived, Forget
<1>4. currentFines' = None
  BY DEF ForgetWaived, Forget
<1>5. contended' = contended \cup (IF desk[d].stale THEN {currentFines} \ {None} ELSE {})
  BY DEF ForgetWaived, Forget
<1>6. desk[d].pc = "linked" /\ Waiving(d) /\ desk[d].group \in Groups
  BY DEF ForgetWaived, Waiving, CallsHaveTheirRows, Deleting, FinesTypeOK
<1>7. owed' = owed \ FinesOf(desk[d].group)
  BY DEF ForgetWaived, Forget
<1>8. \A g \in Groups : /\ FinesOf(g)' = FinesOf(g) /\ TotalFines(g)' = TotalFines(g)
                        /\ WaiversOf(g)' = WaiversOf(g) /\ TotalWaived(g)' = TotalWaived(g)
  BY FinesStay, WaiversStay DEF ForgetWaived, Forget
<1>9. FinesTypeOK'
  BY <1>1, <1>2, <1>3, <1>4, <1>5, <1>7 DEF FinesTypeOK, FineRows, WaiverRows
<1>10. FinesHaveGroups'
  BY <1>3, <1>7 DEF FinesHaveGroups, FinesTypeOK
<1>11. HandoutsAreNew'
  BY <1>1, <1>2, <1>3, <1>4, <1>5, <1>6, <1>7, <1>8 DEF HandoutsAreNew, FinesTypeOK,
     FinesHaveGroups, WaiversOf, Same, OthersStay, OthersRest, Resting, Waiving,
     Deleting, Pending, Working
<1>12. CallsHaveTheirRows'
  BY <1>1, <1>2, <1>3, <1>5, <1>7 DEF CallsHaveTheirRows, HandoutsAreNew, FinesTypeOK,
     Same, OthersRest, Resting, Waiving, Deleting, Pending
<1>13. WaiversAreHeld'
  BY <1>1, <1>2, <1>3, <1>5, <1>7 DEF WaiversAreHeld, CallsHaveTheirRows, FinesTypeOK,
     Same, OthersRest, Resting, Waiving, Deleting, Pending
<1>14. GroupsReferToWaivers'
  BY <1>3 DEF GroupsReferToWaivers, FinesTypeOK
<1>15. OverlapsAreKnown'
  BY <1>1, <1>2, <1>5, <1>7 DEF OverlapsAreKnown, CallsHaveTheirRows, HandoutsAreNew,
     FinesTypeOK, Same, OthersRest, Resting, Waiving, Deleting, Pending, Working
<1>16. CallsKnowTheirGroup'
  <2>1. ASSUME NEW e \in Desks \ {d}, NEW g \in Groups \ contended',
               Working(e)', desk'[e].group = g
        PROVE  Knows(e, g)'
    <3>1. Working(e) /\ desk[e].group = g /\ g \notin contended
      BY <1>1, <1>2, <1>5, <1>7, <2>1 DEF Same, OthersRest, Resting, Waiving, Deleting,
         Working
    <3>2. Knows(e, g)
      BY <3>1 DEF CallsKnowTheirGroup
    <3> QED
      BY <1>1, <1>2, <1>3, <1>5, <1>7, <1>8, <3>2 DEF Knows, Same, OthersRest, Resting
  <2>2. ASSUME NEW g \in Groups \ contended', Working(d)', desk'[d].group = g
        PROVE  Knows(d, g)'
    BY <1>2 DEF Knows, Resting
  <2> QED
    BY <2>1, <2>2 DEF CallsKnowTheirGroup
<1>17. CallsAreUpToDate'
  BY <1>1, <1>2, <1>3, <1>4, <1>5, <1>7, <1>8 DEF CallsAreUpToDate, CallsHaveTheirRows,
     FinesTypeOK, Same, OthersRest, Resting, Deleting, Pending
<1>18. WaivedWithinFines'
  <2> SUFFICES ASSUME NEW g \in Groups \ contended'
               PROVE  /\ \A w \in WaiversOf(g)' :
                             w = waivedTransfer'[g] \/ \E e \in Desks : desk'[e].waiver = w
                      /\ TotalWaived(g)' <= TotalFines(g)'
    BY DEF WaivedWithinFines
  <2>1. ASSUME NEW w \in WaiversOf(g)'
        PROVE  w = waivedTransfer'[g] \/ \E e \in Desks : desk'[e].waiver = w
    <3>1. \/ w = waivedTransfer'[g]
          \/ \E e \in Desks \ {d} : desk[e].waiver = w
          \/ w = desk[d].waiver /\ w # None
      BY <1>3, <1>5 DEF WaivedWithinFines, WaiversOf
    <3>2. CASE \E e \in Desks \ {d} : desk[e].waiver = w
      BY <1>2, <1>3, <3>2 DEF Same, OthersRest
    <3>3. CASE w = desk[d].waiver /\ w # None /\ w # waivedTransfer'[g]
      <4>1. waivers[w] # None /\ waivers[w].group = g
        BY <1>3 DEF WaiversOf
      <4>2. desk[d].group = g
        BY <3>3, <4>1 DEF WaiversAreHeld
      <4>3. g \notin contended
        BY <1>5
      <4>4. Knows(d, g)
        BY <1>5, <1>6, <4>2 DEF CallsKnowTheirGroup, Working
      <4> QED
        BY <1>2, <1>3, <1>6, <3>3, <4>4 DEF Knows
    <3> QED
      BY <3>1, <3>2, <3>3
  <2>2. TotalWaived(g)' <= TotalFines(g)'
    BY <1>5, <1>8 DEF WaivedWithinFines
  <2> QED
    BY <2>1, <2>2
<1>19. OwedIsCurrent'
  <2>1. ASSUME NEW f \in owed' PROVE fines'[f].group \in {currentFines'} \cup contended'
    <3>1. /\ f \in FineIds /\ fines[f] # None /\ fines[f].group \in Groups
          /\ fines[f].group \in {currentFines} \cup contended
      BY <1>7 DEF OwedIsCurrent, FinesHaveGroups, FinesTypeOK
    <3>2. f \notin FinesOf(desk[d].group)
      BY <1>7
    <3>3. fines[f].group # desk[d].group
      BY <3>1, <3>2 DEF FinesOf
    <3>4. ~desk[d].stale => currentFines \in {desk[d].group, None}
      BY <1>6 DEF CallsAreUpToDate
    <3> QED
      BY <1>3, <1>4, <1>5, <3>1, <3>3, <3>4
  <2>2. \/ currentFines' \in {None} \cup contended'
        \/ FinesOf(currentFines)' # {}
        \/ \E e \in Desks :
               desk'[e].pc \in {"removed", "refunded"} /\ desk'[e].group = currentFines'
    <3>1. ASSUME currentFines # None, currentFines \notin contended', FinesOf(currentFines) = {}
          PROVE  \E e \in Desks :
                     desk'[e].pc \in {"removed", "refunded"} /\ desk'[e].group = currentFines
      <4>1. PICK e \in Desks : /\ desk[e].pc \in {"removed", "refunded"}
                               /\ desk[e].group = currentFines
        BY <1>5, <3>1 DEF OwedIsCurrent
      <4> QED
        BY <1>1, <1>2, <1>5, <1>6, <1>7, <4>1 DEF Same, OthersRest, Resting
    <3> QED
      BY <1>4
  <2> QED
    BY <2>1, <2>2 DEF OwedIsCurrent
<1> QED
  BY <1>9, <1>10, <1>11, <1>12, <1>13, <1>14, <1>15, <1>16, <1>17, <1>18, <1>19

LEMMA ForgetSparedInv ==
  ASSUME FinesIInv, NEW d \in Desks, ForgetSpared(d)
  PROVE  FinesIInv'
<1> USE FinesAssumption DEF FinesIInv
<1>1. Change(d, Resting, {})
  BY DEF ForgetSpared, Forget
<1>2. /\ desk' \in [Desks -> DeskStates]
      /\ desk'[d] = Resting
      /\ OthersRest(d)
  BY <1>1, RestingIsTyped, Changing
<1>3. UNCHANGED <<balance, fines, charges, groups, waivers, waivedTransfer, stranded, fineFaults>>
  BY DEF ForgetSpared, Forget
<1>4. currentFines' = None
  BY DEF ForgetSpared, Forget
<1>5. contended' = contended \cup (IF desk[d].stale THEN {currentFines} \ {None} ELSE {})
  BY DEF ForgetSpared, Forget
<1>6. desk[d].pc = "spared" /\ ~Waiving(d)
  BY DEF ForgetSpared, Waiving
<1>7. owed' = owed \ (IF desk[d].stale THEN FinesOf(desk[d].group) ELSE owed)
  BY DEF ForgetSpared, Forget
<1>8. \A g \in Groups : /\ FinesOf(g)' = FinesOf(g) /\ TotalFines(g)' = TotalFines(g)
                        /\ WaiversOf(g)' = WaiversOf(g) /\ TotalWaived(g)' = TotalWaived(g)
  BY FinesStay, WaiversStay DEF ForgetSpared, Forget
<1>9. FinesTypeOK'
  BY <1>2, <1>3, <1>4, <1>5, <1>7 DEF FinesTypeOK, FineRows, WaiverRows
<1>10. FinesHaveGroups'
  BY <1>3, <1>7 DEF FinesHaveGroups, FinesTypeOK
<1>11. HandoutsAreNew'
  BY <1>1, <1>2, <1>3, <1>4, <1>5, <1>6, <1>7, <1>8 DEF HandoutsAreNew, FinesTypeOK,
     FinesHaveGroups, WaiversOf, Same, OthersStay, OthersRest, Resting, Waiving,
     Deleting, Pending, Working
<1>12. CallsHaveTheirRows'
  BY <1>1, <1>2, <1>3, <1>5, <1>7 DEF CallsHaveTheirRows, HandoutsAreNew, FinesTypeOK,
     Same, OthersRest, Resting, Waiving, Deleting, Pending
<1>13. WaiversAreHeld'
  BY <1>1, <1>2, <1>3, <1>5, <1>7 DEF WaiversAreHeld, CallsHaveTheirRows, FinesTypeOK,
     Same, OthersRest, Resting, Waiving, Deleting, Pending
<1>14. GroupsReferToWaivers'
  BY <1>3 DEF GroupsReferToWaivers, FinesTypeOK
<1>15. OverlapsAreKnown'
  BY <1>1, <1>2, <1>5, <1>7 DEF OverlapsAreKnown, CallsHaveTheirRows, HandoutsAreNew,
     FinesTypeOK, Same, OthersRest, Resting, Waiving, Deleting, Pending, Working
<1>16. CallsKnowTheirGroup'
  <2>1. ASSUME NEW e \in Desks \ {d}, NEW g \in Groups \ contended',
               Working(e)', desk'[e].group = g
        PROVE  Knows(e, g)'
    <3>1. Working(e) /\ desk[e].group = g /\ g \notin contended
      BY <1>1, <1>2, <1>5, <1>7, <2>1 DEF Same, OthersRest, Resting, Waiving, Deleting,
         Working
    <3>2. Knows(e, g)
      BY <3>1 DEF CallsKnowTheirGroup
    <3> QED
      BY <1>1, <1>2, <1>3, <1>5, <1>7, <1>8, <3>2 DEF Knows, Same, OthersRest, Resting
  <2>2. ASSUME NEW g \in Groups \ contended', Working(d)', desk'[d].group = g
        PROVE  Knows(d, g)'
    BY <1>2 DEF Knows, Resting
  <2> QED
    BY <2>1, <2>2 DEF CallsKnowTheirGroup
<1>17. CallsAreUpToDate'
  BY <1>1, <1>2, <1>3, <1>4, <1>5, <1>7 DEF CallsAreUpToDate, CallsHaveTheirRows,
     FinesTypeOK, Same, OthersRest, Resting, Waiving, Deleting, Pending
<1>18. WaivedWithinFines'
  <2> SUFFICES ASSUME NEW g \in Groups \ contended'
               PROVE  /\ \A w \in WaiversOf(g)' :
                             w = waivedTransfer'[g] \/ \E e \in Desks : desk'[e].waiver = w
                      /\ TotalWaived(g)' <= TotalFines(g)'
    BY DEF WaivedWithinFines
  <2>1. ASSUME NEW w \in WaiversOf(g)'
        PROVE  w = waivedTransfer'[g] \/ \E e \in Desks : desk'[e].waiver = w
    <3>1. \/ w = waivedTransfer'[g]
          \/ \E e \in Desks \ {d} : desk[e].waiver = w
          \/ w = desk[d].waiver /\ w # None
      BY <1>3, <1>5 DEF WaivedWithinFines, WaiversOf
    <3>2. CASE \E e \in Desks \ {d} : desk[e].waiver = w
      BY <1>2, <1>3, <3>2 DEF Same, OthersRest
    <3>3. CASE w = desk[d].waiver /\ w # None /\ w # waivedTransfer'[g]
      BY <1>1, <1>2, <1>5, <1>6, <1>7, <3>3 DEF CallsHaveTheirRows, OthersRest, Resting,
         Waiving, Deleting, Pending
    <3> QED
      BY <3>1, <3>2, <3>3
  <2>2. TotalWaived(g)' <= TotalFines(g)'
    BY <1>5, <1>8 DEF WaivedWithinFines
  <2> QED
    BY <2>1, <2>2
<1>19. OwedIsCurrent'
  <2>1. ASSUME NEW x \in owed' PROVE fines'[x].group \in {currentFines'} \cup contended'
    BY <1>3, <1>4, <1>5, <1>7 DEF OwedIsCurrent, FinesTypeOK
  <2>2. \/ currentFines' \in {None} \cup contended'
        \/ FinesOf(currentFines)' # {}
        \/ \E e \in Desks :
               desk'[e].pc \in {"removed", "refunded"} /\ desk'[e].group = currentFines'
    <3>1. ASSUME currentFines # None, currentFines \notin contended', FinesOf(currentFines) = {}
          PROVE  \E e \in Desks :
                     desk'[e].pc \in {"removed", "refunded"} /\ desk'[e].group = currentFines
      <4>1. PICK e \in Desks : /\ desk[e].pc \in {"removed", "refunded"}
                               /\ desk[e].group = currentFines
        BY <1>5, <3>1 DEF OwedIsCurrent
      <4> QED
        BY <1>1, <1>2, <1>5, <1>6, <1>7, <4>1 DEF Same, OthersRest, Resting
    <3> QED
      BY <1>4
  <2> QED
    BY <2>1, <2>2 DEF OwedIsCurrent
<1> QED
  BY <1>9, <1>10, <1>11, <1>12, <1>13, <1>14, <1>15, <1>16, <1>17, <1>18, <1>19

LEMMA RemoveFineInv ==
  ASSUME FinesIInv, NEW d \in Desks, RemoveFine(d)
  PROVE  FinesIInv'
<1> USE FinesAssumption DEF FinesIInv
<1> DEFINE next == [desk[d] EXCEPT !.pc = "removed"]
<1>1. Change(d, next, {})
  BY DEF RemoveFine
<1>2. /\ next \in DeskStates
      /\ next.pc = "removed"
      /\ next.group = desk[d].group
      /\ next.fine = desk[d].fine
      /\ next.waiver = desk[d].waiver
      /\ next.amount = desk[d].amount
      /\ next.whole = desk[d].whole
      /\ next.holds = desk[d].holds
      /\ next.overtaken = desk[d].overtaken
      /\ next.clears = desk[d].clears
      /\ next.stale = desk[d].stale
  <2>1. desk[d] \in DeskStates
    BY DEF FinesTypeOK
  <2> QED
    BY <2>1 DEF DeskStates
<1> HIDE DEF next
<1>3. /\ desk' \in [Desks -> DeskStates]
      /\ desk'[d] = next
      /\ OthersRest(d)
  BY <1>1, <1>2, Changing
<1>4. desk[d].pc = "chosen" /\ desk[d].group \in Groups /\ desk[d].fine \in FineIds
  BY DEF RemoveFine, CallsHaveTheirRows, Deleting, FinesTypeOK
<1>5. fines[desk[d].fine] # None => fines[desk[d].fine].group = desk[d].group
  BY <1>2, <1>3, <1>4 DEF CallsHaveTheirRows
<1>6. UNCHANGED <<balance, charges, groups, currentFines, waivers, waivedTransfer, stranded, fineFaults>>
  BY DEF RemoveFine
<1>7. fines' = [fines EXCEPT ![desk[d].fine] = None] /\ fines'[desk[d].fine] = None
  BY <1>4 DEF RemoveFine, FinesTypeOK
<1>8. owed' = owed \ {desk[d].fine}
  BY DEF RemoveFine
<1>9. /\ contended \subseteq contended' /\ contended' \subseteq Groups
      /\ desk[d].group \notin contended' => WaiversOf(desk[d].group) = {}
  BY <1>4 DEF RemoveFine, FinesTypeOK
<1>10. FinesTypeOK'
  BY <1>3, <1>4, <1>5, <1>6, <1>7, <1>8, <1>9 DEF FinesTypeOK
<1>11. \A g \in Groups : WaiversOf(g)' = WaiversOf(g) /\ TotalWaived(g)' = TotalWaived(g)
  BY <1>6, WaiversStay
<1>12. \A g \in Groups \ {desk[d].group} :
           FinesOf(g)' = FinesOf(g) /\ TotalFines(g)' = TotalFines(g)
  <2> TAKE g \in Groups \ {desk[d].group}
  <2>1. FinesOf(g)' = FinesOf(g) /\ \A f \in FinesOf(g) : fines'[f] = fines[f]
    BY <1>5, <1>7, <1>10 DEF FinesTypeOK, FinesOf
  <2> QED
    BY <2>1, SameFines
<1>13. \A g \in Groups : g = desk[d].group =>
           FinesOf(g)' = FinesOf(g) \ {desk[d].fine}
  BY <1>7, <1>10 DEF FinesTypeOK, FinesOf
<1>14. FinesTypeOK'
  BY <1>10
<1>15. FinesHaveGroups'
  BY <1>6, <1>7, <1>8, <1>10 DEF FinesHaveGroups, FinesTypeOK
<1>16. HandoutsAreNew'
  BY <1>2, <1>3, <1>4, <1>6, <1>7, <1>8, <1>9, <1>10, <1>13 DEF HandoutsAreNew,
     FinesTypeOK, WaiversOf, Same, OthersRest, Resting
<1>17. CallsHaveTheirRows'
  BY <1>2, <1>3, <1>4, <1>7, <1>8, <1>9, <1>10, <1>13 DEF CallsHaveTheirRows,
     HandoutsAreNew, FinesTypeOK, Same, OthersRest, Resting, Waiving, Deleting, Pending
<1>18. WaiversAreHeld'
  BY <1>2, <1>3, <1>6, <1>7, <1>8, <1>9, <1>10, <1>13 DEF WaiversAreHeld,
     CallsHaveTheirRows, FinesTypeOK, Same, OthersRest, Resting, Waiving, Deleting,
     Pending
<1>19. GroupsReferToWaivers'
  BY <1>6 DEF GroupsReferToWaivers, FinesTypeOK
<1>20. OverlapsAreKnown'
  BY <1>2, <1>3, <1>4, <1>7, <1>8, <1>9, <1>10, <1>13 DEF OverlapsAreKnown,
     HandoutsAreNew, FinesTypeOK, Same, OthersRest, Resting, Waiving, Deleting, Working
<1>21. CallsKnowTheirGroup'
  <2>1. ASSUME NEW e \in Desks \ {d}, NEW g \in Groups \ contended',
               Working(e)', desk'[e].group = g
        PROVE  Knows(e, g)'
    <3>1. Working(e) /\ desk[e].group = g /\ g \notin contended
      BY <1>3, <1>7, <1>8, <1>9, <1>13, <2>1 DEF Same, OthersRest, Resting, Waiving,
         Deleting, Working
    <3>2. Knows(e, g)
      BY <3>1 DEF CallsKnowTheirGroup
    <3>3. g # desk[d].group
      BY <1>3, <1>4, <1>7, <1>8, <1>9, <1>13, <2>1, <3>1 DEF OverlapsAreKnown, Same,
         OthersRest, Resting, Waiving, Deleting, Working
    <3> QED
      BY <1>3, <1>6, <1>7, <1>8, <1>9, <1>11, <1>12, <1>13, <3>2, <3>3 DEF Knows, Same,
         OthersRest, Resting
  <2>2. ASSUME NEW g \in Groups \ contended', Working(d)', desk'[d].group = g
        PROVE  Knows(d, g)'
    <3>1. Knows(d, g)
      BY <1>2, <1>3, <1>4, <1>5, <1>6, <1>7, <1>8, <1>9, <1>10, <1>11, <1>12, <1>13,
         <2>2 DEF CallsKnowTheirGroup, Same, OthersStay, OthersRest, Resting, Waiving,
         Deleting, Pending, Working
    <3> QED
      BY <1>2, <1>3, <1>4, <1>6, <1>7, <1>8, <1>9, <1>13, <2>2, <3>1 DEF Knows
  <2> QED
    BY <2>1, <2>2 DEF CallsKnowTheirGroup
<1>22. CallsAreUpToDate'
  BY <1>2, <1>3, <1>6, <1>7, <1>8, <1>9, <1>10, <1>13 DEF CallsAreUpToDate,
     CallsHaveTheirRows, FinesTypeOK, Same, OthersRest, Resting, Waiving, Deleting,
     Pending
<1>23. WaivedWithinFines'
  <2> SUFFICES ASSUME NEW g \in Groups \ contended'
               PROVE  /\ \A w \in WaiversOf(g)' :
                             w = waivedTransfer'[g] \/ \E e \in Desks : desk'[e].waiver = w
                      /\ TotalWaived(g)' <= TotalFines(g)'
    BY DEF WaivedWithinFines
  <2>1. ASSUME NEW w \in WaiversOf(g)'
        PROVE  w = waivedTransfer'[g] \/ \E e \in Desks : desk'[e].waiver = w
    <3>1. \/ w = waivedTransfer'[g]
          \/ \E e \in Desks \ {d} : desk[e].waiver = w
          \/ w = desk[d].waiver /\ w # None
      BY <1>6, <1>9 DEF WaivedWithinFines, WaiversOf
    <3>2. CASE \E e \in Desks \ {d} : desk[e].waiver = w
      BY <1>3, <1>6, <3>2 DEF Same, OthersRest
    <3>3. CASE w = desk[d].waiver /\ w # None /\ w # waivedTransfer'[g]
      BY <1>2, <1>3, <1>6, <3>3
    <3> QED
      BY <3>1, <3>2, <3>3
  <2>2. TotalWaived(g)' <= TotalFines(g)'
    <3>1. CASE g # desk[d].group
      BY <1>9, <1>11, <1>12, <3>1 DEF WaivedWithinFines
    <3>2. CASE g = desk[d].group
      <4>1. TotalWaived(g)' = 0
        BY <1>9, <1>11, <3>2, NothingWaived
      <4>2. TotalFines(g)' \in Nat
        BY <1>10, TotalsStayNatural
      <4> QED
        BY <4>1, <4>2
    <3> QED
      BY <3>1, <3>2
  <2> QED
    BY <2>1, <2>2
<1>24. OwedIsCurrent'
  <2>1. ASSUME NEW x \in owed' PROVE fines'[x].group \in {currentFines'} \cup contended'
    BY <1>6, <1>7, <1>8, <1>9, <1>10 DEF OwedIsCurrent, FinesTypeOK
  <2>2. \/ currentFines' \in {None} \cup contended'
        \/ FinesOf(currentFines)' # {}
        \/ \E e \in Desks :
               desk'[e].pc \in {"removed", "refunded"} /\ desk'[e].group = currentFines'
    <3>1. ASSUME currentFines # None, currentFines \notin contended', FinesOf(currentFines) = {}
          PROVE  \E e \in Desks :
                     desk'[e].pc \in {"removed", "refunded"} /\ desk'[e].group = currentFines
      <4>1. PICK e \in Desks : /\ desk[e].pc \in {"removed", "refunded"}
                               /\ desk[e].group = currentFines
        BY <1>9, <3>1 DEF OwedIsCurrent
      <4> QED
        BY <1>2, <1>3, <1>7, <1>8, <1>9, <1>13, <4>1 DEF Same, OthersRest, Resting
    <3> QED
      BY <1>2, <1>3, <1>5, <1>6, <1>7, <3>1 DEF FinesOf
  <2> QED
    BY <2>1, <2>2 DEF OwedIsCurrent
<1> QED
  BY <1>14, <1>15, <1>16, <1>17, <1>18, <1>19, <1>20, <1>21, <1>22, <1>23, <1>24

LEMMA KeepGroupInv ==
  ASSUME FinesIInv, NEW d \in Desks, RemoveGroup(d), FinesOf(desk[d].group) # {}
  PROVE  FinesIInv'
<1> USE FinesAssumption DEF FinesIInv
<1>1. Continue(d, Resting)
  BY DEF RemoveGroup
<1>2. /\ desk' \in [Desks -> DeskStates]
      /\ desk'[d] = Resting
      /\ OthersStay(d)
  BY <1>1, RestingIsTyped, Continuing
<1>3. desk[d].pc = "refunded" /\ desk[d].whole
  BY DEF RemoveGroup
<1>4. \A e \in Desks : desk[e].pc = "fined" => desk[e].group # desk[d].group
  BY DEF RemoveGroup
<1>5. UNCHANGED <<balance, fines, charges, groups, currentFines, waivers, waivedTransfer>>
  BY DEF RemoveGroup, books
<1>6. UNCHANGED <<owed, contended, stranded, fineFaults>>
  BY DEF RemoveGroup, books
<1>7. \A g \in Groups : /\ FinesOf(g)' = FinesOf(g) /\ TotalFines(g)' = TotalFines(g)
                        /\ WaiversOf(g)' = WaiversOf(g) /\ TotalWaived(g)' = TotalWaived(g)
  BY FinesStay, WaiversStay DEF RemoveGroup, books
<1>8. FinesTypeOK'
  BY <1>2, <1>5, <1>6 DEF FinesTypeOK, FineRows, WaiverRows
<1>9. FinesHaveGroups'
  BY <1>5, <1>6 DEF FinesHaveGroups, FinesTypeOK
<1>10. HandoutsAreNew'
  BY <1>6, <1>1, <1>2, <1>3, <1>5 DEF HandoutsAreNew, FinesTypeOK, WaiversOf, OthersStay,
     Resting
<1>11. CallsHaveTheirRows'
  BY <1>1, <1>2, <1>5 DEF CallsHaveTheirRows, HandoutsAreNew, FinesTypeOK, OthersStay,
     Resting, Waiving, Deleting, Pending
<1>12. WaiversAreHeld'
  BY <1>1, <1>2, <1>4, <1>5 DEF WaiversAreHeld, CallsHaveTheirRows, FinesTypeOK,
     OthersStay, Resting, Waiving, Deleting, Pending
<1>13. GroupsReferToWaivers'
  BY <1>5 DEF GroupsReferToWaivers, FinesTypeOK
<1>14. OverlapsAreKnown'
  BY <1>1, <1>2, <1>6 DEF OverlapsAreKnown, CallsHaveTheirRows, HandoutsAreNew,
     FinesTypeOK, OthersStay, Resting, Waiving, Deleting, Pending, Working
<1>15. CallsKnowTheirGroup'
  <2>1. ASSUME NEW e \in Desks \ {d}, NEW g \in Groups \ contended',
               Working(e)', desk'[e].group = g
        PROVE  Knows(e, g)'
    <3>1. Working(e) /\ desk[e].group = g /\ g \notin contended
      BY <1>2, <1>6, <2>1 DEF OthersStay, Waiving, Deleting, Working
    <3>2. Knows(e, g)
      BY <3>1 DEF CallsKnowTheirGroup
    <3> QED
      BY <1>2, <1>5, <1>7, <3>2 DEF Knows, OthersStay
  <2>2. ASSUME NEW g \in Groups \ contended', Working(d)', desk'[d].group = g
        PROVE  Knows(d, g)'
    BY <1>2 DEF Knows, Resting
  <2> QED
    BY <2>1, <2>2 DEF CallsKnowTheirGroup
<1>16. CallsAreUpToDate'
  BY <1>1, <1>2, <1>3, <1>4, <1>5 DEF CallsAreUpToDate, CallsHaveTheirRows, FinesTypeOK,
     OthersStay, Resting, Waiving, Deleting, Pending
<1>17. WaivedWithinFines'
  <2> SUFFICES ASSUME NEW g \in Groups \ contended'
               PROVE  /\ \A w \in WaiversOf(g)' :
                             w = waivedTransfer'[g] \/ \E e \in Desks : desk'[e].waiver = w
                      /\ TotalWaived(g)' <= TotalFines(g)'
    BY DEF WaivedWithinFines
  <2>1. ASSUME NEW w \in WaiversOf(g)'
        PROVE  w = waivedTransfer'[g] \/ \E e \in Desks : desk'[e].waiver = w
    <3>1. \/ w = waivedTransfer'[g]
          \/ \E e \in Desks \ {d} : desk[e].waiver = w
          \/ w = desk[d].waiver /\ w # None
      BY <1>5, <1>6 DEF WaivedWithinFines, WaiversOf
    <3>2. CASE \E e \in Desks \ {d} : desk[e].waiver = w
      BY <1>2, <1>5, <3>2 DEF OthersStay
    <3>3. CASE w = desk[d].waiver /\ w # None /\ w # waivedTransfer'[g]
      BY <1>1, <1>2, <1>3, <1>4, <3>3 DEF CallsHaveTheirRows, Resting, Waiving,
         Deleting, Pending
    <3> QED
      BY <3>1, <3>2, <3>3
  <2>2. TotalWaived(g)' <= TotalFines(g)'
    BY <1>6, <1>7 DEF WaivedWithinFines
  <2> QED
    BY <2>1, <2>2
<1>18. OwedIsCurrent'
  <2>1. ASSUME NEW x \in owed' PROVE fines'[x].group \in {currentFines'} \cup contended'
    BY <1>5, <1>6 DEF OwedIsCurrent, FinesTypeOK
  <2>2. \/ currentFines' \in {None} \cup contended'
        \/ FinesOf(currentFines)' # {}
        \/ \E e \in Desks :
               desk'[e].pc \in {"removed", "refunded"} /\ desk'[e].group = currentFines'
    <3>1. ASSUME currentFines' # None, currentFines' \notin contended', FinesOf(currentFines') = {}
          PROVE  \E e \in Desks :
                     desk'[e].pc \in {"removed", "refunded"} /\ desk'[e].group = currentFines'
      <4>1. currentFines' = currentFines
        BY <1>5
      <4>2. PICK e \in Desks : /\ desk[e].pc \in {"removed", "refunded"}
                               /\ desk[e].group = currentFines
        BY <1>5, <1>6, <3>1 DEF OwedIsCurrent
      <4>3. e # d
        BY <1>1, <1>2, <1>3, <1>4, <1>5, <1>6, <1>7, <3>1, <4>1, <4>2
      <4> QED
        BY <1>1, <1>2, <1>3, <1>4, <1>5, <1>6, <1>7, <4>1, <4>2, <4>3 DEF Same,
           OthersStay, OthersRest, Resting, Waiving, Deleting, Pending, Working
    <3> QED
      BY <1>2, <1>5, <1>6, <3>1 DEF FinesOf
  <2> QED
    BY <2>1, <2>2 DEF OwedIsCurrent
<1> QED
  BY <1>8, <1>9, <1>10, <1>11, <1>12, <1>13, <1>14, <1>15, <1>16, <1>17, <1>18

LEMMA DropGroupInv ==
  ASSUME FinesIInv, NEW d \in Desks, RemoveGroup(d), FinesOf(desk[d].group) = {}
  PROVE  FinesIInv'
<1> USE FinesAssumption DEF FinesIInv
<1>1. Change(d, Resting, {})
  BY DEF RemoveGroup, SetCurrentFines
<1>2. /\ desk' \in [Desks -> DeskStates]
      /\ desk'[d] = Resting
      /\ OthersRest(d)
  BY <1>1, RestingIsTyped, Changing
<1>3. desk[d].pc = "refunded" /\ desk[d].whole
  BY DEF RemoveGroup
<1>4. \A e \in Desks : desk[e].pc = "fined" => desk[e].group # desk[d].group
  BY DEF RemoveGroup
<1>5. desk[d].group \in Groups
  BY <1>3 DEF CallsHaveTheirRows, Deleting
<1>6. UNCHANGED <<balance, fines, charges, waivers, contended, stranded, fineFaults>>
  BY DEF RemoveGroup
<1>7. groups' = groups \ {desk[d].group}
  BY DEF RemoveGroup
<1>8. /\ waivedTransfer' = [waivedTransfer EXCEPT ![desk[d].group] = None]
      /\ waivedTransfer'[desk[d].group] = None
  BY <1>5 DEF RemoveGroup, FinesTypeOK
<1>9. \/ currentFines = desk[d].group /\ currentFines' = None /\ owed' = {}
      \/ currentFines # desk[d].group /\ UNCHANGED currentFines /\ owed' \subseteq owed
  BY DEF RemoveGroup, SetCurrentFines
<1>10. \A g \in Groups : /\ FinesOf(g)' = FinesOf(g) /\ TotalFines(g)' = TotalFines(g)
                         /\ WaiversOf(g)' = WaiversOf(g) /\ TotalWaived(g)' = TotalWaived(g)
  BY FinesStay, WaiversStay DEF RemoveGroup
<1>11. FinesTypeOK'
  BY <1>1, <1>2, <1>5, <1>6, <1>7, <1>8, <1>9, <1>10 DEF FinesTypeOK, FineRows,
     WaiverRows
<1>12. FinesHaveGroups'
  BY <1>6, <1>7, <1>9 DEF FinesHaveGroups, FinesTypeOK, FinesOf
<1>13. HandoutsAreNew'
  BY <1>1, <1>2, <1>3, <1>6, <1>7, <1>8, <1>9 DEF HandoutsAreNew, FinesTypeOK,
     WaiversOf, Same, OthersRest, Resting
<1>14. CallsHaveTheirRows'
  BY <1>1, <1>2, <1>6, <1>7, <1>8, <1>9 DEF CallsHaveTheirRows, HandoutsAreNew,
     FinesTypeOK, Same, OthersRest, Resting, Waiving, Deleting, Pending
<1>15. WaiversAreHeld'
  BY <1>1, <1>2, <1>4, <1>6, <1>7, <1>8, <1>9 DEF WaiversAreHeld, CallsHaveTheirRows,
     FinesTypeOK, Same, OthersRest, Resting, Waiving, Deleting, Pending
<1>16. GroupsReferToWaivers'
  BY <1>6, <1>8 DEF GroupsReferToWaivers, FinesTypeOK
<1>17. OverlapsAreKnown'
  BY <1>1, <1>2, <1>6, <1>7, <1>8, <1>9 DEF OverlapsAreKnown, CallsHaveTheirRows,
     HandoutsAreNew, FinesTypeOK, Same, OthersRest, Resting, Waiving, Deleting, Pending,
     Working
<1>18. CallsKnowTheirGroup'
  <2>1. ASSUME NEW e \in Desks \ {d}, NEW g \in Groups \ contended',
               Working(e)', desk'[e].group = g
        PROVE  Knows(e, g)'
    <3>1. Working(e) /\ desk[e].group = g /\ g \notin contended
      BY <1>1, <1>2, <1>6, <1>7, <1>8, <1>9, <2>1 DEF Same, OthersRest, Resting,
         Waiving, Deleting, Working
    <3>2. Knows(e, g)
      BY <3>1 DEF CallsKnowTheirGroup
    <3>3. g # desk[d].group
      BY <1>3, <3>1 DEF OverlapsAreKnown, Waiving, Deleting, Working
    <3> QED
      BY <1>1, <1>2, <1>7, <1>8, <1>9, <1>10, <3>2, <3>3 DEF Knows, Same, OthersRest,
         Resting
  <2>2. ASSUME NEW g \in Groups \ contended', Working(d)', desk'[d].group = g
        PROVE  Knows(d, g)'
    BY <1>2 DEF Knows, Resting
  <2> QED
    BY <2>1, <2>2 DEF CallsKnowTheirGroup
<1>19. CallsAreUpToDate'
  BY <1>1, <1>2, <1>4, <1>6, <1>7, <1>8, <1>9 DEF CallsAreUpToDate, CallsHaveTheirRows,
     FinesTypeOK, Same, OthersRest, Resting, Waiving, Deleting, Pending
<1>20. WaivedWithinFines'
  <2> SUFFICES ASSUME NEW g \in Groups \ contended'
               PROVE  /\ \A w \in WaiversOf(g)' :
                             w = waivedTransfer'[g] \/ \E e \in Desks : desk'[e].waiver = w
                      /\ TotalWaived(g)' <= TotalFines(g)'
    BY DEF WaivedWithinFines
  <2>1. ASSUME NEW w \in WaiversOf(g)'
        PROVE  w = waivedTransfer'[g] \/ \E e \in Desks : desk'[e].waiver = w
    <3>1. \/ w = waivedTransfer'[g]
          \/ \E e \in Desks \ {d} : desk[e].waiver = w
          \/ w = desk[d].waiver /\ w # None
      <4>1. CASE g = desk[d].group
        <5>1. TotalWaived(g) <= 0
          BY <1>6, <1>8, <4>1, NoFines DEF WaivedWithinFines
        <5>2. WaiversOf(g) = {}
          BY <5>1, SomethingWaived, TotalsAreNatural
        <5> QED
          BY <1>10, <5>2
      <4>2. CASE g # desk[d].group
        BY <1>6, <1>8, <4>2 DEF WaivedWithinFines, WaiversOf, FinesTypeOK
      <4> QED
        BY <4>1, <4>2
    <3>2. CASE \E e \in Desks \ {d} : desk[e].waiver = w
      BY <1>2, <1>8, <3>2 DEF Same, OthersRest
    <3>3. CASE w = desk[d].waiver /\ w # None /\ w # waivedTransfer'[g]
      BY <1>1, <1>2, <1>3, <1>4, <1>7, <1>8, <1>9, <3>3 DEF CallsHaveTheirRows,
         OthersRest, Resting, Waiving, Deleting, Pending
    <3> QED
      BY <3>1, <3>2, <3>3
  <2>2. TotalWaived(g)' <= TotalFines(g)'
    BY <1>6, <1>8, <1>10 DEF WaivedWithinFines
  <2> QED
    BY <2>1, <2>2
<1>21. OwedIsCurrent'
  <2>1. ASSUME NEW x \in owed' PROVE fines'[x].group \in {currentFines'} \cup contended'
    BY <1>6, <1>9 DEF OwedIsCurrent, FinesTypeOK
  <2>2. \/ currentFines' \in {None} \cup contended'
        \/ FinesOf(currentFines)' # {}
        \/ \E e \in Desks :
               desk'[e].pc \in {"removed", "refunded"} /\ desk'[e].group = currentFines'
    <3>1. ASSUME currentFines' # None, currentFines' \notin contended', FinesOf(currentFines') = {}
          PROVE  \E e \in Desks :
                     desk'[e].pc \in {"removed", "refunded"} /\ desk'[e].group = currentFines'
      <4>1. currentFines' = currentFines
        BY <1>9, <3>1
      <4>2. PICK e \in Desks : /\ desk[e].pc \in {"removed", "refunded"}
                               /\ desk[e].group = currentFines
        BY <1>6, <3>1, <4>1 DEF OwedIsCurrent
      <4>3. e # d
        BY <1>9, <3>1, <4>1, <4>2
      <4> QED
        BY <1>1, <1>2, <1>7, <1>8, <1>9, <4>1, <4>2, <4>3 DEF Same, OthersRest, Resting
    <3> QED
      BY <1>2, <1>6, <3>1 DEF FinesOf
  <2> QED
    BY <2>1, <2>2 DEF OwedIsCurrent
<1> QED
  BY <1>11, <1>12, <1>13, <1>14, <1>15, <1>16, <1>17, <1>18, <1>19, <1>20, <1>21

LEMMA CommitHandoutInv ==
  ASSUME FinesIInv, NEW d \in Desks, CommitHandout(d)
  PROVE  FinesIInv'
<1> USE FinesAssumption DEF FinesIInv
<1>1. Change(d, Resting, desk[d].before)
  BY DEF CommitHandout
<1>2. /\ desk' \in [Desks -> DeskStates]
      /\ desk'[d] = Resting
      /\ OthersRest(d)
  BY <1>1, RestingIsTyped, Changing
<1>3. desk[d].pc = "fined" /\ balance' = balance - desk[d].amount
  BY DEF CommitHandout
<1>4. /\ desk[d].fine \in FineIds /\ desk[d].group \in Groups
      /\ desk[d].amount \in 0 .. 500 /\ desk[d].waiver = None
      /\ fines[desk[d].fine] = None
      /\ \A e \in Desks \ {d} : desk[e].fine # desk[d].fine
  BY <1>1, <1>2, <1>3 DEF HandoutsAreNew
<1>5. desk[d].whole => /\ desk[d].group \notin groups
                       /\ \A w \in Waivers :
                              w \notin stranded /\ waivers[w] # None
                                  => waivers[w].group # desk[d].group
                       /\ \A e \in Desks \ {d} : desk[e].group # desk[d].group
  BY <1>3 DEF HandoutsAreNew, WaiversOf
<1>6. UNCHANGED <<waivers, waivedTransfer, stranded, fineFaults>>
  BY DEF CommitHandout
<1>7. /\ fines' = [fines EXCEPT ![desk[d].fine] =
                      [group |-> desk[d].group, amount |-> desk[d].amount]]
      /\ fines'[desk[d].fine] = [group |-> desk[d].group, amount |-> desk[d].amount]
  BY <1>2, <1>4 DEF CommitHandout, FinesTypeOK
<1>8. [group |-> desk[d].group, amount |-> desk[d].amount] # None
  <2>1. [group |-> desk[d].group, amount |-> desk[d].amount] \in [group : Groups, amount : Nat]
    BY <1>1, <1>2, <1>3, <1>4, <1>5, <1>6, <1>7
  <2> QED
    BY <2>1, FinesAssumption
<1>9. /\ charges' = charges \cup {desk[d].fine} /\ groups' = groups \cup {desk[d].group}
      /\ desk[d].whole /\ desk[d].amount > 0 => currentFines' = desk[d].group
      /\ ~(desk[d].whole /\ desk[d].amount > 0) => currentFines' = currentFines
      /\ owed' = owed \cup (IF desk[d].amount > 0 THEN {desk[d].fine} ELSE {})
  BY DEF CommitHandout
<1>10. /\ contended' \subseteq Groups
       /\ \A g \in contended : (desk[d].whole /\ g = desk[d].group) \/ g \in contended'
       /\ \/ desk[d].whole /\ currentFines = None
          \/ ~desk[d].whole /\ currentFines = desk[d].group
          \/ /\ desk[d].group \in contended'
             /\ currentFines \in contended' \cup {None}
  BY <1>4 DEF CommitHandout, Moved, FinesTypeOK
<1>11. FinesTypeOK'
  BY <1>1, <1>2, <1>3, <1>4, <1>5, <1>6, <1>7, <1>8, <1>9, <1>10 DEF FinesTypeOK,
     FineRows
<1>12. \A g \in Groups : WaiversOf(g)' = WaiversOf(g) /\ TotalWaived(g)' = TotalWaived(g)
  BY <1>6, WaiversStay
<1>13. \A g \in Groups : /\ FinesOf(g) \subseteq FinesOf(g)'
                         /\ \A n \in Nat : n <= TotalFines(g) => n <= TotalFines(g)'
  <2> TAKE g \in Groups
  <2>1. CASE g # desk[d].group
    <3>1. FinesOf(g)' = FinesOf(g) /\ \A f \in FinesOf(g) : fines'[f] = fines[f]
      BY <1>2, <1>4, <1>7, <1>9, <1>10, <1>11, <2>1 DEF FinesTypeOK, FinesOf
    <3> QED
      BY <3>1, SameFines
  <2>2. CASE g = desk[d].group
    <3>1. /\ FinesOf(g)' = FinesOf(g) \cup {desk[d].fine}
          /\ desk[d].fine \in FineIds \ FinesOf(g)
          /\ \A f \in FinesOf(g) : fines'[f] = fines[f]
      BY <1>2, <1>4, <1>7, <1>8, <1>9, <1>10, <1>11, <2>2 DEF FinesTypeOK, FinesOf
    <3>2. TotalFines(g)' >= TotalFines(g)
      BY <1>2, <1>7, <1>9, <1>10, <1>11, <3>1, OneMoreFine
    <3>3. TotalFines(g) \in Nat /\ TotalFines(g)' \in Nat
      BY <1>11, TotalsAreNatural, TotalsStayNatural
    <3>4. \A k, m, n \in Nat : n <= k /\ m >= k => n <= m
      OBVIOUS
    <3> QED
      BY <3>1, <3>2, <3>3, <3>4
  <2> QED
    BY <2>1, <2>2
<1>14. FinesTypeOK'
  BY <1>11
<1>15. FinesHaveGroups'
  BY <1>2, <1>7, <1>8, <1>9, <1>10, <1>11, <1>13 DEF FinesHaveGroups, FinesTypeOK
<1>16. HandoutsAreNew'
  BY <1>1, <1>2, <1>3, <1>4, <1>5, <1>6, <1>7, <1>8, <1>9, <1>10, <1>11, <1>12, <1>13
     DEF HandoutsAreNew, FinesTypeOK, FinesHaveGroups, WaiversOf, Same, OthersStay,
     OthersRest, Resting, Waiving, Deleting, Pending, Working
<1>17. CallsHaveTheirRows'
  BY <1>1, <1>2, <1>4, <1>7, <1>9, <1>10, <1>11, <1>13 DEF CallsHaveTheirRows,
     HandoutsAreNew, FinesTypeOK, Same, OthersRest, Resting, Waiving, Deleting, Pending
<1>18. WaiversAreHeld'
  BY <1>1, <1>2, <1>3, <1>6, <1>7, <1>9, <1>10, <1>11, <1>13 DEF WaiversAreHeld,
     CallsHaveTheirRows, FinesTypeOK, Same, OthersRest, Resting, Waiving, Deleting,
     Pending
<1>19. GroupsReferToWaivers'
  BY <1>6 DEF GroupsReferToWaivers, FinesTypeOK
<1>20. OverlapsAreKnown'
  BY <1>1, <1>2, <1>5, <1>7, <1>9, <1>10, <1>11, <1>13 DEF OverlapsAreKnown,
     CallsHaveTheirRows, HandoutsAreNew, FinesTypeOK, Same, OthersRest, Resting,
     Waiving, Deleting, Pending, Working
<1>21. CallsKnowTheirGroup'
  <2>1. ASSUME NEW e \in Desks \ {d}, NEW g \in Groups \ contended',
               Working(e)', desk'[e].group = g
        PROVE  Knows(e, g)'
    <3>1. Working(e) /\ desk[e].group = g /\ g \notin contended
      <4>1. Working(e) /\ desk[e].group = g
        BY <1>1, <1>2, <1>7, <1>9, <1>10, <1>13, <2>1 DEF Same, OthersRest, Resting,
           Waiving, Deleting, Working
      <4>2. CASE g \in contended
        <5>1. g \notin contended'
          OBVIOUS
        <5>2. desk[d].whole /\ g = desk[d].group
          BY <1>10, <4>2, <5>1
        <5>3. desk[d].whole
          BY <5>2
        <5>4. \A x \in Desks \ {d} : desk[x].group # desk[d].group
          BY <1>5, <5>3
        <5> QED
          BY <4>1, <5>2, <5>4
      <4> QED
        BY <4>1, <4>2
    <3>2. Knows(e, g)
      BY <3>1 DEF CallsKnowTheirGroup
    <3>3. \/ ~Pending(e) /\ desk[e].pc # "weighed" /\ desk[e].pc # "emptied"
          \/ desk[e].amount \in Nat
      BY <3>1, FinesAssumption DEF CallsHaveTheirRows, Same, OthersStay, OthersRest,
         Resting, Waiving, Deleting, Pending, Working
    <3> QED
      BY <1>1, <1>2, <1>3, <1>4, <1>5, <1>6, <1>7, <1>8, <1>9, <1>10, <1>11, <1>12,
         <1>13, <3>1, <3>2, <3>3 DEF Knows, Same, OthersStay, OthersRest, Resting,
         Waiving, Deleting, Pending, Working
  <2>2. ASSUME NEW g \in Groups \ contended', Working(d)', desk'[d].group = g
        PROVE  Knows(d, g)'
    BY <1>2 DEF Knows, Resting
  <2> QED
    BY <2>1, <2>2 DEF CallsKnowTheirGroup
<1>22. CallsAreUpToDate'
  BY <1>1, <1>2, <1>3, <1>7, <1>9, <1>10, <1>11, <1>12, <1>13 DEF CallsAreUpToDate,
     CallsHaveTheirRows, FinesTypeOK, Same, OthersRest, Resting, Waiving, Deleting,
     Pending, Working
<1>23. WaivedWithinFines'
  <2> SUFFICES ASSUME NEW g \in Groups \ contended'
               PROVE  /\ \A w \in WaiversOf(g)' :
                             w = waivedTransfer'[g] \/ \E e \in Desks : desk'[e].waiver = w
                      /\ TotalWaived(g)' <= TotalFines(g)'
    BY DEF WaivedWithinFines
  <2>1. ASSUME NEW w \in WaiversOf(g)'
        PROVE  w = waivedTransfer'[g] \/ \E e \in Desks : desk'[e].waiver = w
    <3>1. \/ w = waivedTransfer'[g]
          \/ \E e \in Desks \ {d} : desk[e].waiver = w
          \/ w = desk[d].waiver /\ w # None
      <4>1. CASE g \in contended
        BY <1>5, <1>6, <1>10, <4>1 DEF WaiversOf
      <4>2. CASE g \notin contended
        BY <1>4, <1>6, <4>2 DEF WaivedWithinFines, WaiversOf
      <4> QED
        BY <4>1, <4>2
    <3>2. CASE \E e \in Desks \ {d} : desk[e].waiver = w
      BY <1>2, <1>6, <3>2 DEF Same, OthersRest
    <3>3. CASE w = desk[d].waiver /\ w # None /\ w # waivedTransfer'[g]
      BY <1>4, <3>3
    <3> QED
      BY <3>1, <3>2, <3>3
  <2>2. TotalWaived(g)' <= TotalFines(g)'
    <3>1. CASE g \in contended
      <4>1. WaiversOf(g) = {}
        BY <1>5, <1>10, <3>1 DEF WaiversOf
      <4>2. TotalWaived(g)' = 0
        BY <1>12, <4>1, NothingWaived
      <4>3. TotalFines(g)' \in Nat
        BY <1>11, TotalsStayNatural
      <4> QED
        BY <4>2, <4>3
    <3>2. CASE g \notin contended
      <4>1. TotalWaived(g) <= TotalFines(g) /\ TotalWaived(g) \in Nat
        BY <3>2, TotalsAreNatural DEF WaivedWithinFines
      <4> QED
        BY <1>1, <1>2, <1>3, <1>4, <1>5, <1>6, <1>7, <1>8, <1>9, <1>10, <1>11, <1>12,
           <1>13, <4>1
    <3> QED
      BY <3>1, <3>2
  <2> QED
    BY <2>1, <2>2
<1>24. OwedIsCurrent'
  <2>1. ASSUME NEW f \in owed' PROVE fines'[f].group \in {currentFines'} \cup contended'
    <3>1. CASE f = desk[d].fine
      <4>1. desk[d].amount > 0
        BY <1>4, <1>7, <1>9, <3>1 DEF FinesHaveGroups
      <4>2. fines'[f].group = desk[d].group
        BY <1>2, <1>7, <1>9, <1>10, <1>13, <3>1
      <4>3. desk[d].group \in {currentFines'} \cup contended'
        BY <1>9, <1>10, <4>1
      <4> QED
        BY <4>2, <4>3
    <3>2. CASE f # desk[d].fine
      <4>1. f \in owed /\ f \in FineIds /\ fines'[f] = fines[f] /\ fines[f] # None
        BY <1>7, <1>9, <1>11, <3>2 DEF FinesHaveGroups, FinesTypeOK
      <4>2. fines[f].group \in groups /\ fines[f].group \in {currentFines} \cup contended
        BY <4>1 DEF FinesHaveGroups, OwedIsCurrent
      <4>3. CASE fines[f].group \in contended
        <5>1. ~(desk[d].whole /\ fines[f].group = desk[d].group)
          BY <1>5, <1>7, <4>2
        <5>2. fines[f].group \in contended'
          BY <1>7, <1>10, <4>3, <5>1
        <5> QED
          BY <4>1, <5>2
      <4>4. CASE fines[f].group = currentFines
        BY <1>9, <1>10, <4>1, <4>2, <4>4 DEF FinesTypeOK
      <4> QED
        BY <4>2, <4>3, <4>4
    <3> QED
      BY <3>1, <3>2
  <2>2. \/ currentFines' \in {None} \cup contended'
        \/ FinesOf(currentFines)' # {}
        \/ \E e \in Desks :
               desk'[e].pc \in {"removed", "refunded"} /\ desk'[e].group = currentFines'
    <3>1. CASE desk[d].whole /\ desk[d].amount > 0
      <4>1. currentFines' = desk[d].group /\ desk[d].fine \in FineIds
        BY <1>4, <1>9, <3>1
      <4> QED
        BY <1>2, <1>4, <1>7, <1>8, <1>9, <1>10, <1>13, <4>1 DEF FinesOf
    <3>2. CASE ~(desk[d].whole /\ desk[d].amount > 0)
      <4>1. currentFines' = currentFines
        BY <1>9, <3>2
      <4>2. CASE currentFines \in {None} \cup contended
        BY <1>5, <1>10, <4>1, <4>2 DEF FinesTypeOK
      <4>3. CASE FinesOf(currentFines) # {}
        <5>1. PICK f \in FineIds : fines[f] # None /\ fines[f].group = currentFines
          BY <4>3 DEF FinesOf
        <5>2. fines'[f] = fines[f]
          BY <1>2, <1>4, <1>7, <1>9, <1>10, <1>11, <1>13, <5>1 DEF FinesTypeOK
        <5> QED
          BY <4>1, <5>1, <5>2 DEF FinesOf
      <4>4. CASE \E e \in Desks :
                     desk[e].pc \in {"removed", "refunded"} /\ desk[e].group = currentFines
        BY <1>1, <1>2, <1>3, <1>7, <1>9, <1>10, <1>13, <4>1, <4>4 DEF OthersRest, Same,
           Resting
      <4> QED
        BY <4>2, <4>3, <4>4 DEF OwedIsCurrent
    <3> QED
      BY <3>1, <3>2
  <2> QED
    BY <2>1, <2>2 DEF OwedIsCurrent
<1> QED
  BY <1>14, <1>15, <1>16, <1>17, <1>18, <1>19, <1>20, <1>21, <1>22, <1>23, <1>24

LEMMA TradeInv ==
  ASSUME FinesIInv, NEW a \in Int, Trade(a)
  PROVE  FinesIInv'
<1> USE FinesAssumption DEF FinesIInv
<1>1. /\ UNCHANGED <<fines, charges, groups, currentFines, waivers, waivedTransfer>>
      /\ UNCHANGED <<owed, contended, stranded, fineFaults>>
      /\ balance' \in Int
  BY DEF Trade
<1>2. desk' \in [Desks -> DeskStates]
  <2>1. desk' = [e \in Desks |->
                   IF Busy(e) THEN [desk[e] EXCEPT !.stale = TRUE] ELSE Resting]
    BY DEF Trade
  <2>2. \A s \in DeskStates : [s EXCEPT !.stale = TRUE] \in DeskStates
    BY DEF DeskStates
  <2>3. \A e \in Desks : desk[e] \in DeskStates
    BY DEF FinesTypeOK
  <2> QED
    BY <2>1, <2>2, <2>3, RestingIsTyped
<1>3. \A e \in Desks : Same(e) /\ (desk'[e].stale \/ desk'[e] = Resting)
  <2> TAKE e \in Desks
  <2>1. desk[e] \in DeskStates
    BY DEF FinesTypeOK
  <2>2. CASE Busy(e)
    <3>1. desk'[e] = [desk[e] EXCEPT !.stale = TRUE]
      BY <2>2 DEF Trade
    <3> QED
      BY <2>1, <3>1 DEF Same, DeskStates
  <2>3. CASE ~Busy(e)
    BY <2>3 DEF Trade, Busy, Same
  <2> QED
    BY <2>2, <2>3
<1>4. \A g \in Groups : /\ FinesOf(g)' = FinesOf(g) /\ TotalFines(g)' = TotalFines(g)
                        /\ WaiversOf(g)' = WaiversOf(g) /\ TotalWaived(g)' = TotalWaived(g)
  BY <1>1, FinesStay, WaiversStay
<1>5. FinesTypeOK' /\ FinesHaveGroups' /\ GroupsReferToWaivers'
  BY <1>1, <1>2 DEF FinesTypeOK, FinesHaveGroups, GroupsReferToWaivers
<1>6. HandoutsAreNew'
  BY <1>1, <1>3 DEF HandoutsAreNew, WaiversOf, Same
<1>7. CallsHaveTheirRows'
  BY <1>1, <1>3 DEF CallsHaveTheirRows, Same, Waiving, Pending, Deleting
<1>8. WaiversAreHeld'
  BY <1>1, <1>3 DEF WaiversAreHeld, Same, Waiving, Pending
<1>9. OverlapsAreKnown'
  BY <1>1, <1>3 DEF OverlapsAreKnown, Same, Working, Waiving, Deleting
<1>10. CallsKnowTheirGroup'
  <2> SUFFICES ASSUME NEW e \in Desks, NEW g \in Groups \ contended',
                      Working(e)', desk'[e].group = g
               PROVE  Knows(e, g)'
    BY DEF CallsKnowTheirGroup
  <2>1. Knows(e, g)
    BY <1>1, <1>3 DEF CallsKnowTheirGroup, Same, Working, Waiving, Deleting
  <2> QED
    BY <1>1, <1>3, <1>4, <2>1 DEF Knows, Same
<1>11. CallsAreUpToDate'
  BY <1>3 DEF CallsAreUpToDate, Resting, Waiving, Pending
<1>12. WaivedWithinFines'
  <2> SUFFICES ASSUME NEW g \in Groups \ contended'
               PROVE  /\ \A w \in WaiversOf(g)' :
                             w = waivedTransfer'[g] \/ \E e \in Desks : desk'[e].waiver = w
                      /\ TotalWaived(g)' <= TotalFines(g)'
    BY DEF WaivedWithinFines
  <2>1. /\ \A w \in WaiversOf(g) :
               w = waivedTransfer[g] \/ \E e \in Desks : desk[e].waiver = w
        /\ TotalWaived(g) <= TotalFines(g)
    BY <1>1 DEF WaivedWithinFines
  <2> QED
    BY <1>1, <1>3, <1>4, <2>1 DEF Same
<1>13. OwedIsCurrent'
  <2>1. \A f \in owed' : fines'[f].group \in {currentFines'} \cup contended'
    BY <1>1 DEF OwedIsCurrent
  <2>2. \/ currentFines' \in {None} \cup contended'
        \/ FinesOf(currentFines)' # {}
        \/ \E e \in Desks :
               desk'[e].pc \in {"removed", "refunded"} /\ desk'[e].group = currentFines'
    BY <1>1, <1>3 DEF OwedIsCurrent, FinesOf, Same
  <2> QED
    BY <2>1, <2>2 DEF OwedIsCurrent
<1> QED
  BY <1>5, <1>6, <1>7, <1>8, <1>9, <1>10, <1>11, <1>12, <1>13

LEMMA FinesCrashInv ==
  ASSUME FinesIInv, FinesCrash
  PROVE  FinesIInv'
<1> USE FinesAssumption DEF FinesIInv
<1>1. /\ UNCHANGED <<balance, fines, charges, groups, currentFines, waivers, waivedTransfer, owed, stranded>>
      /\ desk' = [d \in Desks |-> Resting]
      /\ contended' = contended \cup ({desk[d].group : d \in Desks} \ {None})
      /\ fineFaults' \in 0 .. MaxFineFaults
  BY DEF FinesCrash, FinesTypeOK, books
<1>2. /\ desk' \in [Desks -> DeskStates]
      /\ \A e \in Desks : desk'[e] = Resting
  BY <1>1, RestingIsTyped
<1>3. contended' \subseteq Groups /\ contended \subseteq contended'
  BY <1>1 DEF FinesTypeOK, DeskStates
<1>4. \A g \in Groups : /\ FinesOf(g)' = FinesOf(g) /\ TotalFines(g)' = TotalFines(g)
                        /\ WaiversOf(g)' = WaiversOf(g) /\ TotalWaived(g)' = TotalWaived(g)
  BY <1>1, FinesStay, WaiversStay
<1>5. \A e \in Desks : /\ desk'[e].pc = "idle" /\ desk'[e].waiver = None
                       /\ ~desk'[e].overtaken /\ ~desk'[e].stale
  BY <1>2, RestingIsTyped
<1>6. FinesTypeOK' /\ FinesHaveGroups' /\ GroupsReferToWaivers'
  BY <1>1, <1>2, <1>3 DEF FinesTypeOK, FinesHaveGroups, GroupsReferToWaivers
<1>7. HandoutsAreNew' /\ CallsHaveTheirRows'
  BY <1>5 DEF HandoutsAreNew, CallsHaveTheirRows, Waiving, Pending, Deleting
<1>8. WaiversAreHeld' /\ OverlapsAreKnown' /\ CallsKnowTheirGroup'
  BY <1>5 DEF WaiversAreHeld, OverlapsAreKnown, CallsKnowTheirGroup, Waiving, Pending,
     Working, Deleting
<1>9. CallsAreUpToDate'
  BY <1>5 DEF CallsAreUpToDate, Waiving, Pending
<1>10. WaivedWithinFines'
  <2> SUFFICES ASSUME NEW g \in Groups \ contended'
               PROVE  /\ \A w \in WaiversOf(g)' : w = waivedTransfer'[g]
                      /\ TotalWaived(g)' <= TotalFines(g)'
    BY DEF WaivedWithinFines
  <2>1. ASSUME NEW w \in WaiversOf(g) PROVE w = waivedTransfer[g]
    <3>1. g \notin contended /\ w \in Waivers /\ waivers[w] # None /\ waivers[w].group = g
      BY <1>3, <2>1 DEF WaiversOf
    <3>2. ASSUME NEW e \in Desks, desk[e].waiver = w PROVE FALSE
      <4>1. desk[e].group = g
        BY <3>1, <3>2 DEF WaiversAreHeld
      <4> QED
        BY <1>1, <4>1
    <3> QED
      BY <2>1, <3>1, <3>2 DEF WaivedWithinFines
  <2>2. TotalWaived(g) <= TotalFines(g)
    BY <1>3 DEF WaivedWithinFines
  <2> QED
    BY <1>1, <1>4, <2>1, <2>2
<1>11. OwedIsCurrent'
  <2>1. \A f \in owed' : fines'[f].group \in {currentFines'} \cup contended'
    BY <1>1, <1>3 DEF OwedIsCurrent
  <2>2. \/ currentFines' \in {None} \cup contended'
        \/ FinesOf(currentFines)' # {}
    <3>1. ASSUME NEW e \in Desks, desk[e].group = currentFines, currentFines # None
          PROVE  currentFines \in contended'
      BY <1>1, <3>1
    <3> QED
      BY <1>1 DEF OwedIsCurrent, FinesOf
  <2> QED
    BY <2>1, <2>2 DEF OwedIsCurrent
<1> QED
  BY <1>6, <1>7, <1>8, <1>9, <1>10, <1>11

LEMMA FinesInitInv == FinesInit => FinesIInv
<1> SUFFICES ASSUME FinesInit PROVE FinesIInv
  OBVIOUS
<1> USE FinesAssumption DEF FinesInit
<1>1. \A e \in Desks : /\ desk[e].pc = "idle" /\ desk[e].waiver = None
                       /\ ~desk[e].overtaken /\ ~desk[e].stale
  BY RestingIsTyped
<1>2. FinesTypeOK
  <2>1. desk \in [Desks -> DeskStates]
    BY RestingIsTyped
  <2>2. fineFaults \in 0 .. MaxFineFaults
    OBVIOUS
  <2> QED
    BY <2>1, <2>2 DEF FinesTypeOK
<1>3. FinesHaveGroups /\ GroupsReferToWaivers
  BY DEF FinesHaveGroups, GroupsReferToWaivers
<1>4. HandoutsAreNew /\ CallsHaveTheirRows
  BY <1>1 DEF HandoutsAreNew, CallsHaveTheirRows, Waiving, Pending, Deleting
<1>5. WaiversAreHeld /\ OverlapsAreKnown /\ CallsKnowTheirGroup
  BY <1>1 DEF WaiversAreHeld, OverlapsAreKnown, CallsKnowTheirGroup, Waiving, Pending,
     Working, Deleting
<1>6. CallsAreUpToDate
  BY <1>1 DEF CallsAreUpToDate, Waiving, Pending
<1>7. WaivedWithinFines
  <2> SUFFICES ASSUME NEW g \in Groups
               PROVE  WaiversOf(g) = {} /\ TotalWaived(g) <= TotalFines(g)
    BY DEF WaivedWithinFines
  <2>1. WaiversOf(g) = {}
    BY DEF WaiversOf
  <2>2. TotalWaived(g) = 0 /\ TotalFines(g) \in Nat
    BY <1>2, <2>1, NothingWaived, TotalsAreNatural
  <2> QED
    BY <2>1, <2>2
<1>8. OwedIsCurrent
  BY DEF OwedIsCurrent
<1> QED
  BY <1>2, <1>3, <1>4, <1>5, <1>6, <1>7, <1>8 DEF FinesIInv

LEMMA FinesStutterInv ==
  ASSUME FinesIInv, UNCHANGED finesVars
  PROVE  FinesIInv'
<1> USE FinesAssumption DEF FinesIInv, finesVars
<1>1. \A g \in Groups : /\ FinesOf(g)' = FinesOf(g) /\ TotalFines(g)' = TotalFines(g)
                        /\ WaiversOf(g)' = WaiversOf(g) /\ TotalWaived(g)' = TotalWaived(g)
  BY FinesStay, WaiversStay
<1>2. FinesTypeOK' /\ FinesHaveGroups' /\ GroupsReferToWaivers'
  BY DEF FinesTypeOK, FinesHaveGroups, GroupsReferToWaivers
<1>3. HandoutsAreNew' /\ CallsHaveTheirRows'
  BY DEF HandoutsAreNew, CallsHaveTheirRows, WaiversOf, Waiving, Pending, Deleting
<1>4. WaiversAreHeld' /\ OverlapsAreKnown' /\ CallsAreUpToDate'
  BY DEF WaiversAreHeld, OverlapsAreKnown, CallsAreUpToDate, Waiving, Pending, Working,
     Deleting
<1>5. CallsKnowTheirGroup'
  <2> SUFFICES ASSUME NEW e \in Desks, NEW g \in Groups \ contended',
                      Working(e)', desk'[e].group = g
               PROVE  Knows(e, g)'
    BY DEF CallsKnowTheirGroup
  <2>1. Knows(e, g)
    BY DEF CallsKnowTheirGroup, Working, Waiving, Deleting
  <2> QED
    BY <1>1, <2>1 DEF Knows
<1>6. WaivedWithinFines'
  BY <1>1 DEF WaivedWithinFines
<1>7. OwedIsCurrent'
  BY DEF OwedIsCurrent, FinesOf
<1> QED
  BY <1>2, <1>3, <1>4, <1>5, <1>6, <1>7

LEMMA CommitCreditInv ==
  ASSUME FinesIInv, NEW d \in Desks, CommitCredit(d)
  PROVE  FinesIInv'
  BY CommitPlainInv, CommitWaiverInv

LEMMA RemoveOldWaiverInv ==
  ASSUME FinesIInv, NEW d \in Desks, RemoveOldWaiver(d)
  PROVE  FinesIInv'
  BY NoOldWaiverInv, OldWaiverInv

LEMMA RemoveGroupInv ==
  ASSUME FinesIInv, NEW d \in Desks, RemoveGroup(d)
  PROVE  FinesIInv'
  BY KeepGroupInv, DropGroupInv

LEMMA FinesNextInv == FinesIInv /\ [FinesNext]_finesVars => FinesIInv'
<1> SUFFICES ASSUME FinesIInv, [FinesNext]_finesVars PROVE FinesIInv'
  OBVIOUS
<1>1. ASSUME NEW d \in Desks, OpenHandout(d) \/ CommitHandout(d) PROVE FinesIInv'
  BY <1>1, OpenHandoutInv, CommitHandoutInv
<1>2. ASSUME NEW d \in Desks, Judge(d) \/ CommitCredit(d) \/ RollBack(d) PROVE FinesIInv'
  BY <1>2, JudgeInv, CommitCreditInv, RollBackInv
<1>3. ASSUME NEW d \in Desks,
             \/ RemoveOldWaiver(d) \/ InsertWaiver(d) \/ LinkWaiver(d)
             \/ LinkFails(d) \/ ForgetWaived(d)
      PROVE  FinesIInv'
  BY <1>3, RemoveOldWaiverInv, InsertWaiverInv, LinkWaiverInv, LinkFailsInv,
     ForgetWaivedInv
<1>4. ASSUME NEW d \in Desks,
             RemoveFine(d) \/ RemoveCharge(d) \/ RemoveGroup(d) \/ Spare(d) \/ ForgetSpared(d)
      PROVE  FinesIInv'
  BY <1>4, RemoveFineInv, RemoveChargeInv, RemoveGroupInv, SpareInv, ForgetSparedInv
<1>5. ASSUME NEW d \in Desks, NEW a \in FineAmounts, InsertCredit(d, a) \/ Weigh(d, a)
      PROVE  FinesIInv'
  BY <1>5, InsertCreditInv, WeighInv
<1>6. ASSUME NEW d \in Desks, NEW f \in FineIds, Choose(d, f) PROVE FinesIInv'
  BY <1>6, ChooseInv
<1>7. ASSUME NEW a \in FineAmounts, Trade(a) \/ Trade(- a) PROVE FinesIInv'
  <2>1. a \in Int /\ - a \in Int
    BY FinesAssumption
  <2>2. PICK b \in Int : Trade(b)
    BY <1>7, <2>1
  <2> QED
    BY <2>2, TradeInv
<1>8. CASE FinesCrash
  BY <1>8, FinesCrashInv
<1>9. CASE UNCHANGED finesVars
  BY <1>9, FinesStutterInv
<1> QED
  BY <1>1, <1>2, <1>3, <1>4, <1>5, <1>6, <1>7, <1>8, <1>9 DEF FinesNext

-----------------------------------------------------------------------------
(* The invariant and what follows from it *)

THEOREM FinesInvariance == FinesSpec => []FinesIInv
  BY FinesInitInv, FinesNextInv, PTL DEF FinesSpec

\* The books and the calls keep their types; currentFines refers to a group that
\* is stored, so a user never has a dangling reference.
THEOREM FinesTypeCorrect == FinesSpec => []FinesTypeOK
<1>1. FinesIInv => FinesTypeOK
  BY DEF FinesIInv
<1> QED
  BY <1>1, FinesInvariance, PTL

\* However waivers follow one another, those of a group give back no more than its
\* fines, except where calls overlapped, were cut short or came late: and but for a
\* waiver that a handout between its loading and its saving left without a group.
THEOREM WaiversStayWithinFines == FinesSpec => []WaivedWithinFines
<1>1. FinesIInv => WaivedWithinFines
  BY DEF FinesIInv
<1> QED
  BY <1>1, FinesInvariance, PTL

\* The group that a user refers to holds the fines that the user still owes.
THEOREM OwedStaysCurrent == FinesSpec => []OwedIsCurrent
<1>1. FinesIInv => OwedIsCurrent
  BY DEF FinesIInv
<1> QED
  BY <1>1, FinesInvariance, PTL

\* A credit whose view of the books is up to date clears the fines of its user
\* exactly when the new balance is not negative.
THEOREM CreditsClearFines == FinesSpec => CreditClearsFines
<1>1. ASSUME FinesIInv, NEW d \in Desks, CommitCredit(d), desk[d].holds, ~desk[d].stale
      PROVE  currentFines' = None <=> balance' >= 0
  <2>1. desk[d].pc = "judged" /\ balance' = balance + desk[d].amount
        /\ currentFines' = IF desk[d].clears THEN None ELSE currentFines
    BY <1>1 DEF CommitCredit
  <2>2. /\ currentFines # None
        /\ desk[d].clears <=> balance + desk[d].amount >= 0
    BY <1>1, <2>1 DEF FinesIInv, CallsAreUpToDate, Pending
  <2> QED
    BY <2>1, <2>2
<1>2. FinesIInv /\ [FinesNext]_finesVars =>
          [\A d \in Desks :
              CommitCredit(d) /\ desk[d].holds /\ ~desk[d].stale =>
                  (currentFines' = None <=> balance' >= 0)]_finesVars
  BY <1>1
<1> QED
  BY <1>2, FinesInvariance, PTL DEF FinesSpec, CreditClearsFines
=============================================================================
