----------------------------- MODULE ShopProofs -----------------------------
(***************************************************************************)
(* Proofs about Revisions: for any number of items, prices and calls, a    *)
(* product revision never changes, a purchase keeps what was listed, and   *)
(* when all calls are done every list is up to date, unless two calls      *)
(* revised an item at once, a call was cut short or an edit in progress    *)
(* brought a deleted item back.  About PaymentDialog: nothing is charged   *)
(* behind a closed dialog, and a payment gets shown.  And the types of the *)
(* shop.                                                                   *)
(***************************************************************************)
EXTENDS MCShop, BalanceCacheProofs, FiniteSetTheorems, SequenceTheorems

-----------------------------------------------------------------------------
(* Products, containers and points of sale *)

\* The work of a call: items, each with the parts it is to have.
Jobs == [item : Items, parts : SUBSET Items]

\* What a revision of an item may hold.
Contents == Prices \cup SUBSET (Items \X Nat)

EditorStates ==
    [pc : {"idle", "base", "parts", "save", "bump", "propagate", "remove"},
     todo : Seq(Jobs), base : Nat, snapshot : {Nothing} \cup Contents,
     goal : Items \cup {Nothing}]

CatalogueTyped ==
    /\ currentRevision \in [Items -> Nat]
    /\ revisions \in [Items -> Seq(Contents)]
    /\ editor \in [Editors -> EditorStates]
    /\ \A x \in Composites : revisions[x] \in Seq(SUBSET (Kind(x) \X Nat))
    /\ RevisionsTypeOK

\* A call works on an item until it is done, and knows a revision of it.  Only the
\* first item may be a product, and then there is no other.  What is to be saved
\* is a price, or parts in revisions that are there.
Ready(e) ==
    LET me == editor[e] IN
    /\ me.pc \in {"idle", "remove"} <=> me.todo = <<>>
    /\ me.pc = "remove" => me.goal \in Items
    /\ me.pc = "parts" => Item(e) \in Composites
    /\ me.pc \in {"parts", "save", "bump"} => me.base \in DOMAIN revisions[Item(e)]
    /\ me.pc = "bump" => me.base + 1 \in DOMAIN revisions[Item(e)]
    /\ \A i \in DOMAIN me.todo :
           /\ me.todo[i].parts \subseteq Kind(me.todo[i].item)
           /\ me.todo[i].item \in Products => DOMAIN me.todo = {1}
    /\ me.pc \in {"base", "save"} /\ Item(e) \in Products => me.snapshot \in Prices
    /\ me.pc = "save" /\ Item(e) \in Composites =>
           /\ me.snapshot \in SUBSET (Kind(Item(e)) \X Nat)
           /\ \A entry \in me.snapshot : entry[2] \in DOMAIN revisions[entry[1]]

CallsAreReady == \A e \in Editors : Ready(e)

SaleExists ==
    sale # Nothing =>
        /\ sale[1] \in PointsOfSale /\ sale[2] \in DOMAIN revisions[sale[1]]
        /\ sale[3] \in Containers /\ sale[4] \in DOMAIN revisions[sale[3]]

\* The current revision of an item that no two calls revised at once is the last
\* one, or a call is about to make it that.
Saved(e, x) == editor[e].pc = "bump" /\ Item(e) = x

OneReviser ==
    \A x \in Items \ adrift :
        /\ Len(revisions[x]) \in {currentRevision[x], currentRevision[x] + 1}
        /\ \A e \in Editors :
               /\ editor[e].pc \in {"parts", "save"} /\ Item(e) = x
                      => editor[e].base <= currentRevision[x]
               /\ Saved(e, x) => /\ editor[e].base = currentRevision[x]
                                 /\ Len(revisions[x]) = currentRevision[x] + 1
        /\ \A d, e \in Editors : Saved(d, x) /\ Saved(e, x) => d = e
        /\ \/ cutShort \/ Len(revisions[x]) = currentRevision[x]
           \/ \E e \in Editors : Saved(e, x)

\* No list is ahead of the parts in it.
ListsAreBehind ==
    /\ \A x \in Composites : \A n \in DOMAIN revisions[x] : \A entry \in revisions[x][n] :
           entry[1] \in adrift \/ entry[2] <= currentRevision[entry[1]]
    /\ \A e \in Editors : editor[e].pc = "save" /\ Item(e) \in Composites =>
           \A entry \in editor[e].snapshot :
               entry[1] \in adrift \/ entry[2] <= currentRevision[entry[1]]

\* The call is about to replace the current list of x by this one.
Revises(e, x) ==
    /\ editor[e].pc \in {"save", "bump"} /\ Item(e) = x
    /\ editor[e].base = currentRevision[x]

Coming(e) ==
    IF editor[e].pc = "save" THEN editor[e].snapshot
    ELSE revisions[Item(e)][editor[e].base + 1]

\* It has the parts that the call was given, in revisions that are no older than
\* those listed now.
ComingIsNewer ==
    \A e \in Editors : \A x \in Composites \ adrift : Revises(e, x) =>
        \A entry \in Coming(e) :
            /\ entry[1] \in Head(editor[e].todo).parts
            /\ \A old \in Current(x) :
                   old[1] = entry[1] => entry[1] \in adrift \/ old[2] <= entry[2]

\* The call d looks for the parents of y soon, or is going to revise x.
Propagates(d, y) == editor[d].pc = "propagate" /\ Item(d) = y
Repeats(d, x) == \E i \in DOMAIN editor[d].todo : i > 1 /\ editor[d].todo[i].item = x
Handles(d, x) ==
    editor[d].todo # <<>> /\ Item(d) = x /\ editor[d].pc # "propagate"

\* An entry that needs no update.
UpToDate(entry) ==
    \/ entry[1] \in deletedItems \cup adrift
    \/ entry[2] = currentRevision[entry[1]]

\* A list that is out of date is going to be replaced.
ListsGetUpdated ==
    ~cutShort =>
        \A x \in Composites \ (deletedItems \cup adrift \cup revived) : \A entry \in Current(x) :
            \/ UpToDate(entry)
            \/ \E d \in Editors : Propagates(d, entry[1]) \/ Repeats(d, x) \/ Handles(d, x)

\* And so is one that is going to be current.
ComingGetsUpdated ==
    ~cutShort =>
        \A e \in Editors : \A x \in Composites \ (deletedItems \cup adrift \cup revived) :
            Revises(e, x) =>
                \A entry \in Coming(e) :
                    \/ UpToDate(entry)
                    \/ \E d \in Editors :
                           \/ Propagates(d, entry[1]) \/ Repeats(d, x)
                           \/ d # e /\ Handles(d, x)

RevisionsIInv ==
    /\ CatalogueTyped /\ CallsAreReady /\ SaleExists /\ SaleKeepsItsListing
    /\ OneReviser /\ ListsAreBehind /\ ComingIsNewer
    /\ ListsGetUpdated /\ ComingGetsUpdated

-----------------------------------------------------------------------------
(* Sequences and work lists *)

\* The work that is left when the first item is done.
LEMMA TailOfWork ==
  ASSUME NEW q \in Seq(Jobs), q # <<>>
  PROVE  /\ Tail(q) \in Seq(Jobs) /\ Len(Tail(q)) = Len(q) - 1
         /\ \A i \in DOMAIN Tail(q) : i + 1 \in DOMAIN q /\ Tail(q)[i] = q[i + 1]
         /\ \A i \in DOMAIN q : i > 1 => i - 1 \in DOMAIN Tail(q) /\ q[i] = Tail(q)[i - 1]
         /\ 1 \in DOMAIN q /\ q[1] = Head(q) /\ Head(q) \in Jobs
  BY HeadTailProperties

\* The work that a call puts before what was left.
LEMMA MoreWork ==
  ASSUME NEW p \in Seq(Jobs), NEW q \in Seq(Jobs)
  PROVE  /\ p \o q \in Seq(Jobs) /\ Len(p \o q) = Len(p) + Len(q)
         /\ \A i \in DOMAIN p : i \in DOMAIN (p \o q) /\ (p \o q)[i] = p[i]
         /\ \A i \in DOMAIN q : i + Len(p) \in DOMAIN (p \o q) /\ (p \o q)[i + Len(p)] = q[i]
         /\ \A i \in DOMAIN (p \o q) :
                \/ i \in DOMAIN p /\ (p \o q)[i] = p[i]
                \/ i - Len(p) \in DOMAIN q /\ (p \o q)[i] = q[i - Len(p)]
<1>1. p \o q \in Seq(Jobs) /\ Len(p \o q) = Len(p) + Len(q)
  BY ConcatProperties
<1>2. \A i \in 1 .. Len(p) + Len(q) :
          (p \o q)[i] = IF i <= Len(p) THEN p[i] ELSE q[i - Len(p)]
  BY ConcatProperties
<1>3. DOMAIN p = 1 .. Len(p) /\ DOMAIN q = 1 .. Len(q) /\ Len(p) \in Nat /\ Len(q) \in Nat
  BY LenProperties
<1>4. DOMAIN (p \o q) = 1 .. Len(p) + Len(q)
  BY <1>1, LenProperties
<1> QED
  BY <1>1, <1>2, <1>3, <1>4

\* Every parent is in the list, with parts that it has.
LEMMA WorklistIs ==
  ASSUME CatalogueTyped, NEW P \in SUBSET Composites, NEW dropped \in SUBSET Items,
         NEW q \in Worklists(P, dropped)
  PROVE  /\ q \in Seq(Jobs)
         /\ \A i \in DOMAIN q : q[i].item \in P
         /\ \A i \in DOMAIN q : q[i].parts \subseteq Kind(q[i].item)
         /\ \A x \in P : \E i \in DOMAIN q : q[i].item = x
<1>1. PICK s \in SetToSeqs(P) :
          q = [i \in DOMAIN s |->
                  [item |-> s[i],
                   parts |-> PartsOf(s[i]) \ (dropped \cup (Containers \cap deletedItems))]]
  BY DEF Worklists
<1>2. IsFiniteSet(P) /\ Cardinality(P) \in Nat
  <2>1. P \subseteq Items
    BY DEF Items, Composites
  <2> QED
    BY <2>1, RevisionsAssumption, FS_Subset, FS_CardinalityType
<1> DEFINE n == Cardinality(P)
<1>3. s \in [1 .. n -> P] /\ \A i, j \in 1 .. n : i # j => s[i] # s[j]
  BY <1>1 DEF SetToSeqs
<1>4. s \in Surjection(1 .. n, P)
  <2>1. s \in Injection(1 .. n, P)
    BY <1>3 DEF Injection, IsInjective
  <2>2. IsFiniteSet(1 .. n) /\ Cardinality(1 .. n) = n
    BY <1>2, FS_Interval
  <2> QED
    BY <1>2, <2>1, <2>2, FS_Injection
<1>5. \A x \in P : PartsOf(x) \subseteq Kind(x) /\ Kind(x) \subseteq Items
  <2> TAKE x \in P
  <2>1. x \in Composites /\ x \in Items
    BY DEF Composites, Items
  <2>2. currentRevision[x] \in DOMAIN revisions[x]
    BY <2>1 DEF CatalogueTyped, RevisionsTypeOK
  <2>3. \A entry \in Current(x) : entry[1] \in Kind(x)
    BY <2>1, <2>2 DEF CatalogueTyped, RevisionsTypeOK, Current
  <2> QED
    BY <2>3 DEF PartsOf, Kind, Items
<1>6. q \in [1 .. n -> Jobs] /\ DOMAIN q = 1 .. n
  BY <1>1, <1>3, <1>5 DEF Jobs, Items, Composites
<1>7. q \in Seq(Jobs)
  BY <1>2, <1>6, SeqDef
<1>8. \A i \in 1 .. n : q[i].item = s[i] /\ q[i].parts \subseteq PartsOf(s[i])
  BY <1>1, <1>3
<1> QED
  BY <1>3, <1>4, <1>5, <1>6, <1>7, <1>8 DEF Surjection

\* What a call does next.
LEMMA GoesOn ==
  ASSUME NEW me \in EditorStates, NEW q \in Seq(Jobs)
  PROVE  /\ GoOn(me, q) \in EditorStates
         /\ GoOn(me, q).todo = q
         /\ q # <<>> => GoOn(me, q).pc = "base"
         /\ q = <<>> => /\ GoOn(me, q).pc \in {"idle", "remove"}
                        /\ GoOn(me, q).pc = "remove" => GoOn(me, q).goal \in Items
<1>1. <<>> \in Seq(Jobs)
  OBVIOUS
<1>2. NotEditing \in EditorStates /\ NotEditing.todo = <<>>
      /\ NotEditing.pc = "idle"
  BY <1>1 DEF NotEditing, EditorStates
<1>3. CASE q # <<>>
  <2>1. GoOn(me, q) = [me EXCEPT !.pc = "base", !.todo = q, !.snapshot = Nothing]
    BY <1>3 DEF GoOn
  <2> QED
    BY <1>3, <2>1 DEF EditorStates
<1>4. CASE q = <<>> /\ me.goal # Nothing
  <2>1. GoOn(me, q) = [me EXCEPT !.pc = "remove", !.todo = <<>>]
    BY <1>4 DEF GoOn
  <2> QED
    BY <1>1, <1>4, <2>1 DEF EditorStates
<1>5. CASE q = <<>> /\ me.goal = Nothing
  <2>1. GoOn(me, q) = NotEditing
    BY <1>5 DEF GoOn
  <2> QED
    BY <1>2, <1>5, <2>1
<1> QED
  BY <1>3, <1>4, <1>5

-----------------------------------------------------------------------------
(* The calls that do not move *)

Others(e) == \A d \in Editors \ {e} : editor'[d] = editor[d]

\* A call that has work has an item.
LEMMA ItemOfWork ==
  ASSUME CatalogueTyped, NEW e \in Editors, editor[e].todo # <<>>
  PROVE  /\ editor[e] \in EditorStates /\ editor[e].todo \in Seq(Jobs)
         /\ Head(editor[e].todo) \in Jobs /\ Item(e) \in Items
         /\ 1 \in DOMAIN editor[e].todo /\ editor[e].todo[1] = Head(editor[e].todo)
<1>1. editor[e] \in EditorStates /\ editor[e].todo \in Seq(Jobs)
  BY DEF CatalogueTyped, EditorStates
<1>2. /\ Head(editor[e].todo) \in Jobs /\ 1 \in DOMAIN editor[e].todo
      /\ editor[e].todo[1] = Head(editor[e].todo)
  BY <1>1, TailOfWork
<1> QED
  BY <1>1, <1>2 DEF Item, Jobs

\* Revisions are never lost, so that what a call knows stays there.
LEMMA StaysReady ==
  ASSUME CatalogueTyped, NEW d \in Editors, Ready(d), editor'[d] = editor[d],
         \A x \in Items : DOMAIN revisions[x] \subseteq DOMAIN revisions'[x]
  PROVE  Ready(d)'
<1>1. Item(d)' = Item(d)
  BY DEF Item
<1>2. CASE editor[d].todo = <<>>
  BY <1>2 DEF Ready
<1>3. CASE editor[d].todo # <<>>
  <2>1. Item(d) \in Items
    BY <1>3, ItemOfWork
  <2>2. \A x \in Items : Kind(x) \subseteq Items
    BY DEF Kind, Items
  <2> QED
    BY <1>1, <2>1, <2>2 DEF Ready
<1> QED
  BY <1>2, <1>3

\* An entry of a list of parts.
LEMMA ListsHold ==
  ASSUME CatalogueTyped, NEW x \in Composites, NEW n \in DOMAIN revisions[x],
         NEW entry \in revisions[x][n]
  PROVE  /\ entry \in Kind(x) \X Nat /\ entry[1] \in Kind(x) /\ entry[1] \in Items
         /\ entry[2] \in Nat /\ entry[2] \in DOMAIN revisions[entry[1]]
         /\ x \in Items /\ n \in Nat
<1>1. revisions[x] \in Seq(SUBSET (Kind(x) \X Nat)) /\ entry[2] \in DOMAIN revisions[entry[1]]
  BY DEF CatalogueTyped, RevisionsTypeOK
<1>2. revisions[x][n] \in SUBSET (Kind(x) \X Nat) /\ n \in Nat
  BY <1>1, ElementOfSeq, LenProperties
<1> QED
  BY <1>1, <1>2 DEF Kind, Items, Composites

\* Who brings a list up to date that is or that is going to be current.
LEMMA ListIsHandled ==
  ASSUME ListsGetUpdated, ~cutShort, NEW x \in Composites \ (deletedItems \cup adrift \cup revived),
         NEW entry \in Current(x), ~UpToDate(entry)
  PROVE  \E d \in Editors : Propagates(d, entry[1]) \/ Repeats(d, x) \/ Handles(d, x)
  BY DEF ListsGetUpdated

LEMMA ComingIsHandled ==
  ASSUME ComingGetsUpdated, ~cutShort, NEW x \in Composites \ (deletedItems \cup adrift \cup revived),
         NEW c \in Editors, Revises(c, x), NEW entry \in Coming(c), ~UpToDate(entry)
  PROVE  \E d \in Editors :
             Propagates(d, entry[1]) \/ Repeats(d, x) \/ (d # c /\ Handles(d, x))
<1>1. \A p \in Coming(c) :
          UpToDate(p) \/ \E d \in Editors :
              \/ Propagates(d, p[1]) \/ Repeats(d, x)
              \/ (d # c /\ Handles(d, x))
  BY DEF ComingGetsUpdated
<1> QED
  BY <1>1

\* A step of one call that revises nothing: what it read is current, the work that
\* it still had is there, and if it propagated, the parents have become work.
LEMMA QuietStep ==
  ASSUME RevisionsIInv, NEW e \in Editors, Others(e), CatalogueTyped', CallsAreReady',
         UNCHANGED <<currentRevision, revisions, revived>>,
         deletedItems \subseteq deletedItems', adrift \subseteq adrift',
         cutShort => cutShort',
         editor'[e].pc # "bump", editor[e].pc = "bump" => cutShort',
         editor'[e].pc \in {"parts", "save"} =>
             Item(e)' \in adrift \/ editor'[e].base <= currentRevision[Item(e)'],
         editor'[e].pc = "save" /\ Item(e)' \in Composites =>
             \A entry \in editor'[e].snapshot :
                 /\ entry[1] \in Head(editor'[e].todo).parts
                 /\ entry[2] = currentRevision[entry[1]],
         \A x \in Composites :
             Repeats(e, x) \/ Handles(e, x) => cutShort' \/ Repeats(e, x)' \/ Handles(e, x)',
         editor[e].pc = "propagate" /\ ~cutShort' /\ Item(e) \notin deletedItems =>
             /\ \A x \in Outdated(Item(e)) : Repeats(e, x)' \/ Handles(e, x)'
             /\ \A d \in Editors \ {e} :
                    editor[d].todo # <<>> /\ Item(d) \in Composites
                    /\ Item(e) \in Head(editor[d].todo).parts \ PartsOf(Item(d))
                        => Item(d) \in adrift'
  PROVE  OneReviser' /\ ListsAreBehind' /\ ComingIsNewer' /\ ListsGetUpdated' /\ ComingGetsUpdated'
<1>1. \A d \in Editors \ {e} : editor'[d] = editor[d] /\ Item(d)' = Item(d)
  BY DEF Others, Item
<1>2. \A x \in Items : Current(x)' = Current(x)
  BY DEF Current
<1>3. \A x \in Composites \ adrift' : \A d \in Editors :
          Revises(d, x)' /\ editor'[d].pc = "bump" => d # e /\ Revises(d, x)
  BY <1>1 DEF Revises
<1>4. \A x \in Composites, d \in Editors \ {e} :
          /\ Revises(d, x)' <=> Revises(d, x)
          /\ Coming(d)' = Coming(d)
  BY <1>1 DEF Revises, Coming
<1>5. \A x \in Composites : x \in Items /\ currentRevision[x] \in DOMAIN revisions[x]
  BY DEF CatalogueTyped, RevisionsTypeOK, RevisionsIInv, Items, Composites
<1>6. \A x \in Composites : Revises(e, x)' =>
          /\ editor'[e].pc = "save" /\ Item(e)' = x /\ Coming(e)' = editor'[e].snapshot
          /\ \A entry \in Coming(e)' : /\ entry[1] \in Head(editor'[e].todo).parts
                                      /\ entry[2] = currentRevision[entry[1]]
  BY DEF Revises, Coming
<1>7. OneReviser'
  <2> SUFFICES ASSUME NEW x \in Items \ adrift'
               PROVE  /\ \A d \in Editors :
                             editor'[d].pc \in {"parts", "save"} /\ Item(d)' = x
                                 => editor'[d].base <= currentRevision[x]
                      /\ \A d \in Editors : Saved(d, x)' =>
                             /\ editor'[d].base = currentRevision[x]
                             /\ Len(revisions[x]) = currentRevision[x] + 1
                      /\ \A c, d \in Editors : Saved(c, x)' /\ Saved(d, x)' => c = d
                      /\ \/ cutShort' \/ Len(revisions[x]) = currentRevision[x]
                         \/ \E d \in Editors : Saved(d, x)'
    BY DEF RevisionsIInv, OneReviser
  <2>1. x \in Items \ adrift
    OBVIOUS
  <2>2. \A d \in Editors : editor[d].pc \in {"parts", "save"} /\ Item(d) = x
            => editor[d].base <= currentRevision[x]
    BY <2>1 DEF RevisionsIInv, OneReviser
  <2>3. ASSUME NEW d \in Editors
        PROVE  /\ editor'[d].pc \in {"parts", "save"} /\ Item(d)' = x
                      => editor'[d].base <= currentRevision[x]
               /\ Saved(d, x)' => Saved(d, x) /\ editor'[d].base = editor[d].base
               /\ Saved(d, x) => cutShort' \/ Saved(d, x)'
    <3>1. CASE d = e
      BY <3>1 DEF Saved
    <3>2. CASE d # e
      BY <1>1, <2>2, <3>2 DEF Saved
    <3> QED
      BY <3>1, <3>2
  <2>4. /\ \A d \in Editors : Saved(d, x) => /\ editor[d].base = currentRevision[x]
                                            /\ Len(revisions[x]) = currentRevision[x] + 1
        /\ \A c, d \in Editors : Saved(c, x) /\ Saved(d, x) => c = d
    BY <2>1 DEF RevisionsIInv, OneReviser
  <2>5. \/ cutShort' \/ Len(revisions[x]) = currentRevision[x]
        \/ \E d \in Editors : Saved(d, x)'
    <3>1. \/ cutShort \/ Len(revisions[x]) = currentRevision[x]
          \/ \E d \in Editors : Saved(d, x)
      BY <2>1 DEF RevisionsIInv, OneReviser
    <3> QED
      BY <2>3, <3>1
  <2> QED
    BY <2>3, <2>4, <2>5
<1>8. ListsAreBehind'
  <2>1. ASSUME NEW d \in Editors, editor'[d].pc = "save", Item(d)' \in Composites,
               NEW entry \in editor'[d].snapshot
        PROVE  entry[1] \in adrift' \/ entry[2] <= currentRevision[entry[1]]
    <3>1. CASE d = e
      <4>1. entry \in Kind(Item(e)') \X Nat
        BY <2>1, <3>1 DEF CallsAreReady, Ready
      <4>2. entry[2] \in Nat /\ entry[2] = currentRevision[entry[1]]
        BY <2>1, <3>1, <4>1
      <4> QED
        BY <4>2
    <3>2. CASE d # e
      BY <1>1, <2>1, <3>2 DEF RevisionsIInv, ListsAreBehind
    <3> QED
      BY <3>1, <3>2
  <2> QED
    BY <2>1 DEF RevisionsIInv, ListsAreBehind
<1>9. ComingIsNewer'
  <2> SUFFICES ASSUME NEW d \in Editors, NEW x \in Composites \ adrift', Revises(d, x)',
                      NEW entry \in Coming(d)'
               PROVE  /\ entry[1] \in Head(editor'[d].todo).parts
                      /\ \A old \in Current(x) : old[1] = entry[1]
                             => entry[1] \in adrift' \/ old[2] <= entry[2]
    BY <1>2, <1>5 DEF ComingIsNewer
  <2>1. CASE d = e
    <3>1. /\ entry[1] \in Head(editor'[e].todo).parts
          /\ entry[2] = currentRevision[entry[1]]
      BY <1>6, <2>1
    <3>2. \A old \in Current(x) :
              old[1] \in adrift \/ old[2] <= currentRevision[old[1]]
      BY <1>5 DEF RevisionsIInv, ListsAreBehind, Current
    <3> QED
      BY <2>1, <3>1, <3>2
  <2>2. CASE d # e
    <3>1. Revises(d, x) /\ Coming(d)' = Coming(d)
      BY <1>4, <2>2
    <3> QED
      BY <1>1, <2>2, <3>1 DEF RevisionsIInv, ComingIsNewer
  <2> QED
    BY <2>1, <2>2
<1>10. ListsGetUpdated'
  <2> SUFFICES ASSUME ~cutShort', NEW x \in Composites \ (deletedItems' \cup adrift' \cup revived'),
                      NEW entry \in Current(x), ~UpToDate(entry)'
               PROVE  \E d \in Editors :
                          Propagates(d, entry[1])' \/ Repeats(d, x)' \/ Handles(d, x)'
    BY <1>2, <1>5 DEF ListsGetUpdated
  <2>1. ~UpToDate(entry)
    BY DEF UpToDate
  <2>2. PICK d \in Editors : Propagates(d, entry[1]) \/ Repeats(d, x) \/ Handles(d, x)
    BY <2>1 DEF RevisionsIInv, ListsGetUpdated
  <2>3. CASE d # e
    BY <1>1, <2>2, <2>3 DEF Propagates, Repeats, Handles
  <2>4. CASE d = e /\ (Repeats(e, x) \/ Handles(e, x))
    BY <2>4
  <2>5. CASE d = e /\ Propagates(e, entry[1])
    <3>7. Item(e) \notin deletedItems
      BY <2>1, <2>5 DEF UpToDate, Propagates
    <3>1. entry[2] <= currentRevision[entry[1]] /\ entry[2] # currentRevision[entry[1]]
      BY <1>5, <2>1 DEF RevisionsIInv, ListsAreBehind, Current, UpToDate
    <3>2. entry[2] \in Nat /\ currentRevision[entry[1]] \in Nat
      <4>1. entry[1] \in Items /\ entry[2] \in Nat
        BY <1>5, ListsHold DEF RevisionsIInv, Current
      <4> QED
        BY <4>1 DEF RevisionsIInv, CatalogueTyped
    <3>3. x \in Outdated(Item(e))
      BY <2>5, <3>1, <3>2 DEF Outdated, Propagates
    <3> QED
      BY <2>5, <3>3, <3>7 DEF Propagates
  <2> QED
    BY <2>2, <2>3, <2>4, <2>5
<1>11. ComingGetsUpdated'
  <2> SUFFICES ASSUME ~cutShort', NEW c \in Editors,
                      NEW x \in Composites \ (deletedItems' \cup adrift' \cup revived'),
                      Revises(c, x)', NEW entry \in Coming(c)', ~UpToDate(entry)'
               PROVE  \E d \in Editors :
                          \/ Propagates(d, entry[1])' \/ Repeats(d, x)'
                          \/ (d # c /\ Handles(d, x)')
    BY DEF ComingGetsUpdated
  <2>1. c # e
    BY <1>6 DEF UpToDate
  <2>2. ~UpToDate(entry) /\ Revises(c, x) /\ entry \in Coming(c)
    BY <1>4, <2>1 DEF UpToDate
  <2>3. PICK d \in Editors :
            Propagates(d, entry[1]) \/ Repeats(d, x) \/ (d # c /\ Handles(d, x))
    <3>1. ~cutShort /\ x \in Composites \ (deletedItems \cup adrift \cup revived)
      OBVIOUS
    <3> QED
      BY <2>2, <3>1, ComingIsHandled DEF RevisionsIInv
  <2>4. CASE d # e
    BY <1>1, <2>3, <2>4 DEF Propagates, Repeats, Handles
  <2>5. CASE d = e /\ (Repeats(e, x) \/ Handles(e, x))
    BY <2>1, <2>5
  <2>6. CASE d = e /\ Propagates(e, entry[1])
    <3>7. Item(e) \notin deletedItems
      BY <2>2, <2>6 DEF UpToDate, Propagates
    <3>1. /\ entry[1] \in Head(editor[c].todo).parts
          /\ \A old \in Current(x) : old[1] = entry[1] => old[2] <= entry[2]
      BY <2>2 DEF RevisionsIInv, ComingIsNewer, UpToDate
    <3>2. editor[c].todo # <<>> /\ Item(c) = x
      BY <2>2 DEF RevisionsIInv, CallsAreReady, Ready, Revises
    <3>3. entry[1] \in PartsOf(x)
      BY <2>1, <2>6, <3>1, <3>2, <3>7 DEF Propagates
    <3>4. PICK old \in Current(x) : old[1] = entry[1]
      BY <3>3 DEF PartsOf
    <3>5. /\ entry[2] \in Nat /\ old[2] \in Nat /\ currentRevision[entry[1]] \in Nat
          /\ entry[2] <= currentRevision[entry[1]]
      <4>1. old[1] \in Items /\ old[2] \in Nat /\ currentRevision[old[1]] \in Nat
        <5>1. old[1] \in Items /\ old[2] \in Nat
          BY <1>5, ListsHold DEF RevisionsIInv, Current
        <5> QED
          BY <5>1 DEF RevisionsIInv, CatalogueTyped
      <4>2. CASE editor[c].pc = "save"
        BY <2>2, <3>2, <3>4, <4>1, <4>2 DEF RevisionsIInv, CatalogueTyped, CallsAreReady,
           Ready, ListsAreBehind, Coming, UpToDate
      <4>3. CASE editor[c].pc = "bump"
        <5>1. editor[c].base + 1 \in DOMAIN revisions[x]
          BY <3>2, <4>3 DEF RevisionsIInv, CallsAreReady, Ready
        <5>2. entry \in revisions[x][editor[c].base + 1]
          BY <2>2, <3>2, <4>3 DEF Coming
        <5>3. entry[2] \in Nat
          BY <5>1, <5>2, ListsHold DEF RevisionsIInv
        <5> QED
          BY <2>2, <3>4, <4>1, <5>1, <5>2, <5>3 DEF RevisionsIInv, ListsAreBehind,
             UpToDate
      <4> QED
        BY <2>2, <4>2, <4>3 DEF Revises
    <3>6. x \in Outdated(Item(e))
      BY <2>2, <2>6, <3>1, <3>4, <3>5 DEF Outdated, Propagates, UpToDate
    <3> QED
      BY <2>1, <2>6, <3>6, <3>7 DEF Propagates
  <2> QED
    BY <2>3, <2>4, <2>5, <2>6
<1> QED
  BY <1>7, <1>8, <1>9, <1>10, <1>11

\* A step of one call that leaves the catalogue but for deletions alone.
LEMMA CallGoesOn ==
  ASSUME RevisionsIInv, NEW e \in Editors, NEW next \in EditorStates, Go(e, next),
         UNCHANGED <<currentRevision, revisions, sale, revived>>,
         deletedItems \subseteq deletedItems', deletedItems' \subseteq Items,
         adrift \subseteq adrift', adrift' \subseteq Items, cutShort' \in BOOLEAN,
         edits' \in 0 .. MaxEdits, editorFaults' \in 0 .. MaxEditorFaults
  PROVE  /\ Others(e) /\ editor'[e] = next /\ CatalogueTyped'
         /\ SaleExists' /\ SaleKeepsItsListing'
         /\ Ready(e)' => CallsAreReady'
<1>1. Others(e) /\ editor'[e] = next /\ editor' \in [Editors -> EditorStates]
  BY DEF Go, Others, RevisionsIInv, CatalogueTyped
<1>2. CatalogueTyped'
  BY <1>1 DEF CatalogueTyped, RevisionsTypeOK, RevisionsIInv
<1>3. SaleExists' /\ SaleKeepsItsListing'
  BY DEF SaleExists, SaleKeepsItsListing, RevisionsIInv
<1>4. ASSUME Ready(e)' PROVE CallsAreReady'
  <2> SUFFICES ASSUME NEW d \in Editors, d # e PROVE Ready(d)'
    BY <1>4 DEF CallsAreReady
  <2>1. CatalogueTyped /\ Ready(d)
    BY DEF RevisionsIInv, CallsAreReady
  <2> QED
    BY <1>1, <2>1, StaysReady DEF Others
<1> QED
  BY <1>1, <1>2, <1>3, <1>4

\* A call at rest handles nothing.
LEMMA RestingCall ==
  ASSUME NEW e \in Editors, AtRest(e)
  PROVE  /\ editor[e].pc = "idle" /\ editor[e].todo = <<>>
         /\ \A x : ~Repeats(e, x) /\ ~Handles(e, x)
  BY DEF AtRest, NotEditing, Repeats, Handles

LEMMA RestIsTyped ==
  NotEditing \in EditorStates /\ NotEditing.snapshot = Nothing
<1>1. <<>> \in Seq(Jobs)
  OBVIOUS
<1> QED
  BY <1>1 DEF NotEditing, EditorStates

\* The work of a call that begins with one item.
LEMMA OneItem ==
  ASSUME NEW job \in Jobs
  PROVE  /\ <<job>> \in Seq(Jobs) /\ <<job>> # <<>>
         /\ DOMAIN <<job>> = {1} /\ <<job>>[1] = job /\ Head(<<job>>) = job
  OBVIOUS

LEMMA EditProductInv ==
  ASSUME RevisionsIInv, NEW e \in Editors, NEW p \in Products, NEW price \in Prices,
         EditProduct(e, p, price)
  PROVE  RevisionsIInv'
<1> DEFINE job == [item |-> p, parts |-> {}]
           next == [NotEditing EXCEPT !.pc = "base", !.snapshot = price, !.todo = <<job>>]
<1>1. /\ AtRest(e) /\ Go(e, next) /\ edits' = edits + 1 /\ edits < MaxEdits
      /\ UNCHANGED <<catalogue, sale, adrift, revived, cutShort, editorFaults>>
  BY DEF EditProduct, Start
<1>2. job \in Jobs /\ job.parts \subseteq Kind(job.item) /\ job.item = p
  BY DEF Jobs, Items
<1>3. /\ next \in EditorStates /\ next.pc = "base" /\ next.snapshot = price
      /\ next.todo # <<>> /\ DOMAIN next.todo = {1} /\ next.todo[1] = job
      /\ Head(next.todo) = job
  <2>1. /\ <<job>> \in Seq(Jobs) /\ <<job>> # <<>>
        /\ DOMAIN <<job>> = {1} /\ <<job>>[1] = job /\ Head(<<job>>) = job
    BY <1>2, OneItem
  <2>2. \A q \in Seq(Jobs) :
            LET n == [NotEditing EXCEPT !.pc = "base", !.snapshot = price, !.todo = q]
            IN  n \in EditorStates /\ n.pc = "base" /\ n.snapshot = price /\ n.todo = q
    BY RestIsTyped DEF EditorStates, Contents
  <2> QED
    BY <2>1, <2>2
<1> HIDE DEF next, job
<1>4. Others(e) /\ editor'[e] = next /\ CatalogueTyped' /\ SaleExists' /\ SaleKeepsItsListing'
      /\ (Ready(e)' => CallsAreReady')
  <2>1. /\ cutShort' \in BOOLEAN /\ deletedItems' \subseteq Items /\ adrift' \subseteq Items
        /\ edits' \in 0 .. MaxEdits /\ editorFaults' \in 0 .. MaxEditorFaults
    BY <1>1, RevisionsAssumption DEF RevisionsIInv, CatalogueTyped, RevisionsTypeOK,
       catalogue
  <2> QED
    BY <1>1, <1>3, <2>1, CallGoesOn DEF catalogue
<1>5. Item(e)' = p /\ p \notin Composites
  BY <1>2, <1>3, <1>4, RevisionsAssumption DEF Item
<1>6. Ready(e)'
  BY <1>2, <1>3, <1>4, <1>5 DEF Ready
<1>7. OneReviser' /\ ListsAreBehind' /\ ComingIsNewer' /\ ListsGetUpdated' /\ ComingGetsUpdated'
  BY <1>1, <1>3, <1>4, <1>6, RestingCall, QuietStep DEF catalogue
<1> QED
  BY <1>4, <1>6, <1>7 DEF RevisionsIInv

LEMMA EditCompositeInv ==
  ASSUME RevisionsIInv, NEW e \in Editors, NEW x \in Composites, NEW parts \in SUBSET Kind(x),
         EditComposite(e, x, parts)
  PROVE  RevisionsIInv'
<1> DEFINE job == [item |-> x, parts |-> parts]
           next == [NotEditing EXCEPT !.pc = "base", !.todo = <<job>>]
<1>1. /\ AtRest(e) /\ Go(e, next) /\ edits' = edits + 1 /\ edits < MaxEdits
      /\ UNCHANGED <<catalogue, sale, adrift, revived, cutShort, editorFaults>>
  BY DEF EditComposite, Start
<1>2. job \in Jobs /\ job.parts \subseteq Kind(job.item) /\ job.item = x
  BY DEF Jobs, Items, Composites, Kind
<1>3. /\ next \in EditorStates /\ next.pc = "base" /\ next.snapshot = Nothing
      /\ next.todo # <<>> /\ DOMAIN next.todo = {1} /\ next.todo[1] = job
      /\ Head(next.todo) = job
  <2>1. /\ <<job>> \in Seq(Jobs) /\ <<job>> # <<>>
        /\ DOMAIN <<job>> = {1} /\ <<job>>[1] = job /\ Head(<<job>>) = job
    BY <1>2, OneItem
  <2>2. \A q \in Seq(Jobs) :
            LET n == [NotEditing EXCEPT !.pc = "base", !.todo = q]
            IN  n \in EditorStates /\ n.pc = "base" /\ n.snapshot = Nothing /\ n.todo = q
    BY RestIsTyped DEF EditorStates, Contents
  <2> QED
    BY <2>1, <2>2
<1> HIDE DEF next, job
<1>4. Others(e) /\ editor'[e] = next /\ CatalogueTyped' /\ SaleExists' /\ SaleKeepsItsListing'
      /\ (Ready(e)' => CallsAreReady')
  <2>1. /\ cutShort' \in BOOLEAN /\ deletedItems' \subseteq Items /\ adrift' \subseteq Items
        /\ edits' \in 0 .. MaxEdits /\ editorFaults' \in 0 .. MaxEditorFaults
    BY <1>1, RevisionsAssumption DEF RevisionsIInv, CatalogueTyped, RevisionsTypeOK,
       catalogue
  <2> QED
    BY <1>1, <1>3, <2>1, CallGoesOn DEF catalogue
<1>5. Item(e)' = x /\ x \notin Products
  BY <1>2, <1>3, <1>4, RevisionsAssumption DEF Item
<1>6. Ready(e)'
  BY <1>2, <1>3, <1>4, <1>5 DEF Ready
<1>7. OneReviser' /\ ListsAreBehind' /\ ComingIsNewer' /\ ListsGetUpdated' /\ ComingGetsUpdated'
  BY <1>1, <1>3, <1>4, <1>6, RestingCall, QuietStep DEF catalogue
<1> QED
  BY <1>4, <1>6, <1>7 DEF RevisionsIInv

LEMMA DeleteItemInv ==
  ASSUME RevisionsIInv, NEW e \in Editors, NEW x \in Items, DeleteItem(e, x)
  PROVE  RevisionsIInv'
<1> DEFINE me == [NotEditing EXCEPT !.goal = x]
           P == {y \in Composites \ deletedItems : <<x, currentRevision[x]>> \in Current(y)}
<1>1. /\ AtRest(e) /\ edits' = edits + 1 /\ edits < MaxEdits
      /\ UNCHANGED <<catalogue, sale, adrift, revived, cutShort, editorFaults>>
  BY DEF DeleteItem, Start
<1>2. PICK todo \in Worklists(P, {x}) : Go(e, GoOn(me, todo))
  BY DEF DeleteItem
<1>3. /\ todo \in Seq(Jobs)
      /\ \A i \in DOMAIN todo : /\ todo[i].item \in Composites
                                /\ todo[i].parts \subseteq Kind(todo[i].item)
  <2>1. P \in SUBSET Composites /\ {x} \in SUBSET Items
    OBVIOUS
  <2>2. CatalogueTyped
    BY DEF RevisionsIInv
  <2> HIDE DEF P
  <2>3. /\ todo \in Seq(Jobs)
        /\ \A i \in DOMAIN todo : /\ todo[i].item \in P
                                  /\ todo[i].parts \subseteq Kind(todo[i].item)
    BY <2>1, <2>2, WorklistIs
  <2> QED
    BY <2>1, <2>3
<1>4. me \in EditorStates
  <2>1. <<>> \in Seq(Jobs)
    OBVIOUS
  <2> QED
    BY <2>1 DEF NotEditing, EditorStates
<1> DEFINE next == GoOn(me, todo)
<1>5. /\ next \in EditorStates /\ next.todo = todo /\ Go(e, next)
      /\ todo # <<>> => next.pc = "base"
      /\ todo = <<>> => /\ next.pc \in {"idle", "remove"}
                        /\ next.pc = "remove" => next.goal \in Items
  BY <1>2, <1>3, <1>4, GoesOn
<1> HIDE DEF next, me
<1>6. Others(e) /\ editor'[e] = next /\ CatalogueTyped' /\ SaleExists' /\ SaleKeepsItsListing'
      /\ (Ready(e)' => CallsAreReady')
  <2>1. /\ cutShort' \in BOOLEAN /\ deletedItems' \subseteq Items /\ adrift' \subseteq Items
        /\ edits' \in 0 .. MaxEdits /\ editorFaults' \in 0 .. MaxEditorFaults
    BY <1>1, RevisionsAssumption DEF RevisionsIInv, CatalogueTyped, RevisionsTypeOK,
       catalogue
  <2> QED
    BY <1>1, <1>5, <2>1, CallGoesOn DEF catalogue
<1>7. Ready(e)'
  <2>1. \A y \in Composites : y \notin Products
    BY RevisionsAssumption
  <2>2. todo # <<>> => Item(e)' \in Composites
    BY <1>3, <1>5, <1>6, TailOfWork DEF Item
  <2> QED
    BY <1>3, <1>5, <1>6, <2>1, <2>2 DEF Ready
<1>8. OneReviser' /\ ListsAreBehind' /\ ComingIsNewer' /\ ListsGetUpdated' /\ ComingGetsUpdated'
  BY <1>1, <1>5, <1>6, <1>7, RestingCall, QuietStep DEF catalogue
<1> QED
  BY <1>6, <1>7, <1>8 DEF RevisionsIInv

\* A call that has no work left covers nothing.
LEMMA EndedCall ==
  ASSUME NEW e \in Editors, editor'[e] = NotEditing
  PROVE  editor'[e].pc = "idle" /\ Ready(e)'
  BY DEF NotEditing, Ready

\* A call that ends, and whose work needs no more attention.
LEMMA EndsQuietly ==
  ASSUME RevisionsIInv, NEW e \in Editors, Go(e, NotEditing),
         UNCHANGED <<currentRevision, revisions, sale, adrift, revived, edits>>,
         deletedItems \subseteq deletedItems', deletedItems' \subseteq Items,
         cutShort' \in BOOLEAN, cutShort => cutShort',
         editorFaults' \in 0 .. MaxEditorFaults,
         \/ cutShort'
         \/ /\ editor[e].pc \notin {"bump", "propagate"}
            /\ \A x \in Composites : ~Repeats(e, x) /\ ~Handles(e, x)
  PROVE  RevisionsIInv'
<1>1. /\ adrift' \subseteq Items /\ edits' \in 0 .. MaxEdits
      /\ NotEditing \in EditorStates
  BY RestIsTyped DEF RevisionsIInv, CatalogueTyped, RevisionsTypeOK
<1>2. Others(e) /\ editor'[e] = NotEditing /\ CatalogueTyped' /\ SaleExists' /\ SaleKeepsItsListing'
      /\ (Ready(e)' => CallsAreReady')
  BY <1>1, CallGoesOn
<1>3. editor'[e].pc = "idle" /\ CallsAreReady'
  BY <1>2, EndedCall
<1>4. OneReviser' /\ ListsAreBehind' /\ ComingIsNewer' /\ ListsGetUpdated' /\ ComingGetsUpdated'
  BY <1>2, <1>3, QuietStep
<1> QED
  BY <1>2, <1>3, <1>4 DEF RevisionsIInv

LEMMA ReadBaseInv ==
  ASSUME RevisionsIInv, NEW e \in Editors, ReadBase(e)
  PROVE  RevisionsIInv'
<1> DEFINE x == Item(e)
           pc == IF x \in Products THEN "save" ELSE "parts"
           next == [editor[e] EXCEPT !.pc = pc, !.base = currentRevision[x]]
<1>1. /\ editor[e].pc = "base"
      /\ UNCHANGED <<catalogue, sale, adrift, revived, edits, editorFaults>>
  BY DEF ReadBase
<1>2. CASE x \in deletedItems
  <2>1. Go(e, NotEditing) /\ cutShort'
    BY <1>2 DEF ReadBase
  <2>2. deletedItems' \subseteq Items /\ editorFaults' \in 0 .. MaxEditorFaults
    BY <1>1 DEF RevisionsIInv, CatalogueTyped, RevisionsTypeOK, catalogue
  <2> QED
    BY <1>1, <1>2, <2>1, <2>2, EndsQuietly DEF ReadBase, catalogue
<1>3. CASE x \notin deletedItems
  <2>1. Go(e, next) /\ UNCHANGED cutShort
    BY <1>3 DEF ReadBase
  <2>2. CatalogueTyped /\ Ready(e)
    BY DEF RevisionsIInv, CallsAreReady
  <2>3. editor[e].todo # <<>>
    BY <1>1, <2>2 DEF Ready
  <2>4. /\ editor[e] \in EditorStates /\ editor[e].todo \in Seq(Jobs)
        /\ Head(editor[e].todo) \in Jobs /\ x \in Items
        /\ 1 \in DOMAIN editor[e].todo /\ editor[e].todo[1] = Head(editor[e].todo)
    BY <2>2, <2>3, ItemOfWork
  <2>5. currentRevision[x] \in Nat /\ currentRevision[x] \in DOMAIN revisions[x]
    BY <2>2, <2>4 DEF CatalogueTyped, RevisionsTypeOK
  <2>6. /\ next \in EditorStates /\ next.pc = pc /\ next.base = currentRevision[x]
        /\ next.todo = editor[e].todo /\ next.snapshot = editor[e].snapshot
    BY <2>4, <2>5 DEF EditorStates
  <2> HIDE DEF next
  <2>7. Others(e) /\ editor'[e] = next /\ CatalogueTyped' /\ SaleExists' /\ SaleKeepsItsListing'
        /\ (Ready(e)' => CallsAreReady')
    <3>1. /\ cutShort' \in BOOLEAN /\ deletedItems' \subseteq Items /\ adrift' \subseteq Items
          /\ edits' \in 0 .. MaxEdits /\ editorFaults' \in 0 .. MaxEditorFaults
      BY <1>1, <2>1, <2>2 DEF CatalogueTyped, RevisionsTypeOK, catalogue
    <3> QED
      BY <1>1, <2>1, <2>6, <3>1, CallGoesOn DEF catalogue
  <2>8. Item(e)' = x
    BY <2>6, <2>7 DEF Item
  <2>9. x \in Products => x \notin Composites
    BY RevisionsAssumption
  <2>10. x \in Products \/ x \in Composites
    BY <2>4 DEF Items, Composites
  <2> HIDE DEF x
  <2>11. Ready(e)'
    BY <1>1, <2>2, <2>3, <2>5, <2>6, <2>7, <2>8, <2>9, <2>10 DEF Ready, x, catalogue
  <2>12. \A y \in Composites : Repeats(e, y) \/ Handles(e, y) => Repeats(e, y)' \/ Handles(e, y)'
    BY <2>6, <2>7, <2>8 DEF Repeats, Handles, x
  <2>13. /\ editor'[e].pc # "bump" /\ editor'[e].base <= currentRevision[Item(e)']
         /\ ~(editor'[e].pc = "save" /\ Item(e)' \in Composites)
    BY <2>5, <2>6, <2>7, <2>8, <2>9
  <2>14. OneReviser' /\ ListsAreBehind' /\ ComingIsNewer' /\ ListsGetUpdated' /\ ComingGetsUpdated'
    BY <1>1, <2>1, <2>7, <2>11, <2>12, <2>13, QuietStep DEF catalogue
  <2> QED
    BY <2>7, <2>11, <2>14 DEF RevisionsIInv
<1> QED
  BY <1>2, <1>3

LEMMA ReadPartsInv ==
  ASSUME RevisionsIInv, NEW e \in Editors, ReadParts(e)
  PROVE  RevisionsIInv'
<1> DEFINE x == Item(e)
           parts == Head(editor[e].todo).parts
           found == IF x \in Containers THEN parts ELSE parts \ deletedItems
           list == {<<y, currentRevision[y]>> : y \in found}
           next == [editor[e] EXCEPT !.pc = "save", !.snapshot = list]
<1>1. /\ editor[e].pc = "parts" /\ Go(e, next)
      /\ UNCHANGED <<catalogue, sale, adrift, revived, cutShort, edits, editorFaults>>
  BY DEF ReadParts
<1>2. CatalogueTyped /\ Ready(e)
  BY DEF RevisionsIInv, CallsAreReady
<1>3. editor[e].todo # <<>> /\ x \in Composites
  BY <1>1, <1>2 DEF Ready
<1>4. /\ editor[e] \in EditorStates /\ editor[e].todo \in Seq(Jobs)
      /\ Head(editor[e].todo) \in Jobs /\ x \in Items
      /\ 1 \in DOMAIN editor[e].todo /\ editor[e].todo[1] = Head(editor[e].todo)
  BY <1>2, <1>3, ItemOfWork
<1>5. parts \subseteq Kind(x) /\ Kind(x) \subseteq Items
  BY <1>2, <1>4 DEF Ready, Item, Kind, Items
<1>6. \A y \in Items : currentRevision[y] \in Nat /\ currentRevision[y] \in DOMAIN revisions[y]
  BY <1>2 DEF CatalogueTyped, RevisionsTypeOK
<1>7. /\ list \in SUBSET (Kind(x) \X Nat)
      /\ \A entry \in list : /\ entry[1] \in parts /\ entry[2] = currentRevision[entry[1]]
                            /\ entry[2] \in DOMAIN revisions[entry[1]]
  BY <1>5, <1>6
<1> HIDE DEF list, parts
<1>8. /\ next \in EditorStates /\ next.pc = "save" /\ next.base = editor[e].base
      /\ next.todo = editor[e].todo /\ next.snapshot = list
  <2>1. list \in Contents
    BY <1>5, <1>7 DEF Contents
  <2> QED
    BY <1>4, <2>1 DEF EditorStates
<1> HIDE DEF next
<1>9. Others(e) /\ editor'[e] = next /\ CatalogueTyped' /\ SaleExists' /\ SaleKeepsItsListing'
      /\ (Ready(e)' => CallsAreReady')
  <2>1. /\ cutShort' \in BOOLEAN /\ deletedItems' \subseteq Items /\ adrift' \subseteq Items
        /\ edits' \in 0 .. MaxEdits /\ editorFaults' \in 0 .. MaxEditorFaults
    BY <1>1, <1>2 DEF CatalogueTyped, RevisionsTypeOK, catalogue
  <2> QED
    BY <1>1, <1>8, <2>1, CallGoesOn DEF catalogue
<1>10. Item(e)' = x /\ Head(editor'[e].todo).parts = parts
  BY <1>8, <1>9 DEF Item, parts
<1>11. x \notin Products
  BY <1>3, RevisionsAssumption
<1>12. editor[e].base \in Nat /\ (x \in adrift \/ editor[e].base <= currentRevision[x])
  BY <1>1, <1>4 DEF RevisionsIInv, OneReviser, EditorStates
<1>13. Ready(e)'
  BY <1>1, <1>2, <1>3, <1>5, <1>7, <1>8, <1>9, <1>10, <1>11 DEF Ready, catalogue
<1>14. \A y \in Composites : Repeats(e, y) \/ Handles(e, y) => Repeats(e, y)' \/ Handles(e, y)'
  BY <1>8, <1>9, <1>10 DEF Repeats, Handles
<1>15. /\ editor'[e].pc # "bump" /\ editor[e].pc # "bump" /\ editor[e].pc # "propagate"
       /\ Item(e)' \in adrift \/ editor'[e].base <= currentRevision[Item(e)']
       /\ \A entry \in editor'[e].snapshot : /\ entry[1] \in Head(editor'[e].todo).parts
                                            /\ entry[2] = currentRevision[entry[1]]
  BY <1>1, <1>7, <1>8, <1>9, <1>10, <1>12
<1>16. OneReviser' /\ ListsAreBehind' /\ ComingIsNewer' /\ ListsGetUpdated' /\ ComingGetsUpdated'
  BY <1>1, <1>9, <1>13, <1>14, <1>15, QuietStep DEF catalogue
<1> QED
  BY <1>9, <1>13, <1>16 DEF RevisionsIInv

LEMMA DenyUpdateInv ==
  ASSUME RevisionsIInv, NEW e \in Editors, DenyUpdate(e)
  PROVE  RevisionsIInv'
<1>1. /\ editor[e].pc = "save" /\ Go(e, NotEditing)
      /\ cutShort' = (cutShort \/ Item(e) \in Composites)
      /\ UNCHANGED <<catalogue, sale, adrift, revived, edits, editorFaults>>
  BY DEF DenyUpdate
<1>2. CatalogueTyped /\ Ready(e)
  BY DEF RevisionsIInv, CallsAreReady
<1>3. editor[e].todo # <<>>
  BY <1>1, <1>2 DEF Ready
<1>4. /\ Item(e) \in Items /\ 1 \in DOMAIN editor[e].todo
      /\ editor[e].todo[1] = Head(editor[e].todo)
  BY <1>2, <1>3, ItemOfWork
<1>5. Item(e) \in Composites \/ \A x \in Composites : ~Repeats(e, x) /\ ~Handles(e, x)
  <2>1. CASE Item(e) \in Products
    <3>1. DOMAIN editor[e].todo = {1}
      BY <1>2, <1>4, <2>1 DEF Ready, Item
    <3>2. Item(e) \notin Composites
      BY <2>1, RevisionsAssumption
    <3> QED
      BY <3>1, <3>2 DEF Repeats, Handles
  <2> QED
    BY <1>4, <2>1 DEF Items, Composites
<1>6. /\ cutShort' \in BOOLEAN /\ deletedItems' \subseteq Items
      /\ editorFaults' \in 0 .. MaxEditorFaults
  BY <1>1, <1>2 DEF CatalogueTyped, RevisionsTypeOK, catalogue
<1> QED
  BY <1>1, <1>5, <1>6, EndsQuietly DEF catalogue

LEMMA SoftRemoveInv ==
  ASSUME RevisionsIInv, NEW e \in Editors, SoftRemove(e)
  PROVE  RevisionsIInv'
<1>1. /\ editor[e].pc = "remove" /\ Go(e, NotEditing)
      /\ deletedItems' = deletedItems \cup {editor[e].goal}
      /\ UNCHANGED <<currentRevision, revisions, sale, adrift, revived, cutShort, edits, editorFaults>>
  BY DEF SoftRemove
<1>2. editor[e].todo = <<>> /\ editor[e].goal \in Items
  BY <1>1 DEF RevisionsIInv, CallsAreReady, Ready
<1>3. \A x \in Composites : ~Repeats(e, x) /\ ~Handles(e, x)
  BY <1>2 DEF Repeats, Handles
<1>4. /\ cutShort' \in BOOLEAN /\ deletedItems' \subseteq Items
      /\ editorFaults' \in 0 .. MaxEditorFaults
  BY <1>1, <1>2 DEF RevisionsIInv, CatalogueTyped, RevisionsTypeOK
<1> QED
  BY <1>1, <1>3, <1>4, EndsQuietly

LEMMA EditorCrashInv ==
  ASSUME RevisionsIInv, NEW e \in Editors, EditorCrash(e)
  PROVE  RevisionsIInv'
<1>1. /\ Go(e, NotEditing) /\ cutShort' = TRUE
      /\ editorFaults < MaxEditorFaults /\ editorFaults' = editorFaults + 1
      /\ UNCHANGED <<catalogue, sale, adrift, revived, edits>>
  BY DEF EditorCrash
<1>2. deletedItems' \subseteq Items /\ editorFaults' \in 0 .. MaxEditorFaults
  BY <1>1, RevisionsAssumption DEF RevisionsIInv, CatalogueTyped, RevisionsTypeOK,
     catalogue
<1> QED
  BY <1>1, <1>2, EndsQuietly DEF catalogue

\* The parents that are out of date.
LEMMA OutdatedWork ==
  ASSUME CatalogueTyped, NEW x, NEW todo \in Worklists(Outdated(x), {})
  PROVE  /\ todo \in Seq(Jobs)
         /\ \A i \in DOMAIN todo : /\ todo[i].item \in Composites
                                   /\ todo[i].parts \subseteq Kind(todo[i].item)
         /\ \A y \in Outdated(x) : \E i \in DOMAIN todo : todo[i].item = y
<1> DEFINE P == Outdated(x)
           none == {}
<1>1. P \in SUBSET Composites /\ none \in SUBSET Items /\ todo \in Worklists(P, none)
  BY DEF Outdated
<1> HIDE DEF P, none
<1>2. todo \in Seq(Jobs)
  BY <1>1, WorklistIs
<1>3. \A i \in DOMAIN todo : todo[i].item \in P /\ todo[i].parts \subseteq Kind(todo[i].item)
  BY <1>1, WorklistIs
<1>4. \A y \in P : \E i \in DOMAIN todo : todo[i].item = y
  BY <1>1, WorklistIs
<1>5. \A i \in DOMAIN todo : todo[i].item \in Composites
  BY <1>1, <1>3
<1> QED
  BY <1>2, <1>3, <1>4, <1>5 DEF P

\* Work on everything that is out of date, now that those that missed the revision
\* are adrift; or the item was deleted.
CatchesAll(e, todo) ==
    \/ Item(e) \in deletedItems
    \/ /\ \A y \in Outdated(Item(e)) : \E i \in DOMAIN todo : todo[i].item = y
       /\ \A d \in Editors \ {e} :
              editor[d].todo # <<>> /\ Item(d) \in Composites
              /\ Item(e) \in Head(editor[d].todo).parts \ PartsOf(Item(d))
                  => Item(d) \in adrift'

\* A call goes on after it propagated: to that work first, then to what was left.
LEMMA WorkIsPutFirst ==
  ASSUME RevisionsIInv, NEW e \in Editors, editor[e].pc = "propagate",
         UNCHANGED <<currentRevision, revisions, deletedItems, sale, revived, cutShort,
                     edits, editorFaults>>,
         adrift \subseteq adrift', adrift' \subseteq Items,
         NEW todo \in Seq(Jobs),
         Go(e, GoOn(editor[e], todo \o Tail(editor[e].todo))),
         \A i \in DOMAIN todo : /\ todo[i].item \in Composites
                               /\ todo[i].parts \subseteq Kind(todo[i].item),
         CatchesAll(e, todo)
  PROVE  RevisionsIInv'
<1> DEFINE x == Item(e)
<1>1. CatalogueTyped /\ Ready(e)
  BY DEF RevisionsIInv, CallsAreReady
<1>2. editor[e].todo # <<>> /\ editor[e] \in EditorStates /\ editor[e].todo \in Seq(Jobs)
  <2>1. editor[e].todo # <<>>
    BY <1>1 DEF Ready
  <2> QED
    BY <1>1, <2>1, ItemOfWork
<1> DEFINE rest == Tail(editor[e].todo)
           q == todo \o rest
           next == GoOn(editor[e], q)
<1>3. /\ rest \in Seq(Jobs)
      /\ \A i \in DOMAIN rest : i + 1 \in DOMAIN editor[e].todo /\ rest[i] = editor[e].todo[i + 1]
      /\ \A i \in DOMAIN editor[e].todo : i > 1 =>
             i - 1 \in DOMAIN rest /\ editor[e].todo[i] = rest[i - 1]
  BY <1>2, TailOfWork
<1>4. \A i \in DOMAIN rest : rest[i].item \in Composites /\ rest[i].parts \subseteq Kind(rest[i].item)
  <2> TAKE i \in DOMAIN rest
  <2>1. i + 1 \in DOMAIN editor[e].todo /\ rest[i] = editor[e].todo[i + 1] /\ i + 1 # 1
    BY <1>3, LenProperties
  <2>2. rest[i].item \notin Products /\ rest[i].parts \subseteq Kind(rest[i].item)
    BY <1>1, <2>1 DEF Ready
  <2>3. rest[i] \in Jobs
    BY <1>3, ElementOfSeq
  <2> QED
    BY <2>2, <2>3 DEF Jobs, Items, Composites
<1> HIDE DEF rest
<1>5. /\ q \in Seq(Jobs)
      /\ \A i \in DOMAIN todo : i \in DOMAIN q /\ q[i] = todo[i]
      /\ \A i \in DOMAIN rest : i + Len(todo) \in DOMAIN q /\ q[i + Len(todo)] = rest[i]
      /\ \A i \in DOMAIN q : \/ i \in DOMAIN todo /\ q[i] = todo[i]
                             \/ i - Len(todo) \in DOMAIN rest /\ q[i] = rest[i - Len(todo)]
  BY <1>3, MoreWork
<1> HIDE DEF q
<1>6. \A i \in DOMAIN q : q[i].item \in Composites /\ q[i].parts \subseteq Kind(q[i].item)
  BY <1>4, <1>5
<1>7. /\ next \in EditorStates /\ next.todo = q
      /\ q # <<>> => next.pc = "base"
      /\ q = <<>> => /\ next.pc \in {"idle", "remove"}
                     /\ next.pc = "remove" => next.goal \in Items
  BY <1>2, <1>5, GoesOn
<1> HIDE DEF next
<1>8. Others(e) /\ editor'[e] = next /\ CatalogueTyped' /\ SaleExists' /\ SaleKeepsItsListing'
      /\ (Ready(e)' => CallsAreReady')
  <2>1. /\ cutShort' \in BOOLEAN /\ deletedItems' \subseteq Items
        /\ edits' \in 0 .. MaxEdits /\ editorFaults' \in 0 .. MaxEditorFaults
    BY <1>1 DEF CatalogueTyped, RevisionsTypeOK
  <2>2. Go(e, next)
    BY DEF next, q, rest
  <2> QED
    BY <1>7, <2>1, <2>2, CallGoesOn
<1>9. \A y : \A i \in DOMAIN q : q[i].item = y => Repeats(e, y)' \/ Handles(e, y)'
  <2> SUFFICES ASSUME NEW y, NEW i \in DOMAIN q, q[i].item = y
               PROVE  Repeats(e, y)' \/ Handles(e, y)'
    OBVIOUS
  <2>1. q # <<>> /\ q[1] = Head(q) /\ i \in Nat \ {0}
    BY <1>5, TailOfWork, LenProperties
  <2>2. editor'[e].todo = q /\ editor'[e].pc = "base"
    BY <1>7, <1>8, <2>1
  <2>3. CASE i = 1
    <3>1. Item(e)' = y
      BY <2>1, <2>2, <2>3 DEF Item
    <3> QED
      BY <2>1, <2>2, <3>1 DEF Handles
  <2>4. CASE i > 1
    BY <2>2, <2>4 DEF Repeats
  <2> QED
    BY <2>1, <2>3, <2>4
<1>10. Ready(e)'
  <2>1. \A y \in Composites : y \notin Products
    BY RevisionsAssumption
  <2>2. q # <<>> => Item(e)' \in Composites
    BY <1>5, <1>6, <1>7, <1>8, TailOfWork DEF Item
  <2> QED
    BY <1>6, <1>7, <1>8, <2>1, <2>2 DEF Ready
<1>11. \A y \in Composites : Repeats(e, y) \/ Handles(e, y) => Repeats(e, y)' \/ Handles(e, y)'
  <2> SUFFICES ASSUME NEW y \in Composites, NEW i \in DOMAIN editor[e].todo,
                      i > 1, editor[e].todo[i].item = y
               PROVE  Repeats(e, y)' \/ Handles(e, y)'
    BY DEF Repeats, Handles
  <2>1. i - 1 \in DOMAIN rest /\ rest[i - 1].item = y
    BY <1>3
  <2>2. i - 1 + Len(todo) \in DOMAIN q /\ q[i - 1 + Len(todo)].item = y
    BY <1>5, <2>1
  <2> QED
    BY <1>9, <2>2
<1>12. x \notin deletedItems => \A y \in Outdated(x) : Repeats(e, y)' \/ Handles(e, y)'
  <2> SUFFICES ASSUME x \notin deletedItems, NEW y \in Outdated(x)
               PROVE  Repeats(e, y)' \/ Handles(e, y)'
    OBVIOUS
  <2>1. PICK i \in DOMAIN todo : todo[i].item = y
    BY DEF CatchesAll
  <2>2. i \in DOMAIN q /\ q[i].item = y
    BY <1>5, <2>1
  <2> QED
    BY <1>9, <2>2
<1>13. editor'[e].pc \in {"base", "idle", "remove"}
  BY <1>7, <1>8
<1>14. x \notin deletedItems =>
           \A d \in Editors \ {e} :
               editor[d].todo # <<>> /\ Item(d) \in Composites
               /\ x \in Head(editor[d].todo).parts \ PartsOf(Item(d))
                   => Item(d) \in adrift'
  BY DEF CatchesAll
<1>15. OneReviser' /\ ListsAreBehind' /\ ComingIsNewer' /\ ListsGetUpdated' /\ ComingGetsUpdated'
  BY <1>8, <1>10, <1>11, <1>12, <1>13, <1>14, QuietStep
<1> QED
  BY <1>8, <1>10, <1>15 DEF RevisionsIInv

LEMMA PropagateInv ==
  ASSUME RevisionsIInv, NEW e \in Editors, Propagate(e)
  PROVE  RevisionsIInv'
<1> DEFINE x == Item(e)
           mine == {f \in Editors \ {e} :
                       editor[f].todo # <<>> /\ Item(f) \in Composites
                       /\ x \in Head(editor[f].todo).parts \ PartsOf(Item(f))}
<1>1. /\ editor[e].pc = "propagate"
      /\ UNCHANGED <<currentRevision, revisions, deletedItems, sale, revived, cutShort,
                     edits, editorFaults>>
  BY DEF Propagate, catalogue
<1>2. CatalogueTyped /\ Ready(e) /\ adrift \subseteq Items
  BY DEF RevisionsIInv, CallsAreReady, CatalogueTyped, RevisionsTypeOK
<1>3. CASE /\ x \in deletedItems /\ UNCHANGED adrift
           /\ Go(e, GoOn(editor[e], Tail(editor[e].todo)))
  <2> DEFINE none == <<>>
  <2>1. editor[e].todo # <<>> /\ editor[e].todo \in Seq(Jobs)
    BY <1>1, <1>2, ItemOfWork DEF Ready
  <2>2. /\ none \in Seq(Jobs) /\ DOMAIN none = {}
        /\ none \o Tail(editor[e].todo) = Tail(editor[e].todo)
    BY <2>1, TailOfWork, ConcatEmptySeq
  <2>3. CatchesAll(e, none)
    BY <1>3 DEF CatchesAll
  <2> HIDE DEF none
  <2> QED
    BY <1>1, <1>2, <1>3, <2>2, <2>3, WorkIsPutFirst
<1>4. CASE /\ adrift' = adrift \cup {Item(d) : d \in mine}
           /\ \E todo \in Worklists(Outdated(x), {}) :
                  Go(e, GoOn(editor[e], todo \o Tail(editor[e].todo)))
  <2>1. PICK todo \in Worklists(Outdated(x), {}) :
            Go(e, GoOn(editor[e], todo \o Tail(editor[e].todo)))
    BY <1>4
  <2>2. /\ todo \in Seq(Jobs)
        /\ \A i \in DOMAIN todo : /\ todo[i].item \in Composites
                                  /\ todo[i].parts \subseteq Kind(todo[i].item)
        /\ \A y \in Outdated(x) : \E i \in DOMAIN todo : todo[i].item = y
    BY <1>2, OutdatedWork
  <2>3. adrift \subseteq adrift' /\ adrift' \subseteq Items
    BY <1>2, <1>4 DEF Items, Composites
  <2>4. CatchesAll(e, todo)
    BY <1>4, <2>2 DEF CatchesAll
  <2> HIDE DEF mine
  <2> QED
    BY <1>1, <2>1, <2>2, <2>3, <2>4, WorkIsPutFirst
<1> QED
  BY <1>3, <1>4 DEF Propagate

LEMMA SellInv ==
  ASSUME RevisionsIInv, NEW s \in PointsOfSale, NEW c \in Containers, NEW p \in Products,
         Sell(s, c, p)
  PROVE  RevisionsIInv'
<1>1. UNCHANGED <<currentRevision, revisions, deletedItems, editor, adrift, revived, cutShort, edits,
                  editorFaults>>
  BY DEF Sell, catalogue
<1>2. CatalogueTyped' /\ CallsAreReady'
  BY <1>1 DEF RevisionsIInv, CatalogueTyped, RevisionsTypeOK, CallsAreReady, Ready, Item
<1>3. OneReviser' /\ ListsAreBehind'
  BY <1>1 DEF RevisionsIInv, OneReviser, ListsAreBehind, Saved, Item
<1>4. ComingIsNewer' /\ ListsGetUpdated' /\ ComingGetsUpdated'
  BY <1>1 DEF RevisionsIInv, ComingIsNewer, ListsGetUpdated, ComingGetsUpdated, Revises,
     Coming, Current, Item, UpToDate, Propagates, Repeats, Handles
<1>5. SaleExists' /\ SaleKeepsItsListing'
  <2>1. PICK m \in DOMAIN revisions[s], n \in DOMAIN revisions[c], k \in DOMAIN revisions[p] :
            /\ <<c, n>> \in revisions[s][m] /\ <<p, k>> \in revisions[c][n]
            /\ sale' = <<s, m, c, n, p, k>>
    BY DEF Sell
  <2>2. sale'[1] = s /\ sale'[2] = m /\ sale'[3] = c /\ sale'[4] = n /\ sale'[5] = p /\ sale'[6] = k
    BY <2>1
  <2> QED
    BY <1>1, <2>1, <2>2 DEF SaleExists, SaleKeepsItsListing
<1> QED
  BY <1>2, <1>3, <1>4, <1>5 DEF RevisionsIInv

-----------------------------------------------------------------------------
(* The calls that save a revision *)

\* A snapshot is what a revision of its item may hold.
LEMMA SnapshotIs ==
  ASSUME CatalogueTyped, NEW e \in Editors, Ready(e), editor[e].pc = "save"
  PROVE  /\ editor[e].todo # <<>> /\ Item(e) \in Items /\ editor[e] \in EditorStates
         /\ editor[e].base \in DOMAIN revisions[Item(e)]
         /\ editor[e].snapshot \in Contents
         /\ Item(e) \in Products => editor[e].snapshot \in Prices
         /\ Item(e) \in Composites =>
                /\ editor[e].snapshot \in SUBSET (Kind(Item(e)) \X Nat)
                /\ \A entry \in editor[e].snapshot :
                       entry[1] \in Kind(Item(e)) /\ entry[2] \in DOMAIN revisions[entry[1]]
<1>1. editor[e].todo # <<>>
  BY DEF Ready
<1>2. Item(e) \in Items /\ editor[e] \in EditorStates
  BY <1>1, ItemOfWork
<1>3. /\ editor[e].base \in DOMAIN revisions[Item(e)]
      /\ Item(e) \in Products => editor[e].snapshot \in Prices
      /\ Item(e) \in Composites =>
             /\ editor[e].snapshot \in SUBSET (Kind(Item(e)) \X Nat)
             /\ \A entry \in editor[e].snapshot :
                    entry[1] \in Kind(Item(e)) /\ entry[2] \in DOMAIN revisions[entry[1]]
  BY DEF Ready
<1>4. Item(e) \in Products \/ Item(e) \in Composites
  BY <1>2 DEF Items, Composites
<1>5. editor[e].snapshot \in Contents
  <2>1. \A x \in Items : Kind(x) \subseteq Items
    BY DEF Kind, Items
  <2> QED
    BY <1>2, <1>3, <1>4, <2>1 DEF Contents
<1> QED
  BY <1>1, <1>2, <1>3, <1>5

\* A revision is written, at the place that the call had in mind; what it replaces
\* if anything belongs to an item that is adrift.
LEMMA SavingStep ==
  ASSUME RevisionsIInv, NEW e \in Editors, editor[e].pc = "save",
         Go(e, [editor[e] EXCEPT !.pc = "bump", !.snapshot = Nothing]),
         UNCHANGED <<currentRevision, deletedItems, sale, revived, cutShort, edits, editorFaults>>,
         adrift \subseteq adrift', adrift' \subseteq Items,
         revisions' \in [Items -> Seq(Contents)],
         \A p \in Products : revisions'[p] \in Seq(Prices),
         \A x \in Composites : revisions'[x] \in Seq(SUBSET (Kind(x) \X Nat)),
         \A x \in Items : DOMAIN revisions[x] \subseteq DOMAIN revisions'[x],
         \A x \in Items \ adrift' : \A n \in DOMAIN revisions[x] :
             revisions'[x][n] = revisions[x][n],
         \A x \in Items : \A n \in DOMAIN revisions'[x] :
             \/ n \in DOMAIN revisions[x] /\ revisions'[x][n] = revisions[x][n]
             \/ x = Item(e) /\ revisions'[x][n] = editor[e].snapshot,
         editor[e].base + 1 \in DOMAIN revisions'[Item(e)],
         revisions'[Item(e)][editor[e].base + 1] = editor[e].snapshot,
         OneReviser'
  PROVE  RevisionsIInv'
<1> DEFINE x == Item(e)
           next == [editor[e] EXCEPT !.pc = "bump", !.snapshot = Nothing]
<1>1. /\ CatalogueTyped /\ RevisionsTypeOK /\ Ready(e)
  BY DEF RevisionsIInv, CallsAreReady, CatalogueTyped
<1>2. /\ editor[e].todo # <<>> /\ x \in Items /\ editor[e] \in EditorStates
      /\ editor[e].base \in DOMAIN revisions[x]
      /\ editor[e].snapshot \in Contents
      /\ x \in Products => editor[e].snapshot \in Prices
      /\ x \in Composites =>
             /\ editor[e].snapshot \in SUBSET (Kind(x) \X Nat)
             /\ \A entry \in editor[e].snapshot :
                    entry[1] \in Kind(x) /\ entry[2] \in DOMAIN revisions[entry[1]]
  BY <1>1, SnapshotIs
<1>3. /\ next \in EditorStates /\ next.pc = "bump" /\ next.todo = editor[e].todo
      /\ next.base = editor[e].base /\ Go(e, next)
  BY <1>2 DEF EditorStates
<1> HIDE DEF next
<1>4. /\ Others(e) /\ editor' \in [Editors -> EditorStates]
      /\ editor'[e].pc = "bump" /\ editor'[e].todo = editor[e].todo
      /\ editor'[e].base = editor[e].base /\ Item(e)' = x
  BY <1>1, <1>3 DEF Go, Others, CatalogueTyped, Item
<1>5. \A d \in Editors \ {e} : editor'[d] = editor[d] /\ Item(d)' = Item(d)
  BY <1>4 DEF Others, Item
<1>6. \A y \in Composites : y \in Items /\ Kind(y) \subseteq Items
  BY DEF Composites, Items, Kind
<1>7. \A y \in Items : currentRevision[y] \in DOMAIN revisions[y]
  BY <1>1 DEF RevisionsTypeOK
<1>8. RevisionsTypeOK'
  <2>1. \A y \in Items : currentRevision'[y] \in DOMAIN revisions'[y]
    BY <1>7
  <2>2. ASSUME NEW y \in Composites, NEW n \in DOMAIN revisions'[y],
               NEW entry \in revisions'[y][n]
        PROVE  entry[1] \in Kind(y) /\ entry[2] \in DOMAIN revisions'[entry[1]]
    <3>1. CASE n \in DOMAIN revisions[y] /\ revisions'[y][n] = revisions[y][n]
      BY <1>1, <1>6, <2>2, <3>1 DEF RevisionsTypeOK
    <3>2. CASE y = x /\ revisions'[y][n] = editor[e].snapshot
      BY <1>2, <1>6, <2>2, <3>2
    <3> QED
      BY <1>6, <3>1, <3>2
  <2> QED
    BY <1>1, <2>1, <2>2 DEF RevisionsTypeOK
<1>9. CatalogueTyped'
  BY <1>1, <1>4, <1>8 DEF CatalogueTyped
<1>10. CallsAreReady'
  <2>1. ASSUME NEW d \in Editors, d # e PROVE Ready(d)'
    <3>1. Ready(d)
      BY DEF RevisionsIInv, CallsAreReady
    <3> QED
      BY <1>1, <1>5, <2>1, <3>1, StaysReady
  <2>2. Ready(e)'
    <3>1. editor[e].base \in DOMAIN revisions'[x]
      BY <1>2
    <3> QED
      BY <1>1, <1>2, <1>4, <3>1 DEF Ready
  <2> QED
    BY <2>1, <2>2 DEF CallsAreReady
<1>11. SaleExists' /\ SaleKeepsItsListing'
  <2>1. CASE sale = Nothing
    BY <2>1 DEF SaleExists, SaleKeepsItsListing
  <2>2. CASE sale # Nothing
    <3>1. /\ sale[1] \in PointsOfSale /\ sale[2] \in DOMAIN revisions[sale[1]]
          /\ sale[3] \in Containers /\ sale[4] \in DOMAIN revisions[sale[3]]
      BY <2>2 DEF RevisionsIInv, SaleExists
    <3>2. sale[1] \in Items /\ sale[3] \in Items
      BY <3>1 DEF Items
    <3>3. \/ {sale[1], sale[3]} \cap adrift # {}
          \/ /\ <<sale[3], sale[4]>> \in revisions[sale[1]][sale[2]]
             /\ <<sale[5], sale[6]>> \in revisions[sale[3]][sale[4]]
      BY <2>2 DEF RevisionsIInv, SaleKeepsItsListing
    <3>4. SaleExists'
      BY <3>1, <3>2 DEF SaleExists
    <3> QED
      BY <3>1, <3>2, <3>3, <3>4 DEF SaleKeepsItsListing
  <2> QED
    BY <2>1, <2>2
<1>12. ListsAreBehind'
  <2>1. ASSUME NEW y \in Composites, NEW n \in DOMAIN revisions'[y],
               NEW entry \in revisions'[y][n]
        PROVE  entry[1] \in adrift' \/ entry[2] <= currentRevision[entry[1]]
    <3>1. CASE n \in DOMAIN revisions[y] /\ revisions'[y][n] = revisions[y][n]
      BY <2>1, <3>1 DEF RevisionsIInv, ListsAreBehind
    <3>2. CASE y = x /\ revisions'[y][n] = editor[e].snapshot
      BY <2>1, <3>2 DEF RevisionsIInv, ListsAreBehind
    <3> QED
      BY <1>6, <3>1, <3>2
  <2>2. ASSUME NEW d \in Editors, editor'[d].pc = "save", Item(d)' \in Composites,
               NEW entry \in editor'[d].snapshot
        PROVE  entry[1] \in adrift' \/ entry[2] <= currentRevision[entry[1]]
    BY <1>4, <1>5, <2>2 DEF RevisionsIInv, ListsAreBehind
  <2> QED
    BY <2>1, <2>2 DEF ListsAreBehind
<1>13. \A y \in Composites \ adrift' : y \in Composites \ adrift /\ Current(y)' = Current(y)
  BY <1>6, <1>7 DEF Current
<1>14. ASSUME NEW d \in Editors, NEW y \in Composites \ adrift', Revises(d, y)'
       PROVE  /\ Revises(d, y) /\ Coming(d)' = Coming(d)
              /\ editor'[d].todo = editor[d].todo
  <2>1. CASE d = e
    BY <1>4, <1>14, <2>1 DEF Revises, Coming
  <2>2. CASE d # e /\ editor[d].pc = "save"
    BY <1>5, <1>14, <2>2 DEF Revises, Coming
  <2>3. CASE d # e /\ editor[d].pc = "bump"
    <3>1. Revises(d, y) /\ Item(d) = y /\ Item(d)' = y
      BY <1>5, <1>14, <2>3 DEF Revises
    <3>2. editor[d].base + 1 \in DOMAIN revisions[y]
      BY <2>3, <3>1 DEF RevisionsIInv, CallsAreReady, Ready
    <3>3. revisions'[y][editor[d].base + 1] = revisions[y][editor[d].base + 1]
      BY <1>6, <3>2
    <3> QED
      BY <1>5, <2>3, <3>1, <3>3 DEF Coming
  <2> QED
    BY <1>5, <1>14, <2>1, <2>2, <2>3 DEF Revises
<1>15. ComingIsNewer'
  <2> SUFFICES ASSUME NEW d \in Editors, NEW y \in Composites \ adrift', Revises(d, y)',
                      NEW entry \in Coming(d)'
               PROVE  /\ entry[1] \in Head(editor'[d].todo).parts
                      /\ \A old \in Current(y) : old[1] = entry[1]
                             => entry[1] \in adrift' \/ old[2] <= entry[2]
    BY <1>13 DEF ComingIsNewer
  <2>1. Revises(d, y) /\ entry \in Coming(d) /\ editor'[d].todo = editor[d].todo
    BY <1>14
  <2> QED
    BY <2>1 DEF RevisionsIInv, ComingIsNewer
<1>16. \A d \in Editors : \A y :
           /\ Propagates(d, y) => Propagates(d, y)'
           /\ Repeats(d, y) => Repeats(d, y)'
           /\ Handles(d, y) => Handles(d, y)'
  <2> TAKE d \in Editors
  <2>1. CASE d = e
    BY <1>4, <2>1 DEF Propagates, Repeats, Handles
  <2>2. CASE d # e
    BY <1>5, <2>2 DEF Propagates, Repeats, Handles
  <2> QED
    BY <2>1, <2>2
<1>17. ListsGetUpdated'
  <2> SUFFICES ASSUME ~cutShort', NEW y \in Composites \ (deletedItems' \cup adrift' \cup revived'),
                      NEW entry \in Current(y), ~UpToDate(entry)'
               PROVE  \E d \in Editors :
                          Propagates(d, entry[1])' \/ Repeats(d, y)' \/ Handles(d, y)'
    BY <1>13 DEF ListsGetUpdated
  <2>1. ~cutShort /\ y \in Composites \ (deletedItems \cup adrift \cup revived) /\ ~UpToDate(entry)
    BY DEF UpToDate
  <2>2. ListsGetUpdated
    BY DEF RevisionsIInv
  <2>3. PICK d \in Editors : Propagates(d, entry[1]) \/ Repeats(d, y) \/ Handles(d, y)
    BY <2>1, <2>2, ListIsHandled
  <2> QED
    BY <1>16, <2>3
<1>18. ComingGetsUpdated'
  <2> SUFFICES ASSUME ~cutShort', NEW c \in Editors,
                      NEW y \in Composites \ (deletedItems' \cup adrift' \cup revived'),
                      Revises(c, y)', NEW entry \in Coming(c)', ~UpToDate(entry)'
               PROVE  \E d \in Editors :
                          \/ Propagates(d, entry[1])' \/ Repeats(d, y)'
                          \/ d # c /\ Handles(d, y)'
    BY DEF ComingGetsUpdated
  <2>1. /\ ~cutShort /\ y \in Composites \ (deletedItems \cup adrift \cup revived)
        /\ ~UpToDate(entry) /\ Revises(c, y) /\ entry \in Coming(c)
    BY <1>14 DEF UpToDate
  <2>2. ComingGetsUpdated
    BY DEF RevisionsIInv
  <2>3. PICK d \in Editors :
            Propagates(d, entry[1]) \/ Repeats(d, y) \/ (d # c /\ Handles(d, y))
    BY <2>1, <2>2, ComingIsHandled
  <2> QED
    BY <1>16, <2>3
<1> QED
  BY <1>9, <1>10, <1>11, <1>12, <1>15, <1>17, <1>18 DEF RevisionsIInv

\* What appending does.
LEMMA Appending ==
  ASSUME NEW S, NEW q \in Seq(S), NEW x \in S
  PROVE  /\ Append(q, x) \in Seq(S) /\ Len(Append(q, x)) = Len(q) + 1
         /\ Len(q) \in Nat
         /\ Len(q) + 1 \in DOMAIN Append(q, x) /\ Append(q, x)[Len(q) + 1] = x
         /\ \A n \in DOMAIN q : n \in DOMAIN Append(q, x) /\ Append(q, x)[n] = q[n]
         /\ \A n \in DOMAIN Append(q, x) : n \in DOMAIN q \/ n = Len(q) + 1
<1>1. Append(q, x) \in Seq(S) /\ Len(Append(q, x)) = Len(q) + 1 /\ Len(q) \in Nat
  BY AppendProperties, LenProperties
<1>2. DOMAIN q = 1 .. Len(q) /\ DOMAIN Append(q, x) = 1 .. Len(q) + 1
  BY <1>1, LenProperties
<1>3. Append(q, x)[Len(q) + 1] = x /\ \A n \in 1 .. Len(q) : Append(q, x)[n] = q[n]
  BY AppendProperties
<1> QED
  BY <1>1, <1>2, <1>3

LEMMA SaveRevisionInv ==
  ASSUME RevisionsIInv, NEW e \in Editors, SaveRevision(e)
  PROVE  RevisionsIInv'
<1> DEFINE x == Item(e)
           snapshot == editor[e].snapshot
           longer == Append(revisions[x], snapshot)
<1>1. /\ editor[e].pc = "save" /\ editor[e].base = Len(revisions[x])
      /\ revisions' = [revisions EXCEPT ![x] = longer]
      /\ Go(e, [editor[e] EXCEPT !.pc = "bump", !.snapshot = Nothing])
      /\ UNCHANGED <<currentRevision, deletedItems, sale, adrift, revived, cutShort, edits, editorFaults>>
  BY DEF SaveRevision
<1>2. CatalogueTyped /\ Ready(e) /\ OneReviser
  BY DEF RevisionsIInv, CallsAreReady
<1>3. /\ editor[e].todo # <<>> /\ x \in Items /\ editor[e] \in EditorStates
      /\ editor[e].base \in DOMAIN revisions[x]
      /\ snapshot \in Contents
      /\ x \in Products => snapshot \in Prices
      /\ x \in Composites => snapshot \in SUBSET (Kind(x) \X Nat)
  BY <1>1, <1>2, SnapshotIs
<1>4. /\ revisions \in [Items -> Seq(Contents)] /\ revisions[x] \in Seq(Contents)
      /\ x \in Products => revisions[x] \in Seq(Prices)
      /\ x \in Composites => revisions[x] \in Seq(SUBSET (Kind(x) \X Nat))
  BY <1>2, <1>3 DEF CatalogueTyped, RevisionsTypeOK
<1> HIDE DEF x, snapshot
<1>5. /\ longer \in Seq(Contents) /\ Len(longer) = Len(revisions[x]) + 1
      /\ Len(revisions[x]) \in Nat
      /\ Len(revisions[x]) + 1 \in DOMAIN longer /\ longer[Len(revisions[x]) + 1] = snapshot
      /\ \A n \in DOMAIN revisions[x] : n \in DOMAIN longer /\ longer[n] = revisions[x][n]
      /\ \A n \in DOMAIN longer : n \in DOMAIN revisions[x] \/ n = Len(revisions[x]) + 1
  BY <1>3, <1>4, Appending
<1>6. /\ x \in Products => longer \in Seq(Prices)
      /\ x \in Composites => longer \in Seq(SUBSET (Kind(x) \X Nat))
  BY <1>3, <1>4, Appending
<1> HIDE DEF longer
<1>7. /\ revisions' \in [Items -> Seq(Contents)] /\ revisions'[x] = longer
      /\ \A y \in Items \ {x} : revisions'[y] = revisions[y]
  BY <1>1, <1>3, <1>4, <1>5
<1>8. /\ \A p \in Products : revisions'[p] \in Seq(Prices)
      /\ \A y \in Composites : revisions'[y] \in Seq(SUBSET (Kind(y) \X Nat))
      /\ \A y \in Products \cup Composites : y \in Items
  <2>1. \A y \in Products \cup Composites : y \in Items
    BY DEF Items, Composites
  <2> QED
    BY <1>2, <1>6, <1>7, <2>1 DEF CatalogueTyped, RevisionsTypeOK
<1>9. /\ \A y \in Items : DOMAIN revisions[y] \subseteq DOMAIN revisions'[y]
      /\ \A y \in Items : \A n \in DOMAIN revisions[y] : revisions'[y][n] = revisions[y][n]
      /\ \A y \in Items : \A n \in DOMAIN revisions'[y] :
             \/ n \in DOMAIN revisions[y] /\ revisions'[y][n] = revisions[y][n]
             \/ y = x /\ revisions'[y][n] = snapshot
      /\ editor[e].base + 1 \in DOMAIN revisions'[x]
      /\ revisions'[x][editor[e].base + 1] = snapshot
  BY <1>1, <1>3, <1>5, <1>7
<1>10. editor'[e].pc = "bump" /\ editor'[e].base = editor[e].base /\ Item(e)' = x
       /\ \A d \in Editors \ {e} : editor'[d] = editor[d] /\ Item(d)' = Item(d)
  BY <1>1, <1>2, <1>3 DEF Go, CatalogueTyped, Item, EditorStates, x
<1>11. OneReviser'
  <2> SUFFICES ASSUME NEW y \in Items \ adrift
               PROVE  /\ Len(revisions'[y]) \in {currentRevision[y], currentRevision[y] + 1}
                      /\ \A d \in Editors :
                             /\ editor'[d].pc \in {"parts", "save"} /\ Item(d)' = y
                                    => editor'[d].base <= currentRevision[y]
                             /\ Saved(d, y)' =>
                                    /\ editor'[d].base = currentRevision[y]
                                    /\ Len(revisions'[y]) = currentRevision[y] + 1
                      /\ \A c, d \in Editors : Saved(c, y)' /\ Saved(d, y)' => c = d
                      /\ \/ cutShort \/ Len(revisions'[y]) = currentRevision[y]
                         \/ \E d \in Editors : Saved(d, y)'
    BY <1>1 DEF OneReviser
  <2>1. /\ Len(revisions[y]) \in {currentRevision[y], currentRevision[y] + 1}
        /\ \A d \in Editors :
               /\ editor[d].pc \in {"parts", "save"} /\ Item(d) = y
                      => editor[d].base <= currentRevision[y]
               /\ Saved(d, y) => /\ editor[d].base = currentRevision[y]
                                 /\ Len(revisions[y]) = currentRevision[y] + 1
        /\ \A c, d \in Editors : Saved(c, y) /\ Saved(d, y) => c = d
        /\ \/ cutShort \/ Len(revisions[y]) = currentRevision[y]
           \/ \E d \in Editors : Saved(d, y)
    BY <1>2 DEF OneReviser
  <2>2. \A d \in Editors \ {e} : Saved(d, y)' <=> Saved(d, y)
    BY <1>10 DEF Saved
  <2>3. ~Saved(e, y)
    BY <1>1 DEF Saved
  <2>4. CASE y = x
    <3>1. currentRevision[x] \in Nat /\ editor[e].base <= currentRevision[x]
      BY <1>1, <1>2, <1>3, <2>1, <2>4 DEF CatalogueTyped, x
    <3>2. Len(revisions[x]) = currentRevision[x] /\ Len(revisions'[x]) = currentRevision[x] + 1
      BY <1>1, <1>5, <1>7, <2>1, <2>4, <3>1
    <3>3. \A d \in Editors : ~Saved(d, y)
      BY <2>1, <2>4, <3>1, <3>2
    <3>4. Saved(e, y)' /\ editor'[e].base = currentRevision[y]
      BY <1>1, <1>10, <2>4, <3>2 DEF Saved
    <3>5. \A d \in Editors : Saved(d, y)' => d = e
      BY <2>2, <3>3
    <3>6. \A d \in Editors :
              editor'[d].pc \in {"parts", "save"} /\ Item(d)' = y
                  => editor'[d].base <= currentRevision[y]
      BY <1>10, <2>1
    <3> QED
      BY <2>4, <3>2, <3>4, <3>5, <3>6
  <2>5. CASE y # x
    <3>1. Len(revisions'[y]) = Len(revisions[y])
      BY <1>7, <2>5
    <3>2. ~Saved(e, y)' /\ ~(editor'[e].pc \in {"parts", "save"})
      BY <1>10, <2>5 DEF Saved
    <3> QED
      BY <1>10, <2>1, <2>2, <2>3, <3>1, <3>2
  <2> QED
    BY <2>4, <2>5
<1>12. adrift' \subseteq Items
  BY <1>1, <1>2 DEF CatalogueTyped, RevisionsTypeOK
<1> QED
  BY <1>1, <1>7, <1>8, <1>9, <1>11, <1>12, SavingStep DEF x, snapshot

LEMMA OverwriteRevisionInv ==
  ASSUME RevisionsIInv, NEW e \in Editors, OverwriteRevision(e)
  PROVE  RevisionsIInv'
<1> DEFINE x == Item(e)
           snapshot == editor[e].snapshot
           k == editor[e].base + 1
<1>1. /\ editor[e].pc = "save" /\ editor[e].base < Len(revisions[x])
      /\ revisions' = [revisions EXCEPT ![x] = [@ EXCEPT ![k] = snapshot]]
      /\ Go(e, [editor[e] EXCEPT !.pc = "bump", !.snapshot = Nothing])
      /\ adrift' = adrift \cup {x}
      /\ UNCHANGED <<currentRevision, deletedItems, sale, revived, cutShort, edits, editorFaults>>
  BY DEF OverwriteRevision
<1>2. CatalogueTyped /\ Ready(e) /\ OneReviser
  BY DEF RevisionsIInv, CallsAreReady
<1>3. /\ editor[e].todo # <<>> /\ x \in Items /\ editor[e] \in EditorStates
      /\ editor[e].base \in DOMAIN revisions[x]
      /\ snapshot \in Contents
      /\ x \in Products => snapshot \in Prices
      /\ x \in Composites => snapshot \in SUBSET (Kind(x) \X Nat)
  BY <1>1, <1>2, SnapshotIs
<1>4. /\ revisions \in [Items -> Seq(Contents)] /\ revisions[x] \in Seq(Contents)
      /\ x \in Products => revisions[x] \in Seq(Prices)
      /\ x \in Composites => revisions[x] \in Seq(SUBSET (Kind(x) \X Nat))
  BY <1>2, <1>3 DEF CatalogueTyped, RevisionsTypeOK
<1>5. k \in DOMAIN revisions[x]
  <2>1. Len(revisions[x]) \in Nat /\ DOMAIN revisions[x] = 1 .. Len(revisions[x])
    BY <1>4, LenProperties
  <2> QED
    BY <1>1, <1>3, <2>1 DEF EditorStates
<1> DEFINE other == [revisions[x] EXCEPT ![k] = snapshot]
<1> HIDE DEF x, snapshot, k
<1>6. /\ other \in Seq(Contents) /\ DOMAIN other = DOMAIN revisions[x]
      /\ other[k] = snapshot
      /\ \A n \in DOMAIN other : n = k \/ other[n] = revisions[x][n]
  BY <1>3, <1>4, <1>5, ExceptSeq
<1>7. /\ x \in Products => other \in Seq(Prices)
      /\ x \in Composites => other \in Seq(SUBSET (Kind(x) \X Nat))
  BY <1>3, <1>4, <1>5, ExceptSeq
<1>8. revisions' = [revisions EXCEPT ![x] = other]
  BY <1>1
<1> HIDE DEF other
<1>9. /\ revisions' \in [Items -> Seq(Contents)] /\ revisions'[x] = other
      /\ \A y \in Items \ {x} : revisions'[y] = revisions[y]
  BY <1>3, <1>4, <1>6, <1>8
<1>10. /\ \A p \in Products : revisions'[p] \in Seq(Prices)
       /\ \A y \in Composites : revisions'[y] \in Seq(SUBSET (Kind(y) \X Nat))
  <2>1. \A y \in Products \cup Composites : y \in Items
    BY DEF Items, Composites
  <2> QED
    BY <1>2, <1>7, <1>9, <2>1 DEF CatalogueTyped, RevisionsTypeOK
<1>11. /\ \A y \in Items : DOMAIN revisions[y] \subseteq DOMAIN revisions'[y]
       /\ \A y \in Items \ adrift' : revisions'[y] = revisions[y]
       /\ \A y \in Items : \A n \in DOMAIN revisions'[y] :
              \/ n \in DOMAIN revisions[y] /\ revisions'[y][n] = revisions[y][n]
              \/ y = x /\ revisions'[y][n] = snapshot
       /\ k \in DOMAIN revisions'[x] /\ revisions'[x][k] = snapshot
  BY <1>1, <1>5, <1>6, <1>9
<1>12. editor'[e].pc = "bump" /\ Item(e)' = x
       /\ \A d \in Editors \ {e} : editor'[d] = editor[d] /\ Item(d)' = Item(d)
  BY <1>1, <1>2, <1>3 DEF Go, CatalogueTyped, Item, EditorStates, x
<1>13. OneReviser'
  <2> SUFFICES ASSUME NEW y \in Items \ adrift'
               PROVE  /\ Len(revisions'[y]) \in {currentRevision[y], currentRevision[y] + 1}
                      /\ \A d \in Editors :
                             /\ editor'[d].pc \in {"parts", "save"} /\ Item(d)' = y
                                    => editor'[d].base <= currentRevision[y]
                             /\ Saved(d, y)' =>
                                    /\ editor'[d].base = currentRevision[y]
                                    /\ Len(revisions'[y]) = currentRevision[y] + 1
                      /\ \A c, d \in Editors : Saved(c, y)' /\ Saved(d, y)' => c = d
                      /\ \/ cutShort \/ Len(revisions'[y]) = currentRevision[y]
                         \/ \E d \in Editors : Saved(d, y)'
    BY <1>1 DEF OneReviser
  <2>1. y \in Items \ adrift /\ y # x /\ revisions'[y] = revisions[y]
    BY <1>1, <1>11
  <2>2. /\ Len(revisions[y]) \in {currentRevision[y], currentRevision[y] + 1}
        /\ \A d \in Editors :
               /\ editor[d].pc \in {"parts", "save"} /\ Item(d) = y
                      => editor[d].base <= currentRevision[y]
               /\ Saved(d, y) => /\ editor[d].base = currentRevision[y]
                                 /\ Len(revisions[y]) = currentRevision[y] + 1
        /\ \A c, d \in Editors : Saved(c, y) /\ Saved(d, y) => c = d
        /\ \/ cutShort \/ Len(revisions[y]) = currentRevision[y]
           \/ \E d \in Editors : Saved(d, y)
    BY <1>2, <2>1 DEF OneReviser
  <2>3. /\ \A d \in Editors \ {e} : Saved(d, y)' <=> Saved(d, y)
        /\ ~Saved(e, y) /\ ~Saved(e, y)' /\ ~(editor'[e].pc \in {"parts", "save"})
    BY <1>1, <1>12, <2>1 DEF Saved
  <2> QED
    BY <1>12, <2>1, <2>2, <2>3
<1>14. adrift \subseteq adrift' /\ adrift' \subseteq Items
  BY <1>1, <1>2, <1>3 DEF CatalogueTyped, RevisionsTypeOK
<1> QED
  BY <1>1, <1>9, <1>10, <1>11, <1>13, <1>14, SavingStep DEF x, snapshot, k

\* The new revision becomes current: the call goes on to the parents, or to what it
\* has left to do.
LEMMA BumpRevisionInv ==
  ASSUME RevisionsIInv, NEW e \in Editors, BumpRevision(e)
  PROVE  RevisionsIInv'
<1> DEFINE x == Item(e)
           next == IF x \in PointsOfSale THEN GoOn(editor[e], Tail(editor[e].todo))
                   ELSE [editor[e] EXCEPT !.pc = "propagate"]
<1>1. /\ editor[e].pc = "bump" /\ Go(e, next)
      /\ currentRevision' = [currentRevision EXCEPT ![x] = editor[e].base + 1]
      /\ deletedItems' = deletedItems \ {x} /\ revived' = revived \cup ({x} \cap deletedItems)
      /\ UNCHANGED <<revisions, sale, adrift, cutShort, edits, editorFaults>>
  BY DEF BumpRevision
<1>2. CatalogueTyped /\ RevisionsTypeOK /\ Ready(e) /\ OneReviser
  BY DEF RevisionsIInv, CallsAreReady, CatalogueTyped
<1>3. /\ editor[e].todo # <<>> /\ x \in Items /\ editor[e] \in EditorStates
      /\ editor[e].todo \in Seq(Jobs) /\ editor[e].base \in Nat
      /\ 1 \in DOMAIN editor[e].todo /\ editor[e].todo[1] = Head(editor[e].todo)
  <2>1. editor[e].todo # <<>>
    BY <1>1, <1>2 DEF Ready
  <2> QED
    BY <1>2, <2>1, ItemOfWork DEF EditorStates
<1>4. editor[e].base + 1 \in DOMAIN revisions[x]
  BY <1>1, <1>2 DEF Ready
<1> DEFINE rest == Tail(editor[e].todo)
<1>5. /\ rest \in Seq(Jobs)
      /\ \A i \in DOMAIN rest : i + 1 \in DOMAIN editor[e].todo /\ rest[i] = editor[e].todo[i + 1]
      /\ \A i \in DOMAIN editor[e].todo : i > 1 =>
             i - 1 \in DOMAIN rest /\ editor[e].todo[i] = rest[i - 1]
  BY <1>3, TailOfWork
<1>6. x \in PointsOfSale =>
          /\ next \in EditorStates /\ next.todo = rest
          /\ rest # <<>> => next.pc = "base"
          /\ rest = <<>> => /\ next.pc \in {"idle", "remove"}
                            /\ next.pc = "remove" => next.goal \in Items
  BY <1>3, <1>5, GoesOn
<1>7. x \notin PointsOfSale =>
          next \in EditorStates /\ next.todo = editor[e].todo /\ next.pc = "propagate"
  BY <1>3 DEF EditorStates
<1> HIDE DEF next, rest
<1>8. next \in EditorStates /\ next.pc \in {"base", "idle", "remove", "propagate"}
  BY <1>6, <1>7
<1>9. /\ Others(e) /\ editor' \in [Editors -> EditorStates] /\ editor'[e] = next
      /\ \A d \in Editors \ {e} : editor'[d] = editor[d] /\ Item(d)' = Item(d)
  BY <1>1, <1>2, <1>8 DEF Go, Others, CatalogueTyped, Item
<1>10. /\ currentRevision' \in [Items -> Nat]
       /\ currentRevision'[x] = editor[e].base + 1
       /\ \A y \in Items \ {x} : currentRevision'[y] = currentRevision[y]
  BY <1>1, <1>2, <1>3 DEF CatalogueTyped
<1> HIDE DEF x
<1>11. \A y \in Composites : y \in Items /\ Kind(y) \subseteq Items
  BY DEF Composites, Items, Kind
<1>12. CatalogueTyped'
  <2>1. \A y \in Items : currentRevision'[y] \in DOMAIN revisions[y]
    BY <1>2, <1>4, <1>10 DEF RevisionsTypeOK
  <2>2. RevisionsTypeOK'
    BY <1>1, <1>2, <2>1 DEF RevisionsTypeOK
  <2> QED
    BY <1>1, <1>2, <1>9, <1>10, <2>2 DEF CatalogueTyped
<1>13. \A i \in DOMAIN rest : rest[i].item \in Composites /\ rest[i].parts \subseteq Kind(rest[i].item)
  <2> TAKE i \in DOMAIN rest
  <2>1. i + 1 \in DOMAIN editor[e].todo /\ rest[i] = editor[e].todo[i + 1] /\ i + 1 # 1
    BY <1>5, LenProperties
  <2>2. rest[i].item \notin Products /\ rest[i].parts \subseteq Kind(rest[i].item)
    BY <1>2, <2>1 DEF Ready
  <2>3. rest[i] \in Jobs
    BY <1>5, ElementOfSeq
  <2> QED
    BY <2>2, <2>3 DEF Jobs, Items, Composites
<1>14. Ready(e)'
  <2>1. CASE x \in PointsOfSale
    <3>1. \A y \in Composites : y \notin Products
      BY RevisionsAssumption
    <3>2. rest # <<>> => Item(e)' \in Composites
      BY <1>5, <1>6, <1>9, <1>13, <2>1, TailOfWork DEF Item
    <3> QED
      BY <1>6, <1>9, <1>13, <2>1, <3>1, <3>2 DEF Ready
  <2>2. CASE x \notin PointsOfSale
    BY <1>2, <1>3, <1>7, <1>9, <2>2 DEF Ready
  <2> QED
    BY <2>1, <2>2
<1>15. CallsAreReady'
  <2> SUFFICES ASSUME NEW d \in Editors, d # e PROVE Ready(d)'
    BY <1>14 DEF CallsAreReady
  <2>1. Ready(d)
    BY DEF RevisionsIInv, CallsAreReady
  <2> QED
    BY <1>1, <1>2, <1>9, <2>1, StaysReady
<1>16. SaleExists' /\ SaleKeepsItsListing'
  BY <1>1 DEF RevisionsIInv, SaleExists, SaleKeepsItsListing
<1>17. x \notin adrift =>
           /\ editor[e].base = currentRevision[x]
           /\ Len(revisions[x]) = currentRevision[x] + 1
           /\ \A d \in Editors \ {e} : ~(editor[d].pc = "bump" /\ Item(d) = x)
           /\ \A d \in Editors : editor[d].pc \in {"parts", "save"} /\ Item(d) = x
                                     => editor[d].base <= currentRevision[x]
  <2> SUFFICES ASSUME NEW y \in Items \ adrift, y = x
               PROVE  /\ editor[e].base = currentRevision[y]
                      /\ Len(revisions[y]) = currentRevision[y] + 1
                      /\ \A d \in Editors \ {e} : ~Saved(d, y)
                      /\ \A d \in Editors : editor[d].pc \in {"parts", "save"} /\ Item(d) = y
                                                => editor[d].base <= currentRevision[y]
    BY <1>3 DEF Saved
  <2>1. Saved(e, y)
    BY <1>1 DEF Saved, x
  <2>2. \A c, d \in Editors : Saved(c, y) /\ Saved(d, y) => c = d
    BY <1>2 DEF OneReviser
  <2> QED
    BY <1>2, <2>1, <2>2 DEF OneReviser
<1>18. OneReviser'
  <2> SUFFICES ASSUME NEW y \in Items \ adrift
               PROVE  /\ Len(revisions[y]) \in {currentRevision'[y], currentRevision'[y] + 1}
                      /\ \A d \in Editors :
                             /\ editor'[d].pc \in {"parts", "save"} /\ Item(d)' = y
                                    => editor'[d].base <= currentRevision'[y]
                             /\ Saved(d, y)' =>
                                    /\ editor'[d].base = currentRevision'[y]
                                    /\ Len(revisions[y]) = currentRevision'[y] + 1
                      /\ \A c, d \in Editors : Saved(c, y)' /\ Saved(d, y)' => c = d
                      /\ \/ cutShort \/ Len(revisions[y]) = currentRevision'[y]
                         \/ \E d \in Editors : Saved(d, y)'
    BY <1>1 DEF OneReviser
  <2>1. /\ Len(revisions[y]) \in {currentRevision[y], currentRevision[y] + 1}
        /\ \A d \in Editors :
               /\ editor[d].pc \in {"parts", "save"} /\ Item(d) = y
                      => editor[d].base <= currentRevision[y]
               /\ Saved(d, y) => /\ editor[d].base = currentRevision[y]
                                 /\ Len(revisions[y]) = currentRevision[y] + 1
        /\ \A c, d \in Editors : Saved(c, y) /\ Saved(d, y) => c = d
        /\ \/ cutShort \/ Len(revisions[y]) = currentRevision[y]
           \/ \E d \in Editors : Saved(d, y)
    BY <1>2 DEF OneReviser
  <2>2. ~Saved(e, y)' /\ ~(editor'[e].pc \in {"parts", "save"})
    BY <1>8, <1>9 DEF Saved
  <2>3. \A d \in Editors \ {e} : Saved(d, y)' <=> Saved(d, y)
    BY <1>9 DEF Saved
  <2>4. CASE y = x
    <3>1. /\ currentRevision[x] \in Nat /\ currentRevision'[x] = currentRevision[x] + 1
          /\ Len(revisions[x]) = currentRevision'[x]
      BY <1>2, <1>3, <1>10, <1>17, <2>4 DEF CatalogueTyped
    <3>2. \A d \in Editors : ~Saved(d, y)'
      BY <1>17, <2>2, <2>3, <2>4 DEF Saved
    <3>3. \A d \in Editors :
              editor'[d].pc \in {"parts", "save"} /\ Item(d)' = y
                  => editor'[d].base <= currentRevision'[y]
      <4> SUFFICES ASSUME NEW d \in Editors, editor'[d].pc \in {"parts", "save"}, Item(d)' = y
                   PROVE  editor'[d].base <= currentRevision'[y]
        OBVIOUS
      <4>1. editor'[d].base = editor[d].base /\ editor[d].base <= currentRevision[x]
        BY <1>9, <2>1, <2>2, <2>4
      <4>2. editor[d].base \in Nat
        BY <1>2 DEF CatalogueTyped, EditorStates
      <4> QED
        BY <2>4, <3>1, <4>1, <4>2
    <3> QED
      BY <2>4, <3>1, <3>2, <3>3
  <2>5. CASE y # x
    <3>1. currentRevision'[y] = currentRevision[y] /\ ~Saved(e, y)
      BY <1>10, <2>5 DEF Saved, x
    <3> QED
      BY <1>9, <2>1, <2>2, <2>3, <3>1
  <2> QED
    BY <2>4, <2>5
<1>19. \A y \in Items \ adrift : \A n \in Nat : n <= currentRevision[y] => n <= currentRevision'[y]
  <2> TAKE y \in Items \ adrift
  <2>1. currentRevision[y] \in Nat
    BY <1>2 DEF CatalogueTyped
  <2> QED
    BY <1>10, <1>17, <2>1
<1>20. ListsAreBehind'
  <2>1. ASSUME NEW y \in Composites, NEW n \in DOMAIN revisions[y], NEW entry \in revisions[y][n]
        PROVE  entry[1] \in adrift \/ entry[2] <= currentRevision'[entry[1]]
    <3>1. entry[1] \in Items /\ entry[2] \in Nat
      BY <1>2, ListsHold
    <3>2. entry[1] \in adrift \/ entry[2] <= currentRevision[entry[1]]
      BY DEF RevisionsIInv, ListsAreBehind
    <3> QED
      BY <1>19, <3>1, <3>2
  <2>2. ASSUME NEW d \in Editors, editor'[d].pc = "save", Item(d)' \in Composites,
               NEW entry \in editor'[d].snapshot
        PROVE  entry[1] \in adrift \/ entry[2] <= currentRevision'[entry[1]]
    <3>1. d # e /\ editor[d].pc = "save" /\ Item(d) \in Composites /\ entry \in editor[d].snapshot
      BY <1>8, <1>9, <2>2
    <3>2. entry \in Kind(Item(d)) \X Nat
      BY <3>1 DEF RevisionsIInv, CallsAreReady, Ready
    <3>3. entry[1] \in Items /\ entry[2] \in Nat
      BY <1>11, <3>1, <3>2
    <3>4. entry[1] \in adrift \/ entry[2] <= currentRevision[entry[1]]
      BY <3>1 DEF RevisionsIInv, ListsAreBehind
    <3> QED
      BY <1>19, <3>3, <3>4
  <2> QED
    BY <1>1, <2>1, <2>2 DEF ListsAreBehind
<1>21. ASSUME NEW d \in Editors, NEW y \in Composites \ adrift, Revises(d, y)'
       PROVE  /\ d # e /\ y # x /\ Revises(d, y) /\ Coming(d)' = Coming(d)
              /\ Current(y)' = Current(y)
  <2>1. d # e /\ editor'[d] = editor[d] /\ Item(d) = y
    BY <1>8, <1>9, <1>21 DEF Revises
  <2>2. y # x
    <3> SUFFICES ASSUME y = x PROVE FALSE
      OBVIOUS
    <3>1. editor[d].pc = "save" /\ editor[d].base <= currentRevision[x]
      BY <1>17, <1>21, <2>1 DEF Revises
    <3>2. editor[d].base = currentRevision[x] + 1 /\ currentRevision[x] \in Nat
      BY <1>2, <1>3, <1>10, <1>17, <1>21, <2>1 DEF Revises, CatalogueTyped
    <3> QED
      BY <3>1, <3>2
  <2> QED
    BY <1>1, <1>9, <1>10, <1>11, <1>21, <2>1, <2>2 DEF Revises, Coming, Current
<1>22. ComingIsNewer'
  <2> SUFFICES ASSUME NEW d \in Editors, NEW y \in Composites \ adrift, Revises(d, y)',
                      NEW entry \in Coming(d)', NEW old \in Current(y)'
               PROVE  /\ entry[1] \in Head(editor'[d].todo).parts
                      /\ old[1] = entry[1] => entry[1] \in adrift \/ old[2] <= entry[2]
    <3>1. ASSUME NEW d \in Editors, NEW y \in Composites \ adrift, Revises(d, y)',
                 NEW entry \in Coming(d)'
          PROVE  entry[1] \in Head(editor'[d].todo).parts
      <4>1. d # e /\ Revises(d, y) /\ entry \in Coming(d)
        BY <1>21, <3>1
      <4> QED
        BY <1>9, <4>1 DEF RevisionsIInv, ComingIsNewer
    <3> QED
      BY <1>1, <3>1 DEF ComingIsNewer
  <2>1. d # e /\ Revises(d, y) /\ entry \in Coming(d) /\ old \in Current(y)
    BY <1>21
  <2> QED
    BY <1>9, <2>1 DEF RevisionsIInv, ComingIsNewer
<1>23. \A y : Repeats(e, y) => Repeats(e, y)' \/ Handles(e, y)'
  <2> SUFFICES ASSUME NEW y, NEW i \in DOMAIN editor[e].todo, i > 1, editor[e].todo[i].item = y
               PROVE  Repeats(e, y)' \/ Handles(e, y)'
    BY DEF Repeats
  <2>1. CASE x \notin PointsOfSale
    BY <1>7, <1>9, <2>1 DEF Repeats
  <2>2. CASE x \in PointsOfSale
    <3>1. i - 1 \in DOMAIN rest /\ rest[i - 1].item = y /\ i - 1 \in Nat \ {0}
      BY <1>3, <1>5, LenProperties
    <3>2. rest # <<>> /\ rest[1] = Head(rest)
      BY <1>5, <3>1, TailOfWork
    <3>3. editor'[e].todo = rest /\ editor'[e].pc = "base"
      BY <1>6, <1>9, <2>2, <3>2
    <3>4. CASE i - 1 = 1
      <4>1. Item(e)' = y
        BY <3>1, <3>2, <3>3, <3>4 DEF Item
      <4> QED
        BY <3>2, <3>3, <4>1 DEF Handles
    <3>5. CASE i - 1 > 1
      BY <3>1, <3>3, <3>5 DEF Repeats
    <3>6. i - 1 = 1 \/ i - 1 > 1
      <4>1. i \in Nat
        BY <1>3, LenProperties
      <4> QED
        BY <4>1
    <3> QED
      BY <3>4, <3>5, <3>6
  <2> QED
    BY <2>1, <2>2
<1>24. ASSUME NEW d \in Editors, NEW y, y # x
       PROVE  Repeats(d, y) \/ Handles(d, y) => Repeats(d, y)' \/ Handles(d, y)'
  <2>1. CASE d = e
    BY <1>23, <1>24, <2>1 DEF Handles, x
  <2>2. CASE d # e
    BY <1>9, <2>2 DEF Repeats, Handles
  <2> QED
    BY <2>1, <2>2
<1>25. \A d \in Editors : \A y : Propagates(d, y) => Propagates(d, y)'
  BY <1>1, <1>9 DEF Propagates
<1>26. ASSUME NEW z \in Composites, NEW entry, entry[1] \in Kind(z), ~UpToDate(entry)'
       PROVE  (entry[1] = x /\ Propagates(e, entry[1])') \/ (entry[1] # x /\ ~UpToDate(entry))
  <2>1. CASE entry[1] = x
    <3>1. x \notin PointsOfSale
      BY <2>1, <1>26, RevisionsAssumption DEF Kind, Composites
    <3>2. Item(e)' = x
      BY <1>7, <1>9, <3>1 DEF Item, x
    <3>3. editor'[e].pc = "propagate"
      BY <1>7, <1>9, <3>1
    <3>4. Propagates(e, entry[1])'
      BY <2>1, <3>2, <3>3 DEF Propagates
    <3> QED
      BY <2>1, <3>4
  <2>2. CASE entry[1] # x
    <3>1. entry[1] \in Items
      BY <1>11, <1>26
    <3> QED
      BY <1>1, <1>10, <2>2, <3>1, <1>26 DEF UpToDate
  <2> QED
    BY <2>1, <2>2
<1>27. \A y \in Composites \ (deletedItems' \cup adrift' \cup revived') :
           y \in Composites \ (deletedItems \cup adrift \cup revived)
  BY <1>1
<1>28. ListsGetUpdated'
  <2> SUFFICES ASSUME ~cutShort, NEW y \in Composites \ (deletedItems \cup adrift \cup revived),
                      NEW entry \in Current(y)', ~UpToDate(entry)'
               PROVE  \E d \in Editors :
                          Propagates(d, entry[1])' \/ Repeats(d, y)' \/ Handles(d, y)'
    BY <1>1, <1>27 DEF ListsGetUpdated
  <2>1. entry[1] \in Kind(y)
    BY <1>11, <1>12, <1>1 DEF CatalogueTyped, RevisionsTypeOK, Current
  <2>2. CASE entry[1] = x
    BY <1>26, <2>1, <2>2
  <2>3. CASE entry[1] # x
    <3>1. ~UpToDate(entry)
      BY <1>26, <2>1, <2>3
    <3>2. CASE y # x
      <4>1. entry \in Current(y)
        BY <1>1, <1>10, <1>11, <3>2 DEF Current
      <4>2. ListsGetUpdated
        BY DEF RevisionsIInv
      <4>3. PICK d \in Editors : Propagates(d, entry[1]) \/ Repeats(d, y) \/ Handles(d, y)
        BY <3>1, <4>1, <4>2, ListIsHandled
      <4> QED
        BY <1>24, <1>25, <3>2, <4>3
    <3>3. CASE y = x
      <4>1. Revises(e, y) /\ entry \in Coming(e)
        BY <1>1, <1>10, <1>17, <3>3 DEF Revises, Coming, Current, x
      <4>2. ComingGetsUpdated
        BY DEF RevisionsIInv
      <4>3. PICK d \in Editors :
                Propagates(d, entry[1]) \/ Repeats(d, y) \/ (d # e /\ Handles(d, y))
        BY <3>1, <4>1, <4>2, ComingIsHandled
      <4>4. CASE d = e
        BY <1>23, <1>25, <4>3, <4>4
      <4>5. CASE d # e
        BY <1>9, <1>25, <4>3, <4>5 DEF Repeats, Handles
      <4> QED
        BY <4>4, <4>5
    <3> QED
      BY <3>2, <3>3
  <2> QED
    BY <2>2, <2>3
<1>29. ComingGetsUpdated'
  <2> SUFFICES ASSUME ~cutShort, NEW c \in Editors,
                      NEW y \in Composites \ (deletedItems \cup adrift \cup revived),
                      Revises(c, y)', NEW entry \in Coming(c)', ~UpToDate(entry)'
               PROVE  \E d \in Editors :
                          \/ Propagates(d, entry[1])' \/ Repeats(d, y)'
                          \/ d # c /\ Handles(d, y)'
    BY <1>1, <1>27 DEF ComingGetsUpdated
  <2>1. c # e /\ y # x /\ Revises(c, y) /\ entry \in Coming(c)
    BY <1>21
  <2>2. entry[1] \in Kind(y)
    <3>1. CASE editor[c].pc = "save"
      BY <2>1, <3>1 DEF RevisionsIInv, CallsAreReady, Ready, Revises, Coming
    <3>2. CASE editor[c].pc = "bump"
      <4>1. editor[c].base + 1 \in DOMAIN revisions[y] /\ Item(c) = y
        BY <2>1, <3>2 DEF RevisionsIInv, CallsAreReady, Ready, Revises
      <4>2. entry \in revisions[y][editor[c].base + 1]
        BY <2>1, <3>2, <4>1 DEF Coming
      <4> QED
        BY <1>2, <4>1, <4>2, ListsHold
    <3> QED
      BY <2>1, <3>1, <3>2 DEF Revises
  <2>3. CASE entry[1] = x
    BY <1>26, <2>2, <2>3
  <2>4. CASE entry[1] # x
    <3>1. ~UpToDate(entry)
      BY <1>26, <2>2, <2>4
    <3>2. ComingGetsUpdated
      BY DEF RevisionsIInv
    <3>3. PICK d \in Editors :
              Propagates(d, entry[1]) \/ Repeats(d, y) \/ (d # c /\ Handles(d, y))
      BY <2>1, <3>1, <3>2, ComingIsHandled
    <3>4. CASE d = e
      BY <1>24, <1>25, <2>1, <3>3, <3>4
    <3>5. CASE d # e
      BY <1>9, <1>25, <3>3, <3>5 DEF Repeats, Handles
    <3> QED
      BY <3>4, <3>5
  <2> QED
    BY <2>3, <2>4
<1> QED
  BY <1>12, <1>15, <1>16, <1>18, <1>20, <1>22, <1>28, <1>29 DEF RevisionsIInv

-----------------------------------------------------------------------------
(* The invariant *)

LEMMA OneOf ==
  ASSUME NEW S, NEW c \in S
  PROVE  <<c>> \in Seq(S) /\ Len(<<c>>) = 1 /\ DOMAIN <<c>> = {1} /\ <<c>>[1] = c
  OBVIOUS

\* Everything is listed in its first revision, and nobody is at work.
LEMMA RevisionsInitInv ==
  ASSUME RevisionsInit
  PROVE  RevisionsIInv
<1>1. PICK price \in Prices :
          revisions = [x \in Items |-> <<IF x \in Products THEN price
                                         ELSE {<<y, 1>> : y \in Kind(x)}>>]
  BY DEF RevisionsInit
<1> DEFINE first(z) == IF z \in Products THEN price ELSE {<<y, 1>> : y \in Kind(z)}
<1>2. /\ currentRevision = [x \in Items |-> 1] /\ deletedItems = {}
      /\ adrift = {} /\ revived = {}
      /\ editor = [e \in Editors |-> NotEditing] /\ sale = Nothing /\ cutShort = FALSE
      /\ edits = 0 /\ editorFaults = 0
  BY DEF RevisionsInit
<1>3. /\ \A x \in Items : Kind(x) \subseteq Items
      /\ Products \subseteq Items /\ Composites \subseteq Items
      /\ Products \cap Composites = {} /\ MaxEdits \in Nat /\ MaxEditorFaults \in Nat
  BY RevisionsAssumption DEF Kind, Items, Composites
<1>4. \A x \in Items : revisions[x] = <<first(x)>>
  BY <1>1
<1>5. \A x \in Composites : first(x) \in SUBSET (Kind(x) \X Nat)
  BY <1>3
<1>6. \A p \in Products : first(p) \in Prices
  BY <1>3
<1>7. ASSUME NEW x \in Composites, NEW c \in first(x)
       PROVE  c[1] \in Kind(x) /\ c[2] = 1
  <2>1. first(x) = {<<y, 1>> : y \in Kind(x)}
    BY <1>3
  <2> HIDE DEF first
  <2>2. PICK y \in Kind(x) : c = <<y, 1>>
    BY <1>7, <2>1
  <2> QED
    BY <2>2
<1>8. \A x \in Items : first(x) \in Contents
  BY <1>3, <1>5 DEF Contents, Composites, Items
<1> HIDE DEF first
<1>9. \A x \in Items : /\ DOMAIN revisions[x] = {1} /\ Len(revisions[x]) = 1
                       /\ revisions[x][1] = first(x) /\ revisions[x] \in Seq(Contents)
  BY <1>4, <1>8, OneOf
<1>10. \A e \in Editors : /\ editor[e] = NotEditing /\ editor[e].pc = "idle"
                         /\ editor[e].todo = <<>> /\ editor[e] \in EditorStates
  BY <1>2, RestIsTyped DEF NotEditing
<1>11. \A x \in Composites : \A n \in DOMAIN revisions[x] : \A entry \in revisions[x][n] :
           entry[2] = 1 /\ entry[1] \in Kind(x) /\ entry[1] \in Items
  <2> SUFFICES ASSUME NEW x \in Composites, NEW n \in DOMAIN revisions[x],
                      NEW entry \in revisions[x][n]
               PROVE  entry[2] = 1 /\ entry[1] \in Kind(x) /\ entry[1] \in Items
    OBVIOUS
  <2>1. x \in Items /\ Kind(x) \subseteq Items
    BY <1>3
  <2>2. n = 1 /\ entry \in first(x)
    BY <1>9, <2>1
  <2>3. entry[1] \in Kind(x) /\ entry[2] = 1
    BY <1>7, <2>2
  <2> QED
    BY <2>1, <2>3
<1>12. CatalogueTyped
  <2>1. \A x \in Composites : revisions[x] \in Seq(SUBSET (Kind(x) \X Nat))
    <3> SUFFICES ASSUME NEW x \in Composites
                 PROVE  revisions[x] \in Seq(SUBSET (Kind(x) \X Nat))
      OBVIOUS
    <3>1. revisions[x] = <<first(x)>> /\ first(x) \in SUBSET (Kind(x) \X Nat)
      BY <1>3, <1>4, <1>5
    <3> QED
      BY <3>1, OneOf
  <2>2. \A p \in Products : revisions[p] \in Seq(Prices)
    BY <1>3, <1>4, <1>6, OneOf
  <2>3. \A x \in Composites : \A n \in DOMAIN revisions[x] : \A entry \in revisions[x][n] :
            entry[1] \in Kind(x) /\ entry[2] \in DOMAIN revisions[entry[1]]
    BY <1>3, <1>9, <1>11
  <2>4. RevisionsTypeOK
    <3>1. \A x \in Items : currentRevision[x] \in DOMAIN revisions[x]
      BY <1>2, <1>9
    <3>2. /\ deletedItems \subseteq Items /\ adrift \subseteq Items /\ revived \subseteq Items
          /\ cutShort \in BOOLEAN
      BY <1>2
    <3>3. edits \in 0 .. MaxEdits /\ editorFaults \in 0 .. MaxEditorFaults
      BY <1>2, <1>3
    <3> QED
      BY <2>2, <2>3, <3>1, <3>2, <3>3 DEF RevisionsTypeOK
  <2>5. revisions \in [Items -> Seq(Contents)]
    BY <1>1, <1>9
  <2> QED
    BY <1>2, <1>10, <2>1, <2>4, <2>5 DEF CatalogueTyped
<1>13. CallsAreReady
  BY <1>10 DEF CallsAreReady, Ready
<1>14. SaleExists /\ SaleKeepsItsListing
  BY <1>2 DEF SaleExists, SaleKeepsItsListing
<1>15. OneReviser
  BY <1>2, <1>9, <1>10 DEF OneReviser, Saved
<1>16. ListsAreBehind
  BY <1>2, <1>10, <1>11 DEF ListsAreBehind
<1>17. \A e \in Editors : \A x : ~Revises(e, x)
  BY <1>10 DEF Revises
<1>18. ComingIsNewer /\ ComingGetsUpdated
  BY <1>17 DEF ComingIsNewer, ComingGetsUpdated
<1>19. ListsGetUpdated
  <2>1. \A x \in Composites : \A entry \in Current(x) : entry[2] = 1 /\ entry[1] \in Items
    BY <1>2, <1>3, <1>9, <1>11 DEF Current
  <2> QED
    BY <1>2, <2>1 DEF ListsGetUpdated, UpToDate
<1> QED
  BY <1>12, <1>13, <1>14, <1>15, <1>16, <1>18, <1>19 DEF RevisionsIInv

LEMMA RevisionsStutterInv ==
  ASSUME RevisionsIInv, UNCHANGED revisionsVars
  PROVE  RevisionsIInv'
<1>1. UNCHANGED <<currentRevision, revisions, deletedItems, editor, sale, adrift, revived, cutShort,
                  edits, editorFaults>>
  BY DEF revisionsVars
<1>2. CatalogueTyped' /\ CallsAreReady'
  BY <1>1 DEF RevisionsIInv, CatalogueTyped, RevisionsTypeOK, CallsAreReady, Ready, Item
<1>3. SaleExists' /\ SaleKeepsItsListing'
  BY <1>1 DEF RevisionsIInv, SaleExists, SaleKeepsItsListing
<1>4. OneReviser' /\ ListsAreBehind'
  BY <1>1 DEF RevisionsIInv, OneReviser, Saved, Item, ListsAreBehind
<1>5. ComingIsNewer'
  BY <1>1 DEF RevisionsIInv, ComingIsNewer, Revises, Coming, Item, Current
<1>6. ListsGetUpdated'
  BY <1>1 DEF RevisionsIInv, ListsGetUpdated, UpToDate, Propagates, Repeats, Handles,
              Item, Current
<1>7. ComingGetsUpdated'
  BY <1>1 DEF RevisionsIInv, ComingGetsUpdated, UpToDate, Propagates, Repeats, Handles,
              Revises, Coming, Item
<1> QED
  BY <1>2, <1>3, <1>4, <1>5, <1>6, <1>7 DEF RevisionsIInv

\* Each action in turn.
LEMMA RevisionsNextInv ==
  ASSUME RevisionsIInv, RevisionsNext
  PROVE  RevisionsIInv'
<1>1. ASSUME NEW e \in Editors, NEW p \in Products, NEW price \in Prices,
             EditProduct(e, p, price)
      PROVE  RevisionsIInv'
  BY <1>1, EditProductInv
<1>2. ASSUME NEW e \in Editors, NEW x \in Composites, NEW parts \in SUBSET Kind(x),
             EditComposite(e, x, parts)
      PROVE  RevisionsIInv'
  BY <1>2, EditCompositeInv
<1>3. ASSUME NEW e \in Editors, NEW x \in Items, DeleteItem(e, x)
      PROVE  RevisionsIInv'
  BY <1>3, DeleteItemInv
<1>4. ASSUME NEW e \in Editors, ReadBase(e) \/ ReadParts(e)
      PROVE  RevisionsIInv'
  BY <1>4, ReadBaseInv, ReadPartsInv
<1>5. ASSUME NEW e \in Editors, SaveRevision(e) \/ OverwriteRevision(e) \/ DenyUpdate(e)
      PROVE  RevisionsIInv'
  BY <1>5, SaveRevisionInv, OverwriteRevisionInv, DenyUpdateInv
<1>6. ASSUME NEW e \in Editors, BumpRevision(e) \/ Propagate(e) \/ SoftRemove(e)
      PROVE  RevisionsIInv'
  BY <1>6, BumpRevisionInv, PropagateInv, SoftRemoveInv
<1>7. ASSUME NEW e \in Editors, EditorCrash(e)
      PROVE  RevisionsIInv'
  BY <1>7, EditorCrashInv
<1>8. ASSUME NEW s \in PointsOfSale, NEW c \in Containers, NEW p \in Products, Sell(s, c, p)
      PROVE  RevisionsIInv'
  BY <1>8, SellInv
<1> QED
  BY <1>1, <1>2, <1>3, <1>4, <1>5, <1>6, <1>7, <1>8 DEF RevisionsNext

\* The inductive invariant of the catalogue holds in every reachable state.
THEOREM RevisionsInvariance == RevisionsSpec => []RevisionsIInv
<1>1. RevisionsInit => RevisionsIInv
  BY RevisionsInitInv
<1>2. RevisionsIInv /\ [RevisionsNext]_revisionsVars => RevisionsIInv'
  BY RevisionsNextInv, RevisionsStutterInv
<1> QED
  BY <1>1, <1>2, PTL DEF RevisionsSpec

\* Every item has its current revision, a product revision is a price, and a list
\* names parts of the right kind in revisions that exist, whatever calls race.
THEOREM RevisionsTypeCorrect == RevisionsSpec => []RevisionsTypeOK
<1>1. RevisionsIInv => RevisionsTypeOK
  BY DEF RevisionsIInv, CatalogueTyped
<1> QED
  BY <1>1, RevisionsInvariance, PTL

\* What a stored purchase refers to stays as it was listed when it was made, unless
\* two calls revised that container or point of sale at once.
THEOREM SalesKeepTheirListing == RevisionsSpec => []SaleKeepsItsListing
<1>1. RevisionsIInv => SaleKeepsItsListing
  BY DEF RevisionsIInv
<1> QED
  BY <1>1, RevisionsInvariance, PTL

\* When all calls are done, every list on sale is up to date and every product can
\* be edited, unless two calls revised one of them at once, one was cut short or an
\* edit in progress brought a deleted container or point of sale back.
THEOREM EditsArePropagated == RevisionsSpec => []Propagated
<1>1. RevisionsIInv => Propagated
  <2> SUFFICES ASSUME RevisionsIInv, \A e \in Editors : AtRest(e), ~cutShort
               PROVE  /\ \A x \in Composites \ (deletedItems \cup adrift \cup revived) :
                             \A entry \in Current(x) :
                                 \/ entry[1] \in deletedItems \cup adrift
                                 \/ entry[2] = currentRevision[entry[1]]
                      /\ \A p \in Products \ adrift : currentRevision[p] = Len(revisions[p])
    BY DEF Propagated
  <2>1. \A e \in Editors : \A y : /\ ~Repeats(e, y) /\ ~Handles(e, y) /\ ~Propagates(e, y)
                                  /\ ~Saved(e, y)
    BY RestingCall DEF Propagates, Saved
  <2>2. ASSUME NEW x \in Composites \ (deletedItems \cup adrift \cup revived), NEW entry \in Current(x)
        PROVE  UpToDate(entry)
    <3>1. ListsGetUpdated
      BY DEF RevisionsIInv
    <3> QED
      BY <2>1, <2>2, <3>1, ListIsHandled
  <2>3. ASSUME NEW p \in Products \ adrift
        PROVE  currentRevision[p] = Len(revisions[p])
    <3>1. OneReviser /\ p \in Items
      BY DEF RevisionsIInv, Items
    <3> QED
      BY <2>1, <3>1 DEF OneReviser
  <2> QED
    BY <2>2, <2>3 DEF UpToDate
<1> QED
  BY <1>1, RevisionsInvariance, PTL

-----------------------------------------------------------------------------
(* History *)

\* A sequence that agrees with another as far as that goes extends it.
LEMMA Extends ==
  ASSUME NEW S, NEW s \in Seq(S), NEW t \in Seq(S),
         \A n \in DOMAIN s : n \in DOMAIN t /\ t[n] = s[n]
  PROVE  IsPrefix(s, t)
<1>1. /\ Len(s) \in Nat /\ Len(t) \in Nat
      /\ DOMAIN s = 1 .. Len(s) /\ DOMAIN t = 1 .. Len(t)
  BY LenProperties
<1>2. Len(s) <= Len(t)
  BY <1>1
<1>3. \A n \in 1 .. Len(s) : t[n] \in S /\ t[n] = s[n]
  BY <1>1, <1>2, ElementOfSeq
<1> DEFINE u == SubSeq(t, 1, Len(s))
<1>4. u \in Seq(S) /\ Len(u) = Len(s) /\ \A n \in 1 .. Len(s) : u[n] = s[n]
  <2>1. /\ u \in Seq(S) /\ Len(u) = IF 1 <= Len(s) THEN Len(s) - 1 + 1 ELSE 0
        /\ \A n \in 1 .. Len(s) - 1 + 1 : u[n] = t[1 + n - 1]
    BY <1>1, <1>3, SubSeqProperties
  <2> QED
    BY <1>1, <1>3, <2>1
<1> HIDE DEF u
<1>5. u = s
  BY <1>1, <1>4, SeqEqual
<1>6. SubSeq(s, 1, Len(s)) = s
  BY SubSeqFull
<1> QED
  BY <1>2, <1>5, <1>6 DEF IsPrefix, u

\* No step changes a product revision: one is appended, or saved as it was.
LEMMA RevisionsAreKept ==
  ASSUME RevisionsIInv, [RevisionsNext]_revisionsVars, NEW p \in Products
  PROVE  IsPrefix(revisions[p], revisions'[p])
<1>1. /\ p \in Items /\ revisions[p] \in Seq(Prices) /\ revisions \in [Items -> Seq(Contents)]
      /\ DOMAIN revisions[p] = 1 .. Len(revisions[p]) /\ Len(revisions[p]) \in Nat
  BY LenProperties DEF RevisionsIInv, CatalogueTyped, RevisionsTypeOK, Items
<1>2. CASE UNCHANGED revisions
  BY <1>1, <1>2, Extends
<1>3. ASSUME NEW e \in Editors, SaveRevision(e)
      PROVE  IsPrefix(revisions[p], revisions'[p])
  <2>1. CASE Item(e) = p
    <3>1. editor[e].pc = "save" /\ editor[e].snapshot \in Prices
      BY <1>3, <2>1 DEF SaveRevision, RevisionsIInv, CallsAreReady, Ready
    <3>2. revisions'[p] = Append(revisions[p], editor[e].snapshot)
      BY <1>1, <1>3, <2>1 DEF SaveRevision
    <3>3. /\ revisions'[p] \in Seq(Prices)
          /\ \A n \in DOMAIN revisions[p] :
                 n \in DOMAIN revisions'[p] /\ revisions'[p][n] = revisions[p][n]
      BY <1>1, <3>1, <3>2, Appending
    <3> QED
      BY <1>1, <3>3, Extends
  <2>2. CASE Item(e) # p
    <3>1. revisions'[p] = revisions[p]
      BY <1>1, <1>3, <2>2 DEF SaveRevision
    <3> QED
      BY <1>1, <3>1, Extends
  <2> QED
    BY <2>1, <2>2
<1>4. ASSUME NEW e \in Editors, OverwriteRevision(e)
      PROVE  IsPrefix(revisions[p], revisions'[p])
  <2>1. revisions'[p] = revisions[p]
    <3>1. CASE Item(e) = p
      <4>1. revisions[p][editor[e].base + 1] = editor[e].snapshot
        BY <1>4, <3>1 DEF OverwriteRevision
      <4>2. revisions'[p] = [revisions[p] EXCEPT ![editor[e].base + 1] = editor[e].snapshot]
        BY <1>1, <1>4, <3>1 DEF OverwriteRevision
      <4> QED
        BY <1>1, <4>1, <4>2
    <3>2. CASE Item(e) # p
      BY <1>1, <1>4, <3>2 DEF OverwriteRevision
    <3> QED
      BY <3>1, <3>2
  <2> QED
    BY <1>1, <2>1, Extends
<1> QED
  BY <1>2, <1>3, <1>4 DEF RevisionsNext, EditProduct, EditComposite, DeleteItem, Start,
     ReadBase, ReadParts, DenyUpdate, BumpRevision, Propagate, SoftRemove, EditorCrash,
     Sell, catalogue, revisionsVars

\* No product revision ever changes, however calls race: prices of the past stay.
THEOREM PricesKeepTheirHistory == RevisionsSpec => PriceHistory
<1>1. RevisionsIInv /\ [RevisionsNext]_revisionsVars =>
          [\A p \in Products : IsPrefix(revisions[p], revisions'[p])]_revisionsVars
  BY RevisionsAreKept
<1> QED
  BY <1>1, RevisionsInvariance, PTL DEF RevisionsSpec, PriceHistory

-----------------------------------------------------------------------------
(* The dialog of a card payment *)

-----------------------------------------------------------------------------
(* The inductive invariant *)

\* A report or an answer that a payment is paid or cancelled is true, and stays so.
Told ==
    \A n \in news : n.says \in {"paid", "cancelled"} => state[n.sale] = n.says

Answered(r) ==
    /\ r.kind \in {"look", "relook"} /\ r.reply \in {"paid", "cancelled"} =>
           state[r.sale] = r.reply
    /\ r.kind \in {"cancel", "undo"} =>
           /\ r.reply \in {"sent", "failed", "cancelled"}
           /\ r.reply = "cancelled" => state[r.sale] = "cancelled"
    /\ r.reply = "refused" => lostReplies > 0
    /\ r.kind = "undo" => r.sale \in givenUp /\ (misled \/ r.sale = latest)

\* The requests of startPayment are made one after the other.
Step(r) == r.kind \in {"start", "undo", "look"}

InStep(r) ==
    /\ r.kind = "start" => starter = "starting"
    /\ r.kind = "undo" => starter = "undoing"
    /\ r.kind = "look" => starter = "looking"

OneByOne ==
    \A r \in requests : InStep(r) /\ \A q \in requests : Step(r) /\ Step(q) => r = q

\* What is shown is about the payment that was made last.
ShowsLatest ==
    /\ phase \in {"waiting", "paid"} => payment # NoSale
    /\ \/ misled
       \/ /\ payment \in {NoSale, latest}
          /\ phase \in {"waiting", "paid"} => modal.visible
          /\ starter = "preparing" =>
                 phase = "preparing" /\ modal.visible /\ payment = NoSale

\* Who listens is in the room or on the way.
Hears == listening # NoSale /\ socket.up => listening \in socket.rooms \cup socket.joining

\* What will make the store look at the payment again.
NewsIsComing(p) ==
    \/ ~socket.up
    \/ \E r \in requests :
           \/ r.kind = "start"
           \/ r.kind \in {"look", "relook"} /\ r.sale = p /\ r.reply \in {"sent", "paid"}
    \/ \E n \in news : n.sale = p /\ n.says \in {"due", "paid"}

Exempt == misled \/ lostReplies > 0

\* A payment that can still be paid, or was, is waited for or shown.
Followed(p) ==
    state[p] \in {"created", "processing", "paid"} /\ p \notin cleared \cup givenUp =>
        /\ payment = p
        /\ \/ phase = "waiting" /\ listening = p
           \/ phase = "paid"
        /\ state[p] = "paid" /\ phase = "waiting" /\ p \notin unheard => NewsIsComing(p)

DialogIInv ==
    /\ DialogTypeOK
    /\ Told
    /\ \A r \in requests : Answered(r)
    /\ OneByOne
    /\ ShowsLatest
    /\ NothingCharged
    /\ Hears
    /\ Exempt \/ \A p \in Sales : Followed(p)

-----------------------------------------------------------------------------
(* Every step keeps it *)

\* StopListening leaves a socket as it is, but for the room.
LEMMA Stopped ==
  ASSUME DialogTypeOK, StopListening
  PROVE  /\ socket' \in [up : BOOLEAN, rooms : SUBSET Sales, joining : SUBSET Sales]
         /\ listening' \in Sales \cup {NoSale}
  BY DEF DialogTypeOK, StopListening

LEMMA OpenDialogInv ==
  ASSUME DialogIInv, OpenDialog
  PROVE  DialogIInv'
<1> USE DialogAssumption DEF DialogIInv, OpenDialog, StopListening, dialogHistory, dialogFaults
<1>1. DialogTypeOK'
  <2>1. /\ socket' \in [up : BOOLEAN, rooms : SUBSET Sales, joining : SUBSET Sales]
        /\ listening' \in Sales \cup {NoSale}
    BY Stopped DEF DialogTypeOK
  <2>2. modal' \in [visible : BOOLEAN, cancelling : BOOLEAN, closing : BOOLEAN]
    <3>1. CASE starter = "none"
      <4>1. modal' = [visible |-> TRUE, cancelling |-> FALSE, closing |-> FALSE]
        BY <3>1
      <4> HIDE DEF OpenDialog
      <4> QED
        BY <4>1
    <3>2. CASE starter # "none"
      BY <3>2 DEF DialogTypeOK
    <3> QED
      BY <3>1, <3>2
  <2> HIDE DEF StopListening
  <2> QED
    BY <2>1, <2>2 DEF DialogTypeOK, Requests, SaleStates, Phases, Starters, ShowsLatest
<1>2. Told'
  BY DEF Told
<1>3. \A q \in requests' : Answered(q)'
  BY DEF Answered
<1>4. OneByOne'
  BY DEF OneByOne, Step, InStep
<1>5. ShowsLatest'
  BY DEF ShowsLatest
<1>6. NothingCharged'
  BY DEF NothingCharged
<1>7. Hears'
  BY DEF Hears
<1>8. ASSUME ~Exempt', NEW x \in Sales PROVE Followed(x)'
  BY <1>8 DEF Exempt, Followed, ShowsLatest
<1> QED
  BY <1>1, <1>2, <1>3, <1>4, <1>5, <1>6, <1>7, <1>8

LEMMA PressCancelInv ==
  ASSUME DialogIInv, PressCancel
  PROVE  DialogIInv'
<1> USE DialogAssumption DEF DialogIInv, PressCancel, StopListening, Request, dialogFaults
<1>1. DialogTypeOK'
  <2>1. /\ socket' \in [up : BOOLEAN, rooms : SUBSET Sales, joining : SUBSET Sales]
        /\ listening' \in Sales \cup {NoSale}
    BY Stopped DEF DialogTypeOK
  <2>2. modal' \in [visible : BOOLEAN, cancelling : BOOLEAN, closing : BOOLEAN]
    BY DEF DialogTypeOK
  <2> HIDE DEF StopListening
  <2> QED
    BY <2>1, <2>2 DEF DialogTypeOK, Requests, SaleStates, Phases, Starters, ShowsLatest
<1>2. Told'
  BY DEF Told
<1>3. \A q \in requests' : Answered(q)'
  BY DEF Answered
<1>4. OneByOne'
  BY DEF OneByOne, Step, InStep
<1>5. ShowsLatest'
  BY DEF ShowsLatest
<1>6. NothingCharged'
  BY DEF NothingCharged
<1>7. Hears'
  BY DEF Hears
<1>8. ASSUME ~Exempt', NEW x \in Sales PROVE Followed(x)'
  BY <1>8 DEF Exempt, Followed, NewsIsComing
<1> QED
  BY <1>1, <1>2, <1>3, <1>4, <1>5, <1>6, <1>7, <1>8

LEMMA PressCloseInv ==
  ASSUME DialogIInv, PressClose
  PROVE  DialogIInv'
<1> USE DialogAssumption DEF DialogIInv, PressClose, StopListening, dialogHistory, dialogFaults
<1>1. DialogTypeOK'
  <2>1. /\ socket' \in [up : BOOLEAN, rooms : SUBSET Sales, joining : SUBSET Sales]
        /\ listening' \in Sales \cup {NoSale}
    BY Stopped DEF DialogTypeOK
  <2>2. modal' \in [visible : BOOLEAN, cancelling : BOOLEAN, closing : BOOLEAN]
    BY DEF DialogTypeOK
  <2> HIDE DEF StopListening
  <2> QED
    BY <2>1, <2>2 DEF DialogTypeOK, Requests, SaleStates, Phases, Starters, ShowsLatest
<1>2. Told'
  BY DEF Told
<1>3. \A q \in requests' : Answered(q)'
  BY DEF Answered
<1>4. OneByOne'
  BY DEF OneByOne, Step, InStep
<1>5. ShowsLatest'
  BY DEF ShowsLatest
<1>6. NothingCharged'
  BY DEF NothingCharged
<1>7. Hears'
  BY DEF Hears
<1>8. ASSUME ~Exempt', NEW x \in Sales PROVE Followed(x)'
  BY <1>8 DEF Exempt, Followed, NewsIsComing
<1> QED
  BY <1>1, <1>2, <1>3, <1>4, <1>5, <1>6, <1>7, <1>8

LEMMA ClearCartInv ==
  ASSUME DialogIInv, ClearCart
  PROVE  DialogIInv'
<1> USE DialogAssumption DEF DialogIInv, ClearCart, StopListening, dialogFaults
<1>1. DialogTypeOK'
  <2>1. /\ socket' \in [up : BOOLEAN, rooms : SUBSET Sales, joining : SUBSET Sales]
        /\ listening' \in Sales \cup {NoSale}
    BY Stopped DEF DialogTypeOK
  <2>2. modal' \in [visible : BOOLEAN, cancelling : BOOLEAN, closing : BOOLEAN]
    BY DEF DialogTypeOK
  <2> HIDE DEF StopListening
  <2> QED
    BY <2>1, <2>2 DEF DialogTypeOK, Requests, SaleStates, Phases, Starters, ShowsLatest
<1>2. Told'
  BY DEF Told
<1>3. \A q \in requests' : Answered(q)'
  BY DEF Answered
<1>4. OneByOne'
  BY DEF OneByOne, Step, InStep
<1>5. ShowsLatest'
  BY DEF ShowsLatest
<1>6. NothingCharged'
  BY DEF NothingCharged
<1>7. Hears'
  BY DEF Hears
<1>8. ASSUME ~Exempt', NEW x \in Sales PROVE Followed(x)'
  BY <1>8 DEF Exempt, Followed, NewsIsComing
<1> QED
  BY <1>1, <1>2, <1>3, <1>4, <1>5, <1>6, <1>7, <1>8

LEMMA NoReaderFoundInv ==
  ASSUME DialogIInv, NoReaderFound
  PROVE  DialogIInv'
<1> USE DialogAssumption DEF DialogIInv, NoReaderFound, dialogHistory, dialogFaults
<1>1. DialogTypeOK'
  BY DEF DialogTypeOK, Phases, Starters
<1>2. Told'
  BY DEF Told
<1>3. \A q \in requests' : Answered(q)'
  BY DEF Answered
<1>4. OneByOne'
  BY DEF OneByOne, Step, InStep
<1>5. ShowsLatest'
  BY DEF ShowsLatest
<1>6. NothingCharged'
  BY DEF NothingCharged
<1>7. Hears'
  BY DEF Hears
<1>8. ASSUME ~Exempt', NEW x \in Sales PROVE Followed(x)'
  BY <1>8 DEF Exempt, Followed, ShowsLatest
<1> QED
  BY <1>1, <1>2, <1>3, <1>4, <1>5, <1>6, <1>7, <1>8

LEMMA CreateFailsInv ==
  ASSUME DialogIInv, CreateFails
  PROVE  DialogIInv'
<1> USE DialogAssumption DEF DialogIInv, CreateFails, dialogHistory, dialogFaults
<1>1. DialogTypeOK'
  BY DEF DialogTypeOK, Starters
<1>2. Told'
  BY DEF Told
<1>3. \A q \in requests' : Answered(q)'
  BY DEF Answered
<1>4. OneByOne'
  BY DEF OneByOne, Step, InStep
<1>5. ShowsLatest'
  BY DEF ShowsLatest
<1>6. NothingCharged'
  BY DEF NothingCharged
<1>7. Hears'
  BY DEF Hears
<1>8. ASSUME ~Exempt', NEW x \in Sales PROVE Followed(x)'
  BY <1>8 DEF Exempt, Followed, NewsIsComing
<1> QED
  BY <1>1, <1>2, <1>3, <1>4, <1>5, <1>6, <1>7, <1>8

LEMMA CreateSaleInv ==
  ASSUME DialogIInv, NEW p \in Sales, CreateSale(p)
  PROVE  DialogIInv'
<1> USE DialogAssumption DEF DialogIInv, CreateSale, Request, dialogFaults
<1>1. DialogTypeOK'
  BY DEF DialogTypeOK, Requests, SaleStates, Phases, Starters
<1>2. Told'
  BY DEF Told
<1>3. \A q \in requests' : Answered(q)'
  <2>1. \A q \in requests : q.kind # "undo"
    BY DEF OneByOne, InStep
  <2> QED
    BY <2>1 DEF Answered, DialogTypeOK
<1>4. OneByOne'
  BY DEF OneByOne, Step, InStep
<1>5. ShowsLatest'
  BY DEF ShowsLatest
<1>6. NothingCharged'
  BY DEF NothingCharged
<1>7. Hears'
  BY DEF Hears
<1>8. ASSUME ~Exempt', NEW x \in Sales PROVE Followed(x)'
  BY <1>8 DEF Exempt, Followed, ShowsLatest
<1> QED
  BY <1>1, <1>2, <1>3, <1>4, <1>5, <1>6, <1>7, <1>8

LEMMA JoinRoomInv ==
  ASSUME DialogIInv, NEW p \in Sales, JoinRoom(p)
  PROVE  DialogIInv'
<1> USE DialogAssumption DEF DialogIInv, JoinRoom, dialogHistory, dialogFaults
<1>1. DialogTypeOK'
  BY DEF DialogTypeOK
<1>2. Told'
  BY DEF Told
<1>3. \A q \in requests' : Answered(q)'
  BY DEF Answered
<1>4. OneByOne'
  BY DEF OneByOne, Step, InStep
<1>5. ShowsLatest'
  BY DEF ShowsLatest
<1>6. NothingCharged'
  BY DEF NothingCharged
<1>7. Hears'
  BY DEF Hears
<1>8. ASSUME ~Exempt', NEW x \in Sales PROVE Followed(x)'
  BY <1>8 DEF Exempt, Followed, NewsIsComing
<1> QED
  BY <1>1, <1>2, <1>3, <1>4, <1>5, <1>6, <1>7, <1>8

LEMMA WebhookInv ==
  ASSUME DialogIInv, NEW p \in Sales, NEW s \in {"paid", "cancelled"}, Webhook(p, s)
  PROVE  DialogIInv'
<1> USE DialogAssumption DEF DialogIInv, Webhook, Report, dialogHistory, dialogFaults
<1>1. DialogTypeOK'
  BY DEF DialogTypeOK, Reports, SaleStates
<1>2. Told'
  BY DEF Told, OpenStates
<1>3. \A q \in requests' : Answered(q)'
  BY DEF Answered, OpenStates
<1>4. OneByOne'
  BY DEF OneByOne, Step, InStep
<1>5. ShowsLatest'
  BY DEF ShowsLatest
<1>6. NothingCharged'
  BY DEF NothingCharged
<1>7. Hears'
  BY DEF Hears
<1>8. ASSUME ~Exempt', NEW x \in Sales PROVE Followed(x)'
  <2>1. Followed(x)
    BY <1>8 DEF Exempt
  <2>2. /\ UNCHANGED <<payment, phase, listening, cleared, givenUp>>
        /\ state'[x] \in {"created", "processing", "paid"} =>
               state[x] \in {"created", "processing", "paid"}
    BY DEF DialogTypeOK, OpenStates
  <2>3. ASSUME NewsIsComing(x) \/ (state'[x] = "paid" /\ state[x] # "paid") \/ x \in unheard \ unheard',
               phase' = "waiting", state'[x] = "paid", payment' = x
        PROVE  NewsIsComing(x)'
    <3>1. CASE state[x] = "paid"
      BY <2>3, <3>1 DEF NewsIsComing
    <3>2. CASE state[x] # "paid"
      <4>1. x = p
        BY <2>3, <3>2 DEF DialogTypeOK
      <4>2. [sale |-> p, says |-> "due"] \in news'
        OBVIOUS
      <4> QED
        BY <4>1, <4>2 DEF NewsIsComing
    <3> QED
      BY <3>1, <3>2
  <2> QED
    BY <2>1, <2>2, <2>3 DEF Followed
<1> QED
  BY <1>1, <1>2, <1>3, <1>4, <1>5, <1>6, <1>7, <1>8

LEMMA StartedInv ==
  ASSUME DialogIInv, NEW r \in requests, Started(r)
  PROVE  DialogIInv'
<1> USE DialogAssumption DEF DialogIInv, Started, Request, Reconciles, Replied, dialogHistory, dialogFaults
<1>1. DialogTypeOK'
  BY DEF DialogTypeOK, Requests, Starters
<1>2. Told'
  BY DEF Told
<1>3. \A q \in requests' : Answered(q)'
  BY DEF Answered
<1>4. OneByOne'
  BY DEF OneByOne, Step, InStep
<1>5. ShowsLatest'
  BY DEF ShowsLatest
<1>6. NothingCharged'
  BY DEF NothingCharged
<1>7. Hears'
  BY DEF Hears
<1>8. ASSUME ~Exempt', NEW x \in Sales PROVE Followed(x)'
  <2>1. Followed(x)
    BY <1>8 DEF Exempt
  <2>2. ASSUME phase = "waiting", payment = x PROVE NewsIsComing(x)'
    <3>1. Request("look", x) \in requests'
      BY <2>2, DialogAssumption
    <3> QED
      BY <3>1 DEF NewsIsComing
  <2> QED
    BY <2>1, <2>2 DEF Followed
<1> QED
  BY <1>1, <1>2, <1>3, <1>4, <1>5, <1>6, <1>7, <1>8

LEMMA NotStartedInv ==
  ASSUME DialogIInv, NEW r \in requests, NotStarted(r)
  PROVE  DialogIInv'
<1> USE DialogAssumption DEF DialogIInv, NotStarted, StopListening, Request, Replied, dialogFaults
<1>1. DialogTypeOK'
  BY DEF DialogTypeOK, Requests, Phases, Starters
<1>2. Told'
  BY DEF Told
<1>3. \A q \in requests' : Answered(q)'
  BY DEF Answered, ShowsLatest
<1>4. OneByOne'
  BY DEF OneByOne, Step, InStep
<1>5. ShowsLatest'
  BY DEF ShowsLatest
<1>6. NothingCharged'
  BY DEF NothingCharged
<1>7. Hears'
  BY DEF Hears
<1>8. ASSUME ~Exempt', NEW x \in Sales PROVE Followed(x)'
  BY <1>8 DEF Exempt, Followed, NewsIsComing
<1> QED
  BY <1>1, <1>2, <1>3, <1>4, <1>5, <1>6, <1>7, <1>8

LEMMA UndoneInv ==
  ASSUME DialogIInv, NEW r \in requests, Undone(r)
  PROVE  DialogIInv'
<1> USE DialogAssumption DEF DialogIInv, Undone, Replied, dialogHistory, dialogFaults
<1>1. DialogTypeOK'
  BY DEF DialogTypeOK, Requests, Phases, Starters
<1>2. Told'
  BY DEF Told
<1>3. \A q \in requests' : Answered(q)'
  BY DEF Answered
<1>4. OneByOne'
  BY DEF OneByOne, Step, InStep
<1>5. ShowsLatest'
  BY DEF ShowsLatest, Answered
<1>6. NothingCharged'
  BY DEF NothingCharged
<1>7. Hears'
  BY DEF Hears
<1>8. ASSUME ~Exempt', NEW x \in Sales PROVE Followed(x)'
  BY <1>8 DEF Exempt, Followed, ShowsLatest, Answered
<1> QED
  BY <1>1, <1>2, <1>3, <1>4, <1>5, <1>6, <1>7, <1>8

LEMMA LookedUpInv ==
  ASSUME DialogIInv, NEW r \in requests, LookedUp(r)
  PROVE  DialogIInv'
<1> USE DialogAssumption DEF DialogIInv, LookedUp, StopListening, ApplyUpdate, Replied, dialogFaults
<1>1. DialogTypeOK'
  <2>1. misled' \in BOOLEAN
    BY DEF DialogTypeOK
  <2>2. CASE r.reply = "refused" /\ phase = "waiting"
    BY <2>1, <2>2 DEF DialogTypeOK, Phases, Starters
  <2>3. CASE ~(r.reply = "refused" /\ phase = "waiting")
    BY <2>1, <2>3 DEF DialogTypeOK, Phases, Starters
  <2> QED
    BY <2>2, <2>3
<1>2. Told'
  BY DEF Told
<1>3. \A q \in requests' : Answered(q)'
  <2>1. misled => misled'
    OBVIOUS
  <2> QED
    BY <2>1 DEF Answered
<1>4. OneByOne'
  BY DEF OneByOne, Step, InStep
<1>5. ShowsLatest'
  BY DEF ShowsLatest
<1>6. NothingCharged'
  BY DEF NothingCharged, ShowsLatest, Answered
<1>7. Hears'
  BY DEF Hears
<1>8. ASSUME ~Exempt', NEW x \in Sales PROVE Followed(x)'
  BY <1>8 DEF Exempt, Followed, NewsIsComing, Answered
<1> QED
  BY <1>1, <1>2, <1>3, <1>4, <1>5, <1>6, <1>7, <1>8

LEMMA CancelRepliedInv ==
  ASSUME DialogIInv, NEW r \in requests, CancelReplied(r)
  PROVE  DialogIInv'
<1> USE DialogAssumption DEF DialogIInv, CancelReplied, Replied, dialogFaults
<1>1. DialogTypeOK'
  BY DEF DialogTypeOK, Requests, Reports, SaleStates, OpenStates, Phases, Starters,
     ShowsLatest
<1>2. Told'
  BY DEF Told
<1>3. \A q \in requests' : Answered(q)'
  BY DEF Answered, DialogTypeOK
<1>4. OneByOne'
  BY DEF OneByOne, Step, InStep
<1>5. ShowsLatest'
  <2>1. r.sale \in Sales
    BY DEF DialogTypeOK, Requests
  <2>2. CASE r.reply = "failed"
    BY <2>2 DEF ShowsLatest
  <2>3. CASE r.reply # "failed" /\ payment # r.sale
    BY <2>3 DEF ShowsLatest
  <2>4. CASE r.reply # "failed" /\ payment = r.sale
    BY <2>1, <2>4 DEF ShowsLatest
  <2> QED
    BY <2>2, <2>3, <2>4
<1>6. NothingCharged'
  <2>1. r.sale \in Sales
    BY DEF DialogTypeOK, Requests
  <2>2. CASE r.reply = "failed"
    BY <2>2 DEF NothingCharged
  <2>3. CASE r.reply # "failed"
    <3>1. state[r.sale] = "cancelled"
      BY <2>3 DEF Answered
    <3>2. misled \/ payment \in {NoSale, latest}
      BY DEF ShowsLatest
    <3> QED
      BY <2>1, <2>3, <3>1, <3>2 DEF NothingCharged
  <2> QED
    BY <2>2, <2>3
<1>7. Hears'
  BY DEF Hears
<1>8. ASSUME ~Exempt', NEW x \in Sales PROVE Followed(x)'
  BY <1>8 DEF Exempt, Followed, NewsIsComing, Answered
<1> QED
  BY <1>1, <1>2, <1>3, <1>4, <1>5, <1>6, <1>7, <1>8

LEMMA HandleStartInv ==
  ASSUME DialogIInv, NEW r \in requests, HandleStart(r)
  PROVE  DialogIInv'
<1> USE DialogAssumption DEF DialogIInv, HandleStart, Report, Sent, Reply, dialogHistory, dialogFaults
<1>1. DialogTypeOK'
  BY DEF DialogTypeOK, Requests, Reports, SaleStates
<1>2. Told'
  BY DEF Told, OpenStates
<1>3. \A q \in requests' : Answered(q)'
  BY DEF Answered, DialogTypeOK, Requests, OpenStates
<1>4. OneByOne'
  BY DEF OneByOne, Step, InStep, DialogTypeOK, Requests
<1>5. ShowsLatest'
  BY DEF ShowsLatest
<1>6. NothingCharged'
  BY DEF NothingCharged, OpenStates
<1>7. Hears'
  BY DEF Hears
<1>8. ASSUME ~Exempt', NEW x \in Sales PROVE Followed(x)'
  <2>1. Followed(x)
    BY <1>8 DEF Exempt
  <2>2. /\ UNCHANGED <<payment, phase, listening, cleared, givenUp>>
        /\ state'[x] \in {"created", "processing", "paid"} =>
               state[x] \in {"created", "processing", "paid"}
    BY DEF DialogTypeOK, OpenStates
  <2>3. ASSUME NewsIsComing(x) \/ (state'[x] = "paid" /\ state[x] # "paid") \/ x \in unheard \ unheard',
               phase' = "waiting", state'[x] = "paid", payment' = x
        PROVE  NewsIsComing(x)'
    <3> DEFINE answer == [r EXCEPT !.reply = "processing"]
    <3>1. answer \in requests' /\ answer.kind = "start"
      BY DEF DialogTypeOK, Requests
    <3> QED
      BY <3>1 DEF NewsIsComing
  <2> QED
    BY <2>1, <2>2, <2>3 DEF Followed
<1> QED
  BY <1>1, <1>2, <1>3, <1>4, <1>5, <1>6, <1>7, <1>8

LEMMA HandleCancelInv ==
  ASSUME DialogIInv, NEW r \in requests, HandleCancel(r)
  PROVE  DialogIInv'
<1> USE DialogAssumption DEF DialogIInv, HandleCancel, Report, Sent, Reply, dialogHistory, dialogFaults
<1>1. DialogTypeOK'
  BY DEF DialogTypeOK, Requests, Reports, SaleStates
<1>2. Told'
  BY DEF Told, OpenStates
<1>3. \A q \in requests' : Answered(q)'
  BY DEF Answered, DialogTypeOK, Requests, OpenStates
<1>4. OneByOne'
  BY DEF OneByOne, Step, InStep, DialogTypeOK, Requests
<1>5. ShowsLatest'
  BY DEF ShowsLatest
<1>6. NothingCharged'
  BY DEF NothingCharged
<1>7. Hears'
  BY DEF Hears
<1>8. ASSUME ~Exempt', NEW x \in Sales PROVE Followed(x)'
  BY <1>8 DEF Exempt, Followed, NewsIsComing
<1> QED
  BY <1>1, <1>2, <1>3, <1>4, <1>5, <1>6, <1>7, <1>8

LEMMA RefuseInv ==
  ASSUME DialogIInv, NEW r \in requests, Refuse(r)
  PROVE  DialogIInv'
<1> USE DialogAssumption DEF DialogIInv, Refuse, Sent, Reply, dialogHistory, dialogFaults
<1>1. DialogTypeOK'
  BY DEF DialogTypeOK, Requests
<1>2. Told'
  BY DEF Told
<1>3. \A q \in requests' : Answered(q)'
  BY DEF Answered, DialogTypeOK, Requests
<1>4. OneByOne'
  BY DEF OneByOne, Step, InStep, DialogTypeOK, Requests
<1>5. ShowsLatest'
  BY DEF ShowsLatest
<1>6. NothingCharged'
  BY DEF NothingCharged
<1>7. Hears'
  BY DEF Hears
<1>8. ASSUME ~Exempt', NEW x \in Sales PROVE Followed(x)'
  <2>1. Followed(x)
    BY <1>8 DEF Exempt
  <2>2. /\ UNCHANGED <<payment, phase, listening, cleared, givenUp>>
        /\ state'[x] \in {"created", "processing", "paid"} =>
               state[x] \in {"created", "processing", "paid"}
    BY DEF DialogTypeOK, OpenStates
  <2>3. ASSUME NewsIsComing(x) \/ (state'[x] = "paid" /\ state[x] # "paid") \/ x \in unheard \ unheard',
               phase' = "waiting", state'[x] = "paid", payment' = x
        PROVE  NewsIsComing(x)'
    <3> DEFINE answer == [r EXCEPT !.reply = "failed"]
    <3>1. answer \in requests' /\ answer.kind = r.kind
          /\ \A q \in requests : q = r \/ q \in requests'
      BY DEF DialogTypeOK, Requests
    <3>2. NewsIsComing(x)
      BY <2>3
    <3> QED
      BY <3>1, <3>2 DEF NewsIsComing
  <2> QED
    BY <2>1, <2>2, <2>3 DEF Followed
<1> QED
  BY <1>1, <1>2, <1>3, <1>4, <1>5, <1>6, <1>7, <1>8

LEMMA HandleLookInv ==
  ASSUME DialogIInv, NEW r \in requests, HandleLook(r)
  PROVE  DialogIInv'
<1> USE DialogAssumption DEF DialogIInv, HandleLook, Sent, Reply, dialogFaults
<1>1. DialogTypeOK'
  BY DEF DialogTypeOK, Requests
<1>2. Told'
  BY DEF Told
<1>3. \A q \in requests' : Answered(q)'
  <2>1. r.sale \in Sales /\ state[r.sale] # "refused"
    BY DEF DialogTypeOK, Requests, SaleStates
  <2> QED
    BY <2>1 DEF Answered, DialogTypeOK, Requests
<1>4. OneByOne'
  BY DEF OneByOne, Step, InStep, DialogTypeOK, Requests
<1>5. ShowsLatest'
  BY DEF ShowsLatest
<1>6. NothingCharged'
  BY DEF NothingCharged
<1>7. Hears'
  BY DEF Hears
<1>8. ASSUME ~Exempt', NEW x \in Sales PROVE Followed(x)'
  <2>1. Followed(x)
    BY <1>8 DEF Exempt
  <2>2. /\ UNCHANGED <<payment, phase, listening, cleared, givenUp>>
        /\ state'[x] \in {"created", "processing", "paid"} =>
               state[x] \in {"created", "processing", "paid"}
    BY DEF DialogTypeOK, OpenStates
  <2>3. ASSUME NewsIsComing(x) \/ (state'[x] = "paid" /\ state[x] # "paid") \/ x \in unheard \ unheard',
               phase' = "waiting", state'[x] = "paid", payment' = x
        PROVE  NewsIsComing(x)'
    <3> DEFINE answer == [r EXCEPT !.reply = state[r.sale]]
    <3>1. answer \in requests' /\ \A q \in requests : q = r \/ q \in requests'
      OBVIOUS
    <3>2. CASE r.sale = x
      <4>1. answer.kind = r.kind /\ answer.sale = x /\ answer.reply = "paid"
        BY <2>3, <3>2 DEF DialogTypeOK, Requests
      <4> QED
        BY <3>1, <4>1 DEF NewsIsComing
    <3>3. CASE r.sale # x
      <4>1. NewsIsComing(x)
        BY <2>3, <3>3
      <4> QED
        BY <3>1, <3>3, <4>1 DEF NewsIsComing
    <3> QED
      BY <3>2, <3>3
  <2> QED
    BY <2>1, <2>2, <2>3 DEF Followed
<1> QED
  BY <1>1, <1>2, <1>3, <1>4, <1>5, <1>6, <1>7, <1>8

LEMMA LoseReplyInv ==
  ASSUME DialogIInv, NEW r \in requests, LoseReply(r)
  PROVE  DialogIInv'
<1> USE DialogAssumption DEF DialogIInv, LoseReply, Reply, dialogHistory
<1>1. DialogTypeOK'
  BY DEF DialogTypeOK, Requests
<1>2. Told'
  BY DEF Told
<1>3. \A q \in requests' : Answered(q)'
  BY DEF Answered, DialogTypeOK, Requests
<1>4. OneByOne'
  BY DEF OneByOne, Step, InStep, DialogTypeOK, Requests
<1>5. ShowsLatest'
  BY DEF ShowsLatest
<1>6. NothingCharged'
  BY DEF NothingCharged
<1>7. Hears'
  BY DEF Hears
<1>8. ASSUME ~Exempt', NEW x \in Sales PROVE Followed(x)'
  BY <1>8 DEF Exempt, Followed, NewsIsComing, DialogTypeOK
<1> QED
  BY <1>1, <1>2, <1>3, <1>4, <1>5, <1>6, <1>7, <1>8

LEMMA RefuseLookInv ==
  ASSUME DialogIInv, NEW r \in requests, RefuseLook(r)
  PROVE  DialogIInv'
<1> USE DialogAssumption DEF DialogIInv, RefuseLook, Reply, Sent, dialogHistory
<1>1. DialogTypeOK'
  BY DEF DialogTypeOK, Requests
<1>2. Told'
  BY DEF Told
<1>3. \A q \in requests' : Answered(q)'
  BY DEF Answered, DialogTypeOK, Requests
<1>4. OneByOne'
  BY DEF OneByOne, Step, InStep, DialogTypeOK, Requests
<1>5. ShowsLatest'
  BY DEF ShowsLatest
<1>6. NothingCharged'
  BY DEF NothingCharged
<1>7. Hears'
  BY DEF Hears
<1>8. ASSUME ~Exempt', NEW x \in Sales PROVE Followed(x)'
  BY <1>8 DEF Exempt, Followed, NewsIsComing, DialogTypeOK
<1> QED
  BY <1>1, <1>2, <1>3, <1>4, <1>5, <1>6, <1>7, <1>8

LEMMA ReadStateInv ==
  ASSUME DialogIInv, NEW n \in news, ReadState(n)
  PROVE  DialogIInv'
<1> USE DialogAssumption DEF DialogIInv, ReadState, dialogHistory, dialogFaults
<1>1. DialogTypeOK'
  BY DEF DialogTypeOK, Reports
<1>2. Told'
  BY DEF Told, DialogTypeOK, Reports
<1>3. \A q \in requests' : Answered(q)'
  BY DEF Answered
<1>4. OneByOne'
  BY DEF OneByOne, Step, InStep
<1>5. ShowsLatest'
  BY DEF ShowsLatest
<1>6. NothingCharged'
  BY DEF NothingCharged
<1>7. Hears'
  BY DEF Hears
<1>8. ASSUME ~Exempt', NEW x \in Sales PROVE Followed(x)'
  <2>1. Followed(x)
    BY <1>8 DEF Exempt
  <2>2. /\ UNCHANGED <<payment, phase, listening, cleared, givenUp>>
        /\ state'[x] \in {"created", "processing", "paid"} =>
               state[x] \in {"created", "processing", "paid"}
    BY DEF DialogTypeOK, OpenStates
  <2>3. ASSUME NewsIsComing(x) \/ (state'[x] = "paid" /\ state[x] # "paid") \/ x \in unheard \ unheard',
               phase' = "waiting", state'[x] = "paid", payment' = x
        PROVE  NewsIsComing(x)'
    <3>1. NewsIsComing(x)
      BY <2>3
    <3>2. CASE n.sale = x
      <4>1. [n EXCEPT !.says = state[n.sale]] \in news'
        OBVIOUS
      <4> QED
        BY <2>3, <3>2, <4>1 DEF NewsIsComing, DialogTypeOK, Reports
    <3>3. CASE n.sale # x
      BY <3>1, <3>3 DEF NewsIsComing
    <3> QED
      BY <3>2, <3>3
  <2> QED
    BY <2>1, <2>2, <2>3 DEF Followed
<1> QED
  BY <1>1, <1>2, <1>3, <1>4, <1>5, <1>6, <1>7, <1>8

LEMMA EmitStateInv ==
  ASSUME DialogIInv, NEW n \in news, EmitState(n)
  PROVE  DialogIInv'
<1> USE DialogAssumption DEF DialogIInv, EmitState, StopListening, ApplyUpdate, dialogFaults
<1>1. DialogTypeOK'
  BY DEF DialogTypeOK, Phases
<1>2. Told'
  BY DEF Told
<1>3. \A q \in requests' : Answered(q)'
  BY DEF Answered
<1>4. OneByOne'
  BY DEF OneByOne, Step, InStep
<1>5. ShowsLatest'
  BY DEF ShowsLatest
<1>6. NothingCharged'
  BY DEF NothingCharged, ShowsLatest, Told
<1>7. Hears'
  BY DEF Hears
<1>8. ASSUME ~Exempt', NEW x \in Sales PROVE Followed(x)'
  BY <1>8 DEF Exempt, Followed, NewsIsComing, Told, Hears
<1> QED
  BY <1>1, <1>2, <1>3, <1>4, <1>5, <1>6, <1>7, <1>8

LEMMA DisconnectInv ==
  ASSUME DialogIInv, Disconnect
  PROVE  DialogIInv'
<1> USE DialogAssumption DEF DialogIInv, Disconnect, dialogHistory
<1>1. DialogTypeOK'
  BY DEF DialogTypeOK
<1>2. Told'
  BY DEF Told
<1>3. \A q \in requests' : Answered(q)'
  BY DEF Answered
<1>4. OneByOne'
  BY DEF OneByOne, Step, InStep
<1>5. ShowsLatest'
  BY DEF ShowsLatest
<1>6. NothingCharged'
  BY DEF NothingCharged
<1>7. Hears'
  BY DEF Hears
<1>8. ASSUME ~Exempt', NEW x \in Sales PROVE Followed(x)'
  BY <1>8 DEF Exempt, Followed, NewsIsComing
<1> QED
  BY <1>1, <1>2, <1>3, <1>4, <1>5, <1>6, <1>7, <1>8

LEMMA ReconnectInv ==
  ASSUME DialogIInv, Reconnect
  PROVE  DialogIInv'
<1> USE DialogAssumption DEF DialogIInv, Reconnect, Request, Reconciles, dialogHistory, dialogFaults
<1>1. DialogTypeOK'
  <2>1. socket' \in [up : BOOLEAN, rooms : SUBSET Sales, joining : SUBSET Sales]
    BY DEF DialogTypeOK
  <2>2. Reconciles => Request("relook", payment) \in Requests
    BY DEF DialogTypeOK, Requests, SaleStates
  <2> QED
    BY <2>1, <2>2 DEF DialogTypeOK
<1>2. Told'
  BY DEF Told
<1>3. \A q \in requests' : Answered(q)'
  BY DEF Answered
<1>4. OneByOne'
  BY DEF OneByOne, Step, InStep
<1>5. ShowsLatest'
  BY DEF ShowsLatest
<1>6. NothingCharged'
  BY DEF NothingCharged
<1>7. Hears'
  BY DEF Hears
<1>8. ASSUME ~Exempt', NEW x \in Sales PROVE Followed(x)'
  <2>1. Followed(x)
    BY <1>8 DEF Exempt
  <2>2. ASSUME phase = "waiting", payment = x, listening = x PROVE NewsIsComing(x)'
    <3>1. Request("relook", x) \in requests'
      BY <2>2, DialogAssumption
    <3> QED
      BY <3>1 DEF NewsIsComing
  <2> QED
    BY <2>1, <2>2 DEF Followed
<1> QED
  BY <1>1, <1>2, <1>3, <1>4, <1>5, <1>6, <1>7, <1>8

LEMMA DialogInitInv == DialogInit => DialogIInv
<1> SUFFICES ASSUME DialogInit PROVE DialogIInv
  OBVIOUS
<1> USE DialogAssumption DEF DialogInit
<1>1. DialogTypeOK
  <2>1. socket \in [up : BOOLEAN, rooms : SUBSET Sales, joining : SUBSET Sales]
    OBVIOUS
  <2>2. modal \in [visible : BOOLEAN, cancelling : BOOLEAN, closing : BOOLEAN]
    OBVIOUS
  <2>3. state \in [Sales -> SaleStates] /\ phase \in Phases /\ starter \in Starters
    BY DEF SaleStates, Phases, Starters
  <2>4. /\ {listening, payment, latest} \subseteq Sales \cup {NoSale}
        /\ drops \in 0 .. MaxDrops /\ lostReplies \in 0 .. MaxLostReplies
        /\ news \subseteq Reports /\ requests \subseteq Requests
        /\ cleared \subseteq Sales /\ givenUp \subseteq Sales /\ unheard \subseteq Sales
    OBVIOUS
  <2>5. misled \in BOOLEAN
    OBVIOUS
  <2> QED
    BY <2>1, <2>2, <2>3, <2>4, <2>5 DEF DialogTypeOK
<1>2. Told /\ OneByOne /\ \A r \in requests : Answered(r)
  BY DEF Told, OneByOne
<1>3. ShowsLatest /\ NothingCharged /\ Hears
  BY DEF ShowsLatest, NothingCharged, Hears
<1>4. \A p \in Sales : Followed(p)
  BY DEF Followed
<1> QED
  BY <1>1, <1>2, <1>3, <1>4 DEF DialogIInv

LEMMA DialogNextInv == DialogIInv /\ [DialogNext]_dialogVars => DialogIInv'
<1> SUFFICES ASSUME DialogIInv, [DialogNext]_dialogVars PROVE DialogIInv'
  OBVIOUS
<1>1. CASE OpenDialog \/ PressCancel \/ PressClose \/ ClearCart
  BY <1>1, OpenDialogInv, PressCancelInv, PressCloseInv, ClearCartInv
<1>2. CASE NoReaderFound \/ CreateFails \/ Disconnect \/ Reconnect
  BY <1>2, NoReaderFoundInv, CreateFailsInv, DisconnectInv, ReconnectInv
<1>3. ASSUME NEW p \in Sales, CreateSale(p) \/ JoinRoom(p) PROVE DialogIInv'
  BY <1>3, CreateSaleInv, JoinRoomInv
<1>4. ASSUME NEW p \in Sales, NEW s \in {"paid", "cancelled"}, Webhook(p, s) PROVE DialogIInv'
  BY <1>4, WebhookInv
<1>5. ASSUME NEW r \in requests,
             Started(r) \/ NotStarted(r) \/ Undone(r) \/ LookedUp(r) \/ CancelReplied(r)
      PROVE  DialogIInv'
  BY <1>5, StartedInv, NotStartedInv, UndoneInv, LookedUpInv, CancelRepliedInv
<1>6. ASSUME NEW r \in requests,
             HandleStart(r) \/ HandleCancel(r) \/ Refuse(r) \/ HandleLook(r) \/ LoseReply(r)
             \/ RefuseLook(r)
      PROVE  DialogIInv'
  BY <1>6, HandleStartInv, HandleCancelInv, RefuseInv, HandleLookInv, LoseReplyInv,
     RefuseLookInv
<1>7. ASSUME NEW n \in news, ReadState(n) \/ EmitState(n) PROVE DialogIInv'
  BY <1>7, ReadStateInv, EmitStateInv
<1>8. CASE UNCHANGED dialogVars
  BY <1>8 DEF dialogVars, DialogIInv, DialogTypeOK, Told, Answered, OneByOne, Step,
     InStep, ShowsLatest, NothingCharged, Hears, Exempt, Followed, NewsIsComing
<1> QED
  BY <1>1, <1>2, <1>3, <1>4, <1>5, <1>6, <1>7, <1>8 DEF DialogNext

-----------------------------------------------------------------------------
(* The invariant and what follows from it *)

THEOREM DialogInvariance == DialogSpec => []DialogIInv
  BY DialogInitInv, DialogNextInv, PTL DEF DialogSpec

\* The store, the modal, the requests and the reports keep their types; what is
\* cancelled, cleared or looked up always is a payment.
THEOREM DialogTypeCorrect == DialogSpec => []DialogTypeOK
<1>1. DialogIInv => DialogTypeOK
  BY DEF DialogIInv
<1> QED
  BY <1>1, DialogInvariance, PTL

\* The cashier is told that nothing has been charged only when the payment that was
\* made last is cancelled in the back end, for any number of payments, lost
\* connections and lost requests.
THEOREM NothingIsCharged == DialogSpec => []NothingCharged
<1>1. DialogIInv => NothingCharged
  BY DEF DialogIInv
<1> QED
  BY <1>1, DialogInvariance, PTL

\* However often the socket loses its connection, when everything is delivered the
\* cart of a paid payment has been cleared or is about to be.
THEOREM PaidGetsShown == DialogSpec => []PaidIsShown
<1>1. ASSUME DialogIInv PROVE PaidIsShown
  <2> SUFFICES ASSUME Settled, NEW p \in Sales, state[p] = "paid",
                      p \notin cleared \cup givenUp \cup unheard, ~ Exempt
               PROVE  phase = "paid" /\ payment = p
    BY DEF PaidIsShown, Exempt
  <2>1. Followed(p) /\ ~ NewsIsComing(p)
    BY <1>1 DEF DialogIInv, NewsIsComing, Settled
  <2> QED
    BY <2>1 DEF Followed
<1> QED
  BY <1>1, DialogInvariance, PTL

-----------------------------------------------------------------------------
(* The shop *)

\* A step of one component leaves the others as they are.
LEMMA ShopSteps ==
  ASSUME [ShopNext]_shopVars
  PROVE  [Next]_vars /\ [RevisionsNext]_revisionsVars /\ [DialogNext]_dialogVars
  BY DEF ShopNext, shopVars

\* Balances, the catalogue and the dialog, side by side, keep their types for every
\* value of the constants.
THEOREM ShopTypeCorrect == ShopSpec => []ShopTypeOK
<1> DEFINE All == IInv /\ RevisionsIInv /\ DialogIInv
<1>1. ShopInit => All
  BY InitEstablishes, RevisionsInitInv, DialogInitInv DEF ShopInit
<1>2. All /\ [ShopNext]_shopVars => All'
  BY ShopSteps, StepKeeps, RevisionsNextInv, RevisionsStutterInv, DialogNextInv
<1>3. RevisionsIInv => RevisionsTypeOK
  BY DEF RevisionsIInv, CatalogueTyped
<1>4. All => ShopTypeOK
  BY <1>3, InvImplies DEF ShopTypeOK, DialogIInv
<1> HIDE DEF All
<1> QED
  BY <1>1, <1>2, <1>4, PTL DEF ShopSpec
=============================================================================
