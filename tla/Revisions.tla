----------------------------- MODULE Revisions -----------------------------
(***************************************************************************)
(* Products, the containers that hold them and the points of sale that     *)
(* hold those.  Every edit stores a revision with the number after the one *)
(* that was current when the call looked, moves currentRevision there and  *)
(* edits every parent that lists the previous one, one after another and   *)
(* statement by statement, without a database transaction.  save() of a    *)
(* revision that is there already changes it in place: denyUpdate throws   *)
(* if a column differs, but sees nothing of a list of products or          *)
(* containers, which is kept in a table of its own.  save() of the item    *)
(* itself writes back what was loaded, also that it is not deleted.        *)
(***************************************************************************)
EXTENDS Naturals, SequencesExt

CONSTANTS
    Products, Containers, PointsOfSale,
    Prices,          \* what the columns of a product revision may hold
    Editors,         \* calls in progress at once
    Nothing,         \* no item, no price, no sale
    MaxEdits,        \* bound on the API calls
    MaxEditorFaults  \* bound on crashes

Items == Products \cup Containers \cup PointsOfSale
Composites == Containers \cup PointsOfSale

ASSUME RevisionsAssumption ==
    /\ Products \cap Composites = {} /\ Containers \cap PointsOfSale = {}
    /\ IsFiniteSet(Items) /\ Nothing \notin Items \cup Prices
    /\ MaxEdits \in Nat /\ MaxEditorFaults \in Nat

VARIABLES
    currentRevision,  \* of each item
    revisions,        \* a price, or a list of parts with their revisions
    deletedItems,     \* soft-deleted items
    editor,           \* calls in progress
    sale,             \* what a stored purchase refers to
    adrift,           \* history: items that two calls revised at once
    revived,          \* history: items whose deletion an edit undid
    cutShort,         \* history: a call ended before its last statement
    edits,            \* calls so far
    editorFaults      \* crashes so far

revisionsVars == <<currentRevision, revisions, deletedItems, editor, sale,
                   adrift, revived, cutShort, edits, editorFaults>>

catalogue == <<currentRevision, revisions, deletedItems>>

-----------------------------------------------------------------------------

Current(x) == revisions[x][currentRevision[x]]
PartsOf(x) == {part[1] : part \in Current(x)}

\* The kind of items that x is made of.
Kind(x) == IF x \in Containers THEN Products
           ELSE IF x \in PointsOfSale THEN Containers ELSE {}

\* A call works through todo: items with the parts they are to have.  base: the
\* current revision it found; snapshot: the revision to save; goal: the item
\* that is deleted in the end.
NotEditing ==
    [pc |-> "idle", todo |-> <<>>, base |-> 0, snapshot |-> Nothing, goal |-> Nothing]

AtRest(e) == editor[e] = NotEditing
Item(e) == Head(editor[e].todo).item

RevisionsInit ==
    /\ currentRevision = [x \in Items |-> 1]
    /\ revisions \in {[x \in Items |->
           << IF x \in Products THEN price
              ELSE {<<y, 1>> : y \in Kind(x)} >>] : price \in Prices}
    /\ deletedItems = {}
    /\ editor = [e \in Editors |-> NotEditing]
    /\ sale = Nothing
    /\ adrift = {}
    /\ revived = {}
    /\ cutShort = FALSE
    /\ edits = 0
    /\ editorFaults = 0

Go(e, next) == editor' = [editor EXCEPT ![e] = next]

\* What is next when the call goes on with these items.
GoOn(me, todo) ==
    IF todo # <<>> THEN [me EXCEPT !.pc = "base", !.todo = todo, !.snapshot = Nothing]
    ELSE IF me.goal # Nothing THEN [me EXCEPT !.pc = "remove", !.todo = <<>>]
    ELSE NotEditing

\* Orders in which the parents come from the database, with the parts they get:
\* not the dropped ones, nor containers that are deleted.
Worklists(parents, dropped) ==
    {[i \in DOMAIN order |->
         [item |-> order[i],
          parts |-> PartsOf(order[i]) \ (dropped \cup (Containers \cap deletedItems))]] :
        order \in SetToSeqs(parents)}

-----------------------------------------------------------------------------
(* PATCH and DELETE on products, containers and points of sale *)

Start(e) ==
    /\ AtRest(e)
    /\ edits < MaxEdits
    /\ edits' = edits + 1
    /\ UNCHANGED <<catalogue, sale, adrift, revived, cutShort, editorFaults>>

EditProduct(e, p, price) ==
    /\ Start(e)
    /\ p \in Products \ deletedItems
    /\ Go(e, [NotEditing EXCEPT !.pc = "base", !.snapshot = price,
                                !.todo = <<[item |-> p, parts |-> {}]>>])

EditComposite(e, x, parts) ==
    /\ Start(e)
    /\ x \in Composites \ deletedItems
    /\ parts \subseteq Kind(x) \ deletedItems
    /\ Go(e, [NotEditing EXCEPT !.pc = "base",
                                !.todo = <<[item |-> x, parts |-> parts]>>])

\* The parents that list the current revision lose the item first.
DeleteItem(e, x) ==
    /\ Start(e)
    /\ x \notin deletedItems
    /\ \E todo \in Worklists({y \in Composites \ deletedItems :
                                  <<x, currentRevision[x]>> \in Current(y)}, {x}) :
           Go(e, GoOn([NotEditing EXCEPT !.goal = x], todo))

-----------------------------------------------------------------------------
(* updateProduct, updateContainer and updatePointOfSale *)

\* A composite that was deleted meanwhile is not found, which throws.
ReadBase(e) ==
    LET x == Item(e) IN
    /\ editor[e].pc = "base"
    /\ IF x \in deletedItems
       THEN Go(e, NotEditing) /\ cutShort' = TRUE
       ELSE /\ Go(e, [editor[e] EXCEPT !.pc = IF x \in Products THEN "save" ELSE "parts",
                                       !.base = currentRevision[x]])
            /\ UNCHANGED cutShort
    /\ UNCHANGED <<catalogue, sale, adrift, revived, edits, editorFaults>>

\* The parts with their revisions of the moment; a point of sale leaves out
\* containers that were deleted, a container does not look.
ReadParts(e) ==
    LET parts == Head(editor[e].todo).parts
        found == IF Item(e) \in Containers THEN parts ELSE parts \ deletedItems
    IN
    /\ editor[e].pc = "parts"
    /\ Go(e, [editor[e] EXCEPT !.pc = "save",
                  !.snapshot = {<<y, currentRevision[y]>> : y \in found}])
    /\ UNCHANGED <<catalogue, sale, adrift, revived, cutShort, edits, editorFaults>>

SaveRevision(e) ==
    LET me == editor[e]
        x == Item(e)
    IN
    /\ me.pc = "save"
    /\ me.base = Len(revisions[x])
    /\ revisions' = [revisions EXCEPT ![x] = Append(@, me.snapshot)]
    /\ Go(e, [me EXCEPT !.pc = "bump", !.snapshot = Nothing])
    /\ UNCHANGED <<currentRevision, deletedItems, sale, adrift, revived, cutShort, edits, editorFaults>>

\* mutant: nothing denies the update of a product revision
OverwriteRevision_Denies(e) ==
    LET me == editor[e]
        x == Item(e)
    IN
    /\ me.pc = "save"
    /\ me.base < Len(revisions[x])
    /\ revisions' = [revisions EXCEPT ![x][me.base + 1] = me.snapshot]
    /\ Go(e, [me EXCEPT !.pc = "bump", !.snapshot = Nothing])
    /\ adrift' = adrift \cup {x}
    /\ UNCHANGED <<currentRevision, deletedItems, sale, revived, cutShort, edits, editorFaults>>

\* The revision is there already.  Of a product only one that does not differ can
\* be saved; of a composite the list of parts is replaced.
OverwriteRevision(e) ==
    LET me == editor[e]
        x == Item(e)
    IN
    /\ me.pc = "save"
    /\ me.base < Len(revisions[x])
    /\ x \in Products => revisions[x][me.base + 1] = me.snapshot
    /\ revisions' = [revisions EXCEPT ![x][me.base + 1] = me.snapshot]
    /\ Go(e, [me EXCEPT !.pc = "bump", !.snapshot = Nothing])
    /\ adrift' = adrift \cup {x}
    /\ UNCHANGED <<currentRevision, deletedItems, sale, revived, cutShort, edits, editorFaults>>

\* denyUpdate throws because a column differs: a price, or the name of a
\* composite.  So does the second of two inserts.
DenyUpdate(e) ==
    LET me == editor[e]
        x == Item(e)
    IN
    /\ me.pc = "save"
    /\ me.base < Len(revisions[x])
    /\ Go(e, NotEditing)
    /\ cutShort' = (cutShort \/ x \in Composites)
    /\ UNCHANGED <<catalogue, sale, adrift, revived, edits, editorFaults>>

\* mutant: the current revision stays
BumpRevision_Stays(e) ==
    LET me == editor[e]
        x == Item(e)
    IN
    /\ me.pc = "bump"
    /\ currentRevision' = [currentRevision EXCEPT ![x] = me.base]
    /\ deletedItems' = deletedItems \ {x}
    /\ revived' = revived \cup ({x} \cap deletedItems)
    /\ Go(e, IF x \in PointsOfSale THEN GoOn(me, Tail(me.todo))
             ELSE [me EXCEPT !.pc = "propagate"])
    /\ UNCHANGED <<revisions, sale, adrift, cutShort, edits, editorFaults>>

\* The item that was loaded is saved: the current revision may go back, and the
\* item is there again if it was deleted meanwhile.
BumpRevision(e) ==
    LET me == editor[e]
        x == Item(e)
    IN
    /\ me.pc = "bump"
    /\ currentRevision' = [currentRevision EXCEPT ![x] = me.base + 1]
    /\ deletedItems' = deletedItems \ {x}
    /\ revived' = revived \cup ({x} \cap deletedItems)
    /\ Go(e, IF x \in PointsOfSale THEN GoOn(me, Tail(me.todo))
             ELSE [me EXCEPT !.pc = "propagate"])
    /\ UNCHANGED <<revisions, sale, adrift, cutShort, edits, editorFaults>>

\* mutant: the parents that list the current revision
Outdated_Same(x) ==
    {y \in Composites \ deletedItems :
        \E part \in Current(y) : part[1] = x /\ part[2] = currentRevision[x]}

\* Live parents whose current revision lists an older one of x.
Outdated(x) ==
    {y \in Composites \ deletedItems :
        \E part \in Current(y) : part[1] = x /\ part[2] < currentRevision[x]}

\* Nothing is done for an item that was deleted.  A parent that only now is
\* getting x as a part is not among the outdated ones.
Propagate(e) ==
    LET me == editor[e]
        x == Item(e)
    IN
    /\ me.pc = "propagate"
    /\ \/ /\ x \in deletedItems
          /\ Go(e, GoOn(me, Tail(me.todo)))
          /\ UNCHANGED adrift
       \/ /\ x \notin deletedItems
          /\ \E todo \in Worklists(Outdated(x), {}) :
                 Go(e, GoOn(me, todo \o Tail(me.todo)))
          /\ adrift' = adrift \cup
                 {Item(d) : d \in {f \in Editors \ {e} :
                     editor[f].todo # <<>> /\ Item(f) \in Composites
                     /\ x \in Head(editor[f].todo).parts \ PartsOf(Item(f))}}
    /\ UNCHANGED <<catalogue, sale, revived, cutShort, edits, editorFaults>>

\* softRemove
SoftRemove(e) ==
    /\ editor[e].pc = "remove"
    /\ deletedItems' = deletedItems \cup {editor[e].goal}
    /\ Go(e, NotEditing)
    /\ UNCHANGED <<currentRevision, revisions, sale, adrift, revived, cutShort, edits, editorFaults>>

-----------------------------------------------------------------------------
(* The rest of the system *)

\* mutant: it is enough that the product is in some container
Sell_Anywhere(s, c, p) ==
    /\ sale = Nothing
    /\ {s, c, p} \cap deletedItems = {}
    /\ \E m \in DOMAIN revisions[s], n \in DOMAIN revisions[c], k \in DOMAIN revisions[p] :
           /\ <<c, n>> \in revisions[s][m]
           /\ sale' = <<s, m, c, n, p, k>>
    /\ UNCHANGED <<catalogue, editor, adrift, revived, cutShort, edits, editorFaults>>

\* verifyTransaction: any revision of a point of sale that is not deleted will do,
\* and its containers and products in the revisions that are listed there.
Sell(s, c, p) ==
    /\ sale = Nothing
    /\ {s, c, p} \cap deletedItems = {}
    /\ \E m \in DOMAIN revisions[s], n \in DOMAIN revisions[c], k \in DOMAIN revisions[p] :
           /\ <<c, n>> \in revisions[s][m]
           /\ <<p, k>> \in revisions[c][n]
           /\ sale' = <<s, m, c, n, p, k>>
    /\ UNCHANGED <<catalogue, editor, adrift, revived, cutShort, edits, editorFaults>>

EditorCrash(e) ==
    /\ editorFaults < MaxEditorFaults
    /\ ~AtRest(e)
    /\ editorFaults' = editorFaults + 1
    /\ cutShort' = TRUE
    /\ Go(e, NotEditing)
    /\ UNCHANGED <<catalogue, sale, adrift, revived, edits>>

RevisionsNext ==
    \/ \E e \in Editors :
           \/ \E p \in Products, price \in Prices : EditProduct(e, p, price)
           \/ \E x \in Composites : \E parts \in SUBSET Kind(x) : EditComposite(e, x, parts)
           \/ \E x \in Items : DeleteItem(e, x)
           \/ ReadBase(e) \/ ReadParts(e)
           \/ SaveRevision(e) \/ OverwriteRevision(e) \/ DenyUpdate(e)
           \/ BumpRevision(e) \/ Propagate(e) \/ SoftRemove(e)
           \/ EditorCrash(e)
    \/ \E s \in PointsOfSale, c \in Containers, p \in Products : Sell(s, c, p)

RevisionsSpec == RevisionsInit /\ [][RevisionsNext]_revisionsVars

-----------------------------------------------------------------------------
(* Properties *)

\* The values of the variables; every item has its current revision.
RevisionsTypeOK ==
    /\ \A x \in Items : currentRevision[x] \in DOMAIN revisions[x]
    /\ \A p \in Products : revisions[p] \in Seq(Prices)
    /\ \A x \in Composites : \A n \in DOMAIN revisions[x] : \A part \in revisions[x][n] :
           part[1] \in Kind(x) /\ part[2] \in DOMAIN revisions[part[1]]
    /\ deletedItems \subseteq Items
    /\ adrift \subseteq Items /\ revived \subseteq Items
    /\ cutShort \in BOOLEAN
    /\ edits \in 0 .. MaxEdits /\ editorFaults \in 0 .. MaxEditorFaults

\* "Past transactions keep referencing the revision that was in effect at the
\* time, so price, tax and category history stays intact": no product revision
\* ever changes, however calls race.
PriceHistory ==
    [][\A p \in Products : IsPrefix(revisions[p], revisions'[p])]_revisionsVars

\* What a stored purchase refers to is what was listed when it was made, unless
\* two calls revised that container or point of sale at once.
SaleKeepsItsListing ==
    sale # Nothing =>
        \/ {sale[1], sale[3]} \cap adrift # {}
        \/ /\ <<sale[3], sale[4]>> \in revisions[sale[1]][sale[2]]
           /\ <<sale[5], sale[6]>> \in revisions[sale[3]][sale[4]]

\* When all calls are done, everything on sale is up to date: a container lists
\* the current revisions of its products, a point of sale those of its
\* containers; and every product can be edited, as the number of its next revision
\* is free.  Except if two calls revised one of them at once, one was cut short, or
\* the container or point of sale had been deleted and an edit in progress brought
\* it back: nothing repairs that before the next edit, and a product that can no
\* longer be edited never is.
Propagated ==
    (\A e \in Editors : AtRest(e)) /\ ~cutShort =>
        /\ \A x \in Composites \ (deletedItems \cup adrift \cup revived) : \A part \in Current(x) :
              part[1] \in deletedItems \cup adrift \/ part[2] = currentRevision[part[1]]
        /\ \A p \in Products \ adrift : currentRevision[p] = Len(revisions[p])
=============================================================================
