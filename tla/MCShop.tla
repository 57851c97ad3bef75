-------------------------------- MODULE MCShop --------------------------------
(***************************************************************************)
(* What is on sale, how it is paid by card, and the cached balances, on    *)
(* small instances.  They share no state: a behaviour is one of the        *)
(* component that part names, while the others stay as they begin.         *)
(***************************************************************************)
EXTENDS BalanceCache, Revisions, PaymentDialog, TLC

VARIABLE part

Parts == {"balances", "revisions", "dialog"}

shopVars == <<vars, revisionsVars, dialogVars, part>>

ShopInit == part \in Parts /\ Init /\ RevisionsInit /\ DialogInit

ShopNext ==
    \/ /\ part = "balances" /\ Next
       /\ UNCHANGED <<revisionsVars, dialogVars, part>>
    \/ /\ part = "revisions" /\ RevisionsNext
       /\ UNCHANGED <<vars, dialogVars, part>>
    \/ /\ part = "dialog" /\ DialogNext
       /\ UNCHANGED <<vars, revisionsVars, part>>

ShopSpec == ShopInit /\ [][ShopNext]_shopVars

\* Three edits, of which the last has no other next to it unless an item was
\* deleted, or fewer and a crash or a sale; a second payment or a lost connection or reply, and at most three
\* reports and requests on their way.
Bound ==
    /\ edits + editorFaults + (IF sale = Nothing THEN 0 ELSE 1) <= 3
    /\ edits > 2 => \/ Cardinality({e \in Editors : ~AtRest(e)}) <= 1
                    \/ deletedItems \cup revived # {}
    /\ \/ drops + lostReplies = 0
       \/ drops + lostReplies = 1 /\ \E p \in Sales : state[p] = "none"
    /\ Cardinality(requests) + Cardinality(news) <= 3

\* The components are given the same model values, so that one permutation does
\* for all of them.
Symmetry ==
    Permutations(Products) \cup Permutations(Editors) \cup Permutations(Prices)

\* The variables of the components have the values they are meant to have.
ShopTypeOK == TypeOK /\ RevisionsTypeOK /\ DialogTypeOK
=============================================================================
