------------------------- MODULE MCStripeSettlement -------------------------
(* StripeSettlement for TLC: the instances of the .cfg files and symmetry.  *)
EXTENDS StripeSettlement, TLC

Symmetry == Permutations(Intents) \cup Permutations(Hooks) \cup Permutations(Admins)
=============================================================================
