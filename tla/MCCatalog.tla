------------------------------ MODULE MCCatalog ------------------------------
(***************************************************************************)
(* Instances of Catalog: two categories, so that a change can move a       *)
(* product out of the list it was on, and an owner besides the shop's.     *)
(***************************************************************************)
EXTENDS Catalog, TLC

Symmetry == Permutations(Workers)
=============================================================================
