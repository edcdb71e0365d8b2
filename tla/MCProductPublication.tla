--------------------------- MODULE MCProductPublication ---------------------------
(* Two branches and two transactions at a time over the product and its copy. *)
EXTENDS ProductPublication, TLC

Symmetry == Permutations(Handler)
===================================================================================
