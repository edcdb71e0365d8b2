---------------------------- MODULE MCShiftDrawer ----------------------------
(* Successive shifts of one branch, and one sale's whole life across them. *)
EXTENDS ShiftDrawer, TLC

Symmetry == Permutations(Shift) \cup Permutations(Sale) \cup Permutations(Handler)
=============================================================================
