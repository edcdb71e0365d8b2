---------------------------- MODULE MCOfflineSync ----------------------------
(* Two tabs of one device, two carts, two cashiers and two calls in flight. *)
EXTENDS OfflineSync, TLC

Symmetry == Permutations(Cart) \cup Permutations(Tab) \cup Permutations(Cashier) \cup Permutations(Request)
==============================================================================
