------------------------- MODULE MCCheckoutTerminal -------------------------
(* One terminal, two customers in turn, two requests with any delay. *)
EXTENDS CheckoutTerminal, TLC

Symmetry == Permutations(Request) \cup Permutations(Key) \cup Permutations(Cart)
=============================================================================
