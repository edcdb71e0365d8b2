-------------------------- MODULE MCCheckoutAttempt --------------------------
(***************************************************************************)
(* CheckoutAttempt on a small instance: a retry, a delayed duplicate and a *)
(* request for another cart racing for the same keys.                      *)
(***************************************************************************)
EXTENDS CheckoutAttempt, TLC

\* Requests, keys and carts are interchangeable.
Symmetry == Permutations(Request) \cup Permutations(Key) \cup Permutations(Cart)
=============================================================================
