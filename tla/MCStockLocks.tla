---------------------------- MODULE MCStockLocks -----------------------------
(***************************************************************************)
(* Two branches and two items; a sale that takes both at the first branch, *)
(* and two older than the universal inventory, of opposite lines.          *)
(***************************************************************************)
EXTENDS StockLocks

CONSTANTS a1, a2, new, old, older, flour, oil

MCSnapshot == [s \in Sale |-> CASE s = new -> <<>> [] s = old -> <<flour, oil>> [] s = older -> <<oil, flour>>]
MCTakes == [s \in Sale |-> IF s = new THEN {1, 2} ELSE {}]
MCAt == [s \in Sale |-> 1]
=============================================================================
