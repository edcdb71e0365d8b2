----------------------------- MODULE MCSaleStock -----------------------------
(* Two sales that share an ingredient, two workers, one stock-room clerk. *)
EXTENDS SaleStock, TLC

CONSTANTS s1, s2, r1, r2

MCNeed == (s1 :> (r1 :> 1 @@ r2 :> 1)) @@ (s2 :> (r1 :> 1 @@ r2 :> 0))
MCOpening == r1 :> 2 @@ r2 :> 1
=============================================================================
