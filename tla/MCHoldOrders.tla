----------------------------- MODULE MCHoldOrders ----------------------------
(* One shift with a limit of one, three orders and two requests at a time. *)
EXTENDS HoldOrders
=============================================================================
