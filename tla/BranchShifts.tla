---------------------------- MODULE BranchShifts -----------------------------
(***************************************************************************)
(* What the cash drawer (ShiftDrawer) and the held carts (HoldOrders) of a *)
(* branch have in common.                                                  *)
(***************************************************************************)
EXTENDS FiniteSets

CONSTANTS Shift,    \* shift rows the branch may open
          Handler,  \* requests being handled at the same time
          None
=============================================================================
