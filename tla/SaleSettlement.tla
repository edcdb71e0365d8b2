--------------------------- MODULE SaleSettlement ---------------------------
(***************************************************************************)
(* What the stock side of a sale promises, whatever the workers, retries,  *)
(* voids and stock-room writes in between: a committed sale holds its      *)
(* ingredients; the hold is either turned into a deduction or given back,  *)
(* once; a deduction is reversed at most once; and each of these moves the *)
(* whole bill of materials in one step.                                    *)
(***************************************************************************)
EXTENDS Integers

CONSTANTS Sale,  \* committed sales
          Row,   \* stock rows: an ingredient at a branch
          Need   \* what a sale takes from each row

VARIABLES stage,  \* where the settlement of each sale is
          held,   \* reserved in each row
          taken   \* gone from each row for sales, net of reversals

Stages == {"none", "held", "deducted", "released", "reversed"}

Init ==
  /\ stage = [s \in Sale |-> "none"]
  /\ held = [r \in Row |-> 0]
  /\ taken = [r \in Row |-> 0]

Advance(s, from, to) ==
  /\ stage[s] = from
  /\ stage' = [stage EXCEPT ![s] = to]

Plus(s, f) == [r \in Row |-> f[r] + Need[s][r]]
Minus(s, f) == [r \in Row |-> f[r] - Need[s][r]]

Hold(s) == Advance(s, "none", "held") /\ held' = Plus(s, held) /\ UNCHANGED taken

Deduct(s) ==
  /\ Advance(s, "held", "deducted")
  /\ held' = Minus(s, held)
  /\ taken' = Plus(s, taken)

Release(s) == Advance(s, "held", "released") /\ held' = Minus(s, held) /\ UNCHANGED taken

Reverse(s) == Advance(s, "deducted", "reversed") /\ taken' = Minus(s, taken) /\ UNCHANGED held

Next == \E s \in Sale : Hold(s) \/ Deduct(s) \/ Release(s) \/ Reverse(s)

Spec == Init /\ [][Next]_<<stage, held, taken>>
=============================================================================
