------------------------- MODULE MCInventoryApproval -------------------------
(* Two calls, one key and two photos at the desk; three requests, two reviewers. *)
EXTENDS InventoryApproval, TLC

CONSTANT MaxWork  \* bound: calls and new requests of a behaviour

Symmetry == Permutations(Call) \cup Permutations(Reviewer) \cup Permutations(Proof)
              \cup Permutations(Req \ Old)

FewAtWork ==
  Cardinality({c \in Call : call[c] # Unsent}) + Cardinality({r \in Req \ Old : Status(r) # "none"})
    <= MaxWork
=============================================================================
