----------------------------- MODULE AuditTrail ------------------------------
(***************************************************************************)
(* What the audit outbox promises: an operation that committed with audit  *)
(* events owes them to the trail as one group; a group enters the trail    *)
(* whole, once, in the order its events were recorded, after everything    *)
(* the outbox delivered before, and is acknowledged by that same step.     *)
(***************************************************************************)
EXTENDS Sequences, Naturals

CONSTANTS Group,  \* groups of events, one per operation
          Size    \* Size[g]: how many events g has

VARIABLES owed,   \* groups recorded and not yet acknowledged
          acked,  \* groups acknowledged as delivered
          trail   \* the delivered events, in the order audit_logs lists them

Rows(g) == [i \in 1..Size[g] |-> <<g, i>>]

Init == owed = {} /\ acked = {} /\ trail = <<>>

Record(g) ==
  /\ g \notin owed \cup acked
  /\ owed' = owed \cup {g}
  /\ UNCHANGED <<acked, trail>>

Deliver(g) ==
  /\ g \in owed
  /\ owed' = owed \ {g}
  /\ acked' = acked \cup {g}
  /\ trail' = trail \o Rows(g)

Next == \E g \in Group : Record(g) \/ Deliver(g)

Spec == Init /\ [][Next]_<<owed, acked, trail>>
=============================================================================
