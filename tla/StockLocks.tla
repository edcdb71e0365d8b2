----------------------------- MODULE StockLocks ------------------------------
(***************************************************************************)
(* The locks of the transactions that move stock, and their order.  Sales, *)
(* settlements, retries, voids, refunds, the stock room's writes and shift *)
(* closes take row locks and advisory locks one by one, keep them to the   *)
(* end, and wait for whoever has one.  SaleStock takes the quantities; here *)
(* only who waits for whom matters.                                        *)
(*                                                                         *)
(* Ids are numbers, in the order the code sorts them in.  A claim and the  *)
(* reads between two locks are one statement each.                         *)
(***************************************************************************)
EXTENDS Naturals, Sequences

CONSTANTS Actor,       \* transactions open at the same time, and the workers'
          Sale, Branch, Item,
          MaxId,       \* no id is larger
          Ingredient,  \* what sales from before the universal inventory took
          At,          \* the branch of a sale
          Takes,       \* the items its snapshot takes
          Snapshot,    \* the ingredients of an old sale, in the order of its lines
          None

ASSUME IdsAreOrdered == MaxId \in Nat /\ Branch \cup Item \subseteq 0..MaxId
ASSUME SalesAreKnown ==
  /\ At \in [Sale -> Branch] /\ Takes \in [Sale -> SUBSET Item]
  /\ Snapshot \in [Sale -> Seq(Ingredient)]
ASSUME NoneIsFresh == None \notin Actor \cup Sale \cup Branch

VARIABLES sale,  \* status of the transaction row (undone: voided or refunded), committed
          job,   \* its deduction job, committed
          tx     \* per actor: the transaction it runs, the locks it has and has yet to take

vars == <<sale, job, tx>>

Old(s) == Snapshot[s] # <<>>

-----------------------------------------------------------------------------
(* Locks. *)

Shift(b) == [kind |-> "shift", of |-> b, item |-> None]      \* branchShiftLockId
Txn(s)   == [kind |-> "txn", of |-> s, item |-> None]        \* the row in transactions
Job(s)   == [kind |-> "job", of |-> s, item |-> None]        \* the row in inventory_deduction_jobs
Ingr(g)  == [kind |-> "ingredient", of |-> None, item |-> g] \* hashToLockId of an ingredient
Key(b, i) == [kind |-> "key", of |-> b, item |-> i]          \* inventoryStockLockId
Row(b, i) == [kind |-> "row", of |-> b, item |-> i]          \* the row in inventory_stocks

Keys(s) == {Key(At[s], i) : i \in Takes[s]}
Rows(s) == {Row(At[s], i) : i \in Takes[s]}
Ingredients(s) == {Ingr(Snapshot[s][n]) : n \in DOMAIN Snapshot[s]}

Lock ==
  {Shift(b) : b \in Branch} \cup {Txn(s) : s \in Sale} \cup {Job(s) : s \in Sale}
    \cup {Ingr(g) : g \in Ingredient}
    \cup {Key(b, i) : b \in Branch, i \in Item} \cup {Row(b, i) : b \in Branch, i \in Item}

Ops == {"none", "sell", "apply", "fail", "requeue", "undo", "cancel", "reverse", "desk", "move", "close"}

\* Those that write the transaction's badge after everything else.
Settling == {"apply", "fail", "requeue"}

Tx == [op : Ops, sale : Sale \cup {None}, from : Branch \cup {None},
       held : SUBSET Lock, want : SUBSET Lock]
NoTx == [op |-> "none", sale |-> None, from |-> None, held |-> {}, want |-> {}]

TypeOK ==
  /\ sale \in [Sale -> {"none", "completed", "undone"}]
  /\ job \in [Sale -> [status : {"none", "pending", "processing", "completed", "failed", "cancelled"},
                       owner : Actor \cup {None}]]
  /\ tx \in [Actor -> Tx]

Init ==
  /\ sale = [s \in Sale |-> IF Old(s) THEN "completed" ELSE "none"]
  /\ job = [s \in Sale |-> [status |-> "none", owner |-> None]]
  /\ tx = [a \in Actor |-> NoTx]

-----------------------------------------------------------------------------
(* The order. *)

\* Kinds of locks in the order a transaction comes to them.
Stage(op, l) ==
  CASE l.kind = "shift" -> 0
    [] l.kind = "txn" -> IF op \in Settling THEN 6 ELSE 1
    [] l.kind = "job" -> 2
    [] l.kind = "ingredient" -> 3
    [] l.kind = "key" -> 4
    [] l.kind = "row" -> 5

Line(s, l) == CHOOSE n \in DOMAIN Snapshot[s] : Ingr(Snapshot[s][n]) = l

\* Mutant: a transfer locks its source first, whichever id is smaller.
SourceFirst(t, l, m) ==
  CASE l.kind = "ingredient" -> Line(t.sale, l) < Line(t.sale, m)
    [] l.kind \in {"key", "row"} -> l.item < m.item \/ (l.item = m.item /\ l.of = t.from)
    [] OTHER -> FALSE

\* Within a kind: an old snapshot's in the order of its lines; items sorted; of a
\* transfer the keys sorted by branch, the rows source first.
Sorted(t, l, m) ==
  CASE l.kind = "ingredient" -> Line(t.sale, l) < Line(t.sale, m)
    [] l.kind = "key" -> l.item < m.item \/ (l.item = m.item /\ l.of < m.of)
    [] l.kind = "row" -> l.item < m.item \/ (l.item = m.item /\ l.of = t.from)
    [] OTHER -> FALSE

Before(t, l, m) ==
  \/ Stage(t.op, l) < Stage(t.op, m)
  \/ l.kind = m.kind /\ Sorted(t, l, m)

\* The lock a asks for now.
Awaits(a, l) ==
  /\ l \in tx[a].want
  /\ \A m \in tx[a].want \ {l} : Before(tx[a], l, m)

Blocks(b, a) == b # a /\ \E l \in tx[b].held : Awaits(a, l)

\* Circles of waiting: each waits for another of them, and no part is one already.
Stuck(D) == D # {} /\ \A a \in D : \E b \in D : Blocks(b, a)
Circles == {D \in SUBSET Actor : Stuck(D) /\ \A E \in SUBSET D : Stuck(E) => E = D}

-----------------------------------------------------------------------------
(* Transactions begin. *)

Begin(a, t) ==
  /\ tx[a].op = "none"
  /\ tx' = [tx EXCEPT ![a] = t]

Start(op, s, locks) == [NoTx EXCEPT !.op = op, !.sale = s, !.want = locks]

\* reserveStockForSale
Sell(a, s) ==
  /\ sale[s] = "none"
  /\ \A b \in Actor : ~(tx[b].op = "sell" /\ tx[b].sale = s)
  /\ Begin(a, Start("sell", s, Rows(s)))
  /\ UNCHANGED <<sale, job>>

Claimable(s) == job[s].status \in {"pending", "processing"}

\* claimBatch, then applyDeduction: a job that is due, or whose claim went stale.
Claim(a, s) ==
  /\ Claimable(s)
  /\ \A b \in Actor : Job(s) \notin tx[b].held
  /\ job' = [job EXCEPT ![s] = [status |-> "processing", owner |-> a]]
  /\ Begin(a, Start("apply", s, {Job(s), Txn(s)} \cup Keys(s) \cup Rows(s)))
  /\ UNCHANGED sale

\* requeueFailedJob
Requeue(a, s) ==
  /\ job[s].status = "failed"
  /\ Begin(a, Start("requeue", s, {Job(s), Txn(s)}))
  /\ UNCHANGED <<sale, job>>

\* voidTransaction and refundTransaction, the latter under the drawer's lock if cash.
Undo(a, s, cash) ==
  /\ sale[s] = "completed"
  /\ Begin(a, Start("undo", s, {Txn(s)} \cup (IF cash THEN {Shift(At[s])} ELSE {})))
  /\ UNCHANGED <<sale, job>>

\* Receiving, adjusting, wasting, counting, correcting a cost: lockAndGetStock, a write.
Desk(a, b, i) ==
  /\ Begin(a, Start("desk", None, {Key(b, i), Row(b, i)}))
  /\ UNCHANGED <<sale, job>>

\* transferStock
Move(a, from, to, i) ==
  /\ from # to
  /\ Begin(a, [Start("move", None, {Key(from, i), Key(to, i), Row(from, i), Row(to, i)})
                 EXCEPT !.from = from])
  /\ UNCHANGED <<sale, job>>

\* closeShift
Close(a, b) ==
  /\ Begin(a, Start("close", None, {Shift(b)}))
  /\ UNCHANGED <<sale, job>>

-----------------------------------------------------------------------------
(* Transactions go on. *)

\* The conditions of the updates, evaluated once the row is locked.
Passes(a, l) ==
  LET s == tx[a].sale IN
  /\ l.kind = "txn" /\ tx[a].op = "undo" => sale[s] = "completed"
  /\ l.kind = "job" /\ tx[a].op \in {"apply", "fail"} => job[s] = [status |-> "processing", owner |-> a]
  /\ l.kind = "job" /\ tx[a].op = "requeue" => job[s].status = "failed"
  /\ l.kind = "job" /\ tx[a].op = "cancel" => job[s].status \in {"pending", "failed"}

\* Mutant: advisory locks of the session, not of the transaction.
EndedInSession(t) ==
  [t EXCEPT !.op = "none", !.sale = None, !.from = None, !.want = {},
            !.held = {l \in t.held : l.kind = "key"}]

\* A transaction ends and its locks with it.
Ended(t) == [t EXCEPT !.op = "none", !.sale = None, !.from = None, !.held = {}, !.want = {}]

\* A lock is granted, and the update it is for still applies, or the caller gives up.
Take(a, l) ==
  /\ Awaits(a, l)
  /\ \A b \in Actor : l \notin tx[b].held
  /\ tx' = [tx EXCEPT ![a] =
       IF Passes(a, l) THEN [tx[a] EXCEPT !.held = @ \cup {l}, !.want = @ \ {l}] ELSE Ended(tx[a])]
  /\ UNCHANGED <<sale, job>>

\* reverseOrCancelInventoryForTransaction reads the job and takes its way.
ReadsJob(a) ==
  LET s == tx[a].sale IN
  /\ tx[a].op = "undo" /\ tx[a].want = {}
  /\ tx' = [tx EXCEPT ![a] =
       CASE job[s].status \in {"pending", "failed"} ->
              [tx[a] EXCEPT !.op = "cancel", !.want = {Job(s)} \cup Rows(s)]
         [] job[s].status \in {"none", "completed"} ->
              [tx[a] EXCEPT !.op = "reverse", !.want = Ingredients(s) \cup Keys(s) \cup Rows(s)]
         [] job[s].status = "cancelled" -> [tx[a] EXCEPT !.op = "reverse"]
         [] job[s].status = "processing" -> Ended(tx[a])]
  /\ UNCHANGED <<sale, job>>

JobAfter(a) ==
  LET s == tx[a].sale
      Set(status) == [job EXCEPT ![s] = [status |-> status, owner |-> None]] IN
  CASE tx[a].op \in {"sell", "requeue"} -> Set("pending")
    [] tx[a].op = "apply" -> Set("completed")
    [] tx[a].op = "cancel" -> Set("cancelled")
    [] tx[a].op = "fail" -> IF Txn(s) \in tx[a].held THEN Set("failed") ELSE Set("pending")
    [] OTHER -> job

SaleAfter(a) ==
  CASE tx[a].op = "sell" -> [sale EXCEPT ![tx[a].sale] = "completed"]
    [] tx[a].op \in {"cancel", "reverse"} -> [sale EXCEPT ![tx[a].sale] = "undone"]
    [] OTHER -> sale

\* Everything is locked and written.
Commit(a) ==
  /\ tx[a].op \notin {"none", "undo"} /\ tx[a].want = {}
  /\ job' = JobAfter(a)
  /\ sale' = SaleAfter(a)
  /\ tx' = [tx EXCEPT ![a] = Ended(tx[a])]

\* recordFailure: back to pending, or after the last attempt failed, which writes the badge.
Recording(s, last) == Start("fail", s, {Job(s)} \cup (IF last THEN {Txn(s)} ELSE {}))

\* Rolled back: stock is short, a timeout, a lost connection.
Fails(a) ==
  /\ tx[a].op # "none"
  /\ \/ tx[a].op = "apply" /\ \E last \in BOOLEAN : tx' = [tx EXCEPT ![a] = Recording(tx[a].sale, last)]
     \/ tx[a].op # "apply" /\ tx' = [tx EXCEPT ![a] = Ended(tx[a])]
  /\ UNCHANGED <<sale, job>>

\* PostgreSQL finds a circle and rolls back one in it.
Victim == \E D \in Circles : \E a \in D : Fails(a)

-----------------------------------------------------------------------------
Goes(a) == ReadsJob(a) \/ Commit(a) \/ \E l \in tx[a].want : Take(a, l)

Next ==
  \/ \E a \in Actor, s \in Sale :
       Sell(a, s) \/ Claim(a, s) \/ Requeue(a, s) \/ \E cash \in BOOLEAN : Undo(a, s, cash)
  \/ \E a \in Actor, b \in Branch :
       Close(a, b) \/ \E i \in Item : Desk(a, b, i) \/ \E to \in Branch : Move(a, b, to, i)
  \/ \E a \in Actor : Goes(a) \/ Fails(a)
  \/ Victim

\* Statements return, lock queues are first come first served, and circles are found.
Fairness == (\A a \in Actor : SF_vars(Goes(a))) /\ WF_vars(Victim)

Spec == Init /\ [][Next]_vars /\ Fairness

-----------------------------------------------------------------------------
\* A void or refund of a sale, at its job, and the one who settles that job, at its badge.
Rivals(a, b) ==
  /\ tx[a].op = "cancel" /\ Awaits(a, Job(tx[a].sale))
  /\ tx[b].op \in Settling /\ Awaits(b, Txn(tx[b].sale))
  /\ tx[a].sale = tx[b].sale

OverIngredients(a) == \E l \in tx[a].want : l.kind = "ingredient" /\ Awaits(a, l)

\* Stock never deadlocks: whatever sells, settles, reverses, moves, counts or closes,
\* transactions wait in a circle only when one sale is being undone and settled at the
\* same time, or when sales from before the universal inventory are being reversed.
\* (sortedDeductionTotalEntries, transferStock's order, keys before rows.)
OnlyRivalsDeadlock ==
  /\ TypeOK
  /\ \A D \in Circles : \/ \E a, b \in D : D = {a, b} /\ Rivals(a, b)
                        \/ \A a \in D : OverIngredients(a)

\* Every transaction ends, whoever it waits for and whatever circle it falls into.
TransactionsEnd == \A a \in Actor : tx[a].op # "none" ~> tx[a].op = "none"

=============================================================================
