------------------------------ MODULE SaleStock ------------------------------
(***************************************************************************)
(* The stock a sale takes, from checkout to settlement.  The sale reserves *)
(* its ingredients and leaves a deduction job; background workers claim    *)
(* jobs in batches and turn reservations into deductions; a void or refund *)
(* releases or reverses; and the stock room writes the same rows with      *)
(* locked-read-then-write transactions of its own.                         *)
(*                                                                         *)
(* Granularity: one action per database transaction, except that the two   *)
(* transactions that read a row under its advisory lock and write it later *)
(* (the worker's and the stock room's) are split there, because checkout's *)
(* conditional UPDATE does not take that lock.  A worker is its own claim  *)
(* token: it stamps one batch at a time, each with a fresh randomUUID().   *)
(***************************************************************************)
EXTENDS Integers, FiniteSetsExt

CONSTANTS Sale,         \* sales that may be rung up
          Row,          \* stock rows: an ingredient at a branch
          Need,         \* the deduction snapshot: what a sale takes from each row
          Opening,      \* on-hand quantity of each row to begin with
          Worker,       \* deduction workers (one per API instance)
          Clerk,        \* stock-room transactions open at the same time
          None,
          MaxAttempts,  \* INVENTORY_DEDUCTION_MAX_ATTEMPTS
          MaxStock,     \* bound: largest quantity a clerk leaves or counts
          MaxDesk,      \* bound: stock-room transactions in a behaviour
          MaxSlips,     \* bound: batches dropped, or claims outliving their lock
          MaxRequeues   \* bound: manual retries of a failed job

ASSUME Quantities ==
  /\ Need \in [Sale -> [Row -> Nat]]
  /\ Opening \in [Row -> Nat]
ASSUME Bounds == MaxAttempts \in Nat \ {0} /\ {MaxStock, MaxDesk, MaxSlips, MaxRequeues} \subseteq Nat
ASSUME NoneIsFresh == None \notin Sale \cup Worker \cup Row

VARIABLES onHand, reserved,      \* inventory_stocks, per row
          saleLedger, deskLedger, \* sums of stock movements: of sales, of the stock room
          sale,                  \* status of the transaction row (undone: voided or refunded)
          badge,                 \* its inventoryDeductionStatus
          job,                   \* its inventory_deduction_jobs row
          worker,                \* what each deduction worker is doing
          clerk,                 \* what each stock-room transaction has read
          used                   \* how much of each bound is spent

stock == <<onHand, reserved>>
ledgers == <<saleLedger, deskLedger>>
vars == <<onHand, reserved, saleLedger, deskLedger, sale, badge, job, worker, clerk, used>>

JobStatuses == {"none", "pending", "processing", "completed", "failed", "cancelled"}

Jobs == [status : JobStatuses, attempts : 0..MaxAttempts, token : Worker \cup {None},
         due : BOOLEAN, stale : BOOLEAN]

Workers == [at : {"free", "applying", "failing"}, batch : SUBSET Sale,
            job : Sale \cup {None}, release : [Row -> Nat]]

Clerks == [op : {"none", "put", "take", "move", "count"}, row : Row \cup {None},
           to : Row \cup {None}, qty : Nat, before : Int]

TypeOK ==
  /\ onHand \in [Row -> Int] /\ reserved \in [Row -> Int]
  /\ saleLedger \in [Row -> Int] /\ deskLedger \in [Row -> Int]
  /\ sale \in [Sale -> {"none", "completed", "undone"}]
  /\ badge \in [Sale -> {"none", "pending", "completed", "failed"}]
  /\ job \in [Sale -> Jobs]
  /\ worker \in [Worker -> Workers]
  /\ clerk \in [Clerk -> Clerks]
  /\ used \in [{"desk", "slips", "requeues"} -> Nat]

NoJob == [status |-> "none", attempts |-> 0, token |-> None, due |-> TRUE, stale |-> FALSE]
Resting == [at |-> "free", batch |-> {}, job |-> None, release |-> [r \in Row |-> 0]]
Away == [op |-> "none", row |-> None, to |-> None, qty |-> 0, before |-> 0]

Init ==
  /\ onHand = Opening /\ reserved = [r \in Row |-> 0]
  /\ saleLedger = [r \in Row |-> 0] /\ deskLedger = [r \in Row |-> 0]
  /\ sale = [s \in Sale |-> "none"] /\ badge = [s \in Sale |-> "none"]
  /\ job = [s \in Sale |-> NoJob]
  /\ worker = [w \in Worker |-> Resting]
  /\ clerk = [c \in Clerk |-> Away]
  /\ used = [b \in {"desk", "slips", "requeues"} |-> 0]

Spend(bound, limit) == used[bound] < limit /\ used' = [used EXCEPT ![bound] = @ + 1]

-----------------------------------------------------------------------------
(* Advisory locks, and the rows a sale touches. *)

RowsOf(s) == {r \in Row : Need[s][r] > 0}

\* Rows whose advisory lock some open transaction holds.
Locked ==
  (UNION {RowsOf(worker[w].job) : w \in {v \in Worker : worker[v].at = "applying"}})
    \cup {r \in Row : \E c \in Clerk : r \in {clerk[c].row, clerk[c].to}}

\* Mutant: the locks are not taken.
AssumedFree(rows) == rows \subseteq Row \cup {None}

Free(rows) == rows \cap Locked = {}

Smaller(m, n) == IF m < n THEN m ELSE n

\* Releases that stop at zero, as GREATEST(reserved - quantity, 0) does.
FlooredAtZero(f, s) ==
  [r \in Row |-> IF f[r] < Need[s][r] THEN 0 ELSE f[r] - Need[s][r]]

-----------------------------------------------------------------------------
(* Checkout. *)

\* reserveStockForSale, inside the sale's transaction: reserve every ingredient
\* if all of them are available, and leave a pending job.
Sell(s) ==
  /\ sale[s] = "none"
  /\ \A r \in RowsOf(s) : onHand[r] - reserved[r] >= Need[s][r]
  /\ reserved' = [r \in Row |-> reserved[r] + Need[s][r]]
  /\ sale' = [sale EXCEPT ![s] = "completed"]
  /\ badge' = [badge EXCEPT ![s] = "pending"]
  /\ job' = [job EXCEPT ![s].status = "pending"]
  /\ UNCHANGED <<onHand, ledgers, worker, clerk, used>>

-----------------------------------------------------------------------------
(* The deduction worker. *)

\* Mutant: claims nobody ever takes over.
ClaimableOnlyPending(s) == job[s].status = "pending" /\ job[s].due

\* The transaction that is applying s holds its job row, so a reclaim waits for it.
BeingApplied(s) == \E w \in Worker : worker[w].at = "applying" /\ worker[w].job = s

\* claimableWhere: due retries, and claims whose lock went stale.
Claimable(s) ==
  \/ job[s].status = "pending" /\ job[s].due
  \/ job[s].status = "processing" /\ job[s].stale /\ ~BeingApplied(s)

\* claimBatch: stamp some claimable jobs with this call's token.
ClaimBatch(w) ==
  /\ worker[w].at = "free" /\ worker[w].batch = {}
  /\ \E batch \in SUBSET {s \in Sale : Claimable(s)} \ {{}} :
       /\ worker' = [worker EXCEPT ![w].batch = batch]
       /\ job' = [s \in Sale |->
            IF s \in batch THEN [job[s] EXCEPT !.status = "processing", !.token = w, !.stale = FALSE]
            ELSE job[s]]
  /\ UNCHANGED <<stock, ledgers, sale, badge, clerk, used>>

\* The guard of applyDeduction and recordFailure: still processing under my token.
HoldsClaim(w, s) == job[s].status = "processing" /\ job[s].token = w

\* A worker leaves a job of its batch behind, or is about to record its failure.
DoneWith(w, s) == [worker EXCEPT ![w] = [Resting EXCEPT !.batch = worker[w].batch \ {s}]]
Failing(w, s) == [worker EXCEPT ![w] = [Resting EXCEPT !.at = "failing", !.job = s, !.batch = worker[w].batch]]

\* The claim was lost to a stale-lock reclaim: applied = false, on to the next row.
Skip(w) ==
  /\ worker[w].at = "free"
  /\ \E s \in worker[w].batch :
       /\ ~HoldsClaim(w, s) /\ ~BeingApplied(s)
       /\ worker' = DoneWith(w, s)
  /\ UNCHANGED <<stock, ledgers, sale, badge, job, clerk, used>>

Covered(s) == \A r \in RowsOf(s) : onHand[r] >= Need[s][r]

\* applyDeduction up to its read: guard passed, advisory locks held, stock read.
\* A shortfall throws; anything else may fail too (FailApply).
BeginApply(w) ==
  /\ worker[w].at = "free"
  /\ \E s \in worker[w].batch :
       /\ HoldsClaim(w, s)
       /\ Free(RowsOf(s))
       /\ worker' =
            IF ~Covered(s) THEN Failing(w, s)
            ELSE [worker EXCEPT ![w].job = s, ![w].at = "applying",
                    ![w].release = [r \in Row |-> Smaller(Need[s][r], reserved[r])]]
  /\ UNCHANGED <<stock, ledgers, sale, badge, job, clerk, used>>

\* The rest of that transaction: deduct, release, write the SALE movements, and
\* complete the job and its badge.  The worker may still see it fail, when the
\* acknowledgement of the commit is lost.
CommitApply(w) ==
  LET s == worker[w].job IN
  /\ worker[w].at = "applying"
  /\ onHand' = [r \in Row |-> onHand[r] - Need[s][r]]
  /\ reserved' = [r \in Row |-> reserved[r] - worker[w].release[r]]
  /\ saleLedger' = [r \in Row |-> saleLedger[r] - Need[s][r]]
  /\ job' = [job EXCEPT ![s].status = "completed", ![s].token = None, ![s].stale = FALSE]
  /\ badge' = [badge EXCEPT ![s] = "completed"]
  /\ \/ worker' = DoneWith(w, s)
     \/ worker' = Failing(w, s)
  /\ UNCHANGED <<deskLedger, sale, clerk, used>>

\* The transaction is rolled back: a database error, a timeout.
FailApply(w) ==
  /\ worker[w].at = "applying"
  /\ worker' = Failing(w, worker[w].job)
  /\ UNCHANGED <<stock, ledgers, sale, badge, job, clerk, used>>

Exhausted(attempts) == attempts >= MaxAttempts

\* recordFailure: back to pending behind a backoff, or failed for good.
RecordFailure(w) ==
  LET s == worker[w].job
      attempts == job[s].attempts + 1
      last == Exhausted(attempts)
  IN
  /\ worker[w].at = "failing"
  /\ IF HoldsClaim(w, s)
     THEN /\ job' = [job EXCEPT ![s] =
               [status |-> IF last THEN "failed" ELSE "pending", attempts |-> attempts,
                token |-> None, due |-> last, stale |-> FALSE]]
          /\ badge' = [badge EXCEPT ![s] = IF last THEN "failed" ELSE @]
     ELSE UNCHANGED <<job, badge>>
  /\ worker' = DoneWith(w, s)
  /\ UNCHANGED <<stock, ledgers, sale, clerk, used>>

\* The process dies, or recordFailure itself throws and ends the cycle: the open
\* transaction is rolled back and the batch's jobs stay as they are.
DropBatch(w) ==
  /\ worker[w].batch # {}
  /\ Spend("slips", MaxSlips)
  /\ worker' = [worker EXCEPT ![w] = Resting]
  /\ UNCHANGED <<stock, ledgers, sale, badge, job, clerk>>

\* INVENTORY_DEDUCTION_STALE_LOCK_MS passes since the claim.  A worker that still
\* has the job in its batch is merely slow, which costs a slip.
LockGoesStale(s) ==
  /\ job[s].status = "processing" /\ ~job[s].stale
  /\ IF \E w \in Worker : s \in worker[w].batch /\ job[s].token = w
     THEN Spend("slips", MaxSlips) ELSE UNCHANGED used
  /\ job' = [job EXCEPT ![s].stale = TRUE]
  /\ UNCHANGED <<stock, ledgers, sale, badge, worker, clerk>>

\* nextAttemptAt passes.
BackoffEnds(s) ==
  /\ job[s].status = "pending" /\ ~job[s].due
  /\ job' = [job EXCEPT ![s].due = TRUE]
  /\ UNCHANGED <<stock, ledgers, sale, badge, worker, clerk, used>>

-----------------------------------------------------------------------------
(* Void, refund, manual retry. *)

\* Mutant: a release that forgets that nothing is left to release for a job
\* being processed.
CancellableEvenProcessing(s) == job[s].status \in {"pending", "failed", "processing"}

Cancellable(s) == job[s].status \in {"pending", "failed"}

\* cancelAndReleaseReservation: nothing was deducted, give the reservation back.
Release(s) ==
  /\ Cancellable(s)
  /\ job' = [job EXCEPT ![s].status = "cancelled", ![s].token = None, ![s].stale = FALSE]
  /\ reserved' = FlooredAtZero(reserved, s)
  /\ UNCHANGED <<onHand, saleLedger>>

\* reverseInventoryForTransaction: the deduction happened, put it back.
Reverse(s) ==
  /\ job[s].status = "completed"
  /\ Free(RowsOf(s))
  /\ onHand' = [r \in Row |-> onHand[r] + Need[s][r]]
  /\ saleLedger' = [r \in Row |-> saleLedger[r] + Need[s][r]]
  /\ UNCHANGED <<reserved, job>>

\* Mutant: a status guard that lets a second void or refund through.
UndoableTwice(s) == sale[s] # "none"

\* The guard of updateMany in voidTransaction and refundTransaction.
Undoable(s) == sale[s] = "completed"

\* voidTransaction, refundTransaction: one transaction flips the sale and settles
\* its stock; while a worker owns the job it is refused.
Undo(s) ==
  /\ Undoable(s)
  /\ Release(s) \/ Reverse(s)
  /\ sale' = [sale EXCEPT ![s] = "undone"]
  /\ UNCHANGED <<deskLedger, badge, worker, clerk, used>>

\* Mutant: a retry that leaves the badge behind.
RequeueKeepingBadge(s) ==
  /\ job[s].status = "failed"
  /\ Spend("requeues", MaxRequeues)
  /\ job' = [job EXCEPT ![s] = [NoJob EXCEPT !.status = "pending"]]
  /\ UNCHANGED <<stock, ledgers, sale, badge, worker, clerk>>

\* retryInventoryDeduction, requeueFailedJob: an administrator retries a failed job.
Requeue(s) ==
  /\ job[s].status = "failed"
  /\ Spend("requeues", MaxRequeues)
  /\ job' = [job EXCEPT ![s] = [NoJob EXCEPT !.status = "pending"]]
  /\ badge' = [badge EXCEPT ![s] = "pending"]
  /\ UNCHANGED <<stock, ledgers, sale, worker, clerk>>

-----------------------------------------------------------------------------
(* The stock room: lockAndGetStock, a check of what was read, and a write. *)

Open(c, op, r, to, q) ==
  /\ clerk[c].op = "none"
  /\ Free({r, to})
  /\ Spend("desk", MaxDesk)
  /\ clerk' = [clerk EXCEPT ![c] =
       [op |-> op, row |-> r, to |-> to, qty |-> q, before |-> onHand[r]]]
  /\ UNCHANGED <<stock, ledgers, sale, badge, job, worker>>

\* applyReceivingInTx, and applyAdjustmentInTx upwards.
OpenPut(c, r, q) == onHand[r] + q <= MaxStock /\ Open(c, "put", r, None, q)

\* applyWasteInTx, and applyAdjustmentInTx downwards.
OpenTake(c, r, q) == onHand[r] - reserved[r] >= q /\ Open(c, "take", r, None, q)

\* transferStock: both rows are locked, the source is checked.
OpenMove(c, r, to, q) ==
  /\ r # to /\ onHand[r] - reserved[r] >= q /\ onHand[to] + q <= MaxStock
  /\ Open(c, "move", r, to, q)

\* applyPhysicalCountLineInTx: the counted quantity replaces what was on hand.
OpenCount(c, r, q) == q >= reserved[r] /\ Open(c, "count", r, None, q)

\* What the transaction adds to a row: increments, but an absolute SET for a count.
Delta(c, r) ==
  CASE r = clerk[c].row /\ clerk[c].op = "put" -> clerk[c].qty
    [] r = clerk[c].row /\ clerk[c].op \in {"take", "move"} -> - clerk[c].qty
    [] r = clerk[c].row /\ clerk[c].op = "count" -> clerk[c].qty - clerk[c].before
    [] r = clerk[c].to -> clerk[c].qty
    [] OTHER -> 0

CommitDesk(c) ==
  /\ clerk[c].op # "none"
  /\ onHand' = [r \in Row |->
       IF r = clerk[c].row /\ clerk[c].op = "count" THEN clerk[c].qty ELSE onHand[r] + Delta(c, r)]
  /\ deskLedger' = [r \in Row |-> deskLedger[r] + Delta(c, r)]
  /\ clerk' = [clerk EXCEPT ![c] = Away]
  /\ UNCHANGED <<reserved, saleLedger, sale, badge, job, worker, used>>

AbortDesk(c) ==
  /\ clerk[c].op # "none"
  /\ clerk' = [clerk EXCEPT ![c] = Away]
  /\ UNCHANGED <<stock, ledgers, sale, badge, job, worker, used>>

-----------------------------------------------------------------------------
Work(w) == ClaimBatch(w) \/ Skip(w) \/ BeginApply(w) \/ CommitApply(w) \/ RecordFailure(w)

Desk(c) ==
  \/ \E r \in Row, q \in 0..MaxStock : OpenCount(c, r, q)
  \/ \E r \in Row, q \in 1..MaxStock :
       \/ OpenPut(c, r, q)
       \/ OpenTake(c, r, q)
       \/ \E to \in Row : OpenMove(c, r, to, q)
  \/ CommitDesk(c)
  \/ AbortDesk(c)

Next ==
  \/ \E s \in Sale : \/ Sell(s)
                     \/ LockGoesStale(s)
                     \/ BackoffEnds(s)
                     \/ Undo(s)
                     \/ Requeue(s)
  \/ \E w \in Worker : Work(w) \/ FailApply(w) \/ DropBatch(w)
  \/ \E c \in Clerk : Desk(c)

Spec == Init /\ [][Next]_vars

\* Every instance polls every two seconds, clocks advance, and transactions end.
Fairness ==
  /\ \A w \in Worker : WF_vars(Work(w))
  /\ \A s \in Sale : WF_vars(LockGoesStale(s)) /\ WF_vars(BackoffEnds(s))
  /\ \A c \in Clerk : WF_vars(CommitDesk(c) \/ AbortDesk(c))

FairSpec == Spec /\ Fairness

-----------------------------------------------------------------------------
(* Properties. *)

OpenJob(s) == job[s].status \in {"pending", "processing", "failed"}

\* A row's reserved quantity is what the sales that are not settled yet need,
\* neither a unit more (stock that can never be sold) nor less (stock promised
\* twice), through retries, reclaims, crashes, voids and manual retries.
ReservedIsOpen ==
  \A r \in Row : reserved[r] = MapThenSumSet(LAMBDA s : Need[s][r], {s \in Sale : OpenJob(s)})

\* The movements written explain the quantity on hand, although counts overwrite
\* it and sales, reversals and the stock room write relative to what they read;
\* and no interleaving drives a quantity below zero.
LedgerExplainsStock ==
  /\ TypeOK
  /\ \A r \in Row : /\ onHand[r] = Opening[r] + saleLedger[r] + deskLedger[r]
                    /\ onHand[r] >= 0 /\ reserved[r] >= 0

\* The page offers a manual retry by the badge: while a sale stands, it says "failed" exactly
\* while the job waits for that retry (retryInventoryDeduction), "pending" exactly while a
\* worker has it or will take it.  A void or refund leaves the badge as it was, also "failed";
\* "completed" still says exactly that stock was deducted, to be put back and not released.
BadgeAgrees ==
  \A s \in Sale :
    /\ sale[s] = "completed" =>
         badge[s] = IF job[s].status = "processing" THEN "pending" ELSE job[s].status
    /\ sale[s] = "undone" => (badge[s] = "completed" <=> job[s].status = "completed")

\* The stock a sale holds is deducted or released once, and reversed at most once,
\* each time as a whole: SaleSettlement.
stage == [s \in Sale |->
  CASE job[s].status = "none" -> "none"
    [] OpenJob(s) -> "held"
    [] job[s].status = "cancelled" -> "released"
    [] job[s].status = "completed" /\ sale[s] = "completed" -> "deducted"
    [] OTHER -> "reversed"]

Promise == INSTANCE SaleSettlement
  WITH held <- reserved, taken <- [r \in Row |-> - saleLedger[r]]

SettlesAsPromised == Promise!Spec

\* A job that is waiting, or claimed by whoever, leaves that condition for good
\* unless someone requeues it: a lost claim is found again.
EveryJobSettles ==
  \A s \in Sale : job[s].status \in {"pending", "processing"}
                    ~> job[s].status \in {"completed", "failed", "cancelled"}
=============================================================================
