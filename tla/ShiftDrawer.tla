----------------------------- MODULE ShiftDrawer -----------------------------
(***************************************************************************)
(* The cash drawer of one branch: shifts opened and closed by cash.service *)
(* while sales are rung up, voided and refunded by transactions.service.   *)
(*                                                                         *)
(* A handler reads, decides and writes later.  Only two take the branch's  *)
(* advisory lock, branchShiftLockId, around all of that: the close of a    *)
(* counted drawer and the refund of a cash sale.  The others act on what   *)
(* they read.  Sums of money are the sets of sales they add up; a refund's *)
(* time is the set of shifts that had started by then.                     *)
(***************************************************************************)
EXTENDS BranchShifts

CONSTANT Sale       \* sales that may be rung up

ASSUME NoneIsFresh == None \notin Shift \cup Sale \cup Handler

VARIABLES shift,  \* the shifts rows
          sale,   \* the transactions rows
          task,   \* what each request in flight has read and means to write
          lock,   \* the request that holds branchShiftLockId
          raced   \* ghost: sales with a request in flight while a drawer was counted

vars == <<shift, sale, task, lock, raced>>

Shifts == [status : {"none", "active", "flagged", "closed"},
           counted : BOOLEAN,        \* closing_cash_amount is set
           sold : SUBSET Sale,       \* cash_sales_total
           plus : SUBSET Sale, minus : SUBSET Sale,  \* expected_closing_cash, less the opening
           approved : {"unknown", "yes", "no"}]

Sales == [status : {"none", "completed", "voided", "refunded"}, shift : Shift \cup {None},
          cash : BOOLEAN,
          since : SUBSET Shift,      \* refunded_at: the shifts started by then
          drawer : Shift \cup {None}]  \* ghost: the shift whose drawer paid the refund

Tasks == [op : {"none", "sell", "close", "autoClose", "voidShift", "approve", "void", "refund"},
          shift : Shift \cup {None}, sale : Sale \cup {None}, plus : SUBSET Sale, minus : SUBSET Sale]

Active == {s \in Shift : shift[s].status = "active"}
Started == {s \in Shift : shift[s].status # "none"}

\* Requests that work inside the locked drawer: a count, a cash refund.
InDrawer(h) == task[h].op = "close" \/ (task[h].op = "refund" /\ task[h].shift # None)

\* Types, and branchShiftLockId at work: the request that counts a drawer or pays
\* from one holds the lock until it ends (cash.service.ts closeShift,
\* transactions.service.ts refundTransaction).
TypeOK ==
  /\ shift \in [Shift -> Shifts]
  /\ sale \in [Sale -> Sales]
  /\ task \in [Handler -> Tasks]
  /\ lock \in Handler \cup {None}
  /\ raced \subseteq Sale
  /\ \A h \in Handler : InDrawer(h) <=> lock = h

Idle == [op |-> "none", shift |-> None, sale |-> None, plus |-> {}, minus |-> {}]

Init ==
  /\ shift = [s \in Shift |-> [status |-> "none", counted |-> FALSE, sold |-> {},
                               plus |-> {}, minus |-> {}, approved |-> "unknown"]]
  /\ sale = [x \in Sale |-> [status |-> "none", shift |-> None, cash |-> FALSE,
                             since |-> {}, drawer |-> None]]
  /\ task = [h \in Handler |-> Idle]
  /\ lock = None
  /\ raced = {}

Begin(h, work) == task[h] = Idle /\ task' = [task EXCEPT ![h] = work]
End(h) == task' = [task EXCEPT ![h] = Idle]

Unlock(h) == lock' = IF lock = h THEN None ELSE lock

\* sumTransactionsForShift, cash: completed sales of the shift.
CashSalesOf(s) == {x \in Sale : sale[x].shift = s /\ sale[x].cash /\ sale[x].status = "completed"}

\* sumCashRefundsProcessedDuringShift: cash refunded since the shift started, of
\* sales that belong to other shifts.
CashRefundsDuring(s) ==
  {x \in Sale : /\ sale[x].status = "refunded" /\ sale[x].cash
                /\ s \in sale[x].since /\ sale[x].shift # s}

-----------------------------------------------------------------------------
(* Shifts. *)

\* openShift, autoOpenShift: the unique index on active shifts decides.
OpenShift(s) ==
  /\ Active = {} /\ shift[s].status = "none"
  /\ shift' = [shift EXCEPT ![s].status = "active"]
  /\ UNCHANGED <<sale, task, lock, raced>>

\* Mutant: the re-check after the lock is missing.
ClosableUnchecked(s) == shift[s].status # "none"

Closable(s) == shift[s].status = "active"

\* The sales some request is about to ring up or void.
InFlight == {task[g].sale : g \in {f \in Handler : task[f].op \in {"sell", "void"}}}

\* closeShift, locked: re-check, sum.  Sales and voids in flight may still land.
BeginClose(h, s) ==
  /\ lock = None /\ Closable(s)
  /\ Begin(h, [Idle EXCEPT !.op = "close", !.shift = s,
                           !.plus = CashSalesOf(s), !.minus = CashRefundsDuring(s)])
  /\ lock' = h
  /\ raced' = raced \cup InFlight
  /\ UNCHANGED <<shift, sale>>

\* ... and write: closed when the counted cash is within tolerance, else flagged.
FinishClose(h) ==
  LET s == task[h].shift IN
  /\ task[h].op = "close"
  /\ \E status \in {"closed", "flagged"} :
       shift' = [shift EXCEPT ![s] = [@ EXCEPT !.status = status, !.counted = TRUE,
                   !.sold = task[h].plus, !.plus = task[h].plus, !.minus = task[h].minus,
                   !.approved = IF status = "closed" THEN "yes" ELSE "unknown"]]
  /\ Unlock(h)
  /\ End(h)
  /\ UNCHANGED <<sale, raced>>

\* autoCloseShift, at clock-out: no lock, no drawer count.
BeginAutoClose(h, s) ==
  /\ shift[s].status = "active"
  /\ Begin(h, [Idle EXCEPT !.op = "autoClose", !.shift = s, !.plus = CashSalesOf(s)])
  /\ UNCHANGED <<shift, sale, lock, raced>>

FinishAutoClose(h) ==
  /\ task[h].op = "autoClose"
  /\ shift' = [shift EXCEPT ![task[h].shift].status = "closed", ![task[h].shift].sold = task[h].plus]
  /\ End(h)
  /\ UNCHANGED <<sale, lock, raced>>

\* voidShift: of a shift nothing was rung up in.
BeginVoidShift(h, s) ==
  /\ shift[s].status = "active"
  /\ \A x \in Sale : sale[x].shift # s
  /\ Begin(h, [Idle EXCEPT !.op = "voidShift", !.shift = s])
  /\ UNCHANGED <<shift, sale, lock, raced>>

FinishVoidShift(h) ==
  /\ task[h].op = "voidShift"
  /\ shift' = [shift EXCEPT ![task[h].shift].status = "closed"]
  /\ End(h)
  /\ UNCHANGED <<sale, lock, raced>>

\* approveVariance: a supervisor's verdict on a flagged drawer.
BeginApprove(h, s) ==
  /\ shift[s].status = "flagged"
  /\ Begin(h, [Idle EXCEPT !.op = "approve", !.shift = s])
  /\ UNCHANGED <<shift, sale, lock, raced>>

FinishApprove(h) ==
  /\ task[h].op = "approve"
  /\ \E verdict \in {"yes", "no"} :
       shift' = [shift EXCEPT ![task[h].shift].status = "closed", ![task[h].shift].approved = verdict]
  /\ End(h)
  /\ UNCHANGED <<sale, lock, raced>>

-----------------------------------------------------------------------------
(* Sales. *)

\* A request that starts while the shift is counted races with the count.
Racing(s, x) == raced' = IF \E g \in Handler : task[g].op = "close" /\ task[g].shift = s
                         THEN raced \cup {x} ELSE raced

\* Mutant: a sale that does not look at the shift's status.
RingableEver(s) == shift[s].status # "none"

Ringable(s) == shift[s].status = "active"

\* createTransaction looks the shift up before its transaction opens ...
BeginSell(h, x, s) ==
  /\ sale[x].status = "none" /\ \A g \in Handler : task[g].sale # x
  /\ Ringable(s)
  /\ Begin(h, [Idle EXCEPT !.op = "sell", !.shift = s, !.sale = x])
  /\ Racing(s, x)
  /\ UNCHANGED <<shift, sale, lock>>

\* ... and commits the sale whatever became of the shift.
FinishSell(h) ==
  /\ task[h].op = "sell"
  /\ \E cash \in BOOLEAN :
       sale' = [sale EXCEPT ![task[h].sale].status = "completed",
                            ![task[h].sale].shift = task[h].shift, ![task[h].sale].cash = cash]
  /\ End(h)
  /\ UNCHANGED <<shift, lock, raced>>

\* voidTransaction: only while the sale's shift is open, as read beforehand.
BeginVoid(h, x) ==
  /\ sale[x].status = "completed" /\ sale[x].shift \in Active
  /\ Begin(h, [Idle EXCEPT !.op = "void", !.sale = x])
  /\ Racing(sale[x].shift, x)
  /\ UNCHANGED <<shift, sale, lock>>

FinishVoid(h) ==
  LET x == task[h].sale IN
  /\ task[h].op = "void" /\ sale[x].status = "completed"
  /\ sale' = [sale EXCEPT ![x].status = "voided"]
  /\ End(h)
  /\ UNCHANGED <<shift, lock, raced>>

\* Mutant: a cash refund that does not take the lock.
UnlockedDrawer == Active

\* The drawers a cash refund can be paid from, once the lock is held.
OpenDrawer == IF lock = None THEN Active ELSE {}

\* refundTransaction: cash is paid, under the lock, from whatever drawer is open;
\* anything else is refunded with no shift at all.
BeginRefund(h, x) ==
  /\ sale[x].status = "completed"
  /\ IF sale[x].cash
     THEN /\ \E s \in OpenDrawer : Begin(h, [Idle EXCEPT !.op = "refund", !.sale = x, !.shift = s])
          /\ lock' = h
     ELSE Begin(h, [Idle EXCEPT !.op = "refund", !.sale = x]) /\ UNCHANGED lock
  /\ UNCHANGED <<shift, sale, raced>>

FinishRefund(h) ==
  LET x == task[h].sale IN
  /\ task[h].op = "refund" /\ sale[x].status = "completed"
  /\ sale' = [sale EXCEPT ![x].status = "refunded", ![x].since = Started, ![x].drawer = task[h].shift]
  /\ Unlock(h)
  /\ End(h)
  /\ UNCHANGED <<shift, raced>>

\* Any request may be refused or fail before its write: a lost race for the
\* sale's status, an unexplained variance, a timeout, a crash.
Abort(h) ==
  /\ task[h] # Idle
  /\ Unlock(h)
  /\ End(h)
  /\ UNCHANGED <<shift, sale, raced>>

-----------------------------------------------------------------------------
Next ==
  \/ \E s \in Shift : OpenShift(s)
  \/ \E h \in Handler, s \in Shift :
       BeginClose(h, s) \/ BeginAutoClose(h, s) \/ BeginVoidShift(h, s) \/ BeginApprove(h, s)
  \/ \E h \in Handler, x \in Sale :
       (\E s \in Shift : BeginSell(h, x, s)) \/ BeginVoid(h, x) \/ BeginRefund(h, x)
  \/ \E h \in Handler :
       \/ FinishClose(h) \/ FinishAutoClose(h) \/ FinishVoidShift(h) \/ FinishApprove(h)
       \/ FinishSell(h) \/ FinishVoid(h) \/ FinishRefund(h) \/ Abort(h)

Spec == Init /\ [][Next]_vars

-----------------------------------------------------------------------------
(* Properties. *)

\* A cash refund reduces the expected cash of at most one counted drawer, never
\* of the shift that drops the sale from its own total, and of the drawer that
\* paid it if that drawer is ever counted: the time window of
\* sumCashRefundsProcessedDuringShift and the active-shift lookup of
\* refundTransaction agree because both run under branchShiftLockId.
RefundsCountedOnce ==
  /\ \A s, z \in Shift : s # z => shift[s].minus \cap shift[z].minus = {}
  /\ \A s \in Shift : shift[s].minus \cap shift[s].plus = {}
  /\ \A x \in Sale, s \in Shift : sale[x].drawer = s /\ shift[s].counted =>
       IF sale[x].shift = s THEN x \notin shift[s].plus \cup shift[s].minus
                            ELSE x \in shift[s].minus

\* A drawer is counted once: what its cashier was held to account for is never
\* computed again, by a second close, a clock-out, a void or an approval.
CountIsFinal ==
  [][\A s \in Shift : shift[s].counted =>
       /\ shift'[s].counted
       /\ shift'[s].plus = shift[s].plus /\ shift'[s].minus = shift[s].minus]_vars

\* The cash a counted drawer should hold accounts for every cash sale of its
\* shift and for no voided one, save those whose request was in flight when the
\* totals were taken.
SalesAreCounted ==
  \A s \in Shift : shift[s].counted =>
    /\ CashSalesOf(s) \subseteq shift[s].plus \cup raced
    /\ \A x \in shift[s].plus : sale[x].status = "voided" => x \in raced

\* cash.repository.ts countUnresolvedVariancesInWindow: a drawer whose variance
\* still awaits its verdict is a flagged shift.
UndecidedIsFlagged ==
  \A s \in Shift : shift[s].counted /\ shift[s].approved = "unknown" => shift[s].status = "flagged"
=============================================================================
