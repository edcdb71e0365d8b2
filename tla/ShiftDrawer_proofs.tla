------------------------- MODULE ShiftDrawer_proofs -------------------------
(***************************************************************************)
(* For every number of shifts, sales and requests: a cash refund reduces   *)
(* one counted drawer, the one that paid it, and a count is final.         *)
(***************************************************************************)
EXTENDS ShiftDrawer, HoldOrders, FiniteSetTheorems, TLAPS

\* What a request in flight is about, and what cannot have changed since it read.
InOrder(h) ==
  /\ task[h].op \in {"sell", "void", "refund"} => task[h].sale \in Sale
  /\ task[h].op = "close" => task[h].shift \in Shift /\ ~shift[task[h].shift].counted
  /\ task[h].op = "sell" =>
       /\ sale[task[h].sale].status = "none"
       /\ \A g \in Handler : task[g].op = "sell" /\ task[g].sale = task[h].sale => g = h
  /\ task[h].op = "refund" /\ task[h].shift # None =>
       /\ sale[task[h].sale].status # "none" /\ sale[task[h].sale].cash
       /\ ~shift[task[h].shift].counted /\ task[h].shift \in Started

\* Only a drawer that is no longer open was counted, and its totals are empty before.
Uncounted(s) ==
  /\ shift[s].counted => shift[s].status \in {"flagged", "closed"}
  /\ ~shift[s].counted => shift[s].plus = {} /\ shift[s].minus = {}

\* A refund happened while its drawer's shift had started.
Dated(x) ==
  /\ sale[x].since \subseteq Started
  /\ sale[x].drawer # None =>
       sale[x].status = "refunded" /\ sale[x].cash /\ sale[x].drawer \in sale[x].since

\* plus and minus are right totals for the drawer of s, and nothing that happens
\* from now on makes them wrong.
Settled(s, plus, minus) ==
  /\ \A x \in plus : sale[x].shift = s /\ sale[x].status # "none"
  /\ \A x \in minus :
       /\ sale[x].status = "refunded" /\ sale[x].cash
       /\ s \in sale[x].since /\ sale[x].shift # s
       /\ \A z \in sale[x].since : z # s => shift[z].status # "active"
  /\ \A x \in Sale : sale[x].drawer = s =>
       IF sale[x].shift = s THEN x \notin plus \cup minus ELSE x \in minus

\* The totals of every counted drawer, and of the one being counted, are settled.
Totals ==
  /\ \A s \in Shift : shift[s].counted => Settled(s, shift[s].plus, shift[s].minus)
  /\ \A h \in Handler : task[h].op = "close" => Settled(task[h].shift, task[h].plus, task[h].minus)

\* No refund is deducted twice, nor is about to be.
Apart ==
  /\ \A s, z \in Shift : s # z => shift[s].minus \cap shift[z].minus = {}
  /\ \A h \in Handler, z \in Shift :
       task[h].op = "close" /\ z # task[h].shift => task[h].minus \cap shift[z].minus = {}

\* shift_one_open_per_branch.
OneOpen == \A s, z \in Active : s = z

IInv ==
  /\ TypeOK
  /\ OneOpen
  /\ \A h \in Handler : InOrder(h)
  /\ \A s \in Shift : Uncounted(s)
  /\ \A x \in Sale : Dated(x)
  /\ Totals
  /\ Apart

-----------------------------------------------------------------------------
(* Types and the lock. *)

LEMMA BeginShape ==
  ASSUME TypeOK, NEW h \in Handler, NEW work \in Tasks, Begin(h, work)
  PROVE  /\ task' \in [Handler -> Tasks]
         /\ task'[h] = work /\ \A g \in Handler : g # h => task'[g] = task[g]
         /\ task[h] = Idle
BY DEF TypeOK, Begin

LEMMA IdleType == Idle \in Tasks
BY DEF Idle, Tasks

LEMMA EndShape ==
  ASSUME TypeOK, NEW h \in Handler, End(h)
  PROVE  /\ task' \in [Handler -> Tasks]
         /\ task'[h] = Idle /\ \A g \in Handler : g # h => task'[g] = task[g]
BY IdleType DEF TypeOK, End

\* A request outside the drawer comes and goes without touching the lock.
LEMMA LockOutside ==
  ASSUME TypeOK, NEW h \in Handler, lock' = lock, ~InDrawer(h), ~InDrawer(h)',
         \A g \in Handler : g # h => task'[g] = task[g]
  PROVE  \A g \in Handler : InDrawer(g)' <=> lock' = g
BY DEF TypeOK, InDrawer

\* A request that takes the free lock enters the drawer alone.
LEMMA LockTaken ==
  ASSUME TypeOK, NEW h \in Handler, lock = None, lock' = h, InDrawer(h)',
         \A g \in Handler : g # h => task'[g] = task[g]
  PROVE  \A g \in Handler : InDrawer(g)' <=> lock' = g
BY NoneIsFresh DEF TypeOK, InDrawer

\* A request that ends leaves the drawer, and only its own.
LEMMA LockReleased ==
  ASSUME TypeOK, NEW h \in Handler, Unlock(h), End(h)
  PROVE  /\ lock' \in Handler \cup {None}
         /\ \A g \in Handler : InDrawer(g)' <=> lock' = g
<1>1. task'[h] = Idle /\ \A g \in Handler : g # h => task'[g] = task[g]
  BY EndShape
<1>2. ~InDrawer(h)'
  BY <1>1 DEF InDrawer, Idle
<1>3. \A g \in Handler : g # h => (InDrawer(g)' <=> InDrawer(g))
  BY <1>1 DEF InDrawer
<1>4. QED
  BY <1>2, <1>3, NoneIsFresh DEF TypeOK, Unlock

-----------------------------------------------------------------------------
(* What a step leaves alone. *)

\* Counted totals stay, and no started shift becomes active again.
ShiftsKept ==
  /\ shift' \in [Shift -> Shifts]
  /\ OneOpen'
  /\ \A s \in Shift :
       /\ shift'[s].counted = shift[s].counted
       /\ shift'[s].plus = shift[s].plus /\ shift'[s].minus = shift[s].minus
       /\ \/ shift'[s].status = shift[s].status
          \/ shift'[s].status = "closed"
          \/ shift'[s].status = "active" /\ shift[s].status = "none"

\* The sales stay, no count begins, and the shifts are kept: the totals stay right.
LEMMA TotalsKept ==
  ASSUME IInv, ShiftsKept, sale' = sale,
         \A g \in Handler : task'[g] = task[g] \/ task'[g].op # "close"
  PROVE  /\ \A s \in Shift : Uncounted(s)'
         /\ \A x \in Sale : Dated(x)'
         /\ Totals'
         /\ Apart'
<1>1. \A s \in Shift : shift[s].status # "none" => shift'[s].status \notin {"none"}
  BY DEF ShiftsKept
<1>2. Started \subseteq Started'
  BY <1>1 DEF Started
<1>3. \A s \in Shift : Uncounted(s)'
  BY DEF IInv, Uncounted, ShiftsKept
<1>4. \A x \in Sale : Dated(x)'
  BY <1>2 DEF IInv, Dated
<1>5. \A z \in Started : shift[z].status # "active" => shift'[z].status # "active"
  BY DEF ShiftsKept, Started
<1>6. \A x \in Sale : sale[x].since \subseteq Started
  BY DEF IInv, Dated
<1>7. ASSUME NEW s \in Shift, shift'[s].counted
      PROVE  Settled(s, shift[s].plus, shift[s].minus)'
  <2>1. Settled(s, shift[s].plus, shift[s].minus)
    BY <1>7 DEF IInv, Totals, ShiftsKept
  <2>2. shift[s].minus \subseteq Sale
    BY DEF IInv, TypeOK, Shifts
  <2>3. QED
    BY <2>1, <2>2, <1>5, <1>6 DEF Settled, ShiftsKept
<1>8. ASSUME NEW h \in Handler, task'[h].op = "close"
      PROVE  Settled(task[h].shift, task[h].plus, task[h].minus)'
  <2>1. task'[h] = task[h]
    BY <1>8
  <2>2. Settled(task[h].shift, task[h].plus, task[h].minus)
    BY <1>8, <2>1 DEF IInv, Totals
  <2>3. task[h].minus \subseteq Sale
    BY DEF IInv, TypeOK, Tasks
  <2>4. QED
    BY <2>1, <2>2, <2>3, <1>5, <1>6 DEF Settled
<1>9. Totals'
  BY <1>7, <1>8 DEF Totals
<1>10. Apart'
  BY DEF IInv, Apart, ShiftsKept
<1>11. QED
  BY <1>3, <1>4, <1>9, <1>10

\* A completed or unborn sale changes, no count begins, and the drawer that paid
\* it, if one did, is not being counted: the totals stay right.
LEMMA TotalsAfterSale ==
  ASSUME IInv, shift' = shift, NEW h \in Handler, NEW x \in Sale,
         sale' \in [Sale -> Sales],
         \A y \in Sale : y # x => sale'[y] = sale[y],
         sale[x].status # "refunded",
         sale[x].status # "none" => sale'[x].status # "none" /\ sale'[x].shift = sale[x].shift,
         sale'[x].since \subseteq Started,
         sale'[x].drawer # None =>
           /\ sale'[x].status = "refunded" /\ sale'[x].cash
           /\ sale'[x].drawer \in sale'[x].since
           /\ ~shift[sale'[x].drawer].counted
           /\ \A g \in Handler : task[g].op # "close",
         \A g \in Handler : task'[g] = task[g] \/ task'[g].op # "close"
  PROVE  /\ \A s \in Shift : Uncounted(s)'
         /\ \A y \in Sale : Dated(y)'
         /\ Totals'
         /\ Apart'
<1>1. \A s \in Shift : Uncounted(s)'
  BY DEF IInv, Uncounted
<1>2. Started' = Started
  BY DEF Started
<1>3. \A y \in Sale : Dated(y)'
  BY <1>2 DEF IInv, Dated
<1>4. ASSUME NEW s \in Shift, shift'[s].counted
      PROVE  Settled(s, shift[s].plus, shift[s].minus)'
  <2>1. Settled(s, shift[s].plus, shift[s].minus)
    BY <1>4 DEF IInv, Totals
  <2>2. shift[s].plus \subseteq Sale /\ shift[s].minus \subseteq Sale
    BY DEF IInv, TypeOK, Shifts
  <2>3. sale'[x].drawer # s
    BY <1>4, NoneIsFresh
  <2>4. QED
    BY <2>1, <2>2, <2>3 DEF Settled
<1>5. ASSUME NEW g \in Handler, task'[g].op = "close"
      PROVE  Settled(task[g].shift, task[g].plus, task[g].minus)'
  <2>1. task'[g] = task[g]
    BY <1>5
  <2>2. Settled(task[g].shift, task[g].plus, task[g].minus) /\ task[g].shift \in Shift
    BY <1>5, <2>1 DEF IInv, Totals, InOrder
  <2>3. task[g].plus \subseteq Sale /\ task[g].minus \subseteq Sale
    BY DEF IInv, TypeOK, Tasks
  <2>4. sale'[x].drawer # task[g].shift
    BY <1>5, <2>1, <2>2, NoneIsFresh
  <2>5. QED
    BY <2>1, <2>2, <2>3, <2>4 DEF Settled
<1>6. Totals'
  BY <1>4, <1>5 DEF Totals
<1>7. Apart'
  BY DEF IInv, Apart
<1>8. QED
  BY <1>1, <1>3, <1>6, <1>7

\* Requests other than h go on, and h now has nothing that depends on what it read.
LEMMA OrderKept ==
  ASSUME IInv, sale' = sale, ShiftsKept, NEW h \in Handler,
         \A g \in Handler : g # h => task'[g] = task[g],
         task'[h].op \in {"none", "autoClose", "voidShift", "approve"}
  PROVE  \A g \in Handler : InOrder(g)'
<1>1. Started \subseteq Started'
  BY DEF Started, ShiftsKept
<1>2. ASSUME NEW g \in Handler, g # h
      PROVE  InOrder(g)'
  <2>1. InOrder(g) /\ task'[g] = task[g]
    BY <1>2 DEF IInv
  <2>2. task'[g].op = "sell" =>
          \A f \in Handler : task'[f].op = "sell" /\ task'[f].sale = task'[g].sale => f = g
    BY <2>1 DEF InOrder
  <2>3. task[g].shift \in Started => shift'[task[g].shift].counted = shift[task[g].shift].counted
    BY DEF Started, ShiftsKept
  <2>4. QED
    BY <2>1, <2>2, <2>3, <1>1 DEF InOrder, ShiftsKept
<1>3. InOrder(h)'
  BY DEF InOrder
<1>4. QED
  BY <1>2, <1>3

-----------------------------------------------------------------------------
(* The actions. *)

\* The shifts are kept, h starts or ends something outside the drawer.
LEMMA Outside ==
  ASSUME IInv, sale' = sale, ShiftsKept, lock' = lock, raced' \in SUBSET Sale,
         NEW h \in Handler, ~InDrawer(h), task' \in [Handler -> Tasks],
         \A g \in Handler : g # h => task'[g] = task[g],
         task'[h].op \in {"none", "autoClose", "voidShift", "approve"}
  PROVE  IInv'
<1>1. ~InDrawer(h)'
  BY DEF InDrawer
<1>2. TypeOK'
  BY <1>1, LockOutside DEF IInv, TypeOK, ShiftsKept
<1>3. \A g \in Handler : InOrder(g)'
  BY OrderKept
<1>4. \A g \in Handler : task'[g] = task[g] \/ task'[g].op # "close"
  OBVIOUS
<1>5. QED
  BY <1>2, <1>3, <1>4, TotalsKept DEF IInv, ShiftsKept

LEMMA ShiftsUnchanged ==
  ASSUME TypeOK, OneOpen, shift' = shift
  PROVE  ShiftsKept
BY DEF TypeOK, ShiftsKept, OneOpen, Active

\* The three unlocked ends of a shift write "closed", and never touch a count.
LEMMA ClosedUncounted ==
  ASSUME TypeOK, OneOpen, NEW s, NEW sold \in SUBSET Sale, NEW verdict \in {"unknown", "yes", "no"},
         \/ shift' = [shift EXCEPT ![s].status = "closed"]
         \/ shift' = [shift EXCEPT ![s].status = "closed", ![s].sold = sold]
         \/ shift' = [shift EXCEPT ![s].status = "closed", ![s].approved = verdict]
  PROVE  ShiftsKept
<1>1. CASE s \in Shift
  <2>1. shift[s] \in Shifts
    BY <1>1 DEF TypeOK
  <2>2. shift'[s] \in Shifts /\ \A z \in Shift : z # s => shift'[z] = shift[z]
    BY <1>1, <2>1 DEF TypeOK, Shifts
  <2>3. shift' \in [Shift -> Shifts]
    BY <2>2 DEF TypeOK
  <2>4. /\ shift'[s].counted = shift[s].counted /\ shift'[s].status = "closed"
        /\ shift'[s].plus = shift[s].plus /\ shift'[s].minus = shift[s].minus
    BY <1>1, <2>1 DEF TypeOK, Shifts
  <2>5. OneOpen'
    BY <2>2, <2>4 DEF OneOpen, Active
  <2>6. QED
    BY <2>2, <2>3, <2>4, <2>5 DEF ShiftsKept
<1>2. CASE s \notin Shift
  <2>1. shift' = shift
    BY <1>2 DEF TypeOK
  <2>2. QED
    BY <2>1, ShiftsUnchanged
<1>3. QED
  BY <1>1, <1>2

LEMMA OpenShiftStep ==
  ASSUME IInv, NEW s \in Shift, OpenShift(s)
  PROVE  IInv'
<1>1. shift[s] \in Shifts
  BY DEF IInv, TypeOK
<1>2. shift' = [shift EXCEPT ![s] = [shift[s] EXCEPT !.status = "active"]] /\ shift[s].status = "none"
  BY DEF OpenShift
<1>3. [shift[s] EXCEPT !.status = "active"] \in Shifts
  BY <1>1 DEF Shifts
<1>4. shift' \in [Shift -> Shifts] /\ \A z \in Shift : z # s => shift'[z] = shift[z]
  BY <1>2, <1>3 DEF IInv, TypeOK
<1>5. /\ shift'[s].counted = shift[s].counted /\ shift'[s].status = "active"
      /\ shift'[s].plus = shift[s].plus /\ shift'[s].minus = shift[s].minus
  BY <1>1, <1>2 DEF IInv, TypeOK, Shifts
<1>6. ShiftsKept
  <2>1. OneOpen'
    BY <1>4 DEF OneOpen, Active, OpenShift
  <2>2. QED
    BY <1>2, <1>4, <1>5, <2>1 DEF ShiftsKept
<1>7. /\ sale' = sale /\ task' = task /\ lock' = lock /\ raced' = raced
  BY DEF OpenShift
<1>8. TypeOK'
  BY <1>4, <1>7 DEF IInv, TypeOK, InDrawer
<1>9. Started \subseteq Started'
  BY <1>6 DEF Started, ShiftsKept
<1>10. \A g \in Handler : InOrder(g)'
  <2> TAKE g \in Handler
  <2>1. InOrder(g)
    BY DEF IInv
  <2>2. task[g].shift \in Started => shift'[task[g].shift].counted = shift[task[g].shift].counted
    BY <1>6 DEF Started, ShiftsKept
  <2>3. QED
    BY <2>1, <2>2, <1>6, <1>7, <1>9 DEF InOrder, ShiftsKept
<1>11. QED
  BY <1>6, <1>7, <1>8, <1>10, TotalsKept DEF IInv, ShiftsKept

LEMMA BeginOutsideStep ==
  ASSUME IInv, NEW h \in Handler, NEW s \in Shift,
         BeginAutoClose(h, s) \/ BeginVoidShift(h, s) \/ BeginApprove(h, s)
  PROVE  IInv'
<1>1. PICK work \in Tasks :
        Begin(h, work) /\ work.op \in {"autoClose", "voidShift", "approve"}
  <2>1. CASE BeginAutoClose(h, s)
    <3> DEFINE w == [Idle EXCEPT !.op = "autoClose", !.shift = s, !.plus = CashSalesOf(s)]
    <3>1. w \in Tasks /\ w.op = "autoClose"
      BY DEF Tasks, Idle, CashSalesOf
    <3>2. QED
      BY <2>1, <3>1 DEF BeginAutoClose
  <2>2. CASE BeginVoidShift(h, s)
    <3> DEFINE w == [Idle EXCEPT !.op = "voidShift", !.shift = s]
    <3>1. w \in Tasks /\ w.op = "voidShift"
      BY DEF Tasks, Idle
    <3>2. QED
      BY <2>2, <3>1 DEF BeginVoidShift
  <2>3. CASE BeginApprove(h, s)
    <3> DEFINE w == [Idle EXCEPT !.op = "approve", !.shift = s]
    <3>1. w \in Tasks /\ w.op = "approve"
      BY DEF Tasks, Idle
    <3>2. QED
      BY <2>3, <3>1 DEF BeginApprove
  <2>4. QED
    BY <2>1, <2>2, <2>3
<1>2. /\ sale' = sale /\ shift' = shift /\ lock' = lock /\ raced' = raced
  BY DEF BeginAutoClose, BeginVoidShift, BeginApprove
<1>3. TypeOK /\ OneOpen
  BY DEF IInv
<1>4. /\ task' \in [Handler -> Tasks] /\ task'[h] = work /\ task[h] = Idle
      /\ \A g \in Handler : g # h => task'[g] = task[g]
  BY <1>1, <1>3, BeginShape
<1>5. ~InDrawer(h)
  BY <1>4 DEF InDrawer, Idle
<1>6. ShiftsKept /\ raced' \in SUBSET Sale
  BY <1>2, <1>3, ShiftsUnchanged DEF TypeOK
<1>7. QED
  BY <1>1, <1>2, <1>4, <1>5, <1>6, Outside

LEMMA FinishOutsideStep ==
  ASSUME IInv, NEW h \in Handler,
         FinishAutoClose(h) \/ FinishVoidShift(h) \/ FinishApprove(h)
  PROVE  IInv'
<1>1. TypeOK /\ OneOpen /\ task[h].plus \in SUBSET Sale
  BY DEF IInv, TypeOK, Tasks
<1>2. ShiftsKept
  BY <1>1, ClosedUncounted DEF FinishAutoClose, FinishVoidShift, FinishApprove
<1>3. /\ sale' = sale /\ lock' = lock /\ raced' = raced /\ End(h)
      /\ task[h].op \in {"autoClose", "voidShift", "approve"}
  BY DEF FinishAutoClose, FinishVoidShift, FinishApprove
<1>4. /\ task' \in [Handler -> Tasks] /\ task'[h].op = "none"
      /\ \A g \in Handler : g # h => task'[g] = task[g]
  BY <1>1, <1>3, EndShape DEF Idle
<1>5. ~InDrawer(h) /\ raced' \in SUBSET Sale
  BY <1>1, <1>3 DEF InDrawer, TypeOK
<1>6. QED
  BY <1>2, <1>3, <1>4, <1>5, Outside

LEMMA AbortStep ==
  ASSUME IInv, NEW h \in Handler, Abort(h)
  PROVE  IInv'
<1>1. TypeOK /\ OneOpen
  BY DEF IInv
<1>2. /\ sale' = sale /\ shift' = shift /\ raced' = raced /\ End(h) /\ Unlock(h)
  BY DEF Abort
<1>3. ShiftsKept
  BY <1>1, <1>2, ShiftsUnchanged
<1>4. /\ task' \in [Handler -> Tasks] /\ task'[h].op = "none"
      /\ \A g \in Handler : g # h => task'[g] = task[g]
  BY <1>1, <1>2, EndShape DEF Idle
<1>5. TypeOK'
  BY <1>1, <1>2, <1>4, LockReleased DEF TypeOK
<1>6. \A g \in Handler : InOrder(g)'
  BY <1>2, <1>3, <1>4, OrderKept
<1>7. \A g \in Handler : task'[g] = task[g] \/ task'[g].op # "close"
  BY <1>4
<1>8. QED
  BY <1>2, <1>3, <1>5, <1>6, <1>7, TotalsKept DEF IInv, ShiftsKept

\* A request about a sale begins outside the drawer: what it read holds, and
\* whatever other requests rely on stays.
LEMMA BeginSaleStep ==
  ASSUME IInv, NEW h \in Handler, NEW x \in Sale, NEW s \in Shift,
         BeginSell(h, x, s) \/ BeginVoid(h, x)
  PROVE  IInv'
<1>1. TypeOK /\ OneOpen
  BY DEF IInv
<1>2. /\ sale' = sale /\ shift' = shift /\ lock' = lock /\ raced' \in SUBSET Sale
  BY <1>1 DEF BeginSell, BeginVoid, Racing, TypeOK
<1>3. PICK work \in Tasks :
        /\ Begin(h, work) /\ work.op \in {"sell", "void"} /\ work.sale = x
        /\ work.op = "sell" => sale[x].status = "none" /\ \A g \in Handler : task[g].sale # x
  <2>1. CASE BeginSell(h, x, s)
    <3> DEFINE w == [Idle EXCEPT !.op = "sell", !.shift = s, !.sale = x]
    <3>1. w \in Tasks /\ w.op = "sell" /\ w.sale = x
      BY DEF Tasks, Idle
    <3>2. QED
      BY <2>1, <3>1 DEF BeginSell
  <2>2. CASE BeginVoid(h, x)
    <3> DEFINE w == [Idle EXCEPT !.op = "void", !.sale = x]
    <3>1. w \in Tasks /\ w.op = "void" /\ w.sale = x
      BY DEF Tasks, Idle
    <3>2. QED
      BY <2>2, <3>1 DEF BeginVoid
  <2>3. QED
    BY <2>1, <2>2
<1>4. /\ task' \in [Handler -> Tasks] /\ task'[h] = work /\ task[h] = Idle
      /\ \A g \in Handler : g # h => task'[g] = task[g]
  BY <1>1, <1>3, BeginShape
<1>5. ~InDrawer(h) /\ ~InDrawer(h)'
  BY <1>3, <1>4 DEF InDrawer, Idle
<1>6. TypeOK'
  BY <1>1, <1>2, <1>4, <1>5, LockOutside DEF TypeOK
<1>7. \A g \in Handler : InOrder(g)'
  <2>1. InOrder(h)'
    BY <1>2, <1>3, <1>4 DEF InOrder
  <2>2. ASSUME NEW g \in Handler, g # h
        PROVE  InOrder(g)'
    <3>1. InOrder(g) /\ task'[g] = task[g]
      BY <1>4, <2>2 DEF IInv
    <3>2. task[g].op = "sell" => task'[h].op # "sell" \/ task'[h].sale # task[g].sale
      BY <1>3, <1>4
    <3>3. QED
      BY <1>2, <1>4, <3>1, <3>2 DEF InOrder, Started
  <2>3. QED
    BY <2>1, <2>2
<1>8. ShiftsKept /\ \A g \in Handler : task'[g] = task[g] \/ task'[g].op # "close"
  BY <1>1, <1>2, <1>3, <1>4, ShiftsUnchanged
<1>9. QED
  BY <1>2, <1>6, <1>7, <1>8, TotalsKept DEF IInv, ShiftsKept

LEMMA BeginRefundStep ==
  ASSUME IInv, NEW h \in Handler, NEW x \in Sale, BeginRefund(h, x)
  PROVE  IInv'
<1>1. TypeOK /\ OneOpen
  BY DEF IInv
<1>2. /\ sale' = sale /\ shift' = shift /\ raced' = raced /\ sale[x].status = "completed"
  BY DEF BeginRefund
<1>3. PICK work \in Tasks :
        /\ Begin(h, work) /\ work.op = "refund" /\ work.sale = x
        /\ \/ work.shift = None /\ lock' = lock
           \/ work.shift \in Active /\ sale[x].cash /\ lock = None /\ lock' = h
  <2>1. CASE sale[x].cash
    <3>1. PICK s \in OpenDrawer : Begin(h, [Idle EXCEPT !.op = "refund", !.sale = x, !.shift = s])
      BY <2>1 DEF BeginRefund
    <3> DEFINE w == [Idle EXCEPT !.op = "refund", !.sale = x, !.shift = s]
    <3>2. s \in Active /\ s \in Shift /\ lock = None
      BY <3>1 DEF OpenDrawer, Active
    <3>3. w \in Tasks /\ w.op = "refund" /\ w.sale = x /\ w.shift = s
      BY <3>2 DEF Tasks, Idle
    <3>4. QED
      BY <2>1, <3>1, <3>2, <3>3 DEF BeginRefund
  <2>2. CASE ~sale[x].cash
    <3> DEFINE w == [Idle EXCEPT !.op = "refund", !.sale = x]
    <3>1. w \in Tasks /\ w.op = "refund" /\ w.sale = x /\ w.shift = None
      BY DEF Tasks, Idle
    <3>2. QED
      BY <2>2, <3>1 DEF BeginRefund
  <2>3. QED
    BY <2>1, <2>2
<1>4. /\ task' \in [Handler -> Tasks] /\ task'[h] = work /\ task[h] = Idle
      /\ \A g \in Handler : g # h => task'[g] = task[g]
  BY <1>1, <1>3, BeginShape
<1>5. lock' \in Handler \cup {None} /\ \A g \in Handler : InDrawer(g)' <=> lock' = g
  <2>1. CASE work.shift = None /\ lock' = lock
    <3>1. ~InDrawer(h) /\ ~InDrawer(h)'
      BY <1>3, <1>4, <2>1 DEF InDrawer, Idle
    <3>2. QED
      BY <1>1, <1>4, <2>1, <3>1, LockOutside DEF TypeOK
  <2>2. CASE work.shift \in Active /\ lock = None /\ lock' = h
    <3>1. InDrawer(h)'
      BY <1>3, <1>4, <2>2, NoneIsFresh DEF InDrawer, Active
    <3>2. QED
      BY <1>1, <1>4, <2>2, <3>1, LockTaken
  <2>3. QED
    BY <1>3, <2>1, <2>2
<1>6. TypeOK'
  BY <1>1, <1>2, <1>4, <1>5 DEF TypeOK
<1>7. \A g \in Handler : InOrder(g)'
  <2>1. work.shift # None =>
          ~shift[work.shift].counted /\ work.shift \in Started /\ sale[x].cash
    BY <1>3 DEF Active, Started, IInv, Uncounted
  <2>2. InOrder(h)'
    BY <1>2, <1>3, <1>4, <2>1 DEF InOrder, Started
  <2>3. ASSUME NEW g \in Handler, g # h
        PROVE  InOrder(g)'
    <3>1. InOrder(g) /\ task'[g] = task[g]
      BY <1>4, <2>3 DEF IInv
    <3>2. QED
      BY <1>2, <1>3, <1>4, <3>1 DEF InOrder, Started
  <2>4. QED
    BY <2>2, <2>3
<1>8. ShiftsKept /\ \A g \in Handler : task'[g] = task[g] \/ task'[g].op # "close"
  BY <1>1, <1>2, <1>3, <1>4, ShiftsUnchanged
<1>9. QED
  BY <1>2, <1>6, <1>7, <1>8, TotalsKept DEF IInv, ShiftsKept

\* The write of a sale: h is done, others rely on nothing that changed.
LEMMA SaleWritten ==
  ASSUME IInv, NEW h \in Handler, NEW x \in Sale, End(h),
         shift' = shift, sale' \in [Sale -> Sales],
         \A y \in Sale : y # x => sale'[y] = sale[y],
         sale'[x].status # "none",
         sale[x].status # "none" => sale'[x].cash = sale[x].cash,
         sale[x].status = "none" => task[h].op = "sell" /\ task[h].sale = x
  PROVE  \A g \in Handler : InOrder(g)'
<1>1. TypeOK /\ OneOpen
  BY DEF IInv
<1>2. task'[h] = Idle /\ \A g \in Handler : g # h => task'[g] = task[g]
  BY <1>1, EndShape
<1>3. InOrder(h)'
  BY <1>2 DEF InOrder, Idle
<1>4. ASSUME NEW g \in Handler, g # h
      PROVE  InOrder(g)'
  <2>1. InOrder(g) /\ InOrder(h) /\ task'[g] = task[g]
    BY <1>2, <1>4 DEF IInv
  <2>2. task[g].op = "sell" => task[g].sale # x
    BY <1>4, <2>1 DEF InOrder
  <2>3. task[g].op = "sell" =>
          \A f \in Handler : task'[f].op = "sell" /\ task'[f].sale = task[g].sale => f = g
    BY <1>2, <2>1 DEF InOrder, Idle
  <2>4. task[g].op \in {"sell", "refund"} => task[g].sale \in Sale
    BY <2>1 DEF InOrder
  <2>5. task[g].op = "refund" /\ task[g].shift # None =>
          sale'[task[g].sale].status # "none" /\ sale'[task[g].sale].cash
    BY <2>1, <2>4 DEF InOrder
  <2>6. QED
    BY <2>1, <2>2, <2>3, <2>4, <2>5 DEF InOrder, Started
<1>5. QED
  BY <1>3, <1>4

LEMMA FinishSaleStep ==
  ASSUME IInv, NEW h \in Handler, FinishSell(h) \/ FinishVoid(h) \/ FinishRefund(h)
  PROVE  IInv'
<1> DEFINE x == task[h].sale
<1>1. TypeOK /\ InOrder(h) /\ task[h] \in Tasks
  BY DEF IInv, TypeOK
<1>2. x \in Sale /\ sale[x] \in Sales
  BY <1>1 DEF FinishSell, FinishVoid, FinishRefund, InOrder, TypeOK
<1>3. /\ shift' = shift /\ raced' = raced /\ End(h)
      /\ task' \in [Handler -> Tasks] /\ task'[h] = Idle
      /\ \A g \in Handler : g # h => task'[g] = task[g]
  BY <1>1, EndShape DEF FinishSell, FinishVoid, FinishRefund
<1>4. /\ sale' \in [Sale -> Sales] /\ \A y \in Sale : y # x => sale'[y] = sale[y]
      /\ sale[x].status # "refunded" /\ sale'[x].status # "none"
      /\ sale[x].status = "none" => task[h].op = "sell"
      /\ sale[x].status # "none" =>
           sale'[x].shift = sale[x].shift /\ sale'[x].cash = sale[x].cash
  <2>1. CASE FinishSell(h)
    <3>1. PICK cash \in BOOLEAN :
            sale' = [sale EXCEPT ![x].status = "completed", ![x].shift = task[h].shift, ![x].cash = cash]
      BY <2>1 DEF FinishSell
    <3>2. sale[x].status = "none" /\ task[h].op = "sell"
      BY <1>1, <2>1 DEF FinishSell, InOrder
    <3>3. task[h].shift \in Shift \cup {None}
      BY <1>1 DEF Tasks
    <3>4. sale'[x] \in Sales /\ sale'[x].status = "completed" /\ \A y \in Sale : y # x => sale'[y] = sale[y]
      BY <1>1, <1>2, <3>1, <3>3 DEF TypeOK, Sales
    <3>5. sale' \in [Sale -> Sales]
      BY <1>1, <3>1, <3>4 DEF TypeOK
    <3>6. QED
      BY <3>2, <3>4, <3>5
  <2>2. CASE FinishVoid(h)
    BY <1>1, <1>2, <2>2 DEF FinishVoid, TypeOK, Sales
  <2>3. CASE FinishRefund(h)
    <3>1. /\ sale' = [sale EXCEPT ![x].status = "refunded", ![x].since = Started, ![x].drawer = task[h].shift]
          /\ sale[x].status = "completed"
      BY <2>3 DEF FinishRefund
    <3>2. task[h].shift \in Shift \cup {None} /\ Started \in SUBSET Shift
      BY <1>1 DEF Tasks, Started
    <3>3. /\ sale'[x] \in Sales /\ sale'[x].status = "refunded"
          /\ sale'[x].shift = sale[x].shift /\ sale'[x].cash = sale[x].cash
          /\ \A y \in Sale : y # x => sale'[y] = sale[y]
      BY <1>1, <1>2, <3>1, <3>2 DEF TypeOK, Sales
    <3>4. sale' \in [Sale -> Sales]
      BY <1>1, <3>1, <3>3 DEF TypeOK
    <3>5. QED
      BY <3>1, <3>3, <3>4
  <2>4. QED
    BY <2>1, <2>2, <2>3
<1>5. \/ sale'[x].since = sale[x].since /\ sale'[x].drawer = sale[x].drawer
      \/ /\ task[h].op = "refund" /\ sale'[x].status = "refunded" /\ sale'[x].cash = sale[x].cash
         /\ sale'[x].since = Started /\ sale'[x].drawer = task[h].shift
  <2>1. CASE FinishSell(h)
    <3>1. PICK cash \in BOOLEAN :
            sale' = [sale EXCEPT ![x].status = "completed", ![x].shift = task[h].shift, ![x].cash = cash]
      BY <2>1 DEF FinishSell
    <3>2. QED
      BY <1>1, <1>2, <3>1 DEF TypeOK, Sales
  <2>2. CASE FinishVoid(h)
    <3>1. sale' = [sale EXCEPT ![x].status = "voided"]
      BY <2>2 DEF FinishVoid
    <3>2. QED
      BY <1>1, <1>2, <3>1 DEF TypeOK, Sales
  <2>3. CASE FinishRefund(h)
    <3>1. /\ sale' = [sale EXCEPT ![x].status = "refunded", ![x].since = Started, ![x].drawer = task[h].shift]
          /\ task[h].op = "refund"
      BY <2>3 DEF FinishRefund
    <3>2. QED
      BY <1>1, <1>2, <3>1 DEF TypeOK, Sales
  <2>4. QED
    BY <2>1, <2>2, <2>3
<1>6. /\ sale'[x].since \subseteq Started
      /\ sale'[x].drawer # None =>
           /\ sale'[x].status = "refunded" /\ sale'[x].cash
           /\ sale'[x].drawer \in sale'[x].since
           /\ ~shift[sale'[x].drawer].counted
           /\ \A g \in Handler : task[g].op # "close"
  <2>1. sale[x].drawer = None /\ sale[x].since \subseteq Started
    BY <1>2, <1>4 DEF IInv, Dated
  <2>2. task[h].op = "refund" /\ task[h].shift # None =>
          sale[x].cash /\ ~shift[task[h].shift].counted /\ task[h].shift \in Started
    BY <1>1 DEF InOrder
  <2>3. task[h].op = "refund" /\ task[h].shift # None => \A g \in Handler : task[g].op # "close"
    BY <1>1 DEF TypeOK, InDrawer
  <2>4. QED
    BY <1>5, <2>1, <2>2, <2>3
<1>7. lock' \in Handler \cup {None} /\ \A g \in Handler : InDrawer(g)' <=> lock' = g
  <2>1. CASE FinishRefund(h)
    BY <1>1, <2>1, LockReleased DEF FinishRefund
  <2>2. CASE FinishSell(h) \/ FinishVoid(h)
    <3>1. lock' = lock /\ task[h].op \in {"sell", "void"}
      BY <2>2 DEF FinishSell, FinishVoid
    <3>2. ~InDrawer(h) /\ ~InDrawer(h)'
      BY <1>3, <3>1 DEF InDrawer, Idle
    <3>3. QED
      BY <1>1, <1>3, <3>1, <3>2, LockOutside DEF TypeOK
  <2>3. QED
    BY <2>1, <2>2
<1> HIDE DEF x
<1>8. TypeOK'
  BY <1>1, <1>3, <1>4, <1>7 DEF TypeOK
<1>9. \A g \in Handler : InOrder(g)'
  BY <1>2, <1>3, <1>4, SaleWritten DEF x
<1>10. \A g \in Handler : task'[g] = task[g] \/ task'[g].op # "close"
  BY <1>3 DEF Idle
<1>11. /\ \A s \in Shift : Uncounted(s)'
       /\ \A y \in Sale : Dated(y)'
       /\ Totals'
       /\ Apart'
  BY <1>2, <1>3, <1>4, <1>6, <1>10, TotalsAfterSale
<1>12. QED
  BY <1>3, <1>8, <1>9, <1>11 DEF IInv, OneOpen, Active

\* A drawer summed under the lock: every refund it deducts was paid while this was
\* the open shift, so no other count deducts it.
LEMMA BeginCloseStep ==
  ASSUME IInv, NEW h \in Handler, NEW s \in Shift, BeginClose(h, s)
  PROVE  IInv'
<1> DEFINE work == [Idle EXCEPT !.op = "close", !.shift = s,
                                !.plus = CashSalesOf(s), !.minus = CashRefundsDuring(s)]
<1>1. TypeOK /\ OneOpen
  BY DEF IInv
<1>2. /\ sale' = sale /\ shift' = shift /\ lock = None /\ lock' = h /\ Begin(h, work)
      /\ raced' = raced \cup InFlight /\ shift[s].status = "active" /\ ~shift[s].counted
  BY DEF BeginClose, Closable, IInv, Uncounted
<1>3. /\ work \in Tasks /\ work.op = "close" /\ work.shift = s
      /\ work.plus = CashSalesOf(s) /\ work.minus = CashRefundsDuring(s)
  BY DEF Tasks, Idle, CashSalesOf, CashRefundsDuring
<1>4. /\ task' \in [Handler -> Tasks] /\ task'[h] = work /\ task[h] = Idle
      /\ \A g \in Handler : g # h => task'[g] = task[g]
  BY <1>1, <1>2, <1>3, BeginShape
<1> HIDE DEF work
<1>5. raced' \in SUBSET Sale
  BY <1>1, <1>2 DEF IInv, InOrder, InFlight, TypeOK
<1>6. InDrawer(h)'
  BY <1>3, <1>4 DEF InDrawer
<1>7. TypeOK'
  BY <1>1, <1>2, <1>4, <1>5, <1>6, LockTaken DEF TypeOK
<1>8. \A g \in Handler : InOrder(g)'
  <2>1. InOrder(h)'
    BY <1>2, <1>3, <1>4 DEF InOrder
  <2>2. ASSUME NEW g \in Handler, g # h
        PROVE  InOrder(g)'
    <3>1. InOrder(g) /\ task'[g] = task[g]
      BY <1>4, <2>2 DEF IInv
    <3>2. QED
      BY <1>2, <1>3, <1>4, <3>1 DEF InOrder, Started
  <2>3. QED
    BY <2>1, <2>2
<1>9. Settled(s, CashSalesOf(s), CashRefundsDuring(s))
  <2>1. \A z \in Shift : z # s => shift[z].status # "active"
    BY <1>1, <1>2 DEF OneOpen, Active
  <2>2. \A x \in Sale : sale[x].since \subseteq Shift
    BY <1>1 DEF TypeOK, Sales
  <2>3. \A x \in Sale : sale[x].drawer = s =>
          sale[x].status = "refunded" /\ sale[x].cash /\ s \in sale[x].since
    BY NoneIsFresh DEF IInv, Dated
  <2>4. QED
    BY <2>1, <2>2, <2>3 DEF Settled, CashSalesOf, CashRefundsDuring
<1>10. Totals'
  <2>1. Settled(s, CashSalesOf(s), CashRefundsDuring(s))'
    BY <1>2, <1>9 DEF Settled, CashSalesOf, CashRefundsDuring
  <2>2. CashSalesOf(s)' = CashSalesOf(s) /\ CashRefundsDuring(s)' = CashRefundsDuring(s)
    BY <1>2 DEF CashSalesOf, CashRefundsDuring
  <2>3. ASSUME NEW g \in Handler, task'[g].op = "close"
        PROVE  Settled(task[g].shift, task[g].plus, task[g].minus)'
    <3>1. CASE g = h
      BY <1>3, <1>4, <2>1, <2>2, <3>1
    <3>2. CASE g # h
      <4>1. Settled(task[g].shift, task[g].plus, task[g].minus) /\ task'[g] = task[g]
        BY <1>4, <2>3, <3>2 DEF IInv, Totals
      <4>2. QED
        BY <1>2, <4>1 DEF Settled
    <3>3. QED
      BY <3>1, <3>2
  <2>4. ASSUME NEW z \in Shift, shift'[z].counted
        PROVE  Settled(z, shift[z].plus, shift[z].minus)'
    <3>1. Settled(z, shift[z].plus, shift[z].minus)
      BY <1>2, <2>4 DEF IInv, Totals
    <3>2. QED
      BY <1>2, <3>1 DEF Settled
  <2>5. QED
    BY <2>3, <2>4 DEF Totals
<1>11. Apart'
  <2>1. ASSUME NEW z \in Shift, z # s
        PROVE  CashRefundsDuring(s) \cap shift[z].minus = {}
    <3>1. CASE shift[z].counted
      <4>1. Settled(z, shift[z].plus, shift[z].minus)
        BY <3>1 DEF IInv, Totals
      <4>2. QED
        BY <1>2, <2>1, <4>1 DEF Settled, CashRefundsDuring
    <3>2. CASE ~shift[z].counted
      BY <3>2 DEF IInv, Uncounted
    <3>3. QED
      BY <3>1, <3>2
  <2>2. QED
    BY <1>2, <1>3, <1>4, <2>1 DEF IInv, Apart
<1>12. \A z \in Shift : Uncounted(z)'
  BY <1>2 DEF IInv, Uncounted
<1>13. (\A x \in Sale : Dated(x)') /\ OneOpen'
  BY <1>2 DEF IInv, Dated, Started, OneOpen, Active
<1>14. QED
  BY <1>7, <1>8, <1>10, <1>11, <1>12, <1>13 DEF IInv

\* The totals written are the ones summed, over no earlier count, and nobody else
\* is in the drawer.
LEMMA FinishCloseStep ==
  ASSUME IInv, NEW h \in Handler, FinishClose(h)
  PROVE  IInv'
<1> DEFINE s == task[h].shift
<1>1. TypeOK /\ OneOpen /\ InOrder(h) /\ task[h].op = "close"
  BY DEF IInv, FinishClose
<1>2. /\ s \in Shift /\ ~shift[s].counted /\ shift[s] \in Shifts
      /\ task[h].plus \in SUBSET Sale /\ task[h].minus \in SUBSET Sale
  BY <1>1 DEF InOrder, TypeOK, Tasks
<1>3. PICK status \in {"closed", "flagged"} :
        shift' = [shift EXCEPT ![s] = [@ EXCEPT !.status = status, !.counted = TRUE,
                    !.sold = task[h].plus, !.plus = task[h].plus, !.minus = task[h].minus,
                    !.approved = IF status = "closed" THEN "yes" ELSE "unknown"]]
  BY DEF FinishClose
<1>4. /\ shift' \in [Shift -> Shifts] /\ \A z \in Shift : z # s => shift'[z] = shift[z]
      /\ shift'[s].status \in {"closed", "flagged"} /\ shift'[s].counted
      /\ shift'[s].plus = task[h].plus /\ shift'[s].minus = task[h].minus
  <2> DEFINE row == [shift[s] EXCEPT !.status = status, !.counted = TRUE,
                       !.sold = task[h].plus, !.plus = task[h].plus, !.minus = task[h].minus,
                       !.approved = IF status = "closed" THEN "yes" ELSE "unknown"]
  <2>1. /\ row \in Shifts /\ row.status = status /\ row.counted
        /\ row.plus = task[h].plus /\ row.minus = task[h].minus
    BY <1>2 DEF Shifts
  <2>2. shift' = [shift EXCEPT ![s] = row]
    BY <1>3
  <2> HIDE DEF row
  <2>3. QED
    BY <1>1, <1>2, <2>1, <2>2 DEF TypeOK
<1>5. /\ sale' = sale /\ raced' = raced /\ Unlock(h) /\ End(h)
      /\ task' \in [Handler -> Tasks] /\ task'[h] = Idle
      /\ \A g \in Handler : g # h => task'[g] = task[g]
  BY <1>1, EndShape DEF FinishClose
<1> HIDE DEF s
<1>6. TypeOK'
  BY <1>1, <1>4, <1>5, LockReleased DEF TypeOK
<1>7. \A g \in Handler : g # h =>
        task[g].op # "close" /\ (task[g].op = "refund" => task[g].shift = None)
  BY <1>1 DEF TypeOK, InDrawer
<1>8. \A g \in Handler : InOrder(g)'
  <2>1. InOrder(h)'
    BY <1>5 DEF InOrder, Idle
  <2>2. ASSUME NEW g \in Handler, g # h
        PROVE  InOrder(g)'
    <3>1. InOrder(g) /\ task'[g] = task[g]
      BY <1>5, <2>2 DEF IInv
    <3>2. QED
      BY <1>5, <1>7, <2>2, <3>1 DEF InOrder, Idle
  <2>3. QED
    BY <2>1, <2>2
<1>9. \A z \in Shift : Uncounted(z)'
  BY <1>2, <1>4 DEF IInv, Uncounted
<1>10. OneOpen' /\ Started \subseteq Started'
  BY <1>1, <1>2, <1>4 DEF OneOpen, Active, Started
<1>11. \A x \in Sale : Dated(x)'
  BY <1>5, <1>10 DEF IInv, Dated
<1>12. \A z \in Shift : shift[z].status # "active" => shift'[z].status # "active"
  BY <1>4
<1>13. \A x \in Sale : sale[x].since \subseteq Shift
  BY <1>1 DEF TypeOK, Sales
<1>14. Totals'
  <2>1. ASSUME NEW z \in Shift, shift'[z].counted
        PROVE  Settled(z, shift[z].plus, shift[z].minus)'
    <3>1. CASE z = s
      <4>1. Settled(z, task[h].plus, task[h].minus)
        BY <1>1, <3>1 DEF IInv, Totals, s
      <4>2. QED
        BY <1>2, <1>4, <1>5, <1>12, <1>13, <3>1, <4>1 DEF Settled
    <3>2. CASE z # s
      <4>1. Settled(z, shift[z].plus, shift[z].minus) /\ shift'[z] = shift[z]
        BY <1>4, <2>1, <3>2 DEF IInv, Totals
      <4>2. shift[z].minus \subseteq Sale
        BY <1>1 DEF TypeOK, Shifts
      <4>3. QED
        BY <1>5, <1>12, <1>13, <4>1, <4>2 DEF Settled
    <3>3. QED
      BY <3>1, <3>2
  <2>2. \A g \in Handler : task'[g].op # "close"
    BY <1>5, <1>7 DEF Idle
  <2>3. QED
    BY <2>1, <2>2 DEF Totals
<1>15. Apart'
  <2>1. \A z \in Shift : z # s => task[h].minus \cap shift[z].minus = {}
    BY <1>1 DEF IInv, Apart, s
  <2>2. \A g \in Handler : task'[g].op # "close"
    BY <1>5, <1>7 DEF Idle
  <2>3. \A y, z \in Shift : y # z => shift'[y].minus \cap shift'[z].minus = {}
    BY <1>4, <2>1 DEF IInv, Apart
  <2>4. QED
    BY <2>2, <2>3 DEF Apart
<1>16. QED
  BY <1>6, <1>8, <1>9, <1>10, <1>11, <1>14, <1>15 DEF IInv

-----------------------------------------------------------------------------
(* The theorems. *)

LEMMA Initially == Init => IInv
<1> SUFFICES ASSUME Init PROVE IInv
  OBVIOUS
<1>1. TypeOK
  <2>1. shift \in [Shift -> Shifts]
    BY DEF Init, Shifts
  <2>2. sale \in [Sale -> Sales]
    BY DEF Init, Sales
  <2>3. task \in [Handler -> Tasks] /\ \A h \in Handler : ~InDrawer(h)
    BY IdleType DEF Init, InDrawer, Idle
  <2>4. QED
    BY <2>1, <2>2, <2>3, NoneIsFresh DEF Init, TypeOK
<1>2. (\A h \in Handler : InOrder(h)) /\ (\A s \in Shift : Uncounted(s)) /\ OneOpen
  BY DEF Init, InOrder, Uncounted, Idle, OneOpen, Active
<1>3. (\A x \in Sale : Dated(x)) /\ Totals /\ Apart
  BY DEF Init, Dated, Totals, Apart, Idle
<1>4. QED
  BY <1>1, <1>2, <1>3 DEF IInv

LEMMA Inductive == IInv /\ [Next]_vars => IInv'
<1> SUFFICES ASSUME IInv, [Next]_vars PROVE IInv'
  OBVIOUS
<1>1. CASE \E s \in Shift : OpenShift(s)
  BY <1>1, OpenShiftStep
<1>2. ASSUME NEW h \in Handler, NEW s \in Shift,
             BeginClose(h, s) \/ BeginAutoClose(h, s) \/ BeginVoidShift(h, s) \/ BeginApprove(h, s)
      PROVE  IInv'
  BY <1>2, BeginCloseStep, BeginOutsideStep
<1>3. ASSUME NEW h \in Handler, NEW x \in Sale,
             (\E s \in Shift : BeginSell(h, x, s)) \/ BeginVoid(h, x) \/ BeginRefund(h, x)
      PROVE  IInv'
  <2>1. CASE \E s \in Shift : BeginSell(h, x, s)
    BY <2>1, BeginSaleStep
  <2>2. CASE BeginVoid(h, x)
    <3>1. sale[x].shift \in Shift
      BY <2>2 DEF BeginVoid, Active
    <3>2. QED
      BY <2>2, <3>1, BeginSaleStep
  <2>3. CASE BeginRefund(h, x)
    BY <2>3, BeginRefundStep
  <2>4. QED
    BY <1>3, <2>1, <2>2, <2>3
<1>4. ASSUME NEW h \in Handler,
             \/ FinishClose(h) \/ FinishAutoClose(h) \/ FinishVoidShift(h) \/ FinishApprove(h)
             \/ FinishSell(h) \/ FinishVoid(h) \/ FinishRefund(h) \/ Abort(h)
      PROVE  IInv'
  BY <1>4, FinishCloseStep, FinishOutsideStep, FinishSaleStep, AbortStep
<1>5. CASE UNCHANGED vars
  <2>1. /\ shift' = shift /\ sale' = sale /\ task' = task /\ lock' = lock /\ raced' = raced
    BY <1>5 DEF vars
  <2>2. TypeOK' /\ OneOpen'
    BY <2>1 DEF IInv, TypeOK, InDrawer, OneOpen, Active
  <2>3. ShiftsKept
    BY <2>1, ShiftsUnchanged DEF IInv
  <2>4. \A h \in Handler : InOrder(h)'
    BY <2>1 DEF IInv, InOrder, Started
  <2>5. QED
    BY <2>1, <2>2, <2>3, <2>4, TotalsKept DEF IInv
<1>6. QED
  BY <1>1, <1>2, <1>3, <1>4, <1>5 DEF Next

\* The drawer's state and everything its requests rely on hold in every state.
THEOREM Invariance == Spec => []IInv
BY Initially, Inductive, PTL DEF Spec

\* closeShift and refundTransaction: types, and the lock is held by whoever counts
\* a drawer or pays from one, and by nobody else.
THEOREM TypeCorrect == Spec => []TypeOK
<1>1. IInv => TypeOK
  BY DEF IInv
<1>2. QED
  BY Invariance, <1>1, PTL

\* sumCashRefundsProcessedDuringShift and refundTransaction: however many shifts,
\* sales and requests, a refund is deducted from one drawer, the one that paid it.
THEOREM RefundsAreCountedOnce == Spec => []RefundsCountedOnce
<1>1. IInv => RefundsCountedOnce
  <2> SUFFICES ASSUME IInv PROVE RefundsCountedOnce
    OBVIOUS
  <2>1. \A s, z \in Shift : s # z => shift[s].minus \cap shift[z].minus = {}
    BY DEF IInv, Apart
  <2>2. ASSUME NEW s \in Shift, shift[s].counted
        PROVE  Settled(s, shift[s].plus, shift[s].minus)
    BY <2>2 DEF IInv, Totals
  <2>3. \A s \in Shift : shift[s].minus \cap shift[s].plus = {}
    <3> TAKE s \in Shift
    <3>1. CASE shift[s].counted
      BY <2>2, <3>1 DEF Settled
    <3>2. CASE ~shift[s].counted
      BY <3>2 DEF IInv, Uncounted
    <3>3. QED
      BY <3>1, <3>2
  <2>4. ASSUME NEW x \in Sale, NEW s \in Shift, sale[x].drawer = s, shift[s].counted
        PROVE  IF sale[x].shift = s THEN x \notin shift[s].plus \cup shift[s].minus
                                    ELSE x \in shift[s].minus
    BY <2>2, <2>4 DEF Settled
  <2>5. QED
    BY <2>1, <2>3, <2>4 DEF RefundsCountedOnce
<1>2. QED
  BY Invariance, <1>1, PTL

\* closeShift's second look under the lock: a count is never taken again, by any
\* other close, clock-out, void or approval.
THEOREM CountsAreFinal == Spec => CountIsFinal
<1>1. IInv /\ [Next]_vars => [\A s \in Shift : shift[s].counted =>
        /\ shift'[s].counted
        /\ shift'[s].plus = shift[s].plus /\ shift'[s].minus = shift[s].minus]_vars
  <2> SUFFICES ASSUME IInv, Next, NEW s \in Shift, shift[s].counted
               PROVE  /\ shift'[s].counted
                      /\ shift'[s].plus = shift[s].plus /\ shift'[s].minus = shift[s].minus
    BY DEF vars
  <2>1. TypeOK /\ OneOpen
    BY DEF IInv
  <2>2. CASE \E z \in Shift : OpenShift(z)
    BY <2>1, <2>2 DEF OpenShift, TypeOK, Shifts
  <2>3. CASE \E h \in Handler : FinishClose(h)
    <3>1. PICK h \in Handler : FinishClose(h)
      BY <2>3
    <3>2. task[h].shift # s
      BY <3>1 DEF FinishClose, IInv, InOrder
    <3>3. QED
      BY <2>1, <3>1, <3>2 DEF FinishClose, TypeOK
  <2>4. CASE \E h \in Handler : FinishAutoClose(h) \/ FinishVoidShift(h) \/ FinishApprove(h)
    <3>1. PICK h \in Handler : FinishAutoClose(h) \/ FinishVoidShift(h) \/ FinishApprove(h)
      BY <2>4
    <3>2. task[h].plus \in SUBSET Sale
      BY <2>1 DEF TypeOK, Tasks
    <3>3. ShiftsKept
      BY <2>1, <3>1, <3>2, ClosedUncounted DEF FinishAutoClose, FinishVoidShift, FinishApprove
    <3>4. QED
      BY <3>3 DEF ShiftsKept
  <2>5. CASE shift' = shift
    BY <2>5
  <2>6. QED
    BY <2>2, <2>3, <2>4, <2>5
       DEF Next, BeginClose, BeginAutoClose, BeginVoidShift, BeginApprove, BeginSell, BeginVoid,
           BeginRefund, FinishSell, FinishVoid, FinishRefund, Abort
<1>2. QED
  BY Invariance, <1>1, PTL DEF Spec, CountIsFinal

-----------------------------------------------------------------------------
(* Every sale of a counted drawer. *)

\* A sale or a void in flight that will land in the drawer of s.
Into(g, s) ==
  \/ task[g].op = "sell" /\ task[g].shift = s
  \/ task[g].op = "void" /\ sale[task[g].sale].shift = s

\* The total plus covers the sales of s, and whatever is about to happen to them is
\* known to have raced with the count.
Landing(s, plus) ==
  /\ CashSalesOf(s) \subseteq plus \cup raced
  /\ \A x \in plus : sale[x].status = "voided" => x \in raced
  /\ \A g \in Handler : Into(g, s) => task[g].sale \in raced

\* ... of every counted drawer, and of the one being counted.
Landings ==
  /\ \A s \in Shift : shift[s].counted => Landing(s, shift[s].plus)
  /\ \A h \in Handler : task[h].op = "close" => Landing(task[h].shift, task[h].plus)
  /\ \A h \in Handler : task[h].op = "void" =>
       task[h].sale \in Sale /\ sale[task[h].sale].status # "none"

\* Nothing in the step concerns a sale: every total still covers its sales.
LEMMA LandingsUndisturbed ==
  ASSUME Landings, sale' = sale, raced' = raced,
         \A s \in Shift : shift'[s].counted = shift[s].counted /\ shift'[s].plus = shift[s].plus,
         \A g \in Handler : task'[g] = task[g] \/ task'[g].op \notin {"sell", "void", "close"}
  PROVE  Landings'
<1>1. \A s : CashSalesOf(s)' = CashSalesOf(s)
  BY DEF CashSalesOf
<1>2. \A s, g : g \in Handler /\ Into(g, s)' => Into(g, s) /\ task'[g] = task[g]
  BY DEF Into
<1>3. ASSUME NEW s \in Shift, shift'[s].counted
      PROVE  Landing(s, shift[s].plus)'
  <2>1. Landing(s, shift[s].plus) /\ shift'[s].plus = shift[s].plus
    BY <1>3 DEF Landings
  <2>2. QED
    BY <1>1, <1>2, <2>1 DEF Landing
<1>4. ASSUME NEW h \in Handler, task'[h].op = "close"
      PROVE  Landing(task[h].shift, task[h].plus)'
  <2>1. task'[h] = task[h]
    BY <1>4
  <2>2. Landing(task[h].shift, task[h].plus)
    BY <1>4, <2>1 DEF Landings
  <2>3. QED
    BY <1>1, <1>2, <2>1, <2>2 DEF Landing
<1>5. \A h \in Handler : task'[h].op = "void" =>
        task'[h].sale \in Sale /\ sale'[task'[h].sale].status # "none"
  BY DEF Landings
<1>6. QED
  BY <1>3, <1>4, <1>5 DEF Landings

\* A request about a sale of an open shift: if its drawer is being counted, it races.
LEMMA LandingsBeginSale ==
  ASSUME IInv, Landings, NEW h \in Handler, NEW x \in Sale, NEW s \in Shift,
         \/ BeginSell(h, x, s)
         \/ BeginVoid(h, x) /\ s = sale[x].shift
  PROVE  Landings'
<1>1. TypeOK
  BY DEF IInv
<1>2. PICK work \in Tasks :
        /\ Begin(h, work) /\ work.op \in {"sell", "void"} /\ work.sale = x
        /\ work.op = "sell" => work.shift = s
        /\ work.op = "void" => sale[x].status = "completed" /\ sale[x].shift = s
  <2>1. CASE BeginSell(h, x, s)
    <3> DEFINE w == [Idle EXCEPT !.op = "sell", !.shift = s, !.sale = x]
    <3>1. w \in Tasks /\ w.op = "sell" /\ w.sale = x /\ w.shift = s
      BY DEF Tasks, Idle
    <3>2. QED
      BY <2>1, <3>1 DEF BeginSell
  <2>2. CASE BeginVoid(h, x) /\ s = sale[x].shift
    <3> DEFINE w == [Idle EXCEPT !.op = "void", !.sale = x]
    <3>1. w \in Tasks /\ w.op = "void" /\ w.sale = x
      BY DEF Tasks, Idle
    <3>2. QED
      BY <2>2, <3>1 DEF BeginVoid
  <2>3. QED
    BY <2>1, <2>2
<1>3. task'[h] = work /\ task[h] = Idle /\ \A g \in Handler : g # h => task'[g] = task[g]
  BY <1>1, <1>2, BeginShape
<1>4. /\ sale' = sale /\ shift' = shift /\ shift[s].status = "active"
      /\ raced' = IF \E g \in Handler : task[g].op = "close" /\ task[g].shift = s
                  THEN raced \cup {x} ELSE raced
  BY DEF BeginSell, BeginVoid, Racing, Ringable, Active
<1>5. ~shift[s].counted
  BY <1>4 DEF IInv, Uncounted
<1>6. \A z : CashSalesOf(z)' = CashSalesOf(z)
  BY <1>4 DEF CashSalesOf
<1>7. \A z, g : g \in Handler /\ Into(g, z)' =>
        \/ Into(g, z) /\ task'[g] = task[g]
        \/ z = s /\ task'[g].sale = x
  BY <1>2, <1>3, <1>4 DEF Into
<1>8. ASSUME NEW z \in Shift, shift'[z].counted
      PROVE  Landing(z, shift[z].plus)'
  <2>1. Landing(z, shift[z].plus) /\ z # s
    BY <1>4, <1>5, <1>8 DEF Landings
  <2>2. QED
    BY <1>4, <1>6, <1>7, <2>1 DEF Landing
<1>9. ASSUME NEW g \in Handler, task'[g].op = "close"
      PROVE  Landing(task[g].shift, task[g].plus)'
  <2>1. task'[g] = task[g]
    BY <1>2, <1>3, <1>9
  <2>2. Landing(task[g].shift, task[g].plus)
    BY <1>9, <2>1 DEF Landings
  <2>3. task[g].shift = s => x \in raced'
    BY <1>4, <1>9, <2>1
  <2>4. QED
    BY <1>4, <1>6, <1>7, <2>1, <2>2, <2>3 DEF Landing
<1>10. \A g \in Handler : task'[g].op = "void" =>
         task'[g].sale \in Sale /\ sale'[task'[g].sale].status # "none"
  BY <1>2, <1>3, <1>4 DEF Landings
<1>11. QED
  BY <1>8, <1>9, <1>10 DEF Landings

\* The count begins: whatever is in flight is remembered as racing with it.
LEMMA LandingsBeginClose ==
  ASSUME IInv, Landings, NEW h \in Handler, NEW s \in Shift, BeginClose(h, s)
  PROVE  Landings'
<1> DEFINE work == [Idle EXCEPT !.op = "close", !.shift = s,
                                !.plus = CashSalesOf(s), !.minus = CashRefundsDuring(s)]
<1>1. TypeOK
  BY DEF IInv
<1>2. /\ sale' = sale /\ shift' = shift /\ Begin(h, work) /\ raced' = raced \cup InFlight
  BY DEF BeginClose
<1>3. /\ work \in Tasks /\ work.op = "close" /\ work.shift = s /\ work.plus = CashSalesOf(s)
  BY DEF Tasks, Idle, CashSalesOf, CashRefundsDuring
<1>4. task'[h] = work /\ task[h] = Idle /\ \A g \in Handler : g # h => task'[g] = task[g]
  BY <1>1, <1>2, <1>3, BeginShape
<1> HIDE DEF work
<1>5. \A z : CashSalesOf(z)' = CashSalesOf(z)
  BY <1>2 DEF CashSalesOf
<1>6. \A z, g : g \in Handler /\ Into(g, z)' => Into(g, z) /\ task'[g] = task[g] /\ task[g].sale \in InFlight
  BY <1>2, <1>3, <1>4 DEF Into, InFlight
<1>7. ASSUME NEW z \in Shift, shift'[z].counted
      PROVE  Landing(z, shift[z].plus)'
  <2>1. Landing(z, shift[z].plus)
    BY <1>2, <1>7 DEF Landings
  <2>2. QED
    BY <1>2, <1>5, <1>6, <2>1 DEF Landing
<1>8. ASSUME NEW g \in Handler, task'[g].op = "close"
      PROVE  Landing(task[g].shift, task[g].plus)'
  <2>1. CASE g = h
    <3>1. task'[g].shift = s /\ task'[g].plus = CashSalesOf(s)
      BY <1>3, <1>4, <2>1
    <3>2. \A x \in CashSalesOf(s) : sale'[x].status # "voided"
      BY <1>2 DEF CashSalesOf
    <3>3. QED
      BY <1>2, <1>5, <1>6, <3>1, <3>2 DEF Landing
  <2>2. CASE g # h
    <3>1. task'[g] = task[g] /\ Landing(task[g].shift, task[g].plus)
      BY <1>4, <1>8, <2>2 DEF Landings
    <3>2. QED
      BY <1>2, <1>5, <1>6, <3>1 DEF Landing
  <2>3. QED
    BY <2>1, <2>2
<1>9. \A g \in Handler : task'[g].op = "void" =>
        task'[g].sale \in Sale /\ sale'[task'[g].sale].status # "none"
  BY <1>2, <1>3, <1>4 DEF Landings
<1>10. QED
  BY <1>7, <1>8, <1>9 DEF Landings

\* The count is written: its totals were followed since they were taken.
LEMMA LandingsFinishClose ==
  ASSUME IInv, Landings, NEW h \in Handler, FinishClose(h)
  PROVE  Landings'
<1>1. TypeOK /\ InOrder(h) /\ task[h].op = "close"
  BY DEF IInv, FinishClose
<1>2. PICK s \in Shift, plus \in SUBSET Sale : s = task[h].shift /\ plus = task[h].plus
  BY <1>1 DEF InOrder, TypeOK, Tasks
<1>3. /\ \A z \in Shift : z # s => shift'[z] = shift[z]
      /\ shift'[s].plus = plus
  BY <1>1, <1>2 DEF FinishClose, TypeOK, Shifts
<1>4. /\ sale' = sale /\ raced' = raced
      /\ task'[h] = Idle /\ \A g \in Handler : g # h => task'[g] = task[g]
  BY <1>1, EndShape DEF FinishClose
<1>5. \A z : CashSalesOf(z)' = CashSalesOf(z)
  BY <1>4 DEF CashSalesOf
<1>6. \A z, g : g \in Handler /\ Into(g, z)' => Into(g, z) /\ task'[g] = task[g]
  BY <1>4 DEF Into, Idle
<1>7. ASSUME NEW z \in Shift, shift'[z].counted
      PROVE  Landing(z, shift[z].plus)'
  <2>1. Landing(z, shift'[z].plus)
    BY <1>1, <1>2, <1>3, <1>7 DEF Landings
  <2>2. QED
    BY <1>4, <1>5, <1>6, <2>1 DEF Landing
<1>8. \A g \in Handler : task'[g].op # "close"
  BY <1>1, <1>4 DEF TypeOK, InDrawer, Idle
<1>9. \A g \in Handler : task'[g].op = "void" =>
        task'[g].sale \in Sale /\ sale'[task'[g].sale].status # "none"
  BY <1>4 DEF Landings, Idle
<1>10. QED
  BY <1>7, <1>8, <1>9 DEF Landings

\* A sale is written: it joins or leaves a counted total only if it raced with it.
LEMMA LandingsFinishSale ==
  ASSUME IInv, Landings, NEW h \in Handler,
         FinishSell(h) \/ FinishVoid(h) \/ FinishRefund(h)
  PROVE  Landings'
<1>1. TypeOK /\ InOrder(h) /\ Totals
  BY DEF IInv
<1>2. PICK x \in Sale : x = task[h].sale
  BY <1>1 DEF FinishSell, FinishVoid, FinishRefund, InOrder
<1>3. /\ shift' = shift /\ raced' = raced
      /\ task'[h] = Idle /\ \A g \in Handler : g # h => task'[g] = task[g]
  BY <1>1, EndShape DEF FinishSell, FinishVoid, FinishRefund
<1>4. /\ \A y \in Sale : y # x => sale'[y] = sale[y]
      /\ sale'[x].status # "none"
      /\ \/ /\ task[h].op = "sell" /\ sale[x].status = "none"
            /\ sale'[x].status = "completed" /\ sale'[x].shift = task[h].shift
         \/ /\ task[h].op = "void" /\ sale'[x].status = "voided"
            /\ sale[x].status = "completed" /\ sale'[x].shift = sale[x].shift
         \/ /\ sale'[x].status = "refunded"
            /\ sale[x].status = "completed" /\ sale'[x].shift = sale[x].shift
  <2>1. sale[x] \in Sales
    BY <1>1 DEF TypeOK
  <2>2. CASE FinishSell(h)
    <3>1. PICK cash \in BOOLEAN :
            sale' = [sale EXCEPT ![x].status = "completed", ![x].shift = task[h].shift, ![x].cash = cash]
      BY <1>2, <2>2 DEF FinishSell
    <3>2. sale[x].status = "none" /\ task[h].op = "sell"
      BY <1>1, <1>2, <2>2 DEF FinishSell, InOrder
    <3>3. QED
      BY <1>1, <2>1, <3>1, <3>2 DEF TypeOK, Sales
  <2>3. CASE FinishVoid(h)
    <3>1. /\ sale' = [sale EXCEPT ![x].status = "voided"]
          /\ sale[x].status = "completed" /\ task[h].op = "void"
      BY <1>2, <2>3 DEF FinishVoid
    <3>2. QED
      BY <1>1, <2>1, <3>1 DEF TypeOK, Sales
  <2>4. CASE FinishRefund(h)
    <3>1. /\ sale' = [sale EXCEPT ![x].status = "refunded", ![x].since = Started, ![x].drawer = task[h].shift]
          /\ sale[x].status = "completed"
      BY <1>2, <2>4 DEF FinishRefund
    <3>2. QED
      BY <1>1, <2>1, <3>1 DEF TypeOK, Sales
  <2>5. QED
    BY <2>2, <2>3, <2>4
<1>5. \A z : \A y \in CashSalesOf(z)' : y \in CashSalesOf(z) \/ (y = x /\ Into(h, z))
  BY <1>2, <1>4 DEF CashSalesOf, Into
<1>6. \A z : sale[x].shift = z /\ sale[x].status # "none" /\ sale'[x].status = "voided" => Into(h, z)
  BY <1>2, <1>4 DEF Into
<1>7. \A z, g : g \in Handler /\ Into(g, z)' => Into(g, z) /\ task'[g] = task[g]
  BY <1>2, <1>3, <1>4 DEF Into, Idle, Landings
<1>a. ASSUME NEW z, NEW P \in SUBSET Sale, Landing(z, P),
             \A y \in P : sale[y].shift = z /\ sale[y].status # "none"
      PROVE  /\ CashSalesOf(z)' \subseteq P \cup raced
             /\ \A y \in P : sale'[y].status = "voided" => y \in raced
             /\ \A g \in Handler : Into(g, z)' => task'[g].sale \in raced
  <2>1. CashSalesOf(z)' \subseteq P \cup raced
    BY <1>2, <1>5, <1>a DEF Landing
  <2>2. ASSUME NEW y \in P, sale'[y].status = "voided" PROVE y \in raced
    <3>1. CASE y = x
      BY <1>2, <1>6, <1>a, <2>2, <3>1 DEF Landing
    <3>2. CASE y # x
      BY <1>4, <1>a, <2>2, <3>2 DEF Landing
    <3> QED
      BY <3>1, <3>2
  <2>3. ASSUME NEW g \in Handler, Into(g, z)' PROVE task'[g].sale \in raced
    BY <1>7, <1>a, <2>3 DEF Landing
  <2> QED
    BY <2>1, <2>2, <2>3
<1>8. ASSUME NEW z \in Shift, shift'[z].counted
      PROVE  Landing(z, shift[z].plus)'
  <2>1. Landing(z, shift[z].plus) /\ Settled(z, shift[z].plus, shift[z].minus)
    BY <1>1, <1>3, <1>8 DEF Landings, Totals
  <2>2. shift[z].plus \subseteq Sale
    BY <1>1 DEF TypeOK, Shifts
  <2>3. \A y \in shift[z].plus : sale[y].shift = z /\ sale[y].status # "none"
    BY <2>1 DEF Settled
  <2>4. /\ CashSalesOf(z)' \subseteq shift[z].plus \cup raced
        /\ \A y \in shift[z].plus : sale'[y].status = "voided" => y \in raced
        /\ \A k \in Handler : Into(k, z)' => task'[k].sale \in raced
    BY <1>a, <2>1, <2>2, <2>3
  <2>5. QED
    BY <1>3, <2>4 DEF Landing
<1>9. ASSUME NEW g \in Handler, task'[g].op = "close"
      PROVE  Landing(task[g].shift, task[g].plus)'
  <2>1. task'[g] = task[g]
    BY <1>3, <1>9 DEF Idle
  <2>2. Landing(task[g].shift, task[g].plus) /\ Settled(task[g].shift, task[g].plus, task[g].minus)
    BY <1>1, <1>9, <2>1 DEF Landings, Totals
  <2>3. task[g].plus \subseteq Sale
    BY <1>1 DEF TypeOK, Tasks
  <2>4. \A y \in task[g].plus : sale[y].shift = task[g].shift /\ sale[y].status # "none"
    BY <2>2 DEF Settled
  <2>5. /\ CashSalesOf(task[g].shift)' \subseteq task[g].plus \cup raced
        /\ \A y \in task[g].plus : sale'[y].status = "voided" => y \in raced
        /\ \A k \in Handler : Into(k, task[g].shift)' => task'[k].sale \in raced
    BY <1>3, <1>a, <2>1, <2>2, <2>3, <2>4
  <2>6. QED
    BY <1>3, <2>1, <2>5 DEF Landing
<1>10. \A g \in Handler : task'[g].op = "void" =>
         task'[g].sale \in Sale /\ sale'[task'[g].sale].status # "none"
  BY <1>3, <1>4 DEF Landings, Idle
<1>11. QED
  BY <1>8, <1>9, <1>10 DEF Landings

\* ... and every step keeps it so.
LEMMA LandingsInductive == IInv /\ Landings /\ [Next]_vars => Landings'
<1> SUFFICES ASSUME IInv, Landings, [Next]_vars PROVE Landings'
  OBVIOUS
<1>1. TypeOK /\ OneOpen
  BY DEF IInv
<1>2. CASE \E s \in Shift : OpenShift(s)
  <2>1. PICK s \in Shift : OpenShift(s)
    BY <1>2
  <2>2. /\ \A z \in Shift : shift'[z].counted = shift[z].counted /\ shift'[z].plus = shift[z].plus
        /\ sale' = sale /\ raced' = raced /\ task' = task
    BY <1>1, <2>1 DEF OpenShift, TypeOK, Shifts
  <2>3. QED
    BY <2>2, LandingsUndisturbed
<1>3. ASSUME NEW h \in Handler, NEW s \in Shift,
             BeginAutoClose(h, s) \/ BeginVoidShift(h, s) \/ BeginApprove(h, s)
      PROVE  Landings'
  <2>1. /\ sale' = sale /\ raced' = raced /\ shift' = shift
        /\ task'[h].op \in {"autoClose", "voidShift", "approve"}
        /\ \A g \in Handler : g # h => task'[g] = task[g]
    BY <1>1, <1>3 DEF BeginAutoClose, BeginVoidShift, BeginApprove, Begin, TypeOK, Idle
  <2>2. QED
    BY <2>1, LandingsUndisturbed
<1>4. ASSUME NEW h \in Handler, NEW s \in Shift, BeginClose(h, s)
      PROVE  Landings'
  BY <1>4, LandingsBeginClose
<1>5. ASSUME NEW h \in Handler, NEW x \in Sale,
             (\E s \in Shift : BeginSell(h, x, s)) \/ BeginVoid(h, x)
      PROVE  Landings'
  <2>1. BeginVoid(h, x) => sale[x].shift \in Shift
    BY DEF BeginVoid, Active
  <2>2. QED
    BY <1>5, <2>1, LandingsBeginSale
<1>6. ASSUME NEW h \in Handler, NEW x \in Sale, BeginRefund(h, x)
      PROVE  Landings'
  <2>1. /\ sale' = sale /\ raced' = raced /\ shift' = shift
        /\ task'[h].op = "refund"
        /\ \A g \in Handler : g # h => task'[g] = task[g]
    <3>1. sale' = sale /\ raced' = raced /\ shift' = shift
      BY <1>6 DEF BeginRefund
    <3>2. PICK work : Begin(h, work) /\ work.op = "refund"
      <4>1. CASE sale[x].cash
        <5>1. PICK s \in OpenDrawer : Begin(h, [Idle EXCEPT !.op = "refund", !.sale = x, !.shift = s])
          BY <1>6, <4>1 DEF BeginRefund
        <5> DEFINE w == [Idle EXCEPT !.op = "refund", !.sale = x, !.shift = s]
        <5>2. w.op = "refund"
          BY DEF Idle
        <5>3. QED
          BY <5>1, <5>2
      <4>2. CASE ~sale[x].cash
        <5>1. Begin(h, [Idle EXCEPT !.op = "refund", !.sale = x])
          BY <1>6, <4>2 DEF BeginRefund
        <5> DEFINE w == [Idle EXCEPT !.op = "refund", !.sale = x]
        <5>2. w.op = "refund"
          BY DEF Idle
        <5>3. QED
          BY <5>1, <5>2
      <4>3. QED
        BY <4>1, <4>2
    <3>3. QED
      BY <1>1, <3>1, <3>2 DEF Begin, TypeOK
  <2>2. QED
    BY <2>1, LandingsUndisturbed
<1>7. ASSUME NEW h \in Handler,
             FinishAutoClose(h) \/ FinishVoidShift(h) \/ FinishApprove(h) \/ Abort(h)
      PROVE  Landings'
  <2>1. ShiftsKept
    BY <1>1, <1>7, ClosedUncounted, ShiftsUnchanged
       DEF FinishAutoClose, FinishVoidShift, FinishApprove, Abort, TypeOK, Tasks
  <2>2. sale' = sale /\ raced' = raced /\ End(h)
    BY <1>7 DEF FinishAutoClose, FinishVoidShift, FinishApprove, Abort
  <2>3. task'[h].op = "none" /\ \A g \in Handler : g # h => task'[g] = task[g]
    BY <1>1, <2>2, EndShape DEF Idle
  <2>4. QED
    BY <2>1, <2>2, <2>3, LandingsUndisturbed DEF ShiftsKept
<1>8. ASSUME NEW h \in Handler, FinishClose(h)
      PROVE  Landings'
  BY <1>8, LandingsFinishClose
<1>9. ASSUME NEW h \in Handler, FinishSell(h) \/ FinishVoid(h) \/ FinishRefund(h)
      PROVE  Landings'
  BY <1>9, LandingsFinishSale
<1>10. CASE UNCHANGED vars
  BY <1>10, LandingsUndisturbed DEF vars
<1>11. QED
  BY <1>2, <1>3, <1>4, <1>5, <1>6, <1>7, <1>8, <1>9, <1>10 DEF Next

\* closeShift sums under the lock, createTransaction and voidTransaction write outside
\* it: however they interleave, the cash a counted drawer should hold misses no sale
\* and keeps no void but the ones that were in flight during its count.
THEOREM SalesOfCountedDrawers == Spec => []SalesAreCounted
<1>1. Init => Landings
  BY DEF Init, Landings, Idle
<1>2. Spec => []Landings
  BY <1>1, Invariance, LandingsInductive, PTL DEF Spec
<1>3. Landings => SalesAreCounted
  BY DEF Landings, Landing, SalesAreCounted
<1>4. QED
  BY <1>2, <1>3, PTL
-----------------------------------------------------------------------------
(* The carts held in those shifts: the limit is passed only by requests    *)
(* past their count, and a released cart stays released.                   *)

\* Requests that counted the orders of s and have not inserted theirs.
PastCount(s) == {h \in Handler : holding[h].op = "hold" /\ holding[h].shift = s}

\* What a request in flight still knows: its order is a row; a timer about to be
\* set runs nowhere yet, and nobody else is about to set it.
InHand(h) ==
  /\ holding[h].op = "hold" => holding[h].shift \in Shift
  /\ holding[h].op \in {"arm", "release"} =>
       holding[h].order \in Order /\ order[holding[h].order].status # "none"
  /\ holding[h].op = "arm" =>
       /\ holding[h].order \notin timer \cup lost
       /\ \A g \in Handler : holding[g].op = "arm" /\ holding[g].order = holding[h].order => g = h

Overshoot(s) == Cardinality(Held(s)) + Cardinality(PastCount(s)) <= Limit + Cardinality(Handler) - 1

\* The inductive invariant.
HoldIInv ==
  /\ HoldTypeOK
  /\ \A o \in lost : order[o].status # "none"
  /\ \A h \in Handler : InHand(h)
  /\ \A s \in Shift : Overshoot(s)

-----------------------------------------------------------------------------
(* Sizes. *)

LEMMA HoldSizes ==
  ASSUME NEW s
  PROVE  /\ IsFiniteSet(Held(s)) /\ IsFiniteSet(PastCount(s))
         /\ Cardinality(Held(s)) \in Nat /\ Cardinality(PastCount(s)) \in Nat
         /\ Cardinality(PastCount(s)) <= Cardinality(Handler)
         /\ Cardinality(Handler) \in Nat
<1>1. Held(s) \in SUBSET Order /\ PastCount(s) \in SUBSET Handler
  BY DEF Held, PastCount
<1>2. IsFiniteSet(Held(s)) /\ IsFiniteSet(PastCount(s)) /\ Cardinality(PastCount(s)) <= Cardinality(Handler)
  BY <1>1, SetsAreFinite, FS_Subset
<1> QED
  BY <1>2, SetsAreFinite, FS_CardinalityType

\* Fewer held orders and fewer requests past their count keep the bound.
LEMMA HoldShrinks ==
  ASSUME NEW s \in Shift, Overshoot(s), Held(s)' \subseteq Held(s), PastCount(s)' \subseteq PastCount(s)
  PROVE  Overshoot(s)'
<1>1. /\ Cardinality(Held(s)') <= Cardinality(Held(s))
      /\ Cardinality(PastCount(s)') <= Cardinality(PastCount(s))
      /\ Cardinality(Held(s)') \in Nat /\ Cardinality(PastCount(s)') \in Nat
  <2>1. Held(s)' \in SUBSET Held(s) /\ PastCount(s)' \in SUBSET PastCount(s)
    OBVIOUS
  <2>2. /\ IsFiniteSet(Held(s)') /\ Cardinality(Held(s)') <= Cardinality(Held(s))
        /\ IsFiniteSet(PastCount(s)') /\ Cardinality(PastCount(s)') <= Cardinality(PastCount(s))
    BY <2>1, HoldSizes, FS_Subset
  <2> QED
    BY <2>2, FS_CardinalityType
<1>2. /\ Cardinality(Held(s)) \in Nat /\ Cardinality(PastCount(s)) \in Nat
      /\ Cardinality(Handler) \in Nat /\ Limit \in Nat
  BY HoldSizes, LimitIsPositive
<1> QED
  BY <1>1, <1>2 DEF Overshoot

\* A request inserts the order it counted for: one moves from one set to the other.
LEMMA HoldMoves ==
  ASSUME NEW s \in Shift, Overshoot(s), NEW o, NEW h, o \notin Held(s), h \in PastCount(s),
         Held(s)' = Held(s) \cup {o}, PastCount(s)' = PastCount(s) \ {h}
  PROVE  Overshoot(s)'
<1>1. Cardinality(Held(s)') = Cardinality(Held(s)) + 1
  BY HoldSizes, FS_AddElement
<1>2. Cardinality(PastCount(s)') = Cardinality(PastCount(s)) - 1
  BY HoldSizes, FS_RemoveElement
<1>3. /\ Cardinality(Held(s)) \in Nat /\ Cardinality(PastCount(s)) \in Nat
      /\ Cardinality(Handler) \in Nat /\ Limit \in Nat
  BY HoldSizes, LimitIsPositive
<1> QED
  BY <1>1, <1>2, <1>3 DEF Overshoot

\* A request finds room: whoever else is past its count, there are only so many.
LEMMA HoldFinds ==
  ASSUME NEW s \in Shift, Room(s), Held(s)' = Held(s), PastCount(s)' \in SUBSET Handler
  PROVE  Overshoot(s)'
<1>1. IsFiniteSet(PastCount(s)') /\ Cardinality(PastCount(s)') <= Cardinality(Handler)
  BY SetsAreFinite, FS_Subset
<1>2. Cardinality(PastCount(s)') \in Nat
  BY <1>1, FS_CardinalityType
<1>3. Cardinality(Held(s)) \in Nat /\ Cardinality(Handler) \in Nat /\ Limit \in Nat
  BY HoldSizes, LimitIsPositive
<1> QED
  BY <1>1, <1>2, <1>3 DEF Overshoot, Room

-----------------------------------------------------------------------------
LEMMA HoldInitially == HoldInit => HoldIInv
<1> SUFFICES ASSUME HoldInit PROVE HoldIInv
  OBVIOUS
<1>1. HoldTypeOK
  BY DEF HoldInit, HoldTypeOK, Orders, Holdings, NoHold
<1>2. \A o \in lost : order[o].status # "none"
  BY DEF HoldInit
<1>3. \A h \in Handler : InHand(h)
  BY DEF HoldInit, InHand, NoHold
<1>4. ASSUME NEW s \in Shift PROVE Overshoot(s)
  <2>1. Held(s) = {} /\ PastCount(s) = {}
    BY DEF HoldInit, Held, PastCount, NoHold
  <2>2. Cardinality(Held(s)) = 0 /\ Cardinality(PastCount(s)) = 0
    BY <2>1, FS_EmptySet
  <2>3. Cardinality(Handler) \in Nat /\ Limit \in Nat /\ Limit > 0
    BY HoldSizes, LimitIsPositive
  <2> QED
    BY <2>2, <2>3 DEF Overshoot
<1> QED
  BY <1>1, <1>2, <1>3, <1>4 DEF HoldIInv

\* A request that counts and one that inserts are the steps the bound is about.
LEMMA HoldReadsKeeps ==
  ASSUME HoldIInv, NEW h \in Handler, NEW s \in Shift, HoldReads(h, s)
  PROVE  HoldIInv'
<1>1. HoldTypeOK'
  BY DEF HoldIInv, HoldReads, HoldTypeOK, Holdings
<1>2. (\A o \in lost : order[o].status # "none")'
  BY DEF HoldIInv, HoldReads
<1>3. ASSUME NEW g \in Handler PROVE InHand(g)'
  BY DEF HoldIInv, HoldReads, InHand, HoldTypeOK
<1>4. ASSUME NEW z \in Shift PROVE Overshoot(z)'
  <2>1. Held(z)' = Held(z)
    BY DEF HoldReads, Held
  <2>2. CASE z = s
    BY <2>1, <2>2, HoldFinds DEF HoldReads, PastCount
  <2>3. CASE z # s
    <3>1. PastCount(z)' \subseteq PastCount(z)
      BY <2>3 DEF HoldReads, PastCount, HoldIInv, HoldTypeOK
    <3> QED
      BY <2>1, <3>1, HoldShrinks DEF HoldIInv
  <2> QED
    BY <2>2, <2>3
<1> QED
  BY <1>1, <1>2, <1>3, <1>4 DEF HoldIInv

LEMMA HoldInsertsKeeps ==
  ASSUME HoldIInv, NEW h \in Handler, NEW o \in Order, HoldInserts(h, o)
  PROVE  HoldIInv'
<1> DEFINE s == holding[h].shift
<1>s. s \in Shift
  BY DEF HoldIInv, HoldInserts, InHand
<1>1. HoldTypeOK'
  BY <1>s DEF HoldIInv, HoldInserts, HoldTypeOK, Holdings, Orders
<1>2. (\A p \in lost : order[p].status # "none")'
  BY DEF HoldIInv, HoldInserts, HoldTypeOK
<1>3. ASSUME NEW g \in Handler PROVE InHand(g)'
  BY DEF HoldIInv, HoldInserts, InHand, HoldTypeOK
<1>4. ASSUME NEW z \in Shift PROVE Overshoot(z)'
  <2>1. CASE z = s
    <3>1. o \notin Held(z) /\ h \in PastCount(z)
      BY <2>1 DEF HoldInserts, Held, PastCount
    <3>2. Held(z)' = Held(z) \cup {o}
      BY <2>1 DEF HoldInserts, Held, HoldIInv, HoldTypeOK
    <3>3. PastCount(z)' = PastCount(z) \ {h}
      BY <2>1 DEF HoldInserts, PastCount, HoldIInv, HoldTypeOK
    <3> QED
      BY <3>1, <3>2, <3>3, HoldMoves DEF HoldIInv
  <2>2. CASE z # s
    <3>1. Held(z)' \subseteq Held(z)
      BY <2>2 DEF HoldInserts, Held, HoldIInv, HoldTypeOK
    <3>2. PastCount(z)' \subseteq PastCount(z)
      BY <2>2 DEF HoldInserts, PastCount, HoldIInv, HoldTypeOK
    <3> QED
      BY <3>1, <3>2, HoldShrinks DEF HoldIInv
  <2> QED
    BY <2>1, <2>2
<1> QED
  BY <1>1, <1>2, <1>3, <1>4 DEF HoldIInv

\* Every other step holds no more orders and counts for no more requests.
LEMMA HoldRest ==
  ASSUME HoldIInv, HoldTypeOK',
         (\A o \in lost : order[o].status # "none")',
         \A h \in Handler : InHand(h)',
         \A s \in Shift : Held(s)' \subseteq Held(s) /\ PastCount(s)' \subseteq PastCount(s)
  PROVE  HoldIInv'
BY HoldShrinks DEF HoldIInv

LEMMA HoldInductive == HoldIInv /\ [HoldNext]_holdVars => HoldIInv'
<1> SUFFICES ASSUME HoldIInv, [HoldNext]_holdVars PROVE HoldIInv'
  OBVIOUS
<1> USE DEF HoldIInv
<1>1. ASSUME NEW h \in Handler, HoldArms(h) PROVE HoldIInv'
  <2>1. HoldTypeOK'
    BY <1>1 DEF HoldArms, ExpiryJob, HoldTypeOK, Holdings, NoHold, InHand
  <2>2. \A g \in Handler : InHand(g)'
    BY <1>1 DEF HoldArms, ExpiryJob, HoldTypeOK, NoHold, InHand
  <2>3. \A s \in Shift : Held(s)' \subseteq Held(s) /\ PastCount(s)' \subseteq PastCount(s)
    BY <1>1 DEF HoldArms, HoldTypeOK, NoHold, Held, PastCount
  <2> QED
    BY <1>1, <2>1, <2>2, <2>3, HoldRest DEF HoldArms
<1>2. ASSUME NEW h \in Handler, NEW o \in Order, ReleaseReads(h, o) PROVE HoldIInv'
  <2>1. HoldTypeOK'
    BY <1>2 DEF ReleaseReads, HoldTypeOK, Holdings
  <2>2. \A g \in Handler : InHand(g)'
    BY <1>2 DEF ReleaseReads, HoldTypeOK, InHand
  <2>3. \A s \in Shift : Held(s)' \subseteq Held(s) /\ PastCount(s)' \subseteq PastCount(s)
    BY <1>2 DEF ReleaseReads, HoldTypeOK, Held, PastCount
  <2> QED
    BY <1>2, <2>1, <2>2, <2>3, HoldRest DEF ReleaseReads
<1>3. ASSUME NEW h \in Handler, ReleaseWrites(h) PROVE HoldIInv'
  <2>0. holding[h].order \in Order /\ order[holding[h].order].status # "none"
    BY <1>3 DEF ReleaseWrites, InHand
  <2>1. HoldTypeOK'
    BY <1>3, <2>0 DEF ReleaseWrites, HoldTypeOK, Holdings, Orders, NoHold
  <2>2. \A g \in Handler : InHand(g)'
    BY <1>3, <2>0 DEF ReleaseWrites, HoldTypeOK, NoHold, InHand, Orders
  <2>3. \A s \in Shift : Held(s)' \subseteq Held(s) /\ PastCount(s)' \subseteq PastCount(s)
    BY <1>3, <2>0 DEF ReleaseWrites, HoldTypeOK, NoHold, Held, PastCount, Orders
  <2>4. (\A o \in lost : order[o].status # "none")'
    BY <1>3, <2>0 DEF ReleaseWrites, HoldTypeOK, Orders
  <2> QED
    BY <2>1, <2>2, <2>3, <2>4, HoldRest
<1>4. ASSUME NEW h \in Handler, Fails(h) PROVE HoldIInv'
  <2>0. \A o \in Unarmed(h) : o \in Order /\ o \notin timer /\ order[o].status # "none"
    BY <1>4 DEF Unarmed, InHand
  <2>1. HoldTypeOK'
    BY <1>4, <2>0 DEF Fails, HoldTypeOK, Holdings, NoHold
  <2>2. \A g \in Handler : InHand(g)'
    BY <1>4 DEF Fails, HoldTypeOK, NoHold, InHand, Unarmed
  <2>3. \A s \in Shift : Held(s)' \subseteq Held(s) /\ PastCount(s)' \subseteq PastCount(s)
    BY <1>4 DEF Fails, HoldTypeOK, NoHold, Held, PastCount
  <2>4. (\A o \in lost : order[o].status # "none")'
    BY <1>4, <2>0 DEF Fails
  <2> QED
    BY <2>1, <2>2, <2>3, <2>4, HoldRest
<1>5. ASSUME NEW o \in Order, GrowsLate(o) PROVE HoldIInv'
  <2>0. order[o] \in Orders /\ order[o].status # "none" /\ order' = [order EXCEPT ![o].late = TRUE]
    BY <1>5 DEF GrowsLate, HoldTypeOK
  <2>1. HoldTypeOK'
    <3>1. order' \in [Order -> Orders] /\ \A p \in Order : order'[p].status = order[p].status
      BY <2>0 DEF HoldTypeOK, Orders
    <3> QED
      BY <1>5, <3>1 DEF GrowsLate, HoldTypeOK
  <2>2. \A g \in Handler : InHand(g)'
    BY <1>5 DEF GrowsLate, HoldTypeOK, InHand, Orders
  <2>3. \A s \in Shift : Held(s)' \subseteq Held(s) /\ PastCount(s)' \subseteq PastCount(s)
    BY <1>5 DEF GrowsLate, HoldTypeOK, Held, PastCount, Orders
  <2>4. (\A p \in lost : order[p].status # "none")'
    BY <1>5 DEF GrowsLate, HoldTypeOK, Orders
  <2> QED
    BY <2>1, <2>2, <2>3, <2>4, HoldRest
<1>6. ASSUME NEW o \in Order, TimerFires(o) PROVE HoldIInv'
  <2>1. HoldTypeOK'
    BY <1>6 DEF TimerFires, StillHeld, HoldTypeOK, Orders
  <2>2. \A g \in Handler : InHand(g)'
    BY <1>6 DEF TimerFires, StillHeld, HoldTypeOK, InHand, Orders
  <2>3. \A s \in Shift : Held(s)' \subseteq Held(s) /\ PastCount(s)' \subseteq PastCount(s)
    BY <1>6 DEF TimerFires, StillHeld, HoldTypeOK, Held, PastCount, Orders
  <2>4. (\A p \in lost : order[p].status # "none")'
    BY <1>6 DEF TimerFires, StillHeld, HoldTypeOK, Orders
  <2> QED
    BY <2>1, <2>2, <2>3, <2>4, HoldRest
<1>7. ASSUME NEW s \in Shift, ShiftCloses(s) PROVE HoldIInv'
  <2>1. HoldTypeOK'
    BY <1>7 DEF ShiftCloses, HoldTypeOK
  <2>2. \A g \in Handler : InHand(g)'
    BY <1>7 DEF ShiftCloses, InHand
  <2>3. \A z \in Shift : Held(z)' \subseteq Held(z) /\ PastCount(z)' \subseteq PastCount(z)
    BY <1>7 DEF ShiftCloses, Held, PastCount
  <2> QED
    BY <1>7, <2>1, <2>2, <2>3, HoldRest DEF ShiftCloses
<1>8. CASE Restart
  <2>0. \A h \in Handler : \A o \in Unarmed(h) : o \in Order /\ order[o].status # "none"
    BY DEF Unarmed, InHand
  <2>1. HoldTypeOK'
    BY <1>8, <2>0 DEF Restart, HoldTypeOK, Holdings, NoHold
  <2>2. \A g \in Handler : InHand(g)'
    BY <1>8 DEF Restart, NoHold, InHand
  <2>3. \A z \in Shift : Held(z)' \subseteq Held(z) /\ PastCount(z)' \subseteq PastCount(z)
    BY <1>8 DEF Restart, NoHold, Held, PastCount
  <2>4. (\A p \in lost : order[p].status # "none")'
    BY <1>8, <2>0 DEF Restart, HoldTypeOK
  <2> QED
    BY <2>1, <2>2, <2>3, <2>4, HoldRest
<1>9. ASSUME NEW o \in Order, TimerFails(o) PROVE HoldIInv'
  <2>0. order[o].status # "none"
    BY <1>9 DEF HoldTypeOK, TimerFails
  <2>1. HoldTypeOK'
    BY <1>9, <2>0 DEF TimerFails, HoldTypeOK
  <2>2. \A g \in Handler : InHand(g)'
    BY <1>9 DEF TimerFails, InHand
  <2>3. \A s \in Shift : Held(s)' \subseteq Held(s) /\ PastCount(s)' \subseteq PastCount(s)
    BY <1>9 DEF TimerFails, Held, PastCount
  <2>4. (\A p \in lost : order[p].status # "none")'
    BY <1>9, <2>0 DEF TimerFails
  <2> QED
    BY <2>1, <2>2, <2>3, <2>4, HoldRest
<1>10. CASE UNCHANGED holdVars
  BY <1>10 DEF holdVars, HoldTypeOK, InHand, Overshoot, Held, PastCount
<1> QED
  BY <1>1, <1>2, <1>3, <1>4, <1>5, <1>6, <1>7, <1>8, <1>9, <1>10, HoldReadsKeeps, HoldInsertsKeeps
     DEF HoldNext, Handling, TimerEnds

-----------------------------------------------------------------------------
(* What follows. *)

\* The rows, the timers and the requests past their count fit together.
THEOREM HoldInvariance == HoldSpec => []HoldIInv
BY HoldInitially, HoldInductive, PTL DEF HoldSpec

\* The limit of held orders is never passed by more than the requests that can be
\* past their count at once.  (holdOrder's count and insert.)
THEOREM LimitIsNearlyKept == HoldSpec => []OvershootIsBounded
<1>1. HoldIInv => OvershootIsBounded
  BY DEF HoldIInv, OvershootIsBounded, Overshoot, PastCount
<1> QED
  BY <1>1, HoldInvariance, PTL

\* No step, no timer and no second release takes a cart back.  (releaseHoldOrder,
\* expireHoldOrderIfStillHeld.)
THEOREM ReleasesStay == HoldSpec => ReleaseIsFinal
<1> DEFINE Stays == \A o \in Order : order[o].status = "released" => order'[o].status = "released"
<1>1. HoldIInv /\ [HoldNext]_holdVars => Stays
  <2> SUFFICES ASSUME HoldIInv, [HoldNext]_holdVars, NEW o \in Order, order[o].status = "released"
               PROVE  order'[o].status = "released"
    OBVIOUS
  <2> USE DEF HoldIInv, HoldTypeOK
  <2>1. ASSUME NEW h \in Handler, NEW p \in Order, HoldInserts(h, p) PROVE order'[o].status = "released"
    BY <2>1 DEF HoldInserts
  <2>2. ASSUME NEW h \in Handler, ReleaseWrites(h) PROVE order'[o].status = "released"
    BY <2>2 DEF ReleaseWrites, Orders
  <2>3. ASSUME NEW p \in Order, GrowsLate(p) PROVE order'[o].status = "released"
    BY <2>3 DEF GrowsLate, Orders
  <2>4. ASSUME NEW p \in Order, TimerFires(p) PROVE order'[o].status = "released"
    BY <2>4 DEF TimerFires, StillHeld, Orders
  <2>5. CASE UNCHANGED order
    BY <2>5
  <2> QED
    BY <2>1, <2>2, <2>3, <2>4, <2>5
       DEF HoldNext, Handling, HoldReads, HoldArms, ReleaseReads, Fails, TimerEnds, TimerFails,
           ShiftCloses, Restart, holdVars
<1> QED
  BY <1>1, HoldInvariance, PTL DEF HoldSpec, ReleaseIsFinal
=============================================================================
