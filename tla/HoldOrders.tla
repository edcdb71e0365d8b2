----------------------------- MODULE HoldOrders ------------------------------
(***************************************************************************)
(* Held carts of a branch's shifts (transactions.service.ts holdOrder,     *)
(* releaseHoldOrder) and the timers that expire them                       *)
(* (queues/hold-order.queue.ts).  No statement here takes a lock: a        *)
(* handler counts, then inserts; reads, then updates; and the timers live  *)
(* in the API's memory only.                                               *)
(***************************************************************************)
EXTENDS BranchShifts, Naturals

CONSTANTS Order,  \* hold_orders rows
          Limit   \* HOLD_ORDER_LIMIT_PER_TERMINAL

ASSUME SetsAreFinite == IsFiniteSet(Order) /\ IsFiniteSet(Handler)
ASSUME LimitIsPositive == Limit \in Nat \ {0}
ASSUME NoneIsNoOrder == None \notin Order \cup Shift \cup Handler

VARIABLES order,    \* the rows
          open,     \* shifts whose status is 'active'
          timer,    \* orders with a timer running in this process
          holding,  \* what each request in flight has read
          lost      \* ghost: orders whose timer failed, went down with the process, or was never set

holdVars == <<order, open, timer, holding, lost>>

Orders == [status : {"none", "held", "released", "expired"}, shift : Shift \cup {None},
           late : BOOLEAN]   \* expires_at has passed
Holdings == [op : {"none", "hold", "arm", "release"}, order : Order \cup {None}, shift : Shift \cup {None}]
NoHold == [op |-> "none", order |-> None, shift |-> None]

Held(s) == {o \in Order : order[o].status = "held" /\ order[o].shift = s}

Unarmed(h) == IF holding[h].op = "arm" THEN {holding[h].order} ELSE {}

HoldTypeOK ==
  /\ order \in [Order -> Orders]
  /\ open \subseteq Shift
  /\ timer \subseteq {o \in Order : order[o].status # "none"}
  /\ holding \in [Handler -> Holdings]
  /\ lost \subseteq Order \ timer

HoldInit ==
  /\ order = [o \in Order |-> [status |-> "none", shift |-> None, late |-> FALSE]]
  /\ open = Shift
  /\ timer = {} /\ lost = {}
  /\ holding = [h \in Handler |-> NoHold]
-----------------------------------------------------------------------------
\* Mutant: one held order too many passes the check.
RoomOffByOne(s) == Cardinality(Held(s)) <= Limit

\* countActiveHoldOrdersForShift against the limit
Room(s) == Cardinality(Held(s)) < Limit

\* holdOrder up to its insert: the shift is open and has room, now.
HoldReads(h, s) ==
  /\ holding[h].op = "none"
  /\ s \in open /\ Room(s)
  /\ holding' = [holding EXCEPT ![h] = [op |-> "hold", order |-> None, shift |-> s]]
  /\ UNCHANGED <<order, open, timer, lost>>

\* createHoldOrder
HoldInserts(h, o) ==
  /\ holding[h].op = "hold"
  /\ order[o].status = "none"
  /\ order' = [order EXCEPT ![o] = [status |-> "held", shift |-> holding[h].shift, late |-> FALSE]]
  /\ holding' = [holding EXCEPT ![h] = [op |-> "arm", order |-> o, shift |-> None]]
  /\ UNCHANGED <<open, timer, lost>>

ExpiryJob(h) == holding[h].order

\* enqueueHoldOrderExpiry, after the audit entry
HoldArms(h) ==
  /\ holding[h].op = "arm"
  /\ timer' = timer \cup {ExpiryJob(h)}
  /\ holding' = [holding EXCEPT ![h] = NoHold]
  /\ UNCHANGED <<order, open, lost>>

\* releaseHoldOrder, its read
ReleaseReads(h, o) ==
  /\ holding[h].op = "none"
  /\ order[o].status = "held"
  /\ holding' = [holding EXCEPT ![h] = [op |-> "release", order |-> o, shift |-> None]]
  /\ UNCHANGED <<order, open, timer, lost>>

\* releaseHoldOrder, its update by id: whatever the row has become since.
ReleaseWrites(h) ==
  /\ holding[h].op = "release"
  /\ order' = [order EXCEPT ![holding[h].order].status = "released"]
  /\ holding' = [holding EXCEPT ![h] = NoHold]
  /\ UNCHANGED <<open, timer, lost>>

\* A request fails between two statements.
Fails(h) ==
  /\ holding[h].op # "none"
  /\ holding' = [holding EXCEPT ![h] = NoHold]
  /\ lost' = lost \cup Unarmed(h)
  /\ UNCHANGED <<order, open, timer>>

\* HOLD_ORDER_EXPIRY_MS pass
GrowsLate(o) ==
  /\ order[o].status # "none" /\ ~order[o].late
  /\ order' = [order EXCEPT ![o].late = TRUE]
  /\ UNCHANGED <<open, timer, holding, lost>>

\* Mutant: the expiry overwrites whatever status it finds.
StillHeldAssumed(o) == TRUE

\* Mutant: the expiry spares orders of a closed shift.
StillHeldWhileOpen(o) == order[o].status = "held" /\ order[o].shift \in open

\* expireHoldOrderIfStillHeld's condition
StillHeld(o) == order[o].status = "held"

\* processHoldOrderExpiry
TimerFires(o) ==
  /\ o \in timer /\ order[o].late
  /\ timer' = timer \ {o}
  /\ order' = IF StillHeld(o) THEN [order EXCEPT ![o].status = "expired"] ELSE order
  /\ UNCHANGED <<open, holding, lost>>

\* The database refuses it: the error is logged, and nothing tries again.
TimerFails(o) ==
  /\ o \in timer /\ order[o].late
  /\ timer' = timer \ {o}
  /\ lost' = lost \cup {o}
  /\ UNCHANGED <<order, open, holding>>

\* Cash's closeShift and autoCloseShift do not look at held orders.
ShiftCloses(s) ==
  /\ s \in open
  /\ open' = open \ {s}
  /\ UNCHANGED <<order, timer, holding, lost>>

\* The API restarts: timers and requests are gone.
Restart ==
  /\ timer' = {}
  /\ holding' = [h \in Handler |-> NoHold]
  /\ lost' = lost \cup timer \cup UNION {Unarmed(h) : h \in Handler}
  /\ UNCHANGED <<order, open>>
-----------------------------------------------------------------------------
TimerEnds(o) == TimerFires(o) \/ TimerFails(o)

Handling(h) == HoldArms(h) \/ ReleaseWrites(h) \/ \E o \in Order : HoldInserts(h, o)

HoldNext ==
  \/ \E h \in Handler : \/ Handling(h) \/ Fails(h)
                        \/ \E s \in Shift : HoldReads(h, s)
                        \/ \E o \in Order : ReleaseReads(h, o)
  \/ \E o \in Order : GrowsLate(o) \/ TimerEnds(o)
  \/ \E s \in Shift : ShiftCloses(s)
  \/ Restart

\* Time passes and the event loop runs due timers, with whatever outcome; requests
\* need not come.
HoldFairness == \A o \in Order : WF_holdVars(GrowsLate(o)) /\ WF_holdVars(TimerEnds(o))

HoldSpec == HoldInit /\ [][HoldNext]_holdVars /\ HoldFairness
-----------------------------------------------------------------------------
\* The limit is counted without a lock, so it can be passed, but only by as many
\* orders as there are requests past their count at one time.  (holdOrder's count.)
OvershootIsBounded ==
  /\ HoldTypeOK
  /\ \A s \in Shift :
    LET late == {h \in Handler : holding[h].op = "hold" /\ holding[h].shift = s}
    IN Cardinality(Held(s)) + Cardinality(late) <= Limit + Cardinality(Handler) - 1

\* A cart handed back to a terminal never turns into an expired one, although its
\* timer still runs.  (expireHoldOrderIfStillHeld's condition, hold-order.queue.ts.)
ReleaseIsFinal ==
  [][\A o \in Order : order[o].status = "released" => order'[o].status = "released"]_holdVars

\* Every order whose timer is set leaves the shift's list, also when the shift has
\* closed meanwhile, unless the process goes down before or the timer's one attempt
\* fails (hold-order.queue.ts:21-27): nothing else expires an order.
TimedOrdersLeave ==
  \A o \in Order : o \in timer ~> order[o].status # "held" \/ o \in lost
=============================================================================
