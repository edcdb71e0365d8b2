------------------------ MODULE CheckoutAttempt_proofs ------------------------
(***************************************************************************)
(* For every number of requests, keys and carts: a key's attempt is        *)
(* committed exactly when the owner's sale exists, replays are faithful,   *)
(* refusals stay true, committed and abandoned keys stay that way, and     *)
(* what terminals are promised (CheckoutService) is kept.                  *)
(***************************************************************************)
EXTENDS CheckoutAttempt, TLAPS

\* What is known of one request: it carries a key and a cart once received, it
\* is answered only at the end, a winner it goes to fetch exists, and what it
\* was told is true.
Honest(r) ==
  /\ req[r].at # "idle" => req[r].key \in Key /\ req[r].cart \in Cart
  /\ req[r].at # "done" => req[r].answer = None
  /\ req[r].at \notin {"failing", "done"} => req[r].outcome = "NONE"
  /\ req[r].at = "failing" => req[r].outcome \in {"REJECTED", "TIMEOUT", "LOST_LEASE", "KEY_REUSE"}
  /\ req[r].at = "replay" => attempt[req[r].key].status = "committed"
  /\ req[r].at = "conflict" => SalesOf(req[r].key) # {}
  /\ req[r].answer # None =>
       /\ req[r].answer \in sold
       /\ req[req[r].answer].key = req[r].key
       /\ req[req[r].answer].cart = req[r].cart
  /\ req[r].outcome = "ABANDONED" => attempt[req[r].key].status = "abandoned"
  /\ req[r].outcome # "CONTENTION"

\* Only a finished request has a sale, and it was answered with it.
SellersAreDone ==
  \A r \in sold : req[r].at = "done" /\ req[r].outcome = "SOLD" /\ req[r].key \in Key

IInv ==
  /\ TypeOK
  /\ SellersAreDone
  /\ SaleIffOwnerCommitted
  /\ \A r \in Request : Honest(r)

\* Every step keeps the committed sales as they are and the terminal rows terminal.
Grows ==
  /\ sold \subseteq sold'
  /\ \A s \in sold : req'[s] = req[s]
  /\ \A k \in Key : attempt[k].status \in {"committed", "abandoned"} =>
       attempt'[k].status = attempt[k].status /\ attempt'[k].owner = attempt[k].owner

\* The request r is the only one a step touches, and it keeps its key and cart.
Touches(r) ==
  /\ \A q \in Request : q # r => req'[q] = req[q]
  /\ req'[r].key = req[r].key /\ req'[r].cart = req[r].cart

-----------------------------------------------------------------------------
\* The four shapes of a write to a request, and the two of a write to an attempt.
LEMMA MoveToType ==
  ASSUME TypeOK, NEW r \in Request, NEW p \in Points, MoveTo(r, p)
  PROVE  req' \in [Request -> Calls]
<1>1. req[r] \in Calls
  BY DEF TypeOK
<1>2. [req[r] EXCEPT !.at = p] \in Calls
  BY <1>1 DEF Calls
<1>3. req' = [req EXCEPT ![r] = [req[r] EXCEPT !.at = p]]
  BY DEF MoveTo
<1>4. QED
  BY <1>2, <1>3 DEF TypeOK

LEMMA AnswerType ==
  ASSUME TypeOK, NEW r \in Request, NEW o \in Outcomes, NEW s \in Request \cup {None},
         Answer(r, o, s)
  PROVE  req' \in [Request -> Calls]
<1>1. req[r] \in Calls
  BY DEF TypeOK
<1>2. [req[r] EXCEPT !.at = "done", !.outcome = o, !.answer = s] \in Calls
  BY <1>1 DEF Calls, Points
<1>3. req' = [req EXCEPT ![r] = [req[r] EXCEPT !.at = "done", !.outcome = o, !.answer = s]]
  BY DEF Answer
<1>4. QED
  BY <1>2, <1>3 DEF TypeOK

LEMMA FailType ==
  ASSUME TypeOK, NEW r \in Request, NEW o \in Outcomes, Fail(r, o)
  PROVE  req' \in [Request -> Calls]
<1>1. req[r] \in Calls
  BY DEF TypeOK
<1>2. [req[r] EXCEPT !.at = "failing", !.outcome = o] \in Calls
  BY <1>1 DEF Calls, Points
<1>3. req' = [req EXCEPT ![r] = [req[r] EXCEPT !.at = "failing", !.outcome = o]]
  BY DEF Fail
<1>4. QED
  BY <1>2, <1>3 DEF TypeOK

LEMMA MoveToShape ==
  ASSUME TypeOK, NEW r \in Request, NEW p, MoveTo(r, p)
  PROVE  /\ Touches(r)
         /\ req'[r].at = p /\ req'[r].outcome = req[r].outcome /\ req'[r].answer = req[r].answer
BY DEF TypeOK, Calls, MoveTo, Touches

LEMMA AnswerShape ==
  ASSUME TypeOK, NEW r \in Request, NEW o, NEW s, Answer(r, o, s)
  PROVE  Touches(r) /\ req'[r].at = "done" /\ req'[r].outcome = o /\ req'[r].answer = s
BY DEF TypeOK, Calls, Answer, Touches

LEMMA FailShape ==
  ASSUME TypeOK, NEW r \in Request, NEW o, Fail(r, o)
  PROVE  /\ Touches(r)
         /\ req'[r].at = "failing" /\ req'[r].outcome = o /\ req'[r].answer = req[r].answer
BY DEF TypeOK, Calls, Fail, Touches

LEMMA StatusShape ==
  ASSUME TypeOK, NEW k \in Key, NEW st, attempt' = [attempt EXCEPT ![k].status = st]
  PROVE  /\ attempt'[k].status = st /\ attempt'[k].owner = attempt[k].owner
         /\ \A j \in Key : j # k => attempt'[j] = attempt[j]
BY DEF TypeOK, Attempts

LEMMA StatusType ==
  ASSUME TypeOK, NEW k, NEW st \in Statuses,
         attempt' = [attempt EXCEPT ![k].status = st]
  PROVE  attempt' \in [Key -> Attempts]
<1>1. CASE k \in Key
  <2>1. attempt[k] \in Attempts
    BY <1>1 DEF TypeOK
  <2>2. [attempt[k] EXCEPT !.status = st] \in Attempts
    BY <2>1 DEF Attempts
  <2>3. attempt' = [attempt EXCEPT ![k] = [attempt[k] EXCEPT !.status = st]]
    OBVIOUS
  <2>4. QED
    BY <2>2, <2>3 DEF TypeOK
<1>2. CASE k \notin Key
  BY <1>2 DEF TypeOK
<1>3. QED
  BY <1>1, <1>2

\* Type correctness: every action of createTransaction, the lease and the abandon
\* leaves the attempt rows and the requests in their declared sets.
THEOREM TypeCorrect == Spec => []TypeOK
<1>1. Init => TypeOK
  <2> SUFFICES ASSUME Init PROVE TypeOK
    OBVIOUS
  <2>1. attempt \in [Key -> Attempts]
    BY DEF Init, Attempts, Statuses
  <2>2. [at |-> "idle", key |-> None, cart |-> None, retried |-> FALSE,
         outcome |-> "NONE", answer |-> None] \in Calls
    BY DEF Calls, Points, Outcomes
  <2>3. req \in [Request -> Calls]
    BY <2>2 DEF Init
  <2>4. QED
    BY <2>1, <2>3 DEF Init, TypeOK
<1>2. TypeOK /\ [Next]_vars => TypeOK'
  <2> SUFFICES ASSUME TypeOK, [Next]_vars PROVE TypeOK'
    OBVIOUS
  <2>1. ASSUME NEW r \in Request, NEW k \in Key, NEW c \in Cart, Receive(r, k, c)
        PROVE  TypeOK'
    <3>1. req[r] \in Calls
      BY DEF TypeOK
    <3>2. [req[r] EXCEPT !.at = "lookup", !.key = k, !.cart = c] \in Calls
      BY <3>1 DEF Calls, Points
    <3>3. req' = [req EXCEPT ![r] = [req[r] EXCEPT !.at = "lookup", !.key = k, !.cart = c]]
      BY <2>1 DEF Receive
    <3>4. QED
      BY <2>1, <3>2, <3>3 DEF Receive, TypeOK
  <2>2. ASSUME NEW r \in Request, Lookup(r)
        PROVE  TypeOK'
    BY <2>2, MoveToType, AnswerType DEF Lookup, SalesOf, TypeOK, Points, Outcomes
  <2>3. ASSUME NEW r \in Request, Claim(r)
        PROVE  TypeOK'
    <3>1. attempt' \in [Key -> Attempts]
      <4>1. [status |-> "in_progress", owner |-> r, live |-> TRUE] \in Attempts
        BY DEF Attempts, Statuses
      <4>2. QED
        BY <2>3, <4>1 DEF Claim, TypeOK
    <3>2. req' \in [Request -> Calls]
      BY <2>3, MoveToType DEF Claim, Points
    <3>3. QED
      BY <2>3, <3>1, <3>2 DEF Claim, TypeOK
  <2>4. ASSUME NEW r \in Request, Reread(r)
        PROVE  TypeOK'
    BY <2>4, MoveToType, AnswerType DEF Reread, TypeOK, Points, Outcomes
  <2>5. ASSUME NEW r \in Request, Settle(r)
        PROVE  TypeOK'
    <3>1. req[r] \in Calls
      BY DEF TypeOK
    <3>2. [req[r] EXCEPT !.at = "claim", !.retried = TRUE] \in Calls
      BY <3>1 DEF Calls, Points
    <3>3. req' = [req EXCEPT ![r] = [req[r] EXCEPT !.at = "claim", !.retried = TRUE]]
      BY <2>5 DEF Settle
    <3>4. QED
      BY <2>5, <3>2, <3>3 DEF Settle, TypeOK
  <2>6. ASSUME NEW r \in Request, SettleTimeout(r)
        PROVE  TypeOK'
    BY <2>6, AnswerType DEF SettleTimeout, TypeOK, Outcomes
  <2>7. ASSUME NEW r \in Request, Replay(r)
        PROVE  TypeOK'
    BY <2>7, AnswerType DEF Replay, SalesOf, TypeOK, Outcomes
  <2>8. ASSUME NEW r \in Request, Validate(r)
        PROVE  TypeOK'
    BY <2>8, MoveToType, FailType DEF Validate, TypeOK, Points, Outcomes
  <2>9. ASSUME NEW r \in Request, InsertSale(r)
        PROVE  TypeOK'
    BY <2>9, MoveToType DEF InsertSale, TypeOK, Points
  <2>10. ASSUME NEW r \in Request, FenceAndCommit(r)
        PROVE  TypeOK'
    BY <2>10, AnswerType, FailType, StatusType DEF FenceAndCommit, TypeOK, Statuses, Outcomes
  <2>11. ASSUME NEW r \in Request, Rollback(r)
        PROVE  TypeOK'
    BY <2>11, FailType DEF Rollback, TypeOK, Outcomes
  <2>12. ASSUME NEW r \in Request, Conflict(r)
        PROVE  TypeOK'
    BY <2>12, AnswerType, FailType DEF Conflict, SalesOf, TypeOK, Outcomes
  <2>13. ASSUME NEW r \in Request, FailAttempt(r)
        PROVE  TypeOK'
    <3>1. req[r].outcome \in Outcomes
      BY DEF TypeOK, Calls
    <3>2. req' \in [Request -> Calls]
      BY <2>13, <3>1, AnswerType DEF FailAttempt
    <3>3. attempt' \in [Key -> Attempts]
      BY <2>13, StatusType DEF FailAttempt, TypeOK, Statuses
    <3>4. QED
      BY <2>13, <3>2, <3>3 DEF FailAttempt, TypeOK
  <2>14. ASSUME NEW r \in Request, Crash(r)
        PROVE  TypeOK'
    BY <2>14, AnswerType DEF Crash, TypeOK, Outcomes
  <2>15. ASSUME NEW k \in Key, LeaseExpires(k)
        PROVE  TypeOK'
    <3>1. attempt[k] \in Attempts
      BY DEF TypeOK
    <3>2. [attempt[k] EXCEPT !.live = FALSE] \in Attempts
      BY <3>1 DEF Attempts
    <3>3. attempt' = [attempt EXCEPT ![k] = [attempt[k] EXCEPT !.live = FALSE]]
      BY <2>15 DEF LeaseExpires
    <3>4. QED
      BY <2>15, <3>2, <3>3 DEF LeaseExpires, TypeOK
  <2>16. ASSUME NEW k \in Key, Abandon(k)
        PROVE  TypeOK'
    BY <2>16, StatusType DEF Abandon, TypeOK, Statuses
  <2>17. CASE UNCHANGED vars
    BY <2>17 DEF vars, TypeOK
  <2>18. QED
    BY <2>1, <2>2, <2>3, <2>4, <2>5, <2>6, <2>7, <2>8, <2>9, <2>10, <2>11, <2>12, <2>13,
       <2>14, <2>15, <2>16, <2>17 DEF Next, Step
<1>3. QED
  BY <1>1, <1>2, PTL DEF Spec

-----------------------------------------------------------------------------
\* What a request was told stays true through every step that leaves it alone.
LEMMA HonestStays ==
  ASSUME IInv, Grows, NEW q \in Request, req'[q] = req[q]
  PROVE  Honest(q)'
<1>1. Honest(q)
  BY DEF IInv
<1>2. \A k \in Key : SalesOf(k) \subseteq SalesOf(k)'
  BY DEF Grows, SalesOf
<1>3. req[q].answer # None => req'[req[q].answer] = req[req[q].answer]
  BY <1>1 DEF Honest, Grows
<1>4. QED
  BY <1>1, <1>2, <1>3 DEF Honest, Grows, SellersAreDone, IInv, TypeOK, Calls

\* A step that leaves the rows and the sales alone touches no seller.
LEMMA QuietStepGrows ==
  ASSUME IInv, NEW r \in Request, req[r].at # "done", Touches(r), UNCHANGED <<attempt, sold>>
  PROVE  Grows
BY DEF IInv, SellersAreDone, Touches, Grows, TypeOK

\* The invariant after a step of r that leaves rows and sales alone.
LEMMA QuietStep ==
  ASSUME IInv, TypeOK', NEW r \in Request, req[r].at # "done", Touches(r),
         UNCHANGED <<attempt, sold>>, Honest(r)'
  PROVE  IInv'
<1>1. Grows
  BY QuietStepGrows
<1>2. \A q \in Request : Honest(q)'
  BY <1>1, HonestStays DEF Touches
<1>3. SellersAreDone'
  BY <1>1 DEF Grows, IInv, SellersAreDone
<1>4. \A k \in Key : SalesOf(k) \subseteq SalesOf(k)'
  BY <1>1 DEF Grows, SalesOf
<1>5. SaleIffOwnerCommitted'
  BY <1>1, <1>4 DEF Grows, IInv, SaleIffOwnerCommitted
<1>6. QED
  BY <1>2, <1>3, <1>5 DEF IInv

\* The invariant after a step that rewrites the row of a key that is not
\* terminal, and makes it anything but committed.
LEMMA RowStep ==
  ASSUME IInv, TypeOK', NEW k \in Key,
         attempt[k].status \notin {"committed", "abandoned"},
         attempt'[k].status # "committed",
         \A j \in Key : j # k => attempt'[j] = attempt[j],
         UNCHANGED sold, \A s \in sold : req'[s] = req[s]
  PROVE  /\ Grows
         /\ SellersAreDone'
         /\ SaleIffOwnerCommitted'
<1>1. Grows
  BY DEF Grows
<1>2. SellersAreDone'
  BY DEF IInv, SellersAreDone
<1>3. \A j \in Key : SalesOf(j) \subseteq SalesOf(j)'
  BY <1>1 DEF Grows, SalesOf
<1>4. \A s \in sold : req[s].key \in Key /\ req[s].key # k
  BY DEF IInv, SellersAreDone, SaleIffOwnerCommitted
<1>5. SaleIffOwnerCommitted'
  BY <1>1, <1>3, <1>4 DEF Grows, IInv, SaleIffOwnerCommitted
<1>6. QED
  BY <1>1, <1>2, <1>5

\* The ways a request that leaves rows and sales alone can end or go on.
LEMMA ReplayStep ==
  ASSUME IInv, TypeOK', NEW r \in Request, req[r].at \notin {"idle", "done"},
         UNCHANGED <<attempt, sold>>, NEW s \in SalesOf(req[r].key), ReplayMatches(r, s),
         Answer(r, "REPLAYED", s)
  PROVE  IInv' /\ Grows
<1>1. Touches(r) /\ req'[r].at = "done" /\ req'[r].outcome = "REPLAYED" /\ req'[r].answer = s
  BY AnswerShape DEF IInv
<1>2. s \in Request /\ s # r /\ s \in sold /\ req[s].key = req[r].key
  BY DEF SalesOf, TypeOK, IInv, SellersAreDone
<1>3. Honest(r)'
  BY <1>1, <1>2 DEF Touches, ReplayMatches, IInv, Honest
<1>4. QED
  BY <1>1, <1>3, QuietStep, QuietStepGrows

LEMMA RefuseStep ==
  ASSUME IInv, TypeOK', NEW r \in Request, req[r].at \notin {"idle", "done"},
         UNCHANGED <<attempt, sold>>, NEW o, Answer(r, o, None), o # "CONTENTION",
         o = "ABANDONED" => attempt[req[r].key].status = "abandoned"
  PROVE  IInv' /\ Grows
<1>1. Touches(r) /\ req'[r].at = "done" /\ req'[r].outcome = o /\ req'[r].answer = None
  BY AnswerShape DEF IInv
<1>2. Honest(r)'
  BY <1>1 DEF Touches, IInv, Honest
<1>3. QED
  BY <1>1, <1>2, QuietStep, QuietStepGrows

LEMMA AdvanceStep ==
  ASSUME IInv, TypeOK', NEW r \in Request, req[r].at \notin {"idle", "failing", "done"},
         UNCHANGED <<attempt, sold>>, NEW p, MoveTo(r, p), p \notin {"failing", "done"},
         p = "replay" => attempt[req[r].key].status = "committed",
         p = "conflict" => SalesOf(req[r].key) # {}
  PROVE  IInv' /\ Grows
<1>1. Touches(r) /\ req'[r].at = p /\ req'[r].outcome = req[r].outcome
      /\ req'[r].answer = req[r].answer
  BY MoveToShape DEF IInv
<1>2. Grows
  BY <1>1, QuietStepGrows
<1>3. SalesOf(req[r].key) \subseteq SalesOf(req[r].key)'
  BY <1>1, <1>2 DEF SalesOf, Grows, Touches
<1>4. Honest(r)'
  BY <1>1, <1>3 DEF Touches, IInv, Honest
<1>5. QED
  BY <1>1, <1>2, <1>4, QuietStep

LEMMA FailStep ==
  ASSUME IInv, TypeOK', NEW r \in Request, req[r].at \notin {"idle", "failing", "done"},
         UNCHANGED <<attempt, sold>>,
         NEW o \in {"REJECTED", "TIMEOUT", "LOST_LEASE", "KEY_REUSE"}, Fail(r, o)
  PROVE  IInv' /\ Grows
<1>1. Touches(r) /\ req'[r].at = "failing" /\ req'[r].outcome = o
      /\ req'[r].answer = req[r].answer
  BY FailShape DEF IInv
<1>2. Honest(r)'
  BY <1>1 DEF Touches, IInv, Honest
<1>3. QED
  BY <1>1, <1>2, QuietStep, QuietStepGrows

\* Every step preserves the invariant and only ever adds sales.
LEMMA Inductive ==
  ASSUME IInv, TypeOK', [Next]_vars
  PROVE  IInv' /\ Grows
<1> USE DEF Honest
<1>a. \A q \in Request : Honest(q)
  BY DEF IInv
<1>b. TypeOK
  BY DEF IInv
<1>1. ASSUME NEW r \in Request, NEW k \in Key, NEW c \in Cart, Receive(r, k, c)
      PROVE  IInv' /\ Grows
  <2>1. req[r].at = "idle" /\ r \notin sold /\ UNCHANGED <<attempt, sold>>
    BY <1>1 DEF Receive, IInv, SellersAreDone
  <2>2. /\ req'[r].at = "lookup" /\ req'[r].key = k /\ req'[r].cart = c
        /\ req'[r].outcome = req[r].outcome /\ req'[r].answer = req[r].answer
        /\ \A q \in Request : q # r => req'[q] = req[q]
    BY <1>1, <1>b DEF Receive, TypeOK, Calls
  <2>3. Grows
    BY <1>1, <2>1, <2>2, <1>b DEF Grows, Receive, TypeOK
  <2>4. Honest(r)'
    BY <2>1, <2>2, <1>a
  <2>5. \A q \in Request : Honest(q)'
    BY <2>2, <2>3, <2>4, HonestStays
  <2>6. SellersAreDone'
    BY <2>1, <2>3 DEF Grows, IInv, SellersAreDone
  <2>7. \A j \in Key : SalesOf(j) \subseteq SalesOf(j)'
    BY <2>3 DEF Grows, SalesOf
  <2>8. SaleIffOwnerCommitted'
    BY <2>1, <2>3, <2>7 DEF Grows, IInv, SaleIffOwnerCommitted
  <2>9. QED
    BY <2>3, <2>5, <2>6, <2>8 DEF IInv
<1>2. ASSUME NEW r \in Request, Lookup(r)
      PROVE  IInv' /\ Grows
  BY <1>2, ReplayStep, RefuseStep, AdvanceStep DEF Lookup
<1>3. ASSUME NEW r \in Request, Claim(r)
      PROVE  IInv' /\ Grows
  <2>1. req[r].key \in Key /\ req[r].at = "claim"
    BY <1>3, <1>a DEF Claim
  <2>2. CASE Claimable(req[r].key)
    <3>1. MoveTo(r, "validate") /\ UNCHANGED sold
          /\ attempt' = [attempt EXCEPT ![req[r].key] =
                           [status |-> "in_progress", owner |-> r, live |-> TRUE]]
      BY <1>3, <2>2 DEF Claim
    <3>2. /\ attempt'[req[r].key].status = "in_progress"
          /\ \A j \in Key : j # req[r].key => attempt'[j] = attempt[j]
      BY <1>b, <2>1, <3>1 DEF TypeOK
    <3>3. Touches(r) /\ req'[r].at = "validate" /\ req'[r].outcome = req[r].outcome
          /\ req'[r].answer = req[r].answer
      BY <1>b, <3>1, MoveToShape
    <3>4. \A s \in sold : req'[s] = req[s]
      BY <1>b, <2>1, <3>3 DEF Touches, IInv, SellersAreDone, TypeOK
    <3>5. attempt[req[r].key].status \notin {"committed", "abandoned"}
      BY <2>2 DEF Claimable
    <3>6. Grows /\ SellersAreDone' /\ SaleIffOwnerCommitted'
      BY <2>1, <3>1, <3>2, <3>4, <3>5, RowStep
    <3>7. \A q \in Request : q # r => Honest(q)'
      BY <3>3, <3>6, HonestStays DEF Touches
    <3>8. Honest(r)'
      BY <1>a, <2>1, <3>3 DEF Touches
    <3>9. QED
      BY <3>6, <3>7, <3>8 DEF IInv
  <2>3. CASE ~Claimable(req[r].key)
    BY <1>3, <2>1, <2>3, AdvanceStep DEF Claim
  <2>4. QED
    BY <2>2, <2>3
<1>4. ASSUME NEW r \in Request, Reread(r)
      PROVE  IInv' /\ Grows
  BY <1>4, RefuseStep, AdvanceStep DEF Reread
<1>5. ASSUME NEW r \in Request, Settle(r)
      PROVE  IInv' /\ Grows
  <2>1. /\ Touches(r) /\ req'[r].at = "claim" /\ req'[r].outcome = req[r].outcome
        /\ req'[r].answer = req[r].answer
    BY <1>5, <1>b DEF Settle, TypeOK, Calls, Touches
  <2>2. Honest(r)'
    BY <1>5, <1>a, <2>1 DEF Settle, Touches
  <2>3. QED
    BY <1>5, <2>1, <2>2, QuietStep, QuietStepGrows DEF Settle
<1>6. ASSUME NEW r \in Request, SettleTimeout(r)
      PROVE  IInv' /\ Grows
  BY <1>6, RefuseStep DEF SettleTimeout
<1>7. ASSUME NEW r \in Request, Replay(r)
      PROVE  IInv' /\ Grows
  <2>1. SalesOf(req[r].key) # {}
    BY <1>7, <1>a DEF Replay, IInv, SaleIffOwnerCommitted
  <2>2. QED
    BY <1>7, <2>1, ReplayStep, RefuseStep DEF Replay
<1>8. ASSUME NEW r \in Request, Validate(r)
      PROVE  IInv' /\ Grows
  BY <1>8, AdvanceStep, FailStep DEF Validate
<1>9. ASSUME NEW r \in Request, InsertSale(r)
      PROVE  IInv' /\ Grows
  BY <1>9, AdvanceStep DEF InsertSale
<1>10. ASSUME NEW r \in Request, FenceAndCommit(r)
      PROVE  IInv' /\ Grows
  <2>1. req[r].at = "fence" /\ req[r].key \in Key
    BY <1>10, <1>a DEF FenceAndCommit
  <2>2. CASE Owns(r)
    <3>1. /\ attempt' = [attempt EXCEPT ![req[r].key].status = "committed"]
          /\ sold' = sold \cup {r}
          /\ Answer(r, "SOLD", r)
      BY <1>10, <2>2 DEF FenceAndCommit
    <3>2. /\ attempt'[req[r].key].status = "committed" /\ attempt'[req[r].key].owner = r
          /\ \A j \in Key : j # req[r].key => attempt'[j] = attempt[j]
      BY <1>b, <2>1, <2>2, <3>1, StatusShape DEF Owns
    <3>3. Touches(r) /\ req'[r].at = "done" /\ req'[r].outcome = "SOLD" /\ req'[r].answer = r
      BY <1>b, <3>1, AnswerShape
    <3>4. r \notin sold /\ \A s \in sold : s \in Request /\ req'[s] = req[s]
      BY <1>b, <2>1, <3>3 DEF Touches, IInv, SellersAreDone, TypeOK
    <3>5. Grows
      BY <2>2, <3>1, <3>2, <3>4 DEF Grows, Owns
    <3>6. \A q \in Request : q # r => Honest(q)'
      BY <3>3, <3>5, HonestStays DEF Touches
    <3>7. Honest(r)'
      BY <1>a, <2>1, <3>1, <3>3 DEF Touches
    <3>8. SellersAreDone'
      BY <2>1, <3>1, <3>3, <3>4 DEF Touches, IInv, SellersAreDone
    <3>9. \A s \in sold : req[s].key \in Key /\ req[s].key # req[r].key
      BY <2>2 DEF Owns, IInv, SellersAreDone, SaleIffOwnerCommitted
    <3>10. \A j \in Key : SalesOf(j) \subseteq SalesOf(j)'
      BY <3>5 DEF Grows, SalesOf
    <3>11. r \in SalesOf(req[r].key)'
      BY <3>1, <3>3 DEF SalesOf, Touches
    <3>12. \A k \in Key : attempt'[k].status = "committed" => SalesOf(k)' # {}
      BY <3>2, <3>10, <3>11, <3>3 DEF Touches, IInv, SaleIffOwnerCommitted
    <3>13. SaleIffOwnerCommitted'
      BY <2>1, <3>1, <3>2, <3>3, <3>4, <3>9, <3>12 DEF Touches, IInv, SaleIffOwnerCommitted
    <3>14. QED
      BY <3>5, <3>6, <3>7, <3>8, <3>13 DEF IInv
  <2>3. CASE ~Owns(r)
    BY <1>10, <2>1, <2>3, FailStep DEF FenceAndCommit
  <2>4. QED
    BY <2>2, <2>3
<1>11. ASSUME NEW r \in Request, Rollback(r)
      PROVE  IInv' /\ Grows
  BY <1>11, FailStep DEF Rollback
<1>12. ASSUME NEW r \in Request, Conflict(r)
      PROVE  IInv' /\ Grows
  BY <1>12, ReplayStep, FailStep DEF Conflict
<1>13. ASSUME NEW r \in Request, FailAttempt(r)
      PROVE  IInv' /\ Grows
  <2>1. /\ req[r].at = "failing" /\ req[r].key \in Key /\ Answer(r, req[r].outcome, None)
        /\ req[r].outcome \in {"REJECTED", "TIMEOUT", "LOST_LEASE", "KEY_REUSE"}
    BY <1>13, <1>a DEF FailAttempt
  <2>2. CASE UNCHANGED attempt
    BY <1>13, <2>1, <2>2, RefuseStep DEF FailAttempt
  <2>3. CASE Owns(r) /\ attempt' = [attempt EXCEPT ![req[r].key].status = "failed"]
    <3>1. /\ attempt'[req[r].key].status = "failed"
          /\ \A j \in Key : j # req[r].key => attempt'[j] = attempt[j]
      BY <1>b, <2>1, <2>3, StatusShape
    <3>2. Touches(r) /\ req'[r].at = "done" /\ req'[r].outcome = req[r].outcome
          /\ req'[r].answer = None
      BY <1>b, <2>1, AnswerShape
    <3>3. \A s \in sold : req'[s] = req[s]
      BY <1>b, <2>1, <3>2 DEF Touches, IInv, SellersAreDone, TypeOK
    <3>4. Grows /\ SellersAreDone' /\ SaleIffOwnerCommitted'
      BY <1>13, <2>1, <2>3, <3>1, <3>3, RowStep DEF FailAttempt, Owns
    <3>5. \A q \in Request : q # r => Honest(q)'
      BY <3>2, <3>4, HonestStays DEF Touches
    <3>6. Honest(r)'
      BY <1>a, <2>1, <3>2 DEF Touches
    <3>7. QED
      BY <3>4, <3>5, <3>6 DEF IInv
  <2>4. QED
    BY <1>13, <2>2, <2>3 DEF FailAttempt
<1>14. ASSUME NEW r \in Request, Crash(r)
      PROVE  IInv' /\ Grows
  BY <1>14, RefuseStep DEF Crash
<1>15. ASSUME NEW k \in Key, LeaseExpires(k)
      PROVE  IInv' /\ Grows
  <2>1. /\ attempt[k].status = "in_progress" /\ attempt'[k].status = "in_progress"
        /\ \A j \in Key : j # k => attempt'[j] = attempt[j]
        /\ UNCHANGED <<req, sold>>
    BY <1>15, <1>b DEF LeaseExpires, TypeOK, Attempts
  <2>2. Grows /\ SellersAreDone' /\ SaleIffOwnerCommitted'
    BY <2>1, RowStep
  <2>3. QED
    BY <2>1, <2>2, HonestStays DEF IInv
<1>16. ASSUME NEW k \in Key, Abandon(k)
      PROVE  IInv' /\ Grows
  <2>1. CASE attempt[k].status = "abandoned"
    BY <1>16, <2>1 DEF Abandon, Claimable
  <2>2. CASE attempt[k].status # "abandoned"
    <3>1. /\ attempt[k].status # "committed" /\ attempt'[k].status = "abandoned"
          /\ \A j \in Key : j # k => attempt'[j] = attempt[j]
          /\ UNCHANGED <<req, sold>>
      BY <1>16, <1>b, StatusShape DEF Abandon, Claimable
    <3>2. Grows /\ SellersAreDone' /\ SaleIffOwnerCommitted'
      BY <2>2, <3>1, RowStep
    <3>3. QED
      BY <3>1, <3>2, HonestStays DEF IInv
  <2>3. QED
    BY <2>1, <2>2
<1>17. CASE UNCHANGED vars
  <2>1. Grows
    BY <1>17 DEF vars, Grows
  <2>2. \A q \in Request : Honest(q)'
    BY <1>17, <2>1, HonestStays DEF vars
  <2>3. QED
    BY <1>17, <2>1, <2>2 DEF vars, IInv, SellersAreDone, SaleIffOwnerCommitted, SalesOf
<1>18. QED
  BY <1>1, <1>2, <1>3, <1>4, <1>5, <1>6, <1>7, <1>8, <1>9, <1>10, <1>11, <1>12, <1>13,
     <1>14, <1>15, <1>16, <1>17 DEF Next, Step

-----------------------------------------------------------------------------
\* The inductive invariant holds of every execution.
THEOREM Invariance == Spec => []IInv
<1>1. Init /\ TypeOK => IInv
  BY NoneIsFresh DEF Init, IInv, SellersAreDone, SaleIffOwnerCommitted, Honest
<1>2. IInv /\ TypeOK' /\ [Next]_vars => IInv'
  BY Inductive
<1>3. QED
  BY <1>1, <1>2, TypeCorrect, PTL DEF Spec

\* A key is committed exactly when its owner's sale exists, so no key ever has two.
THEOREM SalesAreFenced == Spec => []SaleIffOwnerCommitted
<1>1. IInv => SaleIffOwnerCommitted
  BY DEF IInv
<1>2. QED
  BY <1>1, Invariance, PTL

\* At most one sale per idempotency key, whatever races, crashes or expires.
THEOREM AtMostOneSalePerKey ==
  Spec => [](\A r, s \in sold : req[r].key = req[s].key => r = s)
<1>1. IInv => \A r, s \in sold : req[r].key = req[s].key => r = s
  BY DEF IInv, SaleIffOwnerCommitted
<1>2. QED
  BY <1>1, Invariance, PTL

\* Every replayed sale is a committed sale of the caller's own key and cart.
THEOREM ReplaysAreFaithful == Spec => []ReplayIsFaithful
<1>1. IInv => ReplayIsFaithful
  BY DEF IInv, Honest, ReplayIsFaithful
<1>2. QED
  BY <1>1, Invariance, PTL

\* What a refused caller was told stays true.
THEOREM RefusalsStayTrue == Spec => []RefusalsAreTrue
<1>1. IInv => RefusalsAreTrue
  BY DEF IInv, Honest, SellersAreDone, RefusalsAreTrue
<1>2. QED
  BY <1>1, Invariance, PTL

\* Committed and abandoned keys never change status again.
THEOREM TerminalRowsAreFinal == Spec => TerminalIsFinal
<1>1. IInv /\ TypeOK' /\ [Next]_vars =>
        [\A k \in Key : attempt[k].status \in {"committed", "abandoned"}
           => attempt'[k].status = attempt[k].status]_vars
  BY Inductive DEF Grows
<1>2. QED
  BY <1>1, Invariance, TypeCorrect, PTL DEF Spec, TerminalIsFinal

\* An attempt leaves 'in_progress' for 'committed' or 'failed' only at the hands of
\* the request that last claimed it: the fence of the sale's own transaction and
\* the owner token of failCheckoutAttempt keep a superseded request out.
THEOREM OwnersSettle == Spec => OnlyTheOwnerSettles
<1> DEFINE Settled(k) == attempt[k].status = "in_progress" /\ attempt'[k].status \in {"committed", "failed"}
           Moved(r) == req'[r].at # req[r].at
<1>1. ASSUME IInv, NEW q \in Request, FenceAndCommit(q) \/ FailAttempt(q),
             NEW k \in Key, Settled(k), NEW r \in Request, Moved(r)
      PROVE  attempt[k].owner = r
  <2>1. Touches(q)
    BY <1>1, AnswerShape, FailShape DEF IInv, FenceAndCommit, FailAttempt
  <2>2. q = r
    BY <1>1, <2>1 DEF Touches
  <2>3. req[q].key \in Key
    BY <1>1 DEF IInv, Honest, FenceAndCommit, FailAttempt
  <2>4. attempt' # attempt
    BY <1>1
  <2>5. /\ Owns(q)
        /\ \A j \in Key : j # req[q].key => attempt'[j] = attempt[j]
    BY <1>1, <2>3, <2>4, StatusShape DEF IInv, FenceAndCommit, FailAttempt
  <2>6. k = req[q].key
    BY <1>1, <2>5
  <2>7. QED
    BY <2>2, <2>5, <2>6 DEF Owns
<1>2. ASSUME IInv, NEW q \in Request, Claim(q), NEW k \in Key
      PROVE  ~Settled(k)
  BY <1>2 DEF IInv, TypeOK, Claim
<1>3. ASSUME IInv, NEW j \in Key, LeaseExpires(j) \/ Abandon(j), NEW k \in Key
      PROVE  ~Settled(k)
  BY <1>3 DEF IInv, TypeOK, Attempts, LeaseExpires, Abandon
<1>4. ASSUME UNCHANGED attempt, NEW k \in Key
      PROVE  ~Settled(k)
  BY <1>4
<1>5. ASSUME IInv, Next, NEW k \in Key, Settled(k), NEW r \in Request, Moved(r)
      PROVE  attempt[k].owner = r
  <2>1. ASSUME NEW q \in Request, Step(q)
        PROVE  attempt[k].owner = r
    <3>1. CASE FenceAndCommit(q) \/ FailAttempt(q)
      BY <1>1, <1>5, <3>1
    <3>2. CASE Claim(q)
      BY <1>2, <1>5, <3>2
    <3>3. CASE \/ Lookup(q) \/ Reread(q) \/ Settle(q) \/ SettleTimeout(q) \/ Replay(q)
               \/ Validate(q) \/ InsertSale(q) \/ Rollback(q) \/ Conflict(q) \/ Crash(q)
      <4>1. UNCHANGED attempt
        BY <3>3 DEF Lookup, Reread, Settle, SettleTimeout, Replay, Validate, InsertSale,
                    Rollback, Conflict, Crash
      <4>2. QED
        BY <1>4, <1>5, <4>1
    <3>4. QED
      BY <2>1, <3>1, <3>2, <3>3 DEF Step
  <2>2. ASSUME NEW q \in Request, NEW j \in Key, NEW c \in Cart, Receive(q, j, c)
        PROVE  attempt[k].owner = r
    BY <1>4, <1>5, <2>2 DEF Receive
  <2>3. ASSUME NEW j \in Key, LeaseExpires(j) \/ Abandon(j)
        PROVE  attempt[k].owner = r
    BY <1>3, <1>5, <2>3
  <2>4. QED
    BY <1>5, <2>1, <2>2, <2>3 DEF Next
<1>6. IInv /\ [Next]_vars =>
        [\A k \in Key, r \in Request :
           /\ attempt[k].status = "in_progress"
           /\ attempt'[k].status \in {"committed", "failed"}
           /\ req'[r].at # req[r].at
           => attempt[k].owner = r]_vars
  BY <1>5
<1>7. QED
  BY <1>6, Invariance, PTL DEF Spec, OnlyTheOwnerSettles

-----------------------------------------------------------------------------
(* CheckoutAttempt keeps the promise of CheckoutService. *)

\* What the service shows of a request, and of a row.
Shown(r) ==
  [at |-> Progress(req[r].at), key |-> req[r].key, cart |-> req[r].cart,
   outcome |-> IF req[r].at = "done" THEN Gist(req[r].outcome) ELSE "NONE",
   sale |-> req[r].answer]

ShownRow(k) == [status |-> attempt[k].status, owner |-> attempt[k].owner]

\* A request that lost its lease never owns its key's row again.
LostForGood ==
  \A r \in Request : req[r].at = "failing" /\ req[r].outcome = "LOST_LEASE" => ~Owns(r)

\* How far a request is, place by place.
LEMMA HowFar ==
  /\ Progress("idle") = "idle" /\ Progress("done") = "done"
  /\ \A p \in {"lookup", "claim", "reread", "settle", "replay"} : Progress(p) = "open"
  /\ \A p \in {"validate", "begin", "fence", "conflict", "failing"} : Progress(p) = "claimed"
BY DEF Progress

\* A row that only changes its status shows just that.
LEMMA RowShown ==
  ASSUME TypeOK, NEW k \in Key, NEW st, attempt' = [attempt EXCEPT ![k].status = st]
  PROVE  /\ ShownRow(k)' = [ShownRow(k) EXCEPT !.status = st]
         /\ \A j \in Key : j # k => ShownRow(j)' = ShownRow(j)
<1>1. /\ attempt'[k].status = st /\ attempt'[k].owner = attempt[k].owner
      /\ \A j \in Key : j # k => attempt'[j] = attempt[j]
  BY StatusShape
<1>2. QED
  BY <1>1 DEF ShownRow

\* Nothing the service shows has changed.
LEMMA Unseen ==
  ASSUME sold' = sold, \A k \in Key : ShownRow(k)' = ShownRow(k),
         \A r \in Request : Shown(r)' = Shown(r)
  PROVE  UNCHANGED Service!serviceVars
<1>1. [k \in Key |-> ShownRow(k)]' = [k \in Key |-> ShownRow(k)]
  OBVIOUS
<1>2. [r \in Request |-> Shown(r)]' = [r \in Request |-> Shown(r)]
  OBVIOUS
<1>3. QED
  BY <1>1, <1>2 DEF Service!serviceVars, Shown, ShownRow

\* One request is told something; the others show what they showed.
LEMMA Telling ==
  ASSUME NEW r \in Request, NEW o, NEW s, Touches(r), req'[r].at = "done",
         Gist(req'[r].outcome) = o, req'[r].answer = s
  PROVE  Service!Tell(r, o, s)
<1> DEFINE c == [q \in Request |-> Shown(q)]
<1>1. \A q \in Request : q # r => Shown(q)' = Shown(q)
  BY DEF Touches, Shown
<1>2. Shown(r)' = [Shown(r) EXCEPT !.at = "done", !.outcome = o, !.sale = s]
  <2>1. Shown(r)' = [at |-> "done", key |-> req[r].key, cart |-> req[r].cart, outcome |-> o, sale |-> s]
    BY HowFar DEF Touches, Shown
  <2>2. PICK u : u = Shown(r)
    OBVIOUS
  <2>3. PICK p, y, z : u = [at |-> p, key |-> req[r].key, cart |-> req[r].cart, outcome |-> y, sale |-> z]
    BY <2>2 DEF Shown
  <2>4. PICK v : v = [u EXCEPT !.at = "done", !.outcome = o, !.sale = s]
    OBVIOUS
  <2>5. v = [at |-> "done", key |-> req[r].key, cart |-> req[r].cart, outcome |-> o, sale |-> s]
    BY <2>3, <2>4
  <2>6. QED
    BY <2>1, <2>2, <2>4, <2>5
<1>3. c' = [c EXCEPT ![r].at = "done", ![r].outcome = o, ![r].sale = s]
  BY <1>1, <1>2
<1>4. QED
  BY <1>3 DEF Service!Tell, Shown

\* A sale under the caller's key is shown to it.
LEMMA TellingSale ==
  ASSUME NEW r \in Request, Touches(r), sold \subseteq Request, NEW s \in SalesOf(req[r].key),
         req[s].cart = req[r].cart, Progress(req[r].at) \in {"open", "claimed"},
         req'[r].at = "done", Gist(req'[r].outcome) = "SOLD", req'[r].answer = s,
         sold' = sold, attempt' = attempt
  PROVE  Service!TellSale(r)
<1> DEFINE c == [q \in Request |-> Shown(q)]
           w == [j \in Key |-> ShownRow(j)]
<1>1. Service!Tell(r, "SOLD", s)
  BY Telling
<1>2. c[r].at \in {"open", "claimed"} /\ w' = w
  BY DEF Shown, ShownRow
<1>3. s \in {q \in sold : c[q].key = c[r].key} /\ c[s].cart = c[r].cart
  BY DEF SalesOf, Shown
<1>4. QED
  BY <1>1, <1>2, <1>3 DEF Service!TellSale, Service!SalesUnder, Shown, ShownRow

\* A request learns nothing it can rely on, and nothing else changes.
LEMMA LeavingUnsure ==
  ASSUME NEW r \in Request, Touches(r), Progress(req[r].at) \in {"open", "claimed"},
         req'[r].at = "done", Gist(req'[r].outcome) = "UNSURE", req'[r].answer = None,
         sold' = sold, attempt' = attempt
  PROVE  Service!LeaveUnsure(r)
<1> DEFINE c == [q \in Request |-> Shown(q)]
           w == [j \in Key |-> ShownRow(j)]
<1>1. Service!Tell(r, "UNSURE", None)
  BY Telling
<1>2. c[r].at \in {"open", "claimed"} /\ w' = w
  BY DEF Shown, ShownRow
<1>3. QED
  BY <1>1, <1>2 DEF Service!LeaveUnsure, Shown, ShownRow

\* A refusal the service stands by: after a claim, or of a key sold to another cart.
LEMMA Refusing ==
  ASSUME NEW r \in Request, Touches(r), sold \subseteq Request,
         \/ Progress(req[r].at) = "claimed"
         \/ Progress(req[r].at) = "open" /\ \E s \in SalesOf(req[r].key) : req[s].cart # req[r].cart,
         req'[r].at = "done", Gist(req'[r].outcome) = "REFUSED", req'[r].answer = None,
         sold' = sold, req[r].key \in Key,
         \/ attempt' = attempt
         \/ Owns(r) /\ attempt' = [attempt EXCEPT ![req[r].key].status = "failed"], TypeOK
  PROVE  Service!Refuse(r)
<1> DEFINE c == [q \in Request |-> Shown(q)]
           w == [j \in Key |-> ShownRow(j)]
<1>1. Service!Tell(r, "REFUSED", None)
  BY Telling
<1>2. \/ c[r].at = "claimed"
      \/ c[r].at = "open" /\ \E s \in {q \in sold : c[q].key = c[r].key} : c[s].cart # c[r].cart
  BY DEF Shown, SalesOf
<1>3. \/ w' = w
      \/ /\ w[c[r].key] = [status |-> "in_progress", owner |-> r]
         /\ w' = [w EXCEPT ![c[r].key].status = "failed"]
  <2>1. CASE attempt' = attempt
    BY <2>1 DEF ShownRow
  <2>2. CASE Owns(r) /\ attempt' = [attempt EXCEPT ![req[r].key].status = "failed"]
    <3>1. PICK k \in Key : k = req[r].key
      OBVIOUS
    <3>2. c[r].key = k
      BY <3>1 DEF Shown
    <3>3. /\ ShownRow(k)' = [ShownRow(k) EXCEPT !.status = "failed"]
          /\ \A j \in Key : j # k => ShownRow(j)' = ShownRow(j)
      BY <2>2, <3>1, RowShown
    <3>4. w' = [w EXCEPT ![c[r].key].status = "failed"]
      BY <3>2, <3>3
    <3>5. w[c[r].key] = [status |-> "in_progress", owner |-> r]
      BY <2>2, <3>1, <3>2 DEF Owns, ShownRow
    <3>6. QED
      BY <3>4, <3>5
  <2>3. QED
    BY <2>1, <2>2
<1>4. QED
  BY <1>1, <1>2, <1>3 DEF Service!Refuse, Service!SalesUnder, Service!Mine, Shown, ShownRow

\* A claim won: the key is taken.
LEMMA TakingKey ==
  ASSUME TypeOK, NEW r \in Request, Claim(r), Claimable(req[r].key), req[r].key \in Key
  PROVE  Service!TakeKey(r)
<1> DEFINE c == [q \in Request |-> Shown(q)]
           w == [j \in Key |-> ShownRow(j)]
<1>1. /\ req[r].at = "claim" /\ MoveTo(r, "validate") /\ sold' = sold
      /\ attempt' = [attempt EXCEPT ![req[r].key] = [status |-> "in_progress", owner |-> r, live |-> TRUE]]
  BY DEF Claim
<1>2. /\ Touches(r) /\ req'[r].at = "validate" /\ req'[r].answer = req[r].answer
  BY <1>1, MoveToShape
<1>3. /\ \A q \in Request : q # r => Shown(q)' = Shown(q)
      /\ Shown(r)' = [Shown(r) EXCEPT !.at = "claimed"]
  BY <1>1, <1>2, HowFar DEF Touches, Shown
<1>4. /\ c' = [c EXCEPT ![r].at = "claimed"]
      /\ c[r].key = req[r].key /\ c[r].at = "open"
  <2>1. c' = [c EXCEPT ![r].at = "claimed"]
    BY <1>3
  <2>2. c[r].key = req[r].key /\ c[r].at = "open"
    BY <1>1, HowFar DEF Shown
  <2>3. QED
    BY <2>1, <2>2
<1>5. PICK k \in Key : k = req[r].key
  OBVIOUS
<1>6. w' = [w EXCEPT ![k] = [status |-> "in_progress", owner |-> r]]
  <2>1. ShownRow(k)' = [status |-> "in_progress", owner |-> r]
    BY <1>1, <1>5 DEF TypeOK, ShownRow
  <2>2. \A j \in Key : j # k => ShownRow(j)' = ShownRow(j)
    BY <1>1, <1>5 DEF TypeOK, ShownRow
  <2>3. QED
    BY <2>1, <2>2
<1>7. w[k].status \in {"none", "failed", "in_progress"}
  BY <1>5 DEF ShownRow, Claimable
<1>8. QED
  BY <1>1, <1>4, <1>5, <1>6, <1>7 DEF Service!TakeKey, Shown, ShownRow

\* The sale commits with its fence.
LEMMA Committing ==
  ASSUME TypeOK, NEW r \in Request, FenceAndCommit(r), Owns(r), req[r].key \in Key
  PROVE  Service!Commit(r)
<1> DEFINE c == [q \in Request |-> Shown(q)]
           w == [j \in Key |-> ShownRow(j)]
<1>1. /\ req[r].at = "fence" /\ Answer(r, "SOLD", r) /\ sold' = sold \cup {r}
      /\ attempt' = [attempt EXCEPT ![req[r].key].status = "committed"]
  BY DEF FenceAndCommit
<1>2. Service!Tell(r, "SOLD", r)
  BY <1>1, AnswerShape, Telling DEF Gist
<1>3. c[r].at = "claimed" /\ c[r].key = req[r].key
  BY <1>1, HowFar DEF Shown
<1>4. PICK k \in Key : k = req[r].key
  OBVIOUS
<1>5. /\ ShownRow(k)' = [ShownRow(k) EXCEPT !.status = "committed"]
      /\ \A j \in Key : j # k => ShownRow(j)' = ShownRow(j)
  BY <1>1, <1>4, RowShown
<1>6. w' = [w EXCEPT ![k].status = "committed"]
  BY <1>5
<1>7. w[k] = [status |-> "in_progress", owner |-> r]
  BY <1>4 DEF Owns, ShownRow
<1>8. QED
  BY <1>1, <1>2, <1>3, <1>4, <1>6, <1>7 DEF Service!Commit, Service!Mine, Shown, ShownRow

\* A request arrives.
LEMMA Opening ==
  ASSUME TypeOK, NEW r \in Request, NEW k \in Key, NEW a \in Cart, Receive(r, k, a),
         req[r].outcome = "NONE"
  PROVE  Service!Open(r, k, a)
<1> DEFINE c == [q \in Request |-> Shown(q)]
           w == [j \in Key |-> ShownRow(j)]
<1>1. /\ req[r].at = "idle" /\ attempt' = attempt /\ sold' = sold
      /\ req'[r].at = "lookup" /\ req'[r].key = k /\ req'[r].cart = a /\ req'[r].answer = req[r].answer
      /\ \A q \in Request : q # r => req'[q] = req[q]
  BY DEF Receive, TypeOK, Calls
<1>2. /\ \A q \in Request : q # r => Shown(q)' = Shown(q)
      /\ Shown(r)' = [Shown(r) EXCEPT !.at = "open", !.key = k, !.cart = a]
  <2>1. Shown(r)' = [at |-> "open", key |-> k, cart |-> a, outcome |-> "NONE", sale |-> req[r].answer]
    BY <1>1, HowFar DEF Shown
  <2>2. PICK u : u = Shown(r)
    OBVIOUS
  <2>3. PICK p, j, x : u = [at |-> p, key |-> j, cart |-> x, outcome |-> "NONE", sale |-> req[r].answer]
    BY <1>1, <2>2 DEF Shown
  <2>4. PICK v : v = [u EXCEPT !.at = "open", !.key = k, !.cart = a]
    OBVIOUS
  <2>5. v = [at |-> "open", key |-> k, cart |-> a, outcome |-> "NONE", sale |-> req[r].answer]
    BY <2>3, <2>4
  <2>6. \A q \in Request : q # r => Shown(q)' = Shown(q)
    BY <1>1 DEF Shown
  <2>7. QED
    BY <2>1, <2>2, <2>4, <2>5, <2>6
<1>3. c' = [c EXCEPT ![r].at = "open", ![r].key = k, ![r].cart = a]
  BY <1>2
<1>4. w' = w /\ c[r].at = "idle"
  BY <1>1, HowFar DEF Shown, ShownRow
<1>5. QED
  BY <1>1, <1>3, <1>4 DEF Service!Open, Shown, ShownRow

\* A key is abandoned.
LEMMA Burying ==
  ASSUME TypeOK, NEW k \in Key, Abandon(k)
  PROVE  Service!Bury(k)
<1> DEFINE c == [r \in Request |-> Shown(r)]
           w == [j \in Key |-> ShownRow(j)]
<1>1. /\ attempt' = [attempt EXCEPT ![k].status = "abandoned"] /\ req' = req /\ sold' = sold
      /\ SalesOf(k) = {} /\ Claimable(k) /\ sold \subseteq Request
  BY DEF Abandon, TypeOK
<1>2. c' = c
  BY <1>1 DEF Shown
<1>3. /\ ShownRow(k)' = [ShownRow(k) EXCEPT !.status = "abandoned"]
      /\ \A j \in Key : j # k => ShownRow(j)' = ShownRow(j)
  BY <1>1, RowShown
<1>4. w' = [w EXCEPT ![k].status = "abandoned"]
  BY <1>3
<1>5. {s \in sold : c[s].key = k} = {}
  BY <1>1 DEF SalesOf, Shown
<1>6. w[k].status \in {"none", "failed", "in_progress"}
  BY <1>1 DEF ShownRow, Claimable
<1>7. QED
  BY <1>1, <1>2, <1>4, <1>5, <1>6 DEF Service!Bury, Service!SalesUnder, Shown, ShownRow

\* A request goes on without the service showing it.
LEMMA GoingOn ==
  ASSUME NEW r \in Request, Touches(r), req[r].at # "done", req'[r].at # "done",
         Progress(req'[r].at) = Progress(req[r].at), req'[r].answer = req[r].answer,
         attempt' = attempt, sold' = sold
  PROVE  UNCHANGED Service!serviceVars
<1>1. \A q \in Request : Shown(q)' = Shown(q)
  BY DEF Touches, Shown
<1>2. \A k \in Key : ShownRow(k)' = ShownRow(k)
  BY DEF ShownRow
<1>3. QED
  BY <1>1, <1>2, Unseen

\* The end of a replay: the sale found is the caller's, or its key is another cart's.
LEMMA Replaying ==
  ASSUME TypeOK, NEW r \in Request, NEW s \in SalesOf(req[r].key), req[r].key \in Key,
         Progress(req[r].at) \in {"open", "claimed"},
         IF ReplayMatches(r, s) THEN Answer(r, "REPLAYED", s) ELSE Answer(r, "KEY_REUSE", None),
         attempt' = attempt, sold' = sold
  PROVE  Service!TellSale(r) \/ Service!Refuse(r)
<1>1. sold \subseteq Request
  BY DEF TypeOK
<1>2. CASE ReplayMatches(r, s)
  <2>1. Touches(r) /\ req'[r].at = "done" /\ req'[r].outcome = "REPLAYED" /\ req'[r].answer = s
    BY <1>2, AnswerShape
  <2>2. req[s].cart = req[r].cart /\ Gist("REPLAYED") = "SOLD"
    BY <1>2 DEF ReplayMatches, Gist
  <2>3. QED
    BY <1>1, <2>1, <2>2, TellingSale
<1>3. CASE ~ReplayMatches(r, s)
  <2>1. Touches(r) /\ req'[r].at = "done" /\ req'[r].outcome = "KEY_REUSE" /\ req'[r].answer = None
    BY <1>3, AnswerShape
  <2>2. req[s].cart # req[r].cart /\ Gist("KEY_REUSE") = "REFUSED"
    BY <1>3 DEF ReplayMatches, Gist
  <2>3. QED
    BY <1>1, <2>1, <2>2, Refusing
<1>4. QED
  BY <1>2, <1>3

\* What each outcome tells a caller.
LEMMA Gists ==
  /\ \A o \in {"REJECTED", "TIMEOUT", "KEY_REUSE", "CONTENTION"} : Gist(o) = "REFUSED"
  /\ \A o \in {"LOST_LEASE", "IN_PROGRESS", "ABANDONED", "ERROR"} : Gist(o) = "UNSURE"
BY DEF Gist

\* A lost lease stays lost: ownership comes only from a claim of one's own.
LEMMA LostStaysLost == IInv /\ TypeOK' /\ LostForGood /\ [Next]_vars => LostForGood'
<1> SUFFICES ASSUME IInv, TypeOK', LostForGood, [Next]_vars,
                    NEW r \in Request, req'[r].at = "failing", req'[r].outcome = "LOST_LEASE"
             PROVE  ~Owns(r)'
  BY DEF LostForGood
<1>1. TypeOK /\ Honest(r)
  BY DEF IInv
<1>2. CASE attempt' = attempt /\ req'[r] = req[r]
  BY <1>2 DEF LostForGood, Owns
<1>3. ASSUME NEW q \in Request, NEW k \in Key, NEW c \in Cart, Receive(q, k, c)
      PROVE  ~Owns(r)'
  <2>1. attempt' = attempt /\ req'[q].at = "lookup" /\ (q # r => req'[r] = req[r])
    BY <1>1, <1>3 DEF Receive, TypeOK, Calls
  <2>2. QED
    BY <1>2, <2>1
<1>4. ASSUME NEW q \in Request,
             \/ Lookup(q) \/ Reread(q) \/ Settle(q) \/ SettleTimeout(q) \/ Replay(q) \/ Validate(q)
             \/ InsertSale(q) \/ Rollback(q) \/ Conflict(q) \/ Crash(q)
      PROVE  ~Owns(r)'
  <2>1. attempt' = attempt
    BY <1>4 DEF Lookup, Reread, Settle, SettleTimeout, Replay, Validate, InsertSale, Rollback,
                Conflict, Crash
  <2>2. q # r => req'[r] = req[r]
    BY <1>1, <1>4 DEF Lookup, Reread, Settle, SettleTimeout, Replay, Validate, InsertSale, Rollback,
                Conflict, Crash, MoveTo, Answer, Fail, TypeOK
  <2>3. q # r
    <3>1. \A o \in {"REJECTED", "TIMEOUT", "KEY_REUSE"} : Fail(q, o) => req'[q].outcome = o
      BY <1>1, FailShape
    <3>2. \A o, s : Answer(q, o, s) => req'[q].at = "done"
      BY <1>1, AnswerShape
    <3>3. \A p \in {"claim", "replay", "settle", "begin", "fence", "conflict"} : MoveTo(q, p) => req'[q].at = p
      BY <1>1, MoveToShape
    <3>4. Settle(q) => req'[q].at = "claim"
      BY <1>1 DEF Settle, TypeOK, Calls
    <3>5. QED
      BY <1>4, <3>1, <3>2, <3>3, <3>4
         DEF Lookup, Reread, SettleTimeout, Replay, Validate, InsertSale, Rollback, Conflict, Crash
  <2>4. QED
    BY <1>2, <2>1, <2>2, <2>3
<1>5. ASSUME NEW q \in Request, Claim(q)
      PROVE  ~Owns(r)'
  <2>1. \E p \in {"validate", "reread"} : MoveTo(q, p)
    BY <1>5 DEF Claim
  <2>2. q # r /\ req'[r] = req[r]
    BY <1>1, <2>1, MoveToShape DEF Touches
  <2>3. ~Owns(r)
    BY <2>2 DEF LostForGood
  <2>4. attempt' = attempt \/
          attempt' = [attempt EXCEPT ![req[q].key] = [status |-> "in_progress", owner |-> q, live |-> TRUE]]
    BY <1>5 DEF Claim
  <2>5. req[r].key \in Key
    BY <1>1, <2>2 DEF Honest
  <2>6. QED
    BY <1>1, <2>2, <2>3, <2>4, <2>5 DEF Owns, TypeOK
<1>6. ASSUME NEW q \in Request, FenceAndCommit(q) \/ FailAttempt(q)
      PROVE  ~Owns(r)'
  <2>1. CASE Owns(q) /\ q # r
    <3>1. req'[r] = req[r]
      BY <1>1, <1>6, <2>1 DEF FenceAndCommit, FailAttempt, Answer, TypeOK
    <3>2. ~Owns(r) /\ req[r].key \in Key
      BY <1>1, <3>1 DEF LostForGood, Honest
    <3>3. \/ attempt' = attempt
          \/ \E st \in {"committed", "failed"} : attempt' = [attempt EXCEPT ![req[q].key].status = st]
      BY <1>6, <2>1 DEF FenceAndCommit, FailAttempt
    <3>4. attempt' = attempt => ~Owns(r)'
      BY <3>1, <3>2 DEF Owns
    <3>5. ASSUME NEW st \in {"committed", "failed"}, attempt' = [attempt EXCEPT ![req[q].key].status = st]
          PROVE  ~Owns(r)'
      <4>1. CASE req[q].key = req[r].key
        BY <1>1, <3>1, <3>2, <3>5, <4>1, StatusShape DEF Owns
      <4>2. CASE req[q].key # req[r].key
        BY <1>1, <3>1, <3>2, <3>5, <4>2 DEF Owns, TypeOK
      <4>3. QED
        BY <4>1, <4>2
    <3>6. QED
      BY <3>3, <3>4, <3>5
  <2>2. CASE ~Owns(q) /\ q # r
    <3>1. attempt' = attempt /\ req'[r] = req[r]
      BY <1>1, <1>6, <2>2 DEF FenceAndCommit, FailAttempt, Answer, Fail, TypeOK
    <3>2. QED
      BY <1>2, <3>1
  <2>3. CASE q = r
    <3>1. \A o, s : Answer(q, o, s) => req'[q].at = "done"
      BY <1>1, AnswerShape
    <3>2. attempt' = attempt /\ ~Owns(r) /\ Fail(r, "LOST_LEASE")
      BY <1>6, <2>3, <3>1 DEF FenceAndCommit, FailAttempt
    <3>3. req'[r].key = req[r].key
      BY <1>1, <3>2, FailShape DEF Touches
    <3>4. QED
      BY <3>2, <3>3 DEF Owns
  <2>4. QED
    BY <2>1, <2>2, <2>3
<1>7. ASSUME NEW k \in Key, LeaseExpires(k) \/ Abandon(k)
      PROVE  ~Owns(r)'
  <2>1. req'[r] = req[r] /\ ~Owns(r) /\ req[r].key \in Key
    BY <1>1, <1>7 DEF LeaseExpires, Abandon, LostForGood, Honest
  <2>2. /\ attempt'[req[r].key].owner = attempt[req[r].key].owner
        /\ \/ attempt'[req[r].key].status = attempt[req[r].key].status
           \/ attempt'[req[r].key].status = "abandoned"
    BY <1>1, <1>7, <2>1 DEF LeaseExpires, Abandon, TypeOK, Attempts
  <2>3. QED
    BY <2>1, <2>2 DEF Owns
<1>8. CASE UNCHANGED vars
  BY <1>2, <1>8 DEF vars
<1>9. QED
  BY <1>3, <1>4, <1>5, <1>6, <1>7, <1>8 DEF Next, Step

\* One statement of one request is one step of the service for it, or none.
LEMMA Serving ==
  ASSUME IInv, LostForGood, NEW r \in Request, Step(r)
  PROVE  Service!Serve(r) \/ UNCHANGED Service!serviceVars
<1>1. TypeOK /\ Honest(r) /\ sold \subseteq Request /\ req[r].at # "done"
  BY DEF IInv, TypeOK, Step, Lookup, Claim, Reread, Settle, SettleTimeout, Replay, Validate,
         InsertSale, FenceAndCommit, Rollback, Conflict, FailAttempt, Crash
<1>2. req[r].at # "idle"
  BY DEF Step, Lookup, Claim, Reread, Settle, SettleTimeout, Replay, Validate,
         InsertSale, FenceAndCommit, Rollback, Conflict, FailAttempt, Crash
<1>3. req[r].key \in Key /\ req[r].answer = None
  BY <1>1, <1>2 DEF Honest
<1>4. ASSUME NEW p, MoveTo(r, p), p # "done", Progress(p) = Progress(req[r].at),
             attempt' = attempt, sold' = sold
      PROVE  UNCHANGED Service!serviceVars
  BY <1>1, <1>4, MoveToShape, GoingOn
<1>5. ASSUME NEW o, Fail(r, o), Progress(req[r].at) = "claimed", attempt' = attempt, sold' = sold
      PROVE  UNCHANGED Service!serviceVars
  BY <1>1, <1>5, FailShape, GoingOn, HowFar
<1>6. ASSUME NEW o \in {"LOST_LEASE", "IN_PROGRESS", "ABANDONED", "ERROR"}, Answer(r, o, None),
             Progress(req[r].at) \in {"open", "claimed"}, attempt' = attempt, sold' = sold
      PROVE  Service!LeaveUnsure(r)
  BY <1>1, <1>6, AnswerShape, LeavingUnsure, Gists
<1>7. CASE Lookup(r)
  BY <1>1, <1>3, <1>4, <1>7, Replaying, HowFar DEF Lookup, Service!Serve
<1>8. CASE Claim(r)
  <2>1. CASE Claimable(req[r].key)
    BY <1>1, <1>3, <1>8, <2>1, TakingKey DEF Service!Serve
  <2>2. CASE ~Claimable(req[r].key)
    BY <1>4, <1>8, <2>2, HowFar DEF Claim
  <2>3. QED
    BY <2>1, <2>2
<1>9. CASE Reread(r)
  BY <1>4, <1>6, <1>9, HowFar DEF Reread, Service!Serve
<1>10. CASE Settle(r)
  <2>1. /\ Touches(r) /\ req'[r].at = "claim" /\ req'[r].answer = req[r].answer
        /\ req[r].at = "settle" /\ attempt' = attempt /\ sold' = sold
    BY <1>1, <1>10 DEF Settle, TypeOK, Calls, Touches
  <2>2. QED
    BY <2>1, GoingOn, HowFar
<1>11. CASE SettleTimeout(r)
  BY <1>6, <1>11, HowFar DEF SettleTimeout, Service!Serve
<1>12. CASE Replay(r)
  <2>1. SalesOf(req[r].key) # {}
    BY <1>1, <1>3, <1>12 DEF Replay, Honest, IInv, SaleIffOwnerCommitted
  <2>2. QED
    BY <1>1, <1>3, <1>12, <2>1, Replaying, HowFar DEF Replay, Service!Serve
<1>13. CASE Validate(r)
  BY <1>4, <1>5, <1>13, HowFar DEF Validate
<1>14. CASE InsertSale(r)
  BY <1>4, <1>14, HowFar DEF InsertSale
<1>15. CASE FenceAndCommit(r)
  <2>1. CASE Owns(r)
    BY <1>1, <1>3, <1>15, <2>1, Committing DEF Service!Serve
  <2>2. CASE ~Owns(r)
    BY <1>5, <1>15, <2>2, HowFar DEF FenceAndCommit
  <2>3. QED
    BY <2>1, <2>2
<1>16. CASE Rollback(r)
  BY <1>5, <1>16, HowFar DEF Rollback
<1>17. CASE Conflict(r)
  <2>1. PICK s \in SalesOf(req[r].key) :
          IF ReplayMatches(r, s) THEN Answer(r, "REPLAYED", s) ELSE Fail(r, "KEY_REUSE")
    BY <1>17 DEF Conflict
  <2>2. req[r].at = "conflict" /\ attempt' = attempt /\ sold' = sold
    BY <1>17 DEF Conflict
  <2>3. CASE ReplayMatches(r, s)
    BY <1>1, <1>3, <2>1, <2>2, <2>3, Replaying, HowFar DEF Service!Serve
  <2>4. CASE ~ReplayMatches(r, s)
    BY <1>5, <2>1, <2>2, <2>4, HowFar
  <2>5. QED
    BY <2>3, <2>4
<1>18. CASE FailAttempt(r)
  <2>1. /\ req[r].at = "failing" /\ sold' = sold
        /\ req[r].outcome \in {"REJECTED", "TIMEOUT", "LOST_LEASE", "KEY_REUSE"}
        /\ Answer(r, req[r].outcome, None)
        /\ \/ Owns(r) /\ attempt' = [attempt EXCEPT ![req[r].key].status = "failed"]
           \/ attempt' = attempt
    BY <1>1, <1>18 DEF FailAttempt, Honest
  <2>2. CASE req[r].outcome = "LOST_LEASE"
    <3>1. attempt' = attempt
      BY <2>1, <2>2 DEF LostForGood
    <3>2. QED
      BY <1>6, <2>1, <2>2, <3>1, HowFar DEF Service!Serve
  <2>3. CASE req[r].outcome # "LOST_LEASE"
    <3>1. /\ Touches(r) /\ req'[r].at = "done" /\ req'[r].answer = None
          /\ req'[r].outcome \in {"REJECTED", "TIMEOUT", "KEY_REUSE"}
      BY <1>1, <2>1, <2>3, AnswerShape
    <3>2. QED
      BY <1>1, <1>3, <2>1, <3>1, Refusing, Gists, HowFar DEF Service!Serve
  <2>4. QED
    BY <2>2, <2>3
<1>19. CASE Crash(r)
  <2>1. req[r].at \in Points
    BY <1>1 DEF TypeOK, Calls
  <2>2. QED
    BY <1>1, <1>2, <1>6, <1>19, <2>1, HowFar DEF Crash, Points, Service!Serve
<1>20. QED
  BY <1>7, <1>8, <1>9, <1>10, <1>11, <1>12, <1>13, <1>14, <1>15, <1>16, <1>17, <1>18, <1>19 DEF Step

\* createTransaction, the lease and the abandon implement the service: its initial
\* state is the service's, and every statement is a step of the service or none.
THEOREM PromiseKept == Spec => KeepsItsPromise
<1>1. Init => Service!ServiceInit
  <2> SUFFICES ASSUME Init PROVE Service!ServiceInit
    OBVIOUS
  <2>1. [r \in Request |-> Shown(r)] =
          [r \in Request |-> [at |-> "idle", key |-> None, cart |-> None, outcome |-> "NONE", sale |-> None]]
    BY HowFar DEF Init, Shown
  <2>2. [k \in Key |-> ShownRow(k)] = [k \in Key |-> [status |-> "none", owner |-> None]]
    BY DEF Init, ShownRow
  <2>3. QED
    BY <2>1, <2>2 DEF Init, Service!ServiceInit, Shown, ShownRow
<1>2. Init => LostForGood
  BY DEF Init, LostForGood
<1>3. Spec => []LostForGood
  BY <1>2, LostStaysLost, Invariance, TypeCorrect, PTL DEF Spec
<1>4. IInv /\ LostForGood /\ [Next]_vars => [Service!ServiceNext]_(Service!serviceVars)
  <2> SUFFICES ASSUME IInv, LostForGood, [Next]_vars
               PROVE  Service!ServiceNext \/ UNCHANGED Service!serviceVars
    OBVIOUS
  <2>1. TypeOK
    BY DEF IInv
  <2>2. ASSUME NEW r \in Request, NEW k \in Key, NEW c \in Cart, Receive(r, k, c)
        PROVE  Service!ServiceNext
    <3>1. req[r].outcome = "NONE"
      BY <2>2 DEF Receive, IInv, Honest
    <3>2. QED
      BY <2>1, <2>2, <3>1, Opening DEF Service!ServiceNext
  <2>3. ASSUME NEW r \in Request, Step(r)
        PROVE  Service!ServiceNext \/ UNCHANGED Service!serviceVars
    BY <2>3, Serving DEF Service!ServiceNext
  <2>4. ASSUME NEW k \in Key, Abandon(k)
        PROVE  Service!ServiceNext
    BY <2>1, <2>4, Burying DEF Service!ServiceNext
  <2>5. ASSUME NEW k \in Key, LeaseExpires(k)
        PROVE  UNCHANGED Service!serviceVars
    <3>1. \A j \in Key : ShownRow(j)' = ShownRow(j)
      BY <2>1, <2>5 DEF LeaseExpires, ShownRow, TypeOK, Attempts
    <3>2. \A r \in Request : Shown(r)' = Shown(r)
      BY <2>5 DEF LeaseExpires, Shown
    <3>3. QED
      BY <2>5, <3>1, <3>2, Unseen DEF LeaseExpires
  <2>6. CASE UNCHANGED vars
    <3>1. (\A j \in Key : ShownRow(j)' = ShownRow(j)) /\ (\A r \in Request : Shown(r)' = Shown(r))
      BY <2>6 DEF vars, Shown, ShownRow
    <3>2. QED
      BY <2>6, <3>1, Unseen DEF vars
  <2>7. QED
    BY <2>2, <2>3, <2>4, <2>5, <2>6 DEF Next
<1>5. Spec => Service!ServiceSpec
  BY <1>1, <1>3, <1>4, Invariance, PTL DEF Spec, Service!ServiceSpec
<1>6. QED
  BY <1>5 DEF KeepsItsPromise
=============================================================================
