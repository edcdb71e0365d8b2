--------------------------- MODULE CheckoutAttempt ---------------------------
(***************************************************************************)
(* The server side of an online checkout: one row of "checkout_attempts"   *)
(* per idempotency key, and the requests that race for it in               *)
(* transactions.service.ts createTransaction.                              *)
(*                                                                         *)
(* A request claims its key with an INSERT ... ON CONFLICT compare-and-    *)
(* swap, validates, and then runs one database transaction that inserts    *)
(* the sale, reserves stock and fences the attempt row: it commits only if *)
(* the row still carries this request's owner token and is in progress.    *)
(* The client may durably abandon a key instead.                           *)
(*                                                                         *)
(* A request is its own owner token: it wins at most one claim, with a     *)
(* fresh randomUUID().  The lease is compared with the database clock but  *)
(* written with the application's, so it may run out at any moment.        *)
(***************************************************************************)

CONSTANTS Request,  \* POST /transactions calls that may reach the server
          Key,      \* idempotency keys minted by clients
          Cart,     \* what idempotencyReplayMatches compares: the sale's content
          None      \* no owner, no key, no answer

ASSUME NoneIsFresh == None \notin Request \cup Key \cup Cart

VARIABLES attempt,  \* the checkout_attempts row of each key
          req,      \* where each request is, what it carries, what it answered
          sold      \* the requests whose sale transaction committed

vars == <<attempt, req, sold>>

Statuses == {"none", "in_progress", "committed", "failed", "abandoned"}

\* The places a request can be between two database statements.
Points == {"idle", "lookup", "claim", "reread", "settle", "replay", "validate",
           "begin", "fence", "conflict", "failing", "done"}

\* What the caller is told; ERROR stands for every unclassified failure, a crash
\* of the process included.
Outcomes == {"NONE", "SOLD", "REPLAYED", "KEY_REUSE", "REJECTED", "TIMEOUT", "LOST_LEASE",
             "IN_PROGRESS", "ABANDONED", "CONTENTION", "ERROR"}

Attempts == [status : Statuses, owner : Request \cup {None}, live : BOOLEAN]

Calls == [at : Points, key : Key \cup {None}, cart : Cart \cup {None}, retried : BOOLEAN,
          outcome : Outcomes, answer : Request \cup {None}]

TypeOK ==
  /\ attempt \in [Key -> Attempts]
  /\ req \in [Request -> Calls]
  /\ sold \subseteq Request

Init ==
  /\ attempt = [k \in Key |-> [status |-> "none", owner |-> None, live |-> FALSE]]
  /\ req = [r \in Request |-> [at |-> "idle", key |-> None, cart |-> None,
                               retried |-> FALSE, outcome |-> "NONE", answer |-> None]]
  /\ sold = {}

-----------------------------------------------------------------------------
(* The rows a statement can match. *)

SalesOf(k) == {s \in sold : req[s].key = k}

\* Mutant: a claim that revives an abandoned key.
ClaimableEvenAbandoned(k) ==
  \/ attempt[k].status \in {"none", "failed", "abandoned"}
  \/ attempt[k].status = "in_progress" /\ ~attempt[k].live

\* The WHERE clause the claim and the abandon share.
Claimable(k) ==
  \/ attempt[k].status \in {"none", "failed"}
  \/ attempt[k].status = "in_progress" /\ ~attempt[k].live

\* Mutant: a fence that checks the status and not who owns the row.
OwnsByStatusOnly(r) == attempt[req[r].key].status = "in_progress"

\* The fence: UPDATE ... WHERE owner_token = mine AND status = 'in_progress'.
Owns(r) ==
  /\ attempt[req[r].key].owner = r
  /\ attempt[req[r].key].status = "in_progress"

\* Mutant: a replay that trusts the key alone.
ReplayMatchesAnything(r, s) == s \in sold

\* idempotencyReplayMatches: the stored sale is the one this request asks for.
ReplayMatches(r, s) == req[s].cart = req[r].cart

MoveTo(r, point) == req' = [req EXCEPT ![r].at = point]

\* The end of a request: its outcome and, when it has one, its sale.
Answer(r, o, s) ==
  req' = [req EXCEPT ![r].at = "done", ![r].outcome = o, ![r].answer = s]

\* A TransactionError: it is answered after failCheckoutAttempt had its turn.
Fail(r, o) == req' = [req EXCEPT ![r].at = "failing", ![r].outcome = o]

-----------------------------------------------------------------------------
(* createTransaction, one action per statement another process can observe. *)

\* A request with an idempotency key arrives (however late).
Receive(r, k, c) ==
  /\ req[r].at = "idle"
  /\ req' = [req EXCEPT ![r].at = "lookup", ![r].key = k, ![r].cart = c]
  /\ UNCHANGED <<attempt, sold>>

\* The replay fast path: findByIdempotencyKey before anything is claimed.
Lookup(r) ==
  /\ req[r].at = "lookup"
  /\ \/ SalesOf(req[r].key) = {} /\ MoveTo(r, "claim")
     \/ \E s \in SalesOf(req[r].key) :
          IF ReplayMatches(r, s) THEN Answer(r, "REPLAYED", s) ELSE Answer(r, "KEY_REUSE", None)
  /\ UNCHANGED <<attempt, sold>>

\* claimCheckoutAttempt: win the row with a new owner and a fresh lease, or read
\* it back afterwards.
Claim(r) ==
  /\ req[r].at = "claim"
  /\ IF Claimable(req[r].key)
     THEN /\ attempt' = [attempt EXCEPT ![req[r].key] =
                           [status |-> "in_progress", owner |-> r, live |-> TRUE]]
          /\ MoveTo(r, "validate")
     ELSE MoveTo(r, "reread") /\ UNCHANGED attempt
  /\ UNCHANGED sold

\* What a lost claim means, from a second read of the row.  Anything but a
\* terminal row counts as in progress: wait once for it, then give up.
Reread(r) ==
  /\ req[r].at = "reread"
  /\ LET status == attempt[req[r].key].status
     IN CASE status = "committed" -> MoveTo(r, "replay")
          [] status = "abandoned" -> Answer(r, "ABANDONED", None)
          [] OTHER -> IF req[r].retried THEN Answer(r, "IN_PROGRESS", None)
                                        ELSE MoveTo(r, "settle")
  /\ UNCHANGED <<attempt, sold>>

\* awaitCheckoutAttemptSettlement saw the row leave 'in_progress': claim once more.
Settle(r) ==
  /\ req[r].at = "settle"
  /\ attempt[req[r].key].status # "in_progress"
  /\ req' = [req EXCEPT ![r].at = "claim", ![r].retried = TRUE]
  /\ UNCHANGED <<attempt, sold>>

\* ... or the bounded wait ran out first.
SettleTimeout(r) ==
  /\ req[r].at = "settle"
  /\ attempt[req[r].key].status = "in_progress"
  /\ Answer(r, "IN_PROGRESS", None)
  /\ UNCHANGED <<attempt, sold>>

\* The claim was lost to a committed attempt: fetch its sale and replay it.
Replay(r) ==
  /\ req[r].at = "replay"
  /\ IF SalesOf(req[r].key) = {} THEN Answer(r, "CONTENTION", None)
     ELSE \E s \in SalesOf(req[r].key) :
            IF ReplayMatches(r, s) THEN Answer(r, "REPLAYED", s) ELSE Answer(r, "KEY_REUSE", None)
  /\ UNCHANGED <<attempt, sold>>

\* Branch, shift, cart, price, discount, tax and proof checks, all before the
\* sale's database transaction opens.
Validate(r) ==
  /\ req[r].at = "validate"
  /\ MoveTo(r, "begin") \/ Fail(r, "REJECTED")
  /\ UNCHANGED <<attempt, sold>>

\* The sale's INSERT.  Another uncommitted sale under the key holds the unique
\* index entry, so this one waits for it; a committed one is a P2002.
InsertSale(r) ==
  /\ req[r].at = "begin"
  /\ \A q \in Request : req[q].at = "fence" => req[q].key # req[r].key
  /\ MoveTo(r, IF SalesOf(req[r].key) = {} THEN "fence" ELSE "conflict")
  /\ UNCHANGED <<attempt, sold>>

\* The transaction's last statement and its COMMIT.  The fence's row lock is
\* held until the commit, so nothing comes between the two.
FenceAndCommit(r) ==
  /\ req[r].at = "fence"
  /\ IF Owns(r)
     THEN /\ attempt' = [attempt EXCEPT ![req[r].key].status = "committed"]
          /\ sold' = sold \cup {r}
          /\ Answer(r, "SOLD", r)
     ELSE Fail(r, "LOST_LEASE") /\ UNCHANGED <<attempt, sold>>

\* Everything else that makes the database transaction roll back with a
\* TransactionError: short stock, a discount proof already used, P2028.
Rollback(r) ==
  /\ req[r].at \in {"begin", "fence"}
  /\ \/ Fail(r, "TIMEOUT")
     \/ req[r].at = "fence" /\ Fail(r, "REJECTED")
  /\ UNCHANGED <<attempt, sold>>

\* The unique-index loser replays the winner's sale.
Conflict(r) ==
  /\ req[r].at = "conflict"
  /\ \E s \in SalesOf(req[r].key) :
       IF ReplayMatches(r, s) THEN Answer(r, "REPLAYED", s) ELSE Fail(r, "KEY_REUSE")
  /\ UNCHANGED <<attempt, sold>>

\* Mutant: failCheckoutAttempt without its owner token.
FailAttemptUnfenced(r) ==
  /\ req[r].at = "failing"
  /\ Answer(r, req[r].outcome, None)
  /\ \/ /\ attempt[req[r].key].status = "in_progress"
        /\ attempt' = [attempt EXCEPT ![req[r].key].status = "failed"]
     \/ UNCHANGED attempt
  /\ UNCHANGED sold

\* failCheckoutAttempt, fenced on the owner token; its own failure is swallowed.
FailAttempt(r) ==
  /\ req[r].at = "failing"
  /\ Answer(r, req[r].outcome, None)
  /\ \/ Owns(r) /\ attempt' = [attempt EXCEPT ![req[r].key].status = "failed"]
     \/ UNCHANGED attempt
  /\ UNCHANGED sold

\* An unclassified error or a dead process: an open database transaction rolls
\* back and the row stays in progress.
Crash(r) ==
  /\ req[r].at \notin {"idle", "done"}
  /\ Answer(r, "ERROR", None)
  /\ UNCHANGED <<attempt, sold>>

-----------------------------------------------------------------------------
(* The lease, and the client's explicit abandon. *)

LeaseExpires(k) ==
  /\ attempt[k].status = "in_progress" /\ attempt[k].live
  /\ attempt' = [attempt EXCEPT ![k].live = FALSE]
  /\ UNCHANGED <<req, sold>>

\* abandonCheckoutAttempt's compare-and-swap; an existing row keeps its owner.
Abandon(k) ==
  /\ SalesOf(k) = {}
  /\ Claimable(k)
  /\ attempt' = [attempt EXCEPT ![k].status = "abandoned"]
  /\ UNCHANGED <<req, sold>>

Step(r) ==
  \/ Lookup(r) \/ Claim(r) \/ Reread(r) \/ Settle(r) \/ SettleTimeout(r) \/ Replay(r)
  \/ Validate(r) \/ InsertSale(r) \/ FenceAndCommit(r) \/ Rollback(r) \/ Conflict(r)
  \/ FailAttempt(r) \/ Crash(r)

Next ==
  \/ \E r \in Request, k \in Key, c \in Cart : Receive(r, k, c)
  \/ \E r \in Request : Step(r)
  \/ \E k \in Key : LeaseExpires(k) \/ Abandon(k)

Spec == Init /\ [][Next]_vars

-----------------------------------------------------------------------------
(* Properties. *)

\* A key's attempt reads 'committed' exactly when its sale exists, and the sale
\* is the one of the request that owns the attempt: no crash, lost lease, retry
\* or delayed duplicate separates the two (transactions.service.ts, the fence
\* inside the sale's own $transaction).  In particular no key has two sales.
SaleIffOwnerCommitted ==
  /\ \A r \in sold : attempt[req[r].key].status = "committed" /\ attempt[req[r].key].owner = r
  /\ \A k \in Key : attempt[k].status = "committed" => SalesOf(k) # {}

\* A request answered with a sale is answered with a committed sale of its own
\* key and its own cart, on all three replay paths (fast path, lost claim, P2002).
ReplayIsFaithful ==
  \A r \in Request : req[r].answer # None =>
    LET s == req[r].answer
    IN s \in sold /\ req[s].key = req[r].key /\ req[s].cart = req[r].cart

\* What a refusal tells the caller is still true later: after TIMEOUT, REJECTED
\* or LOST_LEASE this request has no sale and never gets one; after ABANDONED
\* the key is dead; CONTENTION ("unreachable in normal operation") is never said.
RefusalsAreTrue ==
  \A r \in Request :
    /\ req[r].outcome \in {"TIMEOUT", "REJECTED", "LOST_LEASE", "KEY_REUSE", "ABANDONED"}
         => r \notin sold
    /\ req[r].outcome = "ABANDONED" => attempt[req[r].key].status = "abandoned"
    /\ req[r].outcome # "CONTENTION"

\* 'committed' and 'abandoned' are terminal: once a key is abandoned no delayed
\* request, reclaim or late commit brings it back, whatever its lease says.
TerminalIsFinal ==
  [][\A k \in Key : attempt[k].status \in {"committed", "abandoned"}
       => attempt'[k].status = attempt[k].status]_vars

\* Only the current owner finishes an attempt: when a key leaves 'in_progress'
\* for 'committed' or 'failed', the request that did it is the last one that
\* claimed it, never a superseded one.
OnlyTheOwnerSettles ==
  [][\A k \in Key, r \in Request :
       /\ attempt[k].status = "in_progress"
       /\ attempt'[k].status \in {"committed", "failed"}
       /\ req'[r].at # req[r].at
       => attempt[k].owner = r]_vars

\* What a caller can rely on, and the rest of CheckoutAttempt forgotten.
Gist(outcome) ==
  CASE outcome \in {"SOLD", "REPLAYED"} -> "SOLD"
    [] outcome \in {"REJECTED", "TIMEOUT", "KEY_REUSE", "CONTENTION"} -> "REFUSED"
    [] OTHER -> "UNSURE"

Progress(point) ==
  CASE point \in {"idle", "done"} -> point
    [] point \in {"lookup", "claim", "reread", "settle", "replay"} -> "open"
    [] OTHER -> "claimed"

Service == INSTANCE CheckoutService WITH
  row <- [k \in Key |-> [status |-> attempt[k].status, owner |-> attempt[k].owner]],
  call <- [r \in Request |->
             [at |-> Progress(req[r].at), key |-> req[r].key, cart |-> req[r].cart,
              outcome |-> IF req[r].at = "done" THEN Gist(req[r].outcome) ELSE "NONE",
              sale |-> req[r].answer]],
  sales <- sold

\* The statements, leases, waits and crashes of CheckoutAttempt keep the promise
\* CheckoutService makes to terminals.
KeepsItsPromise == Service!ServiceSpec

=============================================================================
