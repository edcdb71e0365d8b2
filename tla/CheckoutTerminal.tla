-------------------------- MODULE CheckoutTerminal --------------------------
(***************************************************************************)
(* A branch terminal selling through CheckoutService: the page's charge    *)
(* protocol (terminal/page.tsx), its recovery of attempts whose answer was *)
(* lost (lib/checkout-recovery.ts), the sales a cashier stops waiting for  *)
(* (lib/detached-sales.ts), page reloads and offline queueing.             *)
(*                                                                         *)
(* Requests travel with any delay; an answer may be lost at any time.  A   *)
(* cart is its content and, as a ghost, the customer it was rung for.      *)
(* Granularity: one action per stretch of handler code between two awaits. *)
(***************************************************************************)
EXTENDS CheckoutService, Integers, FiniteSets

CONSTANTS MaxDetached,   \* MAX_DETACHED_SALES
          MaxCustomers,  \* bound: customers served
          MaxDisruptions \* bound: page reloads, lost connections, lost answers to a fence

ASSUME TerminalBounds == {MaxDetached, MaxCustomers, MaxDisruptions} \subseteq Nat

VARIABLES page,   \* React state and refs: gone after a reload
          store,  \* localStorage, sessionStorage, IndexedDB
          wire,   \* what each request carries, once sent
          world   \* connection, customers, and what only the reader sees

terminal == <<page, store, wire, world>>
allVars == <<row, call, sales, page, store, wire, world>>

Customer == 1..MaxCustomers
Rung == [of : Cart, who : Customer]

ASSUME NoneIsNothing == None \notin Request \cup Key \cup Cart \cup Rung

\* Why the page asks about a key, and how far it is: reading, fencing, about to act
\* on 'failed' (the one answer that may be out of date by then), resending.
Whys == {"none", "charge", "recover", "recheck", "check", "retry", "dismiss"}
Steps == {"read", "fence", "failed", "sent"}

Questions == [why : Whys, step : Steps, cart : Rung \cup {None}]

Pages == [phase : {"none", "saving", "error", "success"},
          key : Key \cup {None},                 \* idempotencyKeyRef
          print : Cart \cup {None},              \* lastChargeFingerprintRef
          payload : Rung \cup {None},            \* lastChargePayloadRef
          busy : Request \cup Key \cup {None},   \* chargeTokenRef: whose charge holds it
          resolving : BOOLEAN,                   \* isResolvingPriorAttempt
          notice : BOOLEAN,                      \* unresolvedAttemptNotice
          local : SUBSET Key,                    \* detachedKeysRef
          waits : SUBSET Request,                \* promises a handler still awaits
          retries : SUBSET Request,              \* those that handleRetryDetachedSale awaits
          polled : SUBSET Key,                   \* 'failed' answers the poll has yet to apply
          asks : [Key -> Questions]]

Entry == [status : {"none", "saving", "error", "success"}, safe : BOOLEAN, cart : Rung \cup {None}]

Stores == [cart : Rung \cup {None}, pending : Key \cup {None},
           detached : [Key -> Entry], queue : SUBSET Customer]

Messages == [key : Key \cup {None}, cart : Rung \cup {None}]

\* seen: the sales the cashier was shown; freed: why a key was let go.
Worlds == [customer : 0..MaxCustomers, online : BOOLEAN, disruptions : 0..MaxDisruptions,
           synced : SUBSET Customer, fences : SUBSET Key, seen : SUBSET Request,
           freed : [Key -> {"no", "failed", "abandoned"}], calm : BOOLEAN]

TerminalTypeOK ==
  /\ ServiceTypeOK
  /\ page \in Pages
  /\ store \in Stores
  /\ wire \in [Request -> Messages]
  /\ world \in Worlds

NoAsk == [why |-> "none", step |-> "read", cart |-> None]
NoEntry == [status |-> "none", safe |-> FALSE, cart |-> None]

FreshPage == [phase |-> "none", key |-> None, print |-> None, payload |-> None, busy |-> None,
              resolving |-> FALSE, notice |-> FALSE, local |-> {}, waits |-> {}, retries |-> {},
              polled |-> {},
              asks |-> [k \in Key |-> NoAsk]]

TerminalInit ==
  /\ ServiceInit
  /\ page = FreshPage
  /\ store = [cart |-> None, pending |-> None, detached |-> [k \in Key |-> NoEntry], queue |-> {}]
  /\ wire = [r \in Request |-> [key |-> None, cart |-> None]]
  /\ world = [customer |-> 0, online |-> TRUE, disruptions |-> 0, synced |-> {}, fences |-> {},
              seen |-> {}, freed |-> [k \in Key |-> "no"], calm |-> TRUE]

-----------------------------------------------------------------------------
(* Requests and keys. *)

Unsent(r) == wire[r].key = None
Minted == {wire[r].key : r \in Request} \ {None}

\* The release of a charge token: a no-op unless the caller still holds it.
Release(token) == IF page.busy = token THEN None ELSE page.busy

Remember(k, rung, st) == [st EXCEPT !.pending = k]

\* The tail of handleCharge: adopt the key, remember it durably, send.
Send(r, k, rung, pg, st, wd) ==
  /\ Unsent(r)
  /\ wire' = [wire EXCEPT ![r] = [key |-> k, cart |-> rung]]
  /\ page' = [pg EXCEPT !.key = k, !.print = rung.of, !.payload = rung, !.waits = @ \cup {r}]
  /\ store' = Remember(k, rung, st)
  /\ world' = IF st.pending \in {None, k} THEN wd
              ELSE [wd EXCEPT !.calm = FALSE]

\* A sale is confirmed in the popup, and the page forgets the attempt.  (What it
\* keeps of a forgotten attempt it reads no more.)
Forget(phase, pg) == [pg EXCEPT !.phase = phase, !.key = None, !.print = None, !.payload = None]
Confirmed(pg) == Forget("success", pg)
Seen(s, wd) == [wd EXCEPT !.seen = @ \cup {s}]

-----------------------------------------------------------------------------
(* What the cashier does. *)

\* Ring an order up for the next customer, or change what has been rung.
Ring(c) ==
  /\ page.phase = "none"
  /\ \/ /\ store.cart = None /\ world.customer < MaxCustomers
        /\ world' = [world EXCEPT !.customer = @ + 1]
        /\ store' = [store EXCEPT !.cart = [of |-> c, who |-> world.customer + 1]]
     \/ /\ store.cart # None
        /\ store' = [store EXCEPT !.cart.of = c]
        /\ UNCHANGED world
  /\ UNCHANGED <<serviceVars, page, wire>>

\* Remove every line: the customer leaves.
Empty ==
  /\ page.phase = "none" /\ store.cart # None
  /\ store' = [store EXCEPT !.cart = None]
  /\ UNCHANGED <<serviceVars, page, wire, world>>

\* Edit Cart: back from the error popup to the cart.
EditCart ==
  /\ page.phase = "error"
  /\ page' = [page EXCEPT !.phase = "none"]
  /\ UNCHANGED <<serviceVars, store, wire, world>>

MayCharge ==
  /\ store.cart # None
  /\ page.busy = None /\ ~page.resolving
  /\ page.phase \in {"none", "error"}

\* Mutant: a retry is recognised by its key alone.
UnmodifiedByKey == page.key # None

\* The same cart as the last attempt whose key is still held.
Unmodified == page.key # None /\ page.print = store.cart.of

\* handleCharge offline: queue the cart, with no idempotency key.
ChargeOffline ==
  /\ MayCharge /\ ~world.online
  /\ store' = [store EXCEPT !.queue = @ \cup {store.cart.who}, !.cart = None]
  /\ UNCHANGED <<serviceVars, page, wire, world>>

\* handleCharge online, on a first charge or an unmodified retry.
ChargeOnline(r) ==
  /\ MayCharge /\ world.online
  /\ page.key = None \/ Unmodified
  /\ \E k \in IF Unmodified THEN {page.key} ELSE Key \ Minted :
       Send(r, k, store.cart, [page EXCEPT !.phase = "saving", !.busy = r], store, world)
  /\ UNCHANGED serviceVars

Ask(k, why, rung) == [page.asks EXCEPT ![k] = [why |-> why, step |-> "read", cart |-> rung]]

\* handleCharge online, when the cart changed: resolve the held key first.
ChargeChanged ==
  /\ MayCharge /\ world.online
  /\ page.key # None /\ ~Unmodified
  /\ page' = [page EXCEPT !.phase = "saving", !.busy = page.key, !.resolving = TRUE,
                          !.asks = Ask(page.key, "charge", store.cart)]
  /\ UNCHANGED <<serviceVars, store, wire, world>>

\* Sales the cashier stopped waiting for and nobody has settled.
Unresolved == {k \in Key : store.detached[k].status \in {"saving", "error"}}

\* Mutant: a detached sale that is not saved anywhere.
DetachedNowhere(rung) == NoEntry

Detached(rung) == [status |-> "saving", safe |-> FALSE, cart |-> rung]

\* handleNewSale while saving: detach what is in flight and start over.
Detach ==
  /\ page.phase = "saving" /\ page.key # None /\ page.payload # None
  /\ Cardinality(Unresolved) < MaxDetached
  /\ store' = [store EXCEPT !.cart = None, !.pending = None,
                            !.detached[page.key] = Detached(page.payload)]
  /\ page' = [Forget("none", page) EXCEPT !.busy = None, !.local = @ \cup {page.key}]
  /\ UNCHANGED <<serviceVars, wire, world>>

\* handleNewSale otherwise: close the popup; the cart is taken to be cleared.
NewSale ==
  /\ page.phase = "success"
  /\ page' = [page EXCEPT !.phase = "none"]
  /\ UNCHANGED <<serviceVars, store, wire, world>>

\* handleRecheckPendingAttempt, from the banner.
Recheck ==
  /\ page.notice /\ ~page.resolving /\ page.phase = "none"
  /\ IF store.pending = None
     THEN page' = [page EXCEPT !.notice = FALSE]
     ELSE /\ page.asks[store.pending].why = "none"
          /\ page' = [page EXCEPT !.resolving = TRUE, !.asks = Ask(store.pending, "recheck", None)]
  /\ UNCHANGED <<serviceVars, store, wire, world>>

\* Pending tab: check a saving entry, retry or dismiss a failed one.
AskDetached(k) ==
  /\ page.asks[k].why = "none"
  /\ \E why \in CASE store.detached[k].status = "saving" -> {"check"}
                  [] store.detached[k].status = "error" ->
                       {"retry"} \cup IF store.detached[k].safe THEN {} ELSE {"dismiss"}
                  [] OTHER -> {} :
       page' = [page EXCEPT !.asks = Ask(k, why, None)]
  /\ UNCHANGED <<serviceVars, store, wire, world>>

Forgotten(k, st) == [st EXCEPT !.detached[k] = NoEntry]

\* Dismiss without asking: the entry is confirmed either way.
Dismiss(k) ==
  /\ page.asks[k].why = "none"
  /\ \/ store.detached[k].status = "success"
     \/ store.detached[k].status = "error" /\ store.detached[k].safe
  /\ store' = Forgotten(k, store)
  /\ page' = [page EXCEPT !.local = @ \ {k}]
  /\ UNCHANGED <<serviceVars, wire, world>>

\* A reload: handlers die with the page, a fence they sent may still land, and the
\* mount effects ask about the pending attempt and the detached sales still saving.
Reload ==
  /\ world.disruptions < MaxDisruptions
  /\ world' = [world EXCEPT !.disruptions = @ + 1,
                            !.fences = @ \cup {k \in Key : page.asks[k].step = "fence"}]
  /\ page' = [FreshPage EXCEPT
       !.resolving = store.pending # None,
       !.asks = [k \in Key |->
         CASE k = store.pending -> [NoAsk EXCEPT !.why = "recover"]
           [] k # store.pending /\ store.detached[k].status = "saving" -> [NoAsk EXCEPT !.why = "check"]
           [] OTHER -> NoAsk]]
  /\ UNCHANGED <<serviceVars, store, wire>>

-----------------------------------------------------------------------------
(* The answers of POST /transactions. *)

\* Changes to a detached entry are lost when it is gone.
Update(k, entry, st) ==
  IF st.detached[k].status = "none" THEN st ELSE [st EXCEPT !.detached[k] = entry]

Landed(k, st) == [st.detached[k] EXCEPT !.status = "success"]
Failed(k, safe, st) == [st.detached[k] EXCEPT !.status = "error", !.safe = safe]

\* The handler was detached, or retries a detached sale: its answer belongs to the
\* entry.
SettleDetached(r, sale, definite) ==
  LET k == wire[r].key IN
  /\ k \in page.local \/ r \in page.retries
  /\ page' = [page EXCEPT !.local = @ \ {k}, !.waits = @ \ {r}, !.retries = @ \ {r},
                          !.asks[k] = IF r \in page.retries THEN NoAsk ELSE @]
  /\ store' = Update(k, IF sale # None THEN Landed(k, store) ELSE Failed(k, definite, store), store)
  /\ world' = [world EXCEPT
       !.seen = IF sale # None THEN @ \cup {sale} ELSE @,
       !.freed[k] = IF definite THEN "failed" ELSE @]

\* A handler acts on the page as its own; the ghost notes when it is not.
Noting(k, pg, wd) == IF pg.key = k THEN wd ELSE [wd EXCEPT !.calm = FALSE]

SettleFront(r, sale, definite) ==
  LET k == wire[r].key
      rest == [page EXCEPT !.waits = @ \ {r}, !.busy = Release(r)]
  IN
  /\ k \notin page.local /\ r \notin page.retries
  /\ IF sale # None
     THEN /\ page' = Confirmed(rest)
          /\ store' = [store EXCEPT !.cart = None, !.pending = None]
          /\ world' = Seen(sale, Noting(k, page, world))
     ELSE IF definite
     THEN /\ page' = Forget("error", rest)
          /\ store' = [store EXCEPT !.pending = None]
          /\ world' = [Noting(k, page, world) EXCEPT !.freed[k] = "failed"]
     ELSE /\ page' = [rest EXCEPT !.phase = "error"]
          /\ world' = Noting(k, page, world)
          /\ UNCHANGED store

SettleAnswer(r, sale, definite) ==
  (SettleDetached(r, sale, definite) \/ SettleFront(r, sale, definite)) /\ UNCHANGED <<serviceVars, wire>>

\* The answer arrives.
Answered(r) ==
  /\ r \in page.waits /\ call[r].at = "done" /\ world.online
  /\ SettleAnswer(r, call[r].sale, call[r].outcome = "REFUSED")

\* The connection gives up first; the request may be anywhere.
NoAnswer(r) == r \in page.waits /\ SettleAnswer(r, None, FALSE)

-----------------------------------------------------------------------------
(* The answers of resolveAndFenceCheckoutAttempt. *)

Done(k) == [page EXCEPT !.asks[k] = NoAsk]

\* found: show the sale.
Found(k, s) ==
  LET why == page.asks[k].why
      front == [Confirmed(Done(k)) EXCEPT !.resolving = FALSE]
  IN
  /\ CASE why = "charge" ->
            /\ page' = [front EXCEPT !.busy = Release(k)]
            /\ store' = [store EXCEPT !.cart = None, !.pending = None]
            /\ world' = Seen(s, Noting(k, page, world))
       [] why \in {"recover", "recheck"} ->
            /\ page' = [front EXCEPT !.notice = IF why = "recheck" THEN FALSE ELSE @]
            /\ store' = [store EXCEPT !.pending = None]
            /\ world' = Seen(s, IF store.cart = None THEN world
                                ELSE [world EXCEPT !.calm = FALSE])
       [] OTHER ->
            /\ page' = Done(k)
            /\ store' = Update(k, Landed(k, store), store)
            /\ world' = Seen(s, world)
  /\ UNCHANGED wire

\* not-found: the key is free; a changed cart is sent under a new one.
NotFound(k, evidence) ==
  LET why == page.asks[k].why
      freed == [world EXCEPT !.freed[k] = evidence]
  IN
  \/ /\ why = "charge"
     /\ \E r \in Request, new \in Key \ Minted :
          Send(r, new, page.asks[k].cart,
               [Done(k) EXCEPT !.resolving = FALSE, !.notice = FALSE,
                               !.busy = IF @ = k THEN r ELSE @],
               [store EXCEPT !.pending = None], Noting(k, page, freed))
  \/ /\ why \in {"recover", "recheck"}
     /\ page' = [Done(k) EXCEPT !.resolving = FALSE, !.notice = IF why = "recheck" THEN FALSE ELSE @]
     /\ store' = [store EXCEPT !.pending = None]
     /\ world' = freed
     /\ UNCHANGED wire
  \/ /\ why = "check"
     /\ page' = Done(k)
     /\ store' = Update(k, Failed(k, TRUE, store), store)
     /\ world' = freed
     /\ UNCHANGED wire
  \/ /\ why = "dismiss"
     /\ page' = [Done(k) EXCEPT !.local = @ \ {k}]
     /\ store' = Forgotten(k, store)
     /\ world' = freed
     /\ UNCHANGED wire
  \/ /\ why = "retry"
     /\ \E r \in Request :
          /\ Unsent(r)
          /\ wire' = [wire EXCEPT ![r] = [key |-> k, cart |-> store.detached[k].cart]]
          /\ page' = [page EXCEPT !.asks[k].step = "sent", !.local = @ \cup {k},
                                  !.waits = @ \cup {r}, !.retries = @ \cup {r}]
     /\ store' = [store EXCEPT !.detached[k].status = "saving"]
     /\ world' = freed
  \/ /\ why = "retry"  \* another cashier's order is left for its own cashier
     /\ page' = Done(k)
     /\ world' = freed
     /\ UNCHANGED <<store, wire>>

\* in-progress, unknown: keep the key.
KeepKey(k, wd) ==
  LET why == page.asks[k].why
      blocked == [Done(k) EXCEPT !.resolving = FALSE]
  IN
  /\ page' = CASE why = "charge" -> [blocked EXCEPT !.notice = TRUE, !.phase = "error", !.busy = Release(k)]
               [] why = "recover" -> [blocked EXCEPT !.notice = TRUE]
               [] why = "recheck" -> blocked
               [] OTHER -> Done(k)
  /\ world' = IF why = "charge" THEN Noting(k, page, wd) ELSE wd
  /\ UNCHANGED <<store, wire>>

\* Mutant: an attempt the server has not heard of needs no fence.
DeadOrUnheard(k) == row[k].status \in {"abandoned", "none"}

Dead(k) == row[k].status = "abandoned"

\* GET by-idempotency-key: a pure read; no row yet asks for the fence.
ReadAttempt(k) ==
  /\ page.asks[k].why # "none" /\ page.asks[k].step = "read"
  /\ \/ KeepKey(k, world)
     \/ /\ world.online
        /\ \/ \E s \in SalesUnder(k) : Found(k, s)
           \/ Dead(k) /\ NotFound(k, "abandoned")
           \/ /\ row[k].status \in {"failed", "none"}
              /\ page' = [page EXCEPT !.asks[k].step = IF row[k].status = "none" THEN "fence" ELSE "failed"]
              /\ UNCHANGED <<store, wire, world>>
  /\ UNCHANGED serviceVars

\* The answer was 'failed'; the row may have been claimed again since.
HearFailed(k) ==
  /\ page.asks[k].step = "failed"
  /\ NotFound(k, "failed")
  /\ UNCHANGED serviceVars

\* Mutant: a fence request whose answer is trusted before it is made.
TrustUnfenced(k) ==
  /\ page.asks[k].step = "fence"
  /\ NotFound(k, "abandoned")
  /\ UNCHANGED serviceVars

\* POST .../abandon: fence the key unless a live attempt or a sale has it.  Unless
\* it wins the terminal keeps the key; when no answer comes it may still land.
FenceAttempt(k) ==
  /\ page.asks[k].step = "fence"
  /\ \/ KeepKey(k, world) /\ UNCHANGED serviceVars
     \/ /\ world.disruptions < MaxDisruptions
        /\ KeepKey(k, [world EXCEPT !.disruptions = @ + 1, !.fences = @ \cup {k}])
        /\ UNCHANGED serviceVars
     \/ /\ world.online
        /\ \/ (\E s \in SalesUnder(k) : Found(k, s)) /\ UNCHANGED serviceVars
           \/ Dead(k) /\ NotFound(k, "abandoned") /\ UNCHANGED serviceVars
           \/ Bury(k) /\ NotFound(k, "abandoned")

LateFence(k) ==
  /\ k \in world.fences
  /\ Bury(k)
  /\ world' = [world EXCEPT !.fences = @ \ {k}]
  /\ UNCHANGED <<page, store, wire>>

\* Mutant: a poll that takes an attempt still in progress for a sale.
RecordedSoon(k) == row[k].status \in {"in_progress", "committed"}
Recorded(k) == SalesUnder(k) # {}

\* The background poll of detached sales no handler waits for: it never fences.
Poll(k) ==
  /\ world.online /\ store.detached[k].status = "saving" /\ k \notin page.local
  /\ \/ /\ Recorded(k)
        /\ store' = Update(k, Landed(k, store), store)
        /\ world' = [world EXCEPT !.seen = @ \cup SalesUnder(k)]
        /\ UNCHANGED page
     \/ /\ ~Recorded(k) /\ Dead(k)
        /\ store' = Update(k, Failed(k, TRUE, store), store)
        /\ world' = [world EXCEPT !.freed[k] = "abandoned"]
        /\ UNCHANGED page
     \/ /\ row[k].status = "failed" /\ page.polled = {}
        /\ page' = [page EXCEPT !.polled = {k}]
        /\ UNCHANGED <<store, world>>
  /\ UNCHANGED <<serviceVars, wire>>

\* A poll that read 'failed' applies it, whatever happened to the entry since.
ApplyPoll(k) ==
  /\ k \in page.polled
  /\ page' = [page EXCEPT !.polled = {}]
  /\ store' = Update(k, Failed(k, TRUE, store), store)
  /\ world' = [world EXCEPT !.freed[k] = "failed"]
  /\ UNCHANGED <<serviceVars, wire>>

-----------------------------------------------------------------------------
(* The network. *)

Deliver(r) ==
  /\ ~Unsent(r)
  /\ Open(r, wire[r].key, wire[r].cart.of)
  /\ UNCHANGED terminal

GoOffline ==
  /\ world.online /\ world.disruptions < MaxDisruptions
  /\ world' = [world EXCEPT !.online = FALSE, !.disruptions = @ + 1]
  /\ page' = [page EXCEPT !.polled = {}]
  /\ UNCHANGED <<serviceVars, store, wire>>

\* Back online, the queue is synced; the server takes each queued sale once.
GoOnline ==
  /\ ~world.online
  /\ world' = [world EXCEPT !.online = TRUE, !.synced = @ \cup store.queue]
  /\ store' = [store EXCEPT !.queue = {}]
  /\ UNCHANGED <<serviceVars, page, wire>>

-----------------------------------------------------------------------------
Cashier ==
  \/ \E c \in Cart : Ring(c)
  \/ \E r \in Request : ChargeOnline(r)
  \/ \E k \in Key : AskDetached(k) \/ Dismiss(k)
  \/ Empty \/ EditCart \/ ChargeOffline \/ ChargeChanged \/ Detach \/ NewSale \/ Recheck \/ Reload

TerminalNext ==
  \/ Cashier
  \/ \E r \in Request : Answered(r) \/ NoAnswer(r) \/ Deliver(r)
  \/ \E k \in Key : \/ ReadAttempt(k) \/ HearFailed(k) \/ FenceAttempt(k) \/ LateFence(k)
                    \/ Poll(k) \/ ApplyPoll(k)
  \/ GoOffline \/ GoOnline
  \/ \E r \in Request : Serve(r) /\ UNCHANGED terminal

TerminalSpec == TerminalInit /\ [][TerminalNext]_allVars

-----------------------------------------------------------------------------
(* Properties. *)

\* Whatever is retried, edited, detached or recovered, a key is only ever sent
\* with one cart, so no retry is refused as a reuse of its key.  (With the types.)
OneCartPerKey ==
  /\ TerminalTypeOK
  /\ \A r, q \in Request :
       wire[r].key = wire[q].key /\ ~Unsent(r) => wire[r].cart.of = wire[q].cart.of

\* Once the terminal lets go of a key because it was abandoned, no sale of that
\* key ever exists, however late its requests arrive.
AbandonedNeverSells ==
  \A k \in Key : world.freed[k] = "abandoned" => SalesUnder(k) = {}

\* A popup or a Pending entry that says success is backed by a committed sale.
SuccessMeansSold ==
  /\ world.seen \subseteq sales
  /\ \A k \in Key : store.detached[k].status = "success" => SalesUnder(k) # {}

\* Across losses, edits, detached sales and reloads no customer is charged twice
\* online, unless a key was let go on a rejection that a late duplicate outlived,
\* or one of the mishaps happened first: a handler acted on the next order, a
\* recovered order was left in the cart, a pending record was overwritten.
ChargedOnce ==
  world.calm =>
    \A r, q \in sales : r # q /\ wire[r].cart.who = wire[q].cart.who =>
      "failed" \in {world.freed[wire[r].key], world.freed[wire[q].key]}

\* A sale the cashier was never shown is still remembered by something that will
\* ask for it: the pending record, a Pending entry, or the page itself.
SalesAreAccounted ==
  world.calm =>
    \A r \in sales \ world.seen :
      LET k == wire[r].key IN
      \/ k \in {store.pending, page.key}
      \/ store.detached[k].status # "none"
      \/ world.freed[k] = "failed"
=============================================================================
