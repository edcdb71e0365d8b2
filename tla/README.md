# Formal model of the Potato Corner point of sale

TLA+ models of the parts of this repository where money, stock, records and
idempotency meet concurrency: TLC checks them on small instances, and TLAPS proves the most
important results for every value of the constants. `PROJECT.json` maps every
definition to the lines it stands for, lists the hazards of the code at their
lines, and for each property a plausible bug that the property catches.

Abbreviations of paths used below:

| name | file |
|---|---|
| TS | `apps/api/src/modules/transactions/transactions.service.ts` |
| DR, DS, DW | `apps/api/src/modules/inventory-deduction/` repository, service, worker |
| UI | `apps/api/src/modules/universal-inventory/universal-inventory.service.ts` |
| CS, CR | `apps/api/src/modules/cash/` service, repository |
| PAGE | the web terminal's `page.tsx` |
| PS, PR | `apps/api/src/modules/products/` service, repository |
| PY | `apps/api/src/modules/payroll/payroll.service.ts` |
| IA | `apps/api/src/modules/inventory-approval/inventory-approval.service.ts` |
| AR, AL | `audit-outbox.repository.ts`, `middleware/audit-log.ts` |
| HQ | `apps/api/src/queues/hold-order.queue.ts` |
| REC, DET, SQ | the web app's `checkout-recovery.ts`, `detached-sales.ts`, `sync-queue.ts` |

## 1. The system

A branch terminal (a Next.js page) sells through an Express and Prisma API over
PostgreSQL.  Several API instances run the same background jobs.

| component | state it keeps | operations | talks to | what is hard | what makes it correct |
|---|---|---|---|---|---|
| Online checkout attempts (API, TS) | one `checkout_attempts` row per idempotency key; `transactions` with a unique index on the key | claim, settle, validate, insert, fence and commit, fail, replay, abandon, resolve | terminal over HTTP; stock and shifts in the sale's database transaction | racing retries, leases that expire under a live request, crashes, late duplicates, abandon against commit | at most one sale per key; a replay is the same cart; a refusal stays true; committed and abandoned are final |
| Checkout terminal (web, PAGE, REC, DET) | React state and refs, `localStorage` (pending attempt, detached sales), `sessionStorage` (cart) | charge, retry, edit, New Sale, recheck, check, retry or dismiss a detached sale, poll, reload | the checkout API, the offline queue | lost answers, handlers that resume after the cashier moved on, reloads in flight | no customer charged twice; no sale forgotten; success means sold |
| Offline queue (web, SQ; API sync) | IndexedDB queue, sequence counters | queue, sync, per-row answers | terminal, sync endpoint | resent batches, two tabs | each queued order sold once |
| Sale stock settlement (API, DR, DS, DW) | `inventory_stocks`, `inventory_movements`, `inventory_deduction_jobs`, the sale's deduction badge | reserve at checkout, claim a batch, deduct, retry with backoff, reclaim stale locks, cancel or reverse on void and refund, requeue by hand | checkout, stock room | several workers, stale locks, crashes, void racing a deduction | reserved equals what open jobs need; each sale is deducted or released once |
| Stock room (API, UI) | the same stock rows and movements | receive, adjust, waste, count, transfer | settlement | locked reads beside a checkout that takes no lock | movements explain the quantity on hand |
| Cash shifts (API, CS, CR) | `shifts`, with totals frozen at the close | open, close with a count, clock-out close, void, approve a variance | sales, voids, refunds, attendance | reads before writes with and without `branchShiftLockId` | a drawer is counted once; each cash refund reduces one drawer |
| Hold orders (API, HQ) | `hold_orders`, expiry timers in memory | hold, release, expire | shifts | a limit counted and then inserted, timers that die with the process | the limit is passed only by requests in flight; a released cart stays released; timed orders leave |
| Stock desk (API) | `inventory_operation_attempts`, `inventory_evidence_uploads` | upload a proof, receive, adjust, waste, replay, sweep | stock rows | four statements with nothing around them; calls lost after any | one key, or one photo, moves stock once |
| Inventory approvals (API, IA) | `inventory_approval_requests` | submit, approve, return, correct, cancel | stock desk | decisions racing on one row; stock moving under a waiting count | a request is applied at most once; one future per request |
| Audit log and outbox (API, AR, AL) | `audit_outbox`, the hash chain of `audit_logs` | enqueue, claim, deliver, record a failure, requeue; `recordAuditLog` | everything | several instances and clocks, taken-over claims, lost answers | delivered whole, once, in order; the outbox never forks the chain |
| Attendance (API) | `attendance_records`, breaks | clock in and out, start and end a break, correct | payroll, shifts | corrections take no lock and are three statements apart | clocked in once; no unended break on a record with a clock-out |
| Payroll (API, PY) | `payroll_runs`, lines, claims, policies | create, preview, finalize, revise, discard, mark paid | attendance | attendance changes while it is read, policies change the dates | no date or record paid twice; later changes reported; finalized runs stay |
| Catalog publication (API, PS, PR) | `products`, `branch_product_availability`, type scopes, replaced copies | publish, toggle, restore, withdraw, fork, replace, assign a type, edit a recipe | stock shortages | status changes without the catalog lock, markers decided on a snapshot | sold only in scope; replacements stand; published means complete |
| Sessions | refresh tokens, rotation cache | rotate, revoke | web | near-duplicate refreshes | one live token per family |
| Projection outbox, PIN tokens, fraud, reports, EOD, other catalog, socket, admin pages | various | CRUD, jobs, reads | | | |

## 2. The modules

```
CheckoutService  <--refines--  CheckoutAttempt    <-- CheckoutAttempt_proofs
      ^ EXTENDS
CheckoutTerminal                                  <-- CheckoutTerminal_proofs

SaleSettlement   <--refines--  SaleStock          <-- SaleStock_proofs
StockWrites      <--EXTENDS--  InventoryApproval,
                               ProductPublication <-- InventoryApproval_proofs
AuditTrail       <--refines--  AuditOutbox,
                               StockLocks         <-- StockLocks_proofs

BranchShifts     <--EXTENDS--  ShiftDrawer,
                               HoldOrders         <-- ShiftDrawer_proofs
Attendance       <--EXTENDS--  Payroll            <-- Payroll_proofs

OfflineSync                                       <-- OfflineSync_proofs
```

`ProductPublication` and `InventoryApproval` share no state: what supervisors do to
the catalog and to requests is proved in one module only.  So is what locks do:
`StockLocks` orders those of the stock, `AuditOutbox` appends under that of the audit
chain.

Every module `M` that TLC runs has a module `MCM` with the instance's symmetry
and values, and a `.cfg` with the bounds.

### CheckoutAttempt: the server's idempotency protocol

| TLA+ | code |
|---|---|
| `attempt[k]`: status, owner, live lease | the `checkout_attempts` row (`status`, `owner_token`, `lease_expires_at >= now()`) |
| `req[r].at` | the statement `createTransaction` is about to run for request r |
| `sold` | committed `transactions` rows |
| `Lookup`, `Replay`, `Conflict` | the three places a stored sale is replayed: the fast path, a claim lost to a committed row, and P2002 |
| `Claim`, `Reread`, `Settle`, `SettleTimeout` | `claimCheckoutAttempt` and `awaitCheckoutAttemptSettlement` with its single second claim |
| `Validate` | every check before the database transaction opens; it may refuse |
| `InsertSale`, `FenceAndCommit`, `Rollback` | the sale's `$transaction` |
| `FailAttempt`, `Crash` | the catch blocks |
| `LeaseExpires`, `Abandon` | time, and `abandonCheckoutAttempt` |

A request is its own owner token: the code mints a `randomUUID()` per claim and
a request wins at most one.  The lease is one Boolean that may fall at any
moment, since it is written with the application's clock and compared with the
database's.  `InsertSale` waits while another uncommitted sale holds the unique
index entry of its key, as PostgreSQL does.

`CheckoutService` is what a terminal may rely on: one row and at most one sale
per key, and three gists of an answer (sold, refused, unsure).  `KeepsItsPromise`
is the refinement.

### CheckoutTerminal: the page, over CheckoutService

`page` is what a reload loses, `store` what it keeps, `wire` what was sent,
`world` the connection and ghosts.  One action is one stretch of handler code
between two `await`s.  `Send` is the tail of `handleCharge`; `SettleFront` and
`SettleDetached` are what it does with an answer; `ReadAttempt`, `HearFailed`,
`FenceAttempt` are the steps of `resolveAndFenceCheckoutAttempt`; `Found`,
`NotFound` and `KeepKey` are what each of its six callers does with the result.
Choices made in the abstraction:

* at most one question per key is in flight at a time;
* 'found' and 'abandoned' answers are applied as they are read, because they
  are permanent (proved for the server: `TerminalRowsAreFinal`); 'failed' may be out
  of date when it is applied, so it has a step of its own (`HearFailed`,
  `ApplyPoll`);
* `handleNewSale` with a full backlog or a full `localStorage` refuses, which
  changes nothing; a retry of another cashier's detached sale is the second
  "retry" disjunct of `NotFound`;
* the ghost `world.calm` falls when one of three known mishaps has happened: a
  handler acted on an attempt that is not the page's own, a recovered order was
  left in the cart, or a pending record was overwritten.  `ChargedOnce` and
  `SalesAreAccounted` say what holds without them, and section 5 lists the
  mishaps.

### SaleStock: reservation, deduction, reversal, and the stock room

One action per database transaction, except the two that read a row under its
advisory lock and write it later (the worker's and the stock room's), which are
split between the read and the write: checkout's conditional UPDATE takes no
such lock.  `job[s].stale` and `job[s].due` stand for the two clocks
(`INVENTORY_DEDUCTION_STALE_LOCK_MS`, `nextAttemptAt`).  `CommitApply` may leave
its worker believing that it failed.  `DropBatch` is a crash, or a
`recordFailure` that throws and ends the cycle.  `SaleSettlement` is the
promise: held, then deducted or released, and perhaps reversed, each once and
each as a whole bill of materials.

### ShiftDrawer: one branch's drawer

Handlers read (`Begin...`) and write (`Finish...`).  Only `closeShift` and a cash
refund hold `branchShiftLockId` in between; `createTransaction`,
`voidTransaction`, `autoCloseShift`, `voidShift` and `approveVariance` act on what
they read.  Sums of money are the sets of sales they add up, so "counted twice"
and "forgotten" are visible; `refunded_at` is the set of shifts started by then,
which is all the time window of `sumCashRefundsProcessedDuringShift` looks at.

### AuditOutbox: the outbox, its workers and the chain

A group is claimed, delivered and failed as a whole, because every statement
selects by `groupId`.  The groups a worker has left are a set, `todo`, and `Turn` is the
oldest of them: groups are numbered in the order `claimBatch` sorts them in.
`Look` and `Stamp` are the two statements of `claimBatch`,
`Open` is `deliverGroup` up to its read of the tail (which locks the group's rows
and the chain), `AppendGroup` the rest to COMMIT, whose answer may be lost, and
`Record` is `recordFailure`, guarded by the claim.  Each entry has a time; an
instance's clock is any time `Stamps` allows after the tail.  `WriterReads` and
`WriterWrites` are `recordAuditLog` (AL), which appends to the same chain with no
lock.  `AuditTrail` is the promise: owed groups enter the trail whole, once, in
order, in the step that acknowledges them.  Its trail is the outbox's entries by time:
the entry at n is the one with n of them, itself included, no later than it (`Place`).

### OfflineSync: one device's queue and the sync endpoint

`Mint` and `Add` are the read and the put of the shared counter, with the date
taken apart from the number's; `Send` posts the rows of the cashier who stands
there; `Check` and `Commit` are what the endpoint does with one item, against
`findByOfflineIdentity` and the unique index on (branch, device, number); `Apply`
writes one answer back.  Tabs share rows and counter, and may reload, lose the
connection, or change cashier at any point.  `rules` is whether the catalog still
accepts the carts; it moves both ways.

### HoldOrders: held carts and their timers

Reads and writes of `holdOrder` and `releaseHoldOrder` are apart, as no statement
locks; `timer` is what this process has set, and `Restart` forgets it.  The ghost
`lost` says whose timer went down, was never set, or fired into a database error
(`TimerFails`): nothing in the code looks for those orders again, and
`TimedOrdersLeave` speaks of the others.
The shifts and requests are those of `BranchShifts`, which `ShiftDrawer` extends too;
names that both components would have carry a prefix here (`HoldSpec`, `holding`).

### Attendance and Payroll

`Attendance` is one employee's records: clock-in, clock-out and breaks in a
transaction each, a correction in three steps (`CorrectReads`, `CorrectInserts`,
`CorrectDeletes`) that take no lock.  `Payroll` extends it and adds the branch's
runs.  A finalization is two steps, the read of the period's records and
everything after it, and attendance steps may come between.  Of what can block a
finalization `Blocked` has the exceptions that depend on attendance: an overlap, an
open shift, an unended break (`OPEN_BREAK`, which `OneShiftAtATime` shows never to
arise); the others are among the reasons `FinalizeRefused` may have.  A fingerprint is
the calculation itself; of all the previews only the reviewer's latest is kept.
The ghost `raced` records the rows written between those two steps.  Two
instants and three kinds of policy are enough for periods that overlap without
being equal: semi-monthly days, one month of both, and the days of another
timezone.

### StockWrites and InventoryApproval

`StockWrites` is one desk call as the four statements it is: claim the key,
consume the photo, write the stock, record the result; `Lose` ends it after any.
Of stock only its `version` is kept, since quantities are `SaleStock`'s.
`InventoryApproval` extends it with request rows: `Opens` is a handler's first
read, `Approve`, `Return`, `Correct` what it does later with what it finds then.
`stamp` is `stockVersionAtSubmission`, `seen` the version the row's figure was
counted at; they differ when a correction carries an old figure over.

### ProductPublication: where a product and its branch copy are sold

A transaction is three steps: its checks under the locks it holds (`LocksOf`), its
statements, whose marker is decided on what it sees (`Stage`), and its commit.
Status changes take no lock, except a restore; withdrawing is two bare updates
(`WriteStatus`, `CascadeOff`).  `lacks` are the parts of a product's set-up that lack
something.  `"recipe"`, its components and flavor slots, is edited under the lock
(`Configure`), except that a missing component is added without it
(`AddComponent`).  `"sizes"`, the rest of what readiness reads, and `"choices"`, the
option groups and unit conversions of `evaluatePublicationConfiguration`, are edited
by calls that take no lock (`EditFreely`).  A publication is judged on all three, a
replacement on readiness alone.  `PublishedWithRecipe` is therefore about the recipe
only: sizes or choices may break between the judgement and the commit.  The ghost `crossed` marks a product of which two transactions
overlapped so that neither saw what the other wrote (a toggle and an unlocked
change to active): it may then be live and unmarked, and `LiveIsMarked` excepts
it.  `Catalog` in a name (`CatalogInit`, `CatalogSpec`) keeps it apart from the module it
is proved beside.

### StockLocks: who waits for whom

Every transaction that writes stock, or closes a drawer, as its locks: advisory
keys (`shift`, `ingredient`, `key`) and rows (`txn`, `job`, `row`), taken one by one in
the order of `Stage` and `Sorted`, held to the end.  `Take` grants one and tests the
condition of the update it is for (`Passes`); `ReadsJob` is
`reverseOrCancelInventoryForTransaction` reading the job and choosing its way;
`Commit`, `Fails` end a transaction; `Victim` is the database breaking a circle.
The quantities, shortages included, are `SaleStock`'s: here any transaction may
fail.  A claim holds its rows for one statement, and the rows a checkout writes
besides (its own transaction, attempt and job) meet nobody before it commits; the
legacy ingredient routes answer 410 and lock nothing.  Approvals lock their request and then
go on as `Desk`.  Row locks of foreign keys do not conflict with these updates.

Operators commented "Mutant:" are plausible bugs of the operator that follows
them; no specification uses them.

## 3. The runs

| run | instance | states | shows |
|---|---|---|---|
| `checkout_attempt` | 3 requests, 2 keys, 2 carts | 183,025 | one sale per key, faithful replays, true refusals, final rows, only the owner settles, and the refinement of `CheckoutService` |
| `sale_stock` | 2 sales sharing row r1, 2 rows, 2 workers, 1 clerk, `MaxAttempts` 2, `MaxStock` 2, one desk transaction, one slip, one requeue | 200,006 | reservations match open jobs, the ledger explains stock and nothing goes negative, badges say what a standing sale's job waits for, `SaleSettlement` is implemented, and every job settles |
| `checkout_terminal` | 2 requests, 2 keys, 2 carts, 2 customers, backlog of 1, 1 disruption | 2,476,694 | no double charge, no forgotten sale, one cart per key, abandoned keys never sell |
| `shift_drawer` | 3 shifts, 1 sale, 3 requests in flight | 627,472 | refunds counted once, sales counted, counts final |
| `audit_outbox` | groups of 2 and 1 events, 2 workers, 1 legacy call, `MaxAttempts` 2, 3 slips, 1 requeue, clocks 1 ahead | 129,662 | the outbox never forks the chain, implements `AuditTrail`, and settles every group |
| `offline_sync` | 2 tabs, 2 carts, 2 cashiers, 2 calls in flight, 2 numbers a day, 2 days, 1 fault | 972,010 | each queued cart is kept, sold at most once and under its own cashier; done means sold |
| `hold_orders` | 3 orders, 1 shift, 2 requests, limit 1 | 50,834 | the overshoot of the limit, release against expiry, timed orders leave unless their timer failed or went down |
| `payroll` | 2 records, 1 correction in flight, 2 runs, 2 instants, 3 policies | 1,519,958 | one open shift, nothing paid twice, changes flagged, finalized runs stay |
| `inventory_approval` | 2 calls, 1 key, 2 photos, 3 requests (one of them old), 2 reviewers, version up to 2, 2 pieces of work | 328,806 | nothing moves twice, one future per request, settled for good |
| `publication` | 2 products, 2 branches, 2 handlers, 4 requests | 948,109 | scope, replacement, marker, recipe at publication |
| `stock_locks` | 2 transactions, 3 sales (two old, of opposite lines), 2 branches, 2 items, 2 ingredients | 112,004 | circles of waiting are only of two known kinds; every transaction ends |
| `shift_unreviewed` | 2 shifts, 1 sale, 2 requests | violation | finding 1 |

Why the bounds are enough to be interesting.  Three requests are a holder, a
reclaimer and a late duplicate of one key, and two carts let the key be reused
wrongly.  Two sales sharing a row make a release or deduction of one visible in
the reservation of the other, and two attempts reach both the backoff and the
final failure; a slip is a crash or a stale lock under a live worker.  Two
requests and two keys are a retry of the same key or a replacement of it, and
with two customers a stray answer can hit the next one.  Every property of
`ShiftDrawer` speaks of one sale at a time and of at most two shifts; the third
shift is the one opened while the first two are being settled.  In
`audit_outbox` three slips are a lost answer, the staleness that follows it and a
crash, and a group of two shows a delivery that is not whole.  Two tabs are enough
to mint one number twice, two calls to send one row twice, and a fault is a lost
answer or a reload.  With a limit of one, two requests pass it.  In `payroll` two
runs are a run and its revision, or two whose periods overlap; two records are a
shift and its corrected copy, or two that overlap.  Two calls are a call and its
repeat or two with one photo, and the three requests a count, its correction and
a row of before counts; `FewAtWork` bounds the work of a behaviour at two pieces,
so that every pair meets.  In `publication` two handlers race for one product,
and four requests are a fork's activation, an enable, an archive and a restore.
An edit without a lock counts as two of them, which leaves room for a copy's activation,
its replacement and the edit that breaks it in between.
Two transactions are a circle that is a pair, two items give locks an order and two
branches opposite transfers; that more transactions make no other circle is proved.  Requests, keys,
carts, shifts, sales and handlers are interchangeable, so the runs use symmetry;
runs that check liveness use none.

Deadlock checking is off because behaviours end: requests are answered,
customers served, bounds spent.  That no one waits for ever is `EveryJobSettles`
where a scheduler exists.

**Fairness.** Four specifications have any.  In `SaleStock`'s `FairSpec` each API
instance polls every two seconds (DW), hence weak fairness of `Work(w)`; clocks
advance, hence of `LockGoesStale` and `BackoffEnds`; a stock-room transaction
commits or is rolled back, hence of `CommitDesk \/ AbortDesk`.  In `AuditOutbox` the
workers poll likewise (`Cycle(w)`), backoffs end, and a claim that nobody works on
grows stale.  In `HoldOrders` time passes and due timers go off, with whatever
outcome (`TimerEnds`), one that fails being lost.  In `StockLocks` a lock's queue is first come, first served, so a transaction whose next
lock is free again and again gets it (strong fairness of `Goes(a)`), and
PostgreSQL looks for circles after `deadlock_timeout` (weak fairness of `Victim`).  Nothing forces a
sale, a void, a crash or a requeue to happen.  Crashes are bounded, so the claims
are that a job, or a group, settles once they stop.  The offline queue has no
liveness property: it is sent when a tab reconnects, mounts, changes cashier or is
told to, and a row whose shift has closed fails for ever.

## 4. What is proved

With TLAPS, for every value of the constants that satisfies the assumptions of the
module the theorem is about.  These are that the null value is none of the keys,
requests, shifts and so on (`NoneIsFresh`, `NoneIsNew`, `NoneIsNoRun`, ...), that
bounds are natural numbers (`BoundsAreCounts`, `VersionsAreCounts`, `TimeIsPositive`,
...), and, where a module counts or orders something, what makes that possible:

* `HoldOrders`: finitely many orders and requests (`SetsAreFinite`) and a limit above
  zero (`LimitIsPositive`);
* `StockLocks`: the ids of branches and items are ordered (`IdsAreOrdered`), as
  strings in the code are, and a sale has a branch, items and a snapshot
  (`SalesAreKnown`);
* `ProductPublication`: Home is a branch (`HomeIsABranch`);
* `AuditOutbox`: groups are numbered, and finitely many (`GroupsAreOrdered`); each has an
  event (`SizesArePositive`, `enqueue` writes nothing for none); groups, workers
  and calls are apart (`NamesAreFresh`);
* `SaleStock`: the snapshot's needs and the opening stock are natural numbers
  (`Quantities`), and at least one attempt is allowed (`Bounds`).  Nothing is
  assumed of how many sales there are.

TLC evaluates each of them in the module's run.  Every theorem of a safety
property rests on the `Invariance` theorem of its module, which says that `IInv` is
one; TLC checked each `IInv` on the run's instance before it was proved.

**CheckoutAttempt_proofs.** `SaleIffOwnerCommitted` is not inductive: nothing in it
says why a request about to replay or to fence is entitled to.  `IInv` adds that
only a finished request has a sale (`SellersAreDone`) and, per request
(`Honest`), that one past its arrival carries a key, that one going to replay has a
committed row and one that met P2002 has a winner, that an answer is a
committed sale of the same key and cart, and that what was told is true.  A step
touches one request and at most one row (`Touches`), and never unsettles a
settled one (`Grows`); so `HonestStays` carries every other request over, and
each action needs its own request only.  Consequences: `SalesAreFenced`,
`AtMostOneSalePerKey`, `ReplaysAreFaithful`, `RefusalsStayTrue`,
`TerminalRowsAreFinal`, `OwnersSettle`, and `PromiseKept`: the module implements
`CheckoutService`.  There a step is a step of the row (`ShownRow`), of the sales, or
of what a request was told (`Shown`), and most are stutters; the one thing the
simulation needs beyond `IInv` is that a request that was told its lease was lost never owns
its key's row again (`LostForGood`), so that when it gives up the row stays as it is.

**ShiftDrawer_proofs.** `IInv` joins the types and the lock's holder (`TypeOK`), the
unique index on active shifts (`OneOpen`), what a request in flight still knows
of what it read (`InOrder`), counted drawers being no longer open and uncounted
ones empty (`Uncounted`), refunds dated within their drawer's shift (`Dated`), and
the totals of each counted drawer, and of the one being counted, being right for
good (`Totals`, by `Settled`) and disjoint (`Apart`).  The heart is `Settled`: a
refund in a drawer's total happened while no other drawer that had started by
then is still open, so no later count takes it again.  Consequences:
`RefundsAreCountedOnce`, `CountsAreFinal`, `TypeCorrect`.

`SalesOfCountedDrawers` needs one more invariant, `Landings`: the total of a counted
drawer, and of one being counted, covers its sales, and a sale or void still in
flight that will land in it is noted in `raced` already.  A close notes whoever is in
flight when it writes; a later request cannot start, since the shift is closed.

The same module has the proofs about the carts held in those shifts, of which
`HoldSpec` speaks.  The bound on held
orders counts requests that have counted and not inserted, so it must know which
they are.  `HoldIInv` joins the types, the
bound per shift (`Overshoot`), that lost timers belong to rows, and what a request
still knows (`InHand`): the order it is about to arm or release is a row, runs no
timer yet and is nobody else's to arm.  A request that finds room starts with at
most `Limit - 1` orders held and at most every request past its count (`HoldFinds`);
one that inserts moves from one side of the sum to the other (`HoldMoves`); every
other step only shrinks both (`HoldShrinks`).  Consequences: `LimitIsNearlyKept`,
`ReleasesStay`.

**StockLocks_proofs.** `IInv` joins the types, that no two transactions have one lock
(`Exclusive`), which locks each kind may have or want (`Footprint`), that what it has
comes before what it wants (`InOrder`), and what it knows of the sale and the job
whose rows it has (`Informed`, `JobFits`): without the last, a sale could be undone
while another undoes it.  In a smallest circle everyone waits and is waited for
(`EveryoneWaits`).  Without rivals nobody waits there for a drawer, a transaction
row or a job row (`OnStockOnly`).  Nobody waits for a stock row (`NoRows`): take one of
the largest item; its holder is a transfer waiting for the other row of that item,
whose holder is such a transfer too, and both would have one key.  Nor for a key (`NoKeys`): the
holder of the last, by item and then branch, would wait for a later one.  What is
left waits for ingredients: legacy reversals.  Consequence: `OnlyKnownCircles`.

For the audit chain, of which `AuditSpec` speaks, `OutboxNeverForks` says nothing of the
delivery that has read its tail and not written yet.  `AuditInv` does (`Appending`): its
group is still its own, and nothing of the outbox's is later than that tail or continues
it.  The tail may well be an entry of `recordAuditLog`, or be followed by one
meanwhile; the bound is about the outbox's entries only.  That a tail just read is
continued by nothing (`NothingAfterTheTail`) rests on the order in time: what continues
an entry is later, and the tail is the newest.  `Sources` says that every entry is a
delivered group's or a finished call's, once; so a delivery's ids are new.
Consequence: `OutboxIsOneChain`.  `TrailIsKept` is the refinement: entries of different
times have every place from 1 to their number, once (`PlacesAreTaken`), and a delivery's,
being later, take the next ones in their order (`LaterEntries`, `ListGrows`); every
other step leaves the list alone (`WorkersUnseen`, `OthersUnseen`).

**SaleStock_proofs.** `ReservedIsOpen` is about a sum over a set, so the proof starts
with sums.  `MapThenSumSet` folds a set by a recursive function on its subsets.
Strict inclusion of finite sets is well founded, so a set of subsets has a minimal
element (`Minimal`); hence the equation of the fold has one solution at most
(`SolutionsAgree`) and one at least (`SolutionExists`), the sum is it (`SumSolves`), and
it does not depend on the order of the elements (`SumRemoves`, `SumAdds`).  `IInv`
joins the types, `Sums` (what a row reserves is the sum over finitely many unsettled
sales), `Ledger`, the agreement of a sale, its job and its badge (`Agrees`), and what
makes the split transactions safe: a worker inside its transaction still has its
claim, will release exactly what the sale reserved, and its rows still cover the
sale (`Applies`); a clerk's row is still as it was read (`Holds`); and no row is locked
twice (`Apart`).  Without `Applies` a commit could release less than was reserved, or go
below zero; without `Apart` a clerk could change a row under a worker.  That a
release never meets its floor at zero is `ReservedCovers`, a consequence of `Sums`.
Consequences: `ReservedIsWhatIsOpen`, `MovementsExplainStock`, `BadgesAgree`, and
`SalesSettle`: the module implements `SaleSettlement`, where checkout holds, a commit
deducts, a void or refund releases or reverses, and claims, retries, crashes, manual
requeues and the stock room advance nothing.

**InventoryApproval_proofs.** For the desk: a key named by a call at work is claimed,
a photo it has proven is spent, and neither is another such call's (`Claims`).  For the
reviews: a request has moved stock once at most and only approved (`MovedOnce`); a
follow-up's predecessor stays returned and has no other (`OneFuture`); the stamp of a
filed count is the version its figure was counted at, or its predecessor's figure is the same
(`TrueStamp`).  A handler knows only which row it read (`HasRead`): nothing else of what
it read is trusted by the code, and the proof shows that nothing else needs to
be.  Consequences: `StockMovesOnce`, `LineagesSettle`, `SettledStays`.

For the catalog, of which `CatalogSpec` speaks, none of the four properties is inductive:
each depends on what a transaction checked several steps before it commits.  `CatalogInv`
adds that a transaction that turns rows on has its product's lock (`HoldsItsLocks`,
`EnablersHoldTheLock`), and that what it checked still holds (`Checked`): the branches are
in the type's scope, no component or slot is gone, a restore that would turn the source on
at Home meets no standing replacement, and the marker covers what will be live.  The first two survive
because type assignments and edits that take a component or slot away need the lock free (`Typing`,
`Configuring`); the third because a replacement takes the source's lock as well; the fourth
because only another commit on the product can make it live, and that is a crossing.
`TasksStand` says what an unlocked change may do to a transaction in flight, `CommitEffect`
what a commit does to the rows.  Consequences: `SoldWhereItMayBe`, `ReplacementsStand`,
`LiveMeansMarked`, `RecipesStandAtCommit`.

**OfflineSync_proofs.** `IInv` says that a tab about to add a row holds a cart, a cashier
and a number (`Holding`), that a batch carries rows as they were queued, and that an
answer 'synced' in it has its sale (`Carries`), and that a row's sale, if any, is the only
one and its own (`Queued`).  Consequences: `QueuedCartsSellOnce`, `DoneMeansSold`,
`RowsAreKept`.

**Payroll_proofs.** `PaidOnce` and `OneShiftAtATime` become inductive with: a correction
in flight knows its record (`Correcting`); what is finalized is a draft, and a revision has the
dates of the finalized run it revises (`InOrder`); a calculation without a conflict has
lines that do not overlap (`Reviewed`).  `ChangesAreFlagged` needs `Followed`: apart from
what is noted, the lines of a finalized run still are the records of its period, and
so are the lines of the finalization under way, apart from what was written since
they were read; the commit turns the second into the first.  Consequences:
`ClockedInOnce`, `ShiftsArePaidOnce`, `NoChangeIsMissed`, `FinalizedRunsStay`.

**CheckoutTerminal_proofs.** The longest argument: it relates what the server has, what
is on the wire, and what the page, its storage and its open questions believe.
`Carried` and `SoldOnce` are the server's side: one cart per key on the wire, one sale per
key, and answers that are true.  `Held` and `Entries` are the page's: the key it holds
and each Pending entry were sent with one content only, the one they remember.
`Customers` keeps a new customer's order apart from any sent before.  `Fates` says that
what the terminal concluded of a key is so: abandoned is dead on the server, success is a
sale that was shown, a safe error was let go.  `Calm` is what holds until one of the
known mishaps: the pending record is the page's key (`Pending`), one question at a time
(`Resolving`), one request the page waits for (`Waiting`), every key of the customer at the
terminal is at hand or let go (`AtHand`), of two keys of one customer one was let go
(`OneOpenKey`), and every key in use is remembered somewhere (`Remembered`).  `AtHand` is
what makes `OneOpenKey` inductive: a new key is minted only when none at hand
is open.  The step lemmas follow the page: steps of the server, steps that send
nothing, steps aside in the Pending tab, answers that arrive, and charges.
Consequences: `KeysKeepTheirCarts`, `AbandonedIsFinal`, `SuccessIsASale`,
`CustomersPayOnce`, `NoSaleIsForgotten`.

Model-checked only: liveness (`EveryJobSettles`, `EveryGroupSettles`, `TimedOrdersLeave`,
`TransactionsEnd`),
which is out of the prover's reach.  Every safety property a passing run checks, and
all three refinements, are proved.

## 5. Findings

1. **A flagged variance can lose its review** (`shift_unreviewed`) when a
   clock-out that read the shift as active writes it closed by id.

Seen while modelling, with no run of their own:

* Checkout.  A key freed by 'failed' can still sell: the comments in TS and REC
  call it safe to drop at once, but a delayed duplicate may claim the failed row.
  A retry made offline is queued without its key and sells again.  A late answer
  acts on the next order after its Pending entry was dismissed.  A sale recovered
  after a reload leaves its order in the cart.  A detached sale's Retry first
  abandons its key, after which that key can only be refused.  The
  unresolved-attempt banner does not prevent a charge that overwrites the pending
  record.  A held key whose cart was emptied counts as an unmodified retry for
  the next customer's equal cart.  A detached entry confirmed by Check is set
  back to 'error' by its own handler's lost answer.
* Stock.  A claimed job may find less on hand than its sale reserved, which DR
  calls unreachable: checkout reserves without the lock of the stock-room
  writers.  The job is retried, then fails; nothing goes negative.  A sale voided or refunded
  after its deduction had failed keeps the badge 'failed', and the page goes on
  offering a retry that can only be refused.
* Locks.  A cash refund takes the keys of the sale's items under the drawer's,
  though `pg-lock.ts`:36-38 says that no second resource is locked: no deadlock
  follows, but a close waits while its refund waits for stock.  Reversals of sales
  from before the universal inventory lock ingredients in the order of the sale's
  lines (TS:1912), not sorted as `deduction-totals.ts`:29 asks, and can deadlock.  A
  void or refund of a sale whose job is being settled or requeued holds
  the transaction row and waits for the job's, the other the reverse: PostgreSQL
  rolls one back (`Rivals` in `OnlyRivalsDeadlock`).
* Shifts.  A close can miss a sale that commits between its sums and its write:
  they share a transaction, but checkout does not share its lock.
* Hold orders.  A hold whose timer was lost to a restart stays held for ever
  (neither list nor release look at `expires_at`, although HQ says so).  So does one
  whose expiry meets a database error, which is only logged (HQ:22-25).  A release
  may overwrite 'expired', and two releases both succeed.
* Audit.  `recordAuditLog` takes no lock: two calls, or a call and a delivery, may
  continue the same entry.
* Offline.  Without a device id there is no replay guard; rows recorded without
  a cashier are never sent; synced rows are never deleted.
* Payroll.  A record written between finalization's reads and its commit may be
  neither paid nor reported; a correction that moves a clock-in over a cutoff may
  pay one shift in two periods, as two records; corrections take no lock, so two
  of them both insert, and one may reopen a record.  A break begun between a
  correction's check and its delete stays unended on the deleted record, which
  `attendance.service.ts`:533-541 means to prevent.
* Stock desk.  A failure after the key was claimed leaves it 'in progress' for
  ever; the evidence sweep deletes by id, so it may remove a photo consumed in
  between.
* Approvals.  A correction that sends no new figure takes a fresh snapshot for
  the old one (IA:562-567), although a stale count asks for a recount (UI:710).
* Publication.  Withdrawing a product is two updates: an enable between them, or
  a crash, leaves a withdrawn product with a row on.  Toggles do not ask for
  completeness.  Sizes, option groups, options and items are edited without the
  catalog lock, so that a product may be published although one of these broke it
  meanwhile.  A replacement does not make the checks of
  `evaluatePublicationConfiguration`, although its comment speaks of publishing's
  gate (PS:2800).  A fork turns on the components that its source had switched
  off.  Restoring an archived branch copy turns on every row that is off (PR:641),
  the copy's rows at other branches included, which PS:89 rules out for a
  supervisor.

## 6. What is not modelled, and the plan

Prices, discounts, taxes, receipts, most of the catalog, reports, notifications
and transport are abstracted to "validation may refuse" or left out: no decision
in the protocols above depends on them.  Permission checks are left out
likewise.  By component:

* `AuditOutbox`: what entries say; the pages that list and verify them.
* `OfflineSync`: rows from before cashiers were recorded, a missing device id, the
  cached catalog.  `CheckoutTerminal` takes an offline order as sold once, which
  is `SoldOnceByItsCashier`.
* `Attendance`, `Payroll`: several employees (records of two never meet), GPS and
  device times, rates, adjustments, issue resolutions, money.
* `StockWrites`, `InventoryApproval`: quantities and reservations (`SaleStock` has
  them), PIN tokens, attaching a proof later, the kill switch, batches,
  legacy-ingredient requests, `reconcileLegacy`.
* `ProductPublication`: a branch's stock rows and flavors (they only refuse a
  replacement), size approval, prices, an option group shared by two products (two
  edits here), deactivated branches and types, deletion, branch selections, the
  checks made before a lock is taken, audit intents.
* `StockLocks`: claims of several jobs in one statement, catalog and payroll locks.
* Sessions, the projection outbox (the audit outbox's claim protocol again; no
  server code starts its worker), fraud, reports, EOD, socket, admin pages.

Next, in this order:

1. `RefreshRotation`: near-duplicate refreshes under the rotation lock.
