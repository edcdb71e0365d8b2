----------------------------- MODULE OfflineSync -----------------------------
(***************************************************************************)
(* The offline queue of one device (lib/offline/sync-queue.ts,             *)
(* hooks/use-offline.ts): browser tabs that share one IndexedDB queue and  *)
(* one X-Device-ID mint provisional numbers, queue carts and send them in  *)
(* batches; the API's syncOfflineTransactions sells each item of a batch   *)
(* in a transaction of its own.  A request outlives the tab that sent it,  *)
(* and a batch sent again overlaps the one whose answer was lost.          *)
(***************************************************************************)
EXTENDS Naturals, Sequences

CONSTANTS Cart,      \* carts charged while offline, each once
          Tab,       \* tabs of the terminal page on the device
          Cashier,   \* users with a token of their own
          Request,   \* sync-offline calls in flight at the same time
          MaxSeq,    \* bound: numbers one day's counter reaches
          MaxFaults, \* bound: lost answers, reloads and failed statements
          None

ASSUME NoneIsFresh == None \notin Cart \cup Tab \cup Cashier \cup Request
ASSUME BoundsAreCounts == MaxSeq \in Nat /\ MaxFaults \in Nat

\* The Manila date in a provisional number: before and after one midnight.
Day == {1, 2}
Number == Day \X (1..MaxSeq)

VARIABLES row,      \* db.offlineTransactions, by provisional number
          counter,  \* db.offlineSequenceCounters
          tab,      \* what each tab is queueing, and the sync it waits for
          req,      \* the requests the API is working on
          sale,     \* committed transactions of each (branch, device, number)
          rules,    \* do today's catalog and tax settings still accept the carts?
          today, faults

vars == <<row, counter, tab, req, sale, rules, today, faults>>

Answers == {"synced", "refused", "failed"}

Rows == [cart : Cart \cup {None}, cashier : Cashier \cup {None}, synced : BOOLEAN, refused : BOOLEAN]

Tabs == [user : Cashier,                  \* who stands at this tab's terminal
         at : {"idle", "mint", "add"}, cart : Cart \cup {None},
         by : Cashier \cup {None}, day : Day, key : Day, seq : 0..MaxSeq,
         sync : Request \cup {None}]

Reqs == [at : {"free", "next", "commit", "answered"},
         by : Cashier \cup {None},
         cart : [Number -> Cart \cup {None}],             \* the batch's payloads
         answer : [Number -> Answers \cup {"none"}]]

Empty == [n \in Number |-> None]
NoAnswer == [n \in Number |-> "none"]
Free == [at |-> "free", by |-> None, cart |-> Empty, answer |-> NoAnswer]
NoRow == [cart |-> None, cashier |-> None, synced |-> FALSE, refused |-> FALSE]
Fresh(u) == [user |-> u, at |-> "idle", cart |-> None, by |-> None,
             day |-> 1, key |-> 1, seq |-> 0, sync |-> None]

Less(m, n) == m[1] < n[1] \/ (m[1] = n[1] /\ m[2] < n[2])
Batch(r) == {n \in Number : req[r].cart[n] # None}
Left(r) == {n \in Batch(r) : req[r].answer[n] = "none"}
\* The item a batch is at: items are sold in the order they were queued.
Item(r) == CHOOSE n \in Left(r) : \A m \in Left(r) \ {n} : Less(n, m)
Awaited(r) == \E t \in Tab : tab[t].sync = r

TypeOK ==
  /\ row \in [Number -> Rows]
  /\ counter \in [Day -> 0..MaxSeq]
  /\ tab \in [Tab -> Tabs]
  /\ req \in [Request -> Reqs]
  /\ sale \in [Number -> Seq([cart : Cart, cashier : Cashier])]
  /\ rules \in BOOLEAN /\ today \in Day /\ faults \in 0..MaxFaults
  /\ \A r \in Request : /\ req[r].at \in {"next", "commit"} => Left(r) # {}
                        /\ req[r].at = "answered" => Left(r) = {}
  /\ \A s, t \in Tab : tab[s].sync = tab[t].sync /\ tab[s].sync # None => s = t

Init ==
  /\ row = [n \in Number |-> NoRow]
  /\ counter = [d \in Day |-> 0]
  /\ tab \in [Tab -> {Fresh(u) : u \in Cashier}]
  /\ req = [r \in Request |-> Free]
  /\ sale = [n \in Number |-> <<>>] /\ rules = TRUE /\ today = 1 /\ faults = 0

Fault == faults < MaxFaults /\ faults' = faults + 1
-----------------------------------------------------------------------------
\* handleCharge offline: the cart is not queued yet and no other tab holds it.
Charge(t, c) ==
  /\ tab[t].at = "idle"
  /\ \A n \in Number : row[n].cart # c
  /\ \A s \in Tab : tab[s].cart # c
  /\ tab' = [tab EXCEPT ![t].at = "mint", ![t].cart = c, ![t].by = tab[t].user, ![t].day = today]
  /\ UNCHANGED <<row, counter, req, sale, rules, today, faults>>

\* nextOfflineSequence reads the counter of the date it is by now...
Mint(t) ==
  /\ tab[t].at = "mint"
  /\ counter[today] < MaxSeq
  /\ tab' = [tab EXCEPT ![t].at = "add", ![t].key = today, ![t].seq = counter[today] + 1]
  /\ UNCHANGED <<row, counter, req, sale, rules, today, faults>>

\* Mutant: the row is put, not added.
TakesAlways(n) == TRUE

\* Dexie's add refuses a number that is already a row.
Takes(n) == row[n].cart = None

\* ...and puts it back, whatever another tab put meanwhile, then adds the row: it
\* is queued and the cart cleared, or add throws and the cart is there to charge again.
Add(t) ==
  LET n == <<tab[t].day, tab[t].seq>> IN
  /\ tab[t].at = "add"
  /\ counter' = [counter EXCEPT ![tab[t].key] = tab[t].seq]
  /\ row' = IF Takes(n) THEN [row EXCEPT ![n] = [NoRow EXCEPT !.cart = tab[t].cart, !.cashier = tab[t].by]]
            ELSE row
  /\ tab' = [tab EXCEPT ![t] = [Fresh(tab[t].user) EXCEPT !.sync = tab[t].sync]]
  /\ UNCHANGED <<req, sale, rules, today, faults>>

\* isOfflineSaleEligible: rows go out under the cashier who rang them.
Eligible(n, u) == row[n].cart # None /\ ~row[n].synced /\ row[n].cashier = u

\* runSync selects and posts its rows: all that were not refused, or the row of an
\* explicit Retry.  syncChain keeps a tab's syncs one after another.  (A batch
\* that shiftGuard turns away proves and changes nothing, as if never sent.)
Send(t, r) ==
  LET u == tab[t].user
      ready == {n \in Number : Eligible(n, u)} IN
  /\ tab[t].sync = None
  /\ req[r].at = "free" /\ ~Awaited(r)
  /\ \E picked \in {{n \in ready : ~row[n].refused}} \cup {{n} : n \in ready} :
       /\ picked # {}
       /\ req' = [req EXCEPT ![r] = [Free EXCEPT !.at = "next", !.by = u,
                    !.cart = [n \in Number |-> IF n \in picked THEN row[n].cart ELSE None]]]
  /\ tab' = [tab EXCEPT ![t].sync = r]
  /\ UNCHANGED <<row, counter, sale, rules, today, faults>>

\* Mutant: any item that was not refused is taken as done.
ProvesSaleUnlessRefused(a) == a # "refused"

ProvesSale(a) == a = "synced"

\* One answer is written to its row.  A failed item stays as it was.
Apply(t, n) ==
  LET r == tab[t].sync
      a == req[r].answer[n] IN
  /\ r # None /\ req[r].at = "answered" /\ n \in Batch(r)
  /\ row' = CASE ProvesSale(a) -> [row EXCEPT ![n].synced = TRUE, ![n].refused = FALSE]
              [] a = "refused" -> [row EXCEPT ![n].refused = TRUE]
              [] OTHER -> row
  /\ req' = [req EXCEPT ![r] = IF Batch(r) = {n} THEN Free ELSE [@ EXCEPT !.cart[n] = None, !.answer[n] = "none"]]
  /\ tab' = IF Batch(r) = {n} THEN [tab EXCEPT ![t].sync = None] ELSE tab
  /\ UNCHANGED <<counter, sale, rules, today, faults>>

\* apiClient throws, or answers with no data: no row changes, the API works on.
Disconnect(t) ==
  /\ tab[t].sync # None
  /\ Fault
  /\ tab' = [tab EXCEPT ![t].sync = None]
  /\ UNCHANGED <<row, counter, req, sale, rules, today>>

\* The page is reloaded: what it was doing is forgotten.
Reload(t) ==
  /\ Fault
  /\ tab' = [tab EXCEPT ![t] = Fresh(tab[t].user)]
  /\ UNCHANGED <<row, counter, req, sale, rules, today>>

\* Another employee is selected at this terminal.
SwitchCashier(t) ==
  /\ \E u \in Cashier \ {tab[t].user} : tab' = [tab EXCEPT ![t].user = u]
  /\ UNCHANGED <<row, counter, req, sale, rules, today, faults>>
-----------------------------------------------------------------------------
\* An item's result; the batch goes on whatever it was, up to its last item.
Answered(r, n, a) ==
  [req EXCEPT ![r].answer[n] = a, ![r].at = IF Left(r) = {n} THEN "answered" ELSE "next"]

\* findByOfflineIdentity
SoldAlready(n) == sale[n] # <<>>

\* The next item: replay the sale it already is, or check it for a sale of its own.
\* The options and settings the cart was rung at decide a refusal; a shift that is
\* missing or closed, or an error, is only a failure.
Check(r) ==
  LET n == Item(r) IN
  /\ req[r].at = "next"
  /\ IF SoldAlready(n) THEN req' = Answered(r, n, "synced")
     ELSE req' \in {Answered(r, n, "failed"),
                   IF rules THEN [req EXCEPT ![r].at = "commit"] ELSE Answered(r, n, "refused")}
  /\ UNCHANGED <<row, counter, tab, sale, rules, today, faults>>

\* Mutant: no unique index on (branch, device, number).
ConflictsNever(n) == FALSE

\* transactions_branch_device_offline_number_key
Conflicts(n) == sale[n] # <<>>

Sold(r, n) == [sale EXCEPT ![n] = Append(@, [cart |-> req[r].cart[n], cashier |-> req[r].by])]

\* createTransaction's transaction.  The loser of a race replays the winner; a
\* COMMIT whose reply is lost is answered as a failure.
Commit(r) ==
  LET n == Item(r) IN
  /\ req[r].at = "commit"
  /\ \/ Conflicts(n) /\ req' = Answered(r, n, "synced") /\ UNCHANGED <<sale, faults>>
     \/ ~Conflicts(n) /\ sale' = Sold(r, n) /\ req' = Answered(r, n, "synced") /\ UNCHANGED faults
     \/ ~Conflicts(n) /\ sale' = Sold(r, n) /\ req' = Answered(r, n, "failed") /\ Fault
     \/ req' = Answered(r, n, "failed") /\ UNCHANGED <<sale, faults>>
  /\ UNCHANGED <<row, counter, tab, rules, today>>

\* The answer reaches nobody, or the API dies: what committed stays committed.
Vanish(r) ==
  /\ req[r].at # "free"
  /\ IF req[r].at = "answered" THEN ~Awaited(r) /\ UNCHANGED faults ELSE Fault
  /\ req' = [req EXCEPT ![r] = Free]
  /\ tab' = [t \in Tab |-> IF tab[t].sync = r THEN [tab[t] EXCEPT !.sync = None] ELSE tab[t]]
  /\ UNCHANGED <<row, counter, sale, rules, today>>

\* A supervisor changes a tax setting or an option, or changes it back.
RulesChange ==
  /\ rules' = ~rules
  /\ UNCHANGED <<row, counter, tab, req, sale, today, faults>>

Midnight ==
  /\ today = 1 /\ today' = 2
  /\ UNCHANGED <<row, counter, tab, req, sale, rules, faults>>
-----------------------------------------------------------------------------
Next ==
  \/ \E t \in Tab : \/ \E c \in Cart : Charge(t, c)
                    \/ Mint(t) \/ Add(t) \/ Disconnect(t) \/ Reload(t) \/ SwitchCashier(t)
                    \/ \E r \in Request : Send(t, r)
                    \/ \E n \in Number : Apply(t, n)
  \/ \E r \in Request : Check(r) \/ Commit(r) \/ Vanish(r)
  \/ RulesChange \/ Midnight

Spec == Init /\ [][Next]_vars
-----------------------------------------------------------------------------
\* However often a batch is resent, and whichever of two overlapping batches
\* commits first, a queued cart becomes at most one transaction, and under the
\* cashier who rang it, never the one who sent it.  (Replay lookup, unique index,
\* isOfflineSaleEligible.)
SoldOnceByItsCashier ==
  /\ TypeOK
  /\ \A n \in Number :
    /\ Len(sale[n]) <= 1
    /\ \A i \in DOMAIN sale[n] : sale[n][i] = [cart |-> row[n].cart, cashier |-> row[n].cashier]

\* A row stops waiting only when its sale is committed: no failure, lost answer or
\* answer of an older batch marks it done.  (runSync writes back what it was told.)
SyncedMeansSold == \A n \in Number : row[n].synced => Len(sale[n]) = 1

\* A cart the cashier saw queued is never lost or replaced, although tabs share one
\* counter that is read and put in two steps, and midnight may pass in between.
QueuedIsKept ==
  [][\A n \in Number : row[n].cart # None =>
       /\ row'[n].cart = row[n].cart /\ row'[n].cashier = row[n].cashier
       /\ row[n].synced => row'[n].synced]_vars

=============================================================================
