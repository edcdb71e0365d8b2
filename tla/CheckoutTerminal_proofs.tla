----------------------- MODULE CheckoutTerminal_proofs -----------------------
(***************************************************************************)
(* For any number of requests, keys, carts, customers and disruptions: a   *)
(* key is sent with one cart, an abandoned key never sells, success means  *)
(* sold, no customer is charged twice and no sale is forgotten.            *)
(***************************************************************************)
EXTENDS CheckoutTerminal, TLAPS

Sent(r) == wire[r].key # None

\* What the server knows of a request is what the terminal sent, a key with one cart.
Carried ==
  /\ \A r \in Request :
       /\ call[r].at # "idle" => /\ Sent(r) /\ call[r].key = wire[r].key
                                 /\ call[r].cart = wire[r].cart.of
       /\ Sent(r) => wire[r].cart # None
  /\ \A r, q \in Request : wire[r].key = wire[q].key /\ Sent(r) => wire[r].cart.of = wire[q].cart.of

\* A key with a sale is committed, has one, and requests are told of no other.
SoldOnce ==
  /\ \A s \in sales : call[s].at = "done" /\ row[call[s].key].status = "committed"
  /\ \A s, t \in sales : call[s].key = call[t].key => s = t
  /\ \A r \in Request : call[r].sale # None =>
       call[r].at = "done" /\ call[r].sale \in SalesUnder(call[r].key)

\* Orders are of customers who have come.
Come(rung) == rung # None => rung.who <= world.customer
Customers ==
  /\ Come(store.cart) /\ Come(page.payload)
  /\ \A r \in Request : Come(wire[r].cart)
  /\ \A k \in Key : Come(store.detached[k].cart) /\ Come(page.asks[k].cart)

\* Every request of key k so far carries the content c.
SentWith(k, c) == \A r \in Request : wire[r].key = k => wire[r].cart.of = c

\* The key the page holds is in use, with the cart last charged, and not detached.
Held ==
  page.key # None =>
    /\ page.key \in Minted
    /\ page.payload # None /\ page.payload.of = page.print /\ SentWith(page.key, page.print)
    /\ page.key \notin page.local /\ store.detached[page.key].status = "none"
    /\ \A r \in page.retries : wire[r].key # page.key

\* Questions, handlers and entries are about keys in use; an entry has its cart.
Entries ==
  /\ page.local \subseteq Minted /\ store.pending \in Minted \cup {None}
  /\ page.retries \subseteq page.waits /\ \A r \in page.waits : Sent(r)
  /\ \A k \in Key :
       /\ page.asks[k].why # "none" => k \in Minted
       /\ page.asks[k].why = "charge" => page.asks[k].cart # None
       /\ page.asks[k].why \in {"check", "retry", "dismiss"} => store.detached[k].status # "none"
       /\ store.detached[k].status # "none" =>
            k \in Minted /\ store.detached[k].cart # None /\ SentWith(k, store.detached[k].cart.of)

\* What the terminal was told, or concluded, of a key is so.
Shown(k) == SalesUnder(k) \cap world.seen # {}
Fates ==
  /\ world.seen \subseteq sales
  /\ \A k \in Key :
       /\ world.freed[k] = "abandoned" => Dead(k)
       /\ store.detached[k].status = "success" => Shown(k)
       /\ store.detached[k].status = "error" /\ store.detached[k].safe => world.freed[k] # "no"

\* The pending record is the key the page holds, or that key was let go.
Pending ==
  page.key # None => \/ store.pending = page.key
                     \/ store.pending = None /\ world.freed[page.key] # "no"

\* One question at a time keeps the page from charging, and about its own attempt.
Blocking(k) == page.asks[k].why \in {"charge", "recover", "recheck"}
Resolving ==
  /\ \A k \in Key : Blocking(k) => page.resolving /\ \A j \in Key : Blocking(j) => j = k
  /\ \A k \in Key :
       /\ page.asks[k].why = "charge" /\ page.key = k =>
            page.phase = "saving" /\ page.busy = k /\ page.asks[k].cart = store.cart
       /\ page.asks[k].why \in {"recover", "recheck"} => k = store.pending /\ page.phase # "saving"

\* The request the page waits for has the page.
Waiting ==
  \A r \in page.waits \ page.retries :
    wire[r].key = page.key => page.phase = "saving" /\ page.busy = r /\ ~page.resolving

\* The keys that the customer at the terminal was sent under are at hand, or let go.
Handy(k) == k \in {page.key, store.pending} \/ world.freed[k] # "no"
AtHand ==
  store.cart # None =>
    \A r \in Request : Sent(r) /\ wire[r].cart.who = store.cart.who => Handy(wire[r].key)

\* Of two keys of one customer one was let go.
OneOpenKey ==
  \A r, q \in Request :
    Sent(r) /\ Sent(q) /\ wire[r].cart.who = wire[q].cart.who /\ wire[r].key # wire[q].key =>
      world.freed[wire[r].key] # "no" \/ world.freed[wire[q].key] # "no"

\* A key in use is remembered, was let go, or its sale was shown.
Recalled(k) == Handy(k) \/ store.detached[k].status # "none" \/ Shown(k)
Remembered == \A r \in Request : Sent(r) => Recalled(wire[r].key)

Calm == world.calm => Pending /\ Resolving /\ Waiting /\ AtHand /\ OneOpenKey /\ Remembered

IInv == TerminalTypeOK /\ Carried /\ SoldOnce /\ Customers /\ Held /\ Entries /\ Fates /\ Calm

-----------------------------------------------------------------------------
(* The server's steps. *)

\* A step of the server about request r: it takes a key, answers, or arrives.
ServerStep(r) == Serve(r) \/ (Sent(r) /\ Open(r, wire[r].key, wire[r].cart.of))

\* One request moves on, to a call of its kind; rows of other keys stay.
LEMMA Told ==
  ASSUME ServiceTypeOK, Carried, SoldOnce, NEW r \in Request, Sent(r) => wire[r] \in [key : Key, cart : Rung],
         ServerStep(r)
  PROVE  /\ ServiceTypeOK' /\ Sent(r)
         /\ \A q \in Request \ {r} : call'[q] = call[q]
         /\ call'[r].key = wire[r].key /\ call'[r].cart = wire[r].cart.of
         /\ call[r].at # "done"
         /\ \A k \in Key \ {wire[r].key} : row'[k] = row[k]
         /\ \/ /\ sales' = sales \cup {r} /\ call'[r].at = "done" /\ call'[r].sale = r
               /\ row[wire[r].key].status = "in_progress" /\ row'[wire[r].key].status = "committed"
            \/ /\ sales' = sales
               /\ call'[r].sale # None =>
                    call'[r].at = "done" /\ call'[r].sale \in SalesUnder(wire[r].key)
               /\ \/ row' = row
                  \/ /\ row[wire[r].key].status \in {"none", "failed", "in_progress"}
                     /\ row'[wire[r].key].status \in {"in_progress", "failed"}
<1>1. CASE Serve(r)
  <2>1. /\ call[r] \in Calls /\ call[r].at # "idle" /\ call[r].at # "done"
    BY <1>1 DEF ServiceTypeOK, Serve, TakeKey, Commit, TellSale, Refuse, LeaveUnsure
  <2>2. Sent(r) /\ call[r].key = wire[r].key /\ call[r].cart = wire[r].cart.of
    BY <2>1 DEF Carried
  <2>3. PICK k \in Key : k = wire[r].key
    BY <2>2
  <2>4. CASE TakeKey(r)
    <3>1. row[k] \in Rows /\ [status |-> "in_progress", owner |-> r] \in Rows
      BY DEF ServiceTypeOK, Rows
    <3>2. [call[r] EXCEPT !.at = "claimed"] \in Calls
      BY <2>1 DEF Calls
    <3>3. QED
      BY <2>1, <2>2, <2>3, <2>4, <3>1, <3>2 DEF TakeKey, ServiceTypeOK, Calls, SoldOnce, SalesUnder
  <2>5. ASSUME NEW o \in {"SOLD", "REFUSED", "UNSURE"}, NEW s \in Request \cup {None}, Tell(r, o, s)
        PROVE  /\ call' \in [Request -> Calls]
               /\ \A q \in Request \ {r} : call'[q] = call[q]
               /\ call'[r].key = wire[r].key /\ call'[r].cart = wire[r].cart.of
               /\ call'[r].at = "done" /\ call'[r].sale = s
    <3>1. call' = [call EXCEPT ![r] = [call[r] EXCEPT !.at = "done", !.outcome = o, !.sale = s]]
      BY <2>5 DEF Tell, ServiceTypeOK
    <3>2. [call[r] EXCEPT !.at = "done", !.outcome = o, !.sale = s] \in Calls
      BY <2>1 DEF Calls
    <3>3. QED
      BY <2>1, <2>2, <3>1, <3>2 DEF ServiceTypeOK, Calls
  <2>6. CASE Commit(r)
    <3>1. Tell(r, "SOLD", r)
      BY <2>6 DEF Commit
    <3>2. [row[k] EXCEPT !.status = "committed"] \in Rows /\ row[k] = [status |-> "in_progress", owner |-> r]
      BY <2>2, <2>3, <2>6 DEF Commit, Mine, Rows, ServiceTypeOK
    <3>3. row' = [row EXCEPT ![k] = [row[k] EXCEPT !.status = "committed"]] /\ sales' = sales \cup {r}
      BY <2>2, <2>3, <2>6 DEF Commit, ServiceTypeOK
    <3>4. QED
      BY <2>1, <2>2, <2>3, <2>5, <3>1, <3>2, <3>3 DEF ServiceTypeOK, Rows
  <2>7. CASE TellSale(r)
    <3>1. PICK s \in SalesUnder(k) : Tell(r, "SOLD", s) /\ row' = row /\ sales' = sales
      BY <2>2, <2>3, <2>7 DEF TellSale
    <3>2. s \in Request
      BY <3>1 DEF SalesUnder, ServiceTypeOK
    <3>3. QED
      BY <2>1, <2>2, <2>3, <2>5, <3>1, <3>2 DEF ServiceTypeOK
  <2>8. CASE Refuse(r)
    <3>1. Tell(r, "REFUSED", None) /\ sales' = sales
      BY <2>8 DEF Refuse
    <3>2. CASE row' = row
      BY <2>1, <2>2, <2>3, <2>5, <3>1, <3>2 DEF ServiceTypeOK
    <3>3. CASE Mine(r) /\ row' = [row EXCEPT ![call[r].key].status = "failed"]
      <4>1. [row[k] EXCEPT !.status = "failed"] \in Rows /\ row[k] = [status |-> "in_progress", owner |-> r]
        BY <2>2, <2>3, <3>3 DEF Mine, Rows, ServiceTypeOK
      <4>2. row' = [row EXCEPT ![k] = [row[k] EXCEPT !.status = "failed"]]
        BY <2>2, <2>3, <3>3 DEF ServiceTypeOK
      <4>3. QED
        BY <2>1, <2>2, <2>3, <2>5, <3>1, <4>1, <4>2 DEF ServiceTypeOK, Rows
    <3>4. QED
      BY <2>8, <3>2, <3>3 DEF Refuse
  <2>9. CASE LeaveUnsure(r)
    <3>1. Tell(r, "UNSURE", None) /\ row' = row /\ sales' = sales
      BY <2>9 DEF LeaveUnsure
    <3>2. QED
      BY <2>1, <2>2, <2>3, <2>5, <3>1 DEF ServiceTypeOK
  <2>10. QED
    BY <1>1, <2>4, <2>6, <2>7, <2>8, <2>9 DEF Serve
<1>2. CASE Sent(r) /\ Open(r, wire[r].key, wire[r].cart.of)
  <2> DEFINE c == [call[r] EXCEPT !.at = "open", !.key = wire[r].key, !.cart = wire[r].cart.of]
  <2>1. call[r] \in Calls /\ wire[r].key \in Key /\ wire[r].cart.of \in Cart
    BY <1>2 DEF ServiceTypeOK, Rung
  <2>2. call' = [call EXCEPT ![r] = c] /\ call[r].at = "idle" /\ row' = row /\ sales' = sales
    BY <1>2 DEF Open, ServiceTypeOK
  <2>3. c \in Calls /\ c.at = "open" /\ c.key = wire[r].key /\ c.cart = wire[r].cart.of /\ c.sale = call[r].sale
    BY <2>1 DEF Calls
  <2> HIDE DEF c
  <2>4. call[r].sale = None
    BY <2>2 DEF SoldOnce
  <2>5. QED
    BY <1>2, <2>1, <2>2, <2>3, <2>4 DEF ServiceTypeOK
<1>3. QED
  BY <1>1, <1>2 DEF ServerStep

\* What every step of the server keeps, whatever the terminal does in it.
Kept ==
  /\ ServiceTypeOK' /\ SoldOnce' /\ sales \subseteq sales'
  /\ \A k \in Key : SalesUnder(k) \subseteq SalesUnder(k)' /\ (Dead(k) => Dead(k)')
  /\ \A r \in Request : call'[r].at # "idle" =>
       Sent(r) /\ call'[r].key = wire[r].key /\ call'[r].cart = wire[r].cart.of

\* The server does nothing.
LEMMA Idles ==
  ASSUME ServiceTypeOK, Carried, SoldOnce, UNCHANGED serviceVars
  PROVE  Kept
BY DEF Kept, ServiceTypeOK, Carried, SoldOnce, SalesUnder, Dead, Sent, serviceVars

\* A fence lands.
LEMMA Buries ==
  ASSUME ServiceTypeOK, Carried, SoldOnce, NEW k \in Key, Bury(k)
  PROVE  Kept /\ Dead(k)'
<1>1. /\ row' = [row EXCEPT ![k] = [row[k] EXCEPT !.status = "abandoned"]]
      /\ call' = call /\ sales' = sales /\ SalesUnder(k) = {} /\ row[k] \in Rows
      /\ row[k].status # "committed"
  BY DEF Bury, ServiceTypeOK
<1>2. [row[k] EXCEPT !.status = "abandoned"] \in Rows
  BY <1>1 DEF Rows
<1>3. ServiceTypeOK' /\ Dead(k)' /\ \A j \in Key \ {k} : row'[j] = row[j]
  BY <1>1, <1>2 DEF ServiceTypeOK, Dead, Rows
<1>4. \A j : SalesUnder(j)' = SalesUnder(j)
  BY <1>1 DEF SalesUnder
<1>5. SoldOnce'
  <2>1. \A s \in sales : call[s].key # k
    BY <1>1 DEF SalesUnder
  <2>2. \A s \in sales : call[s].key \in Key
    BY DEF SoldOnce, Carried, ServiceTypeOK, Calls, Sent
  <2>3. QED
    BY <1>1, <1>3, <1>4, <2>1, <2>2 DEF SoldOnce
<1>6. QED
  BY <1>1, <1>3, <1>4, <1>5 DEF Kept, Carried, Dead

\* The server works on a request.
LEMMA Serving ==
  ASSUME ServiceTypeOK, Carried, SoldOnce, NEW r \in Request, Sent(r) => wire[r] \in [key : Key, cart : Rung],
         ServerStep(r)
  PROVE  Kept
<1>1. /\ ServiceTypeOK' /\ Sent(r)
      /\ \A q \in Request \ {r} : call'[q] = call[q]
      /\ call'[r].key = wire[r].key /\ call'[r].cart = wire[r].cart.of
      /\ call[r].at # "done"
      /\ \A k \in Key \ {wire[r].key} : row'[k] = row[k]
  BY Told
<1>2. \/ /\ sales' = sales \cup {r} /\ call'[r].at = "done" /\ call'[r].sale = r
         /\ row[wire[r].key].status = "in_progress" /\ row'[wire[r].key].status = "committed"
      \/ /\ sales' = sales
         /\ call'[r].sale # None =>
              call'[r].at = "done" /\ call'[r].sale \in SalesUnder(wire[r].key)
         /\ \/ row' = row
            \/ /\ row[wire[r].key].status \in {"none", "failed", "in_progress"}
               /\ row'[wire[r].key].status \in {"in_progress", "failed"}
  BY Told
<1>3. PICK k \in Key : k = wire[r].key
  BY <1>1
<1>4. r \notin sales /\ sales \subseteq Request /\ sales \subseteq sales'
  BY <1>1, <1>2 DEF SoldOnce, ServiceTypeOK
<1>5. \A s \in sales : call'[s] = call[s]
  BY <1>1, <1>4
<1>6. \A j \in Key : SalesUnder(j) \subseteq SalesUnder(j)' /\ (Dead(j) => Dead(j)')
  BY <1>1, <1>2, <1>3, <1>4, <1>5 DEF SalesUnder, Dead
<1>7. \A q \in Request : call'[q].at # "idle" =>
        Sent(q) /\ call'[q].key = wire[q].key /\ call'[q].cart = wire[q].cart.of
  BY <1>1 DEF Carried
<1>8. \A s \in sales : call[s].key = k => row[k].status = "committed"
  BY DEF SoldOnce
<1>9. \A q \in Request : call'[q].sale # None =>
        call'[q].at = "done" /\ call'[q].sale \in sales' /\ call'[call'[q].sale].key = call'[q].key
  <2> TAKE q \in Request
  <2>1. CASE q # r
    <3>1. call'[q] = call[q]
      BY <1>1, <2>1
    <3>2. QED
      BY <1>4, <1>5, <3>1 DEF SoldOnce, SalesUnder
  <2>2. CASE q = r
    <3>1. CASE call'[r].sale = r /\ sales' = sales \cup {r} /\ call'[r].at = "done"
      BY <2>2, <3>1
    <3>2. CASE call'[r].sale # None => call'[r].at = "done" /\ call'[r].sale \in SalesUnder(k)
      BY <1>1, <1>3, <1>4, <1>5, <2>2, <3>2 DEF SalesUnder
    <3>3. QED
      BY <1>2, <1>3, <3>1, <3>2
  <2>3. QED
    BY <2>1, <2>2
<1>10. SoldOnce'
  <2>1. CASE sales' = sales \cup {r} /\ call'[r].at = "done" /\ row[k].status = "in_progress" /\ row'[k].status = "committed"
    <3>1. \A s \in sales : call'[s].key # k /\ call'[s].key \in Key
      BY <1>5, <1>8, <2>1 DEF SoldOnce, Carried, ServiceTypeOK, Calls, Sent
    <3>2. QED
      BY <1>1, <1>3, <1>5, <1>9, <2>1, <3>1 DEF SoldOnce, SalesUnder
  <2>2. CASE sales' = sales /\ (row'[k] = row[k] \/ row[k].status # "committed")
    <3>1. \A s \in sales : row'[call[s].key] = row[call[s].key]
      BY <1>1, <1>3, <1>8, <2>2 DEF SoldOnce, Carried, ServiceTypeOK, Calls, Sent
    <3>2. QED
      BY <1>5, <1>9, <2>2, <3>1 DEF SoldOnce, SalesUnder
  <2>3. QED
    BY <1>2, <1>3, <2>1, <2>2
<1>11. QED
  BY <1>1, <1>4, <1>6, <1>7, <1>10 DEF Kept

-----------------------------------------------------------------------------
(* Steps that send nothing. *)

\* What the terminal does to an entry is backed by what it knows of the key.
Backed(k) ==
  /\ store.detached[k].status = "success" => Shown(k)
  /\ store.detached[k].status = "error" /\ store.detached[k].safe => world.freed[k] # "no"

\* Knowledge only grows.
Learns ==
  /\ world.seen \subseteq world'.seen /\ world'.seen \subseteq sales'
  /\ \A k \in Key : /\ world.freed[k] # "no" => world'.freed[k] # "no"
                    /\ world'.freed[k] = "abandoned" => world.freed[k] = "abandoned" \/ Dead(k)'

\* A question goes on, ends, or is asked of a key in use.
Asking(k) ==
  \/ page'.asks[k].why = page.asks[k].why /\ page'.asks[k].cart = page.asks[k].cart
  \/ page'.asks[k].why = "none" /\ page'.asks[k].cart = None
  \/ k \in Minted /\ page'.asks[k].why # "charge" /\ page'.asks[k].cart = None
  \/ k \in Minted /\ page'.asks[k].why = "charge" /\ page'.asks[k].cart = store.cart /\ store.cart # None

\* An entry stays, goes, or takes over the key the page held.
Keeping(k) ==
  \/ store'.detached[k].status # "none" /\ store.detached[k].status # "none"
     /\ store'.detached[k].cart = store.detached[k].cart
  \/ store'.detached[k].status = "none" /\ store'.detached[k].cart \in {None, store.detached[k].cart}
  \/ k = page.key /\ page'.key = None /\ store'.detached[k].cart = page.payload

Unheld == page'.key # None =>
  /\ page'.key = page.key /\ page'.print = page.print /\ page'.payload = page.payload
  /\ page'.local \subseteq page.local

\* What such a step may do beside changing what has been rung.
LEMMA Silent ==
  ASSUME IInv, Kept, TerminalTypeOK', wire' = wire, Learns, Unheld,
         page'.local \subseteq Minted, page'.retries \subseteq page.retries \cap page'.waits,
         page'.waits \subseteq page.waits, store'.pending \in {store.pending, None},
         \A k \in Key :
           /\ Asking(k) /\ Keeping(k) /\ Backed(k)'
           /\ page'.asks[k].why \in {"check", "retry", "dismiss"} => store'.detached[k].status # "none"
  PROVE  Carried' /\ SoldOnce' /\ Held' /\ Entries' /\ Fates'
<1>1. TerminalTypeOK /\ Carried /\ Held /\ Entries /\ Fates
  BY DEF IInv
<1>2. Carried' /\ SoldOnce'
  BY <1>1 DEF Kept, Carried, Sent
<1>3. Minted' = Minted
  BY DEF Minted
<1>4. page.key \in Key \cup {None} /\ page'.key \in Key \cup {None} /\ (page.key # None => page.key \in Key)
  BY <1>1 DEF TerminalTypeOK, Pages
<1>5. Held'
  <2> SUFFICES ASSUME page'.key # None PROVE Held'
    BY DEF Held
  <2>1. /\ page'.key = page.key /\ page'.print = page.print /\ page'.payload = page.payload
        /\ page'.local \subseteq page.local /\ page'.retries \subseteq page.retries
    BY DEF Unheld
  <2>2. store'.detached[page.key].status = "none"
    BY <1>1, <1>4, <2>1 DEF Held, Keeping
  <2>3. SentWith(page.key, page.print)' <=> SentWith(page.key, page.print)
    BY <1>3, <2>1 DEF SentWith
  <2>4. QED
    BY <1>1, <1>3, <2>1, <2>2, <2>3 DEF Held, SentWith
<1>6. ASSUME NEW k \in Key
      PROVE  /\ page'.asks[k].why # "none" => k \in Minted'
             /\ page'.asks[k].why = "charge" => page'.asks[k].cart # None
             /\ store'.detached[k].status # "none" =>
                  k \in Minted' /\ store'.detached[k].cart # None
                  /\ \A r \in Request : wire'[r].key = k => wire'[r].cart.of = store'.detached[k].cart.of
  <2>1. page'.asks[k].why # "none" => k \in Minted'
    BY <1>1, <1>3 DEF Entries, Asking
  <2>2. page'.asks[k].why = "charge" => page'.asks[k].cart # None
    BY <1>1 DEF Entries, Asking
  <2>3. ASSUME store'.detached[k].status # "none"
        PROVE  k \in Minted' /\ store'.detached[k].cart # None
               /\ \A r \in Request : wire'[r].key = k => wire'[r].cart.of = store'.detached[k].cart.of
    <3>1. CASE store.detached[k].status # "none" /\ store'.detached[k].cart = store.detached[k].cart
      BY <1>1, <1>3, <3>1 DEF Entries, SentWith
    <3>2. CASE k = page.key /\ page'.key = None /\ store'.detached[k].cart = page.payload
      <4>1. page.key # None
        BY <3>2, NoneIsNothing
      <4>2. QED
        BY <1>1, <1>3, <3>2, <4>1 DEF Held, SentWith
    <3>3. QED
      BY <2>3, <3>1, <3>2 DEF Keeping
  <2>4. QED
    BY <2>1, <2>2, <2>3
<1>7. Entries'
  <2>1. page'.local \subseteq Minted' /\ store'.pending \in Minted' \cup {None}
    BY <1>1, <1>3 DEF Entries
  <2>2. page'.retries \subseteq page'.waits /\ \A r \in page'.waits : Sent(r)'
    BY <1>1 DEF Entries, Sent
  <2>3. QED
    BY <1>6, <2>1, <2>2 DEF Entries, SentWith
<1>8. Fates'
  <2>1. \A k \in Key : world'.freed[k] = "abandoned" => Dead(k)'
    BY <1>1 DEF Fates, Learns, Kept
  <2>2. QED
    BY <2>1 DEF Fates, Learns, Backed
<1>9. QED
  BY <1>2, <1>5, <1>7, <1>8

\* The orders at hand.
AnOrder(rung) ==
  \/ rung \in {None, store.cart, page.payload}
  \/ \E k \in Key : rung \in {store.detached[k].cart, page.asks[k].cart}

\* No step makes an order up.
LEMMA CustomersStay ==
  ASSUME Customers, world'.customer = world.customer,
         AnOrder(store'.cart), AnOrder(page'.payload),
         \A r \in Request : wire'[r].cart = wire[r].cart \/ AnOrder(wire'[r].cart),
         \A k \in Key : AnOrder(store'.detached[k].cart) /\ AnOrder(page'.asks[k].cart)
  PROVE  Customers'
<1>1. ASSUME NEW rung, AnOrder(rung)
      PROVE  rung # None => rung.who <= world'.customer
  BY <1>1 DEF AnOrder, Customers, Come
<1>2. \A r \in Request : wire'[r].cart # None => wire'[r].cart.who <= world'.customer
  BY <1>1 DEF Customers, Come
<1>3. QED
  BY <1>1, <1>2 DEF Customers, Come

\* Where the page stands.
PageStays ==
  /\ page'.key = page.key /\ page'.phase = page.phase /\ page'.busy = page.busy
  /\ page'.resolving = page.resolving
  /\ store'.cart = store.cart /\ store'.pending = store.pending /\ world'.calm = world.calm

\* What is seen and known of keys stays seen and known.
LEMMA StaysShown ==
  ASSUME Kept, Learns, NEW k \in Key, Shown(k)
  PROVE  Shown(k)'
BY DEF Kept, Learns, Shown

\* Keys do not change hands: what is at hand, apart or remembered for each key is so
\* for each request.
LEMMA AtHandStays ==
  ASSUME TerminalTypeOK, AtHand, wire' = wire, \A k \in Key : Handy(k) => Handy(k)',
         store'.cart # None => store.cart # None /\ store'.cart.who = store.cart.who
  PROVE  AtHand'
<1> SUFFICES ASSUME store'.cart # None, NEW r \in Request, Sent(r), wire[r].cart.who = store'.cart.who
             PROVE  Handy(wire[r].key)'
  BY DEF AtHand, Sent
<1>1. PICK k \in Key : k = wire[r].key
  BY DEF TerminalTypeOK, Messages, Sent
<1>2. Handy(k)'
  BY <1>1 DEF AtHand
<1>3. QED
  BY <1>1, <1>2 DEF Handy

\* Fates do not go back.
LEMMA OneOpenKeyStays ==
  ASSUME TerminalTypeOK, OneOpenKey, wire' = wire, Learns
  PROVE  OneOpenKey'
<1>1. \A r \in Request : Sent(r) => wire[r].key \in Key
  BY DEF TerminalTypeOK, Messages, Sent
<1>2. QED
  BY <1>1 DEF OneOpenKey, Learns, Sent

\* What is remembered of each key is so for each request.
LEMMA RememberedStays ==
  ASSUME TerminalTypeOK, Remembered, wire' = wire, \A k \in Key : Recalled(k) => Recalled(k)'
  PROVE  Remembered'
<1> SUFFICES ASSUME NEW r \in Request, Sent(r)
             PROVE  Recalled(wire[r].key)'
  BY DEF Remembered, Sent
<1>1. PICK k \in Key : k = wire[r].key
  BY DEF TerminalTypeOK, Messages, Sent
<1>2. Recalled(k)'
  BY <1>1 DEF Remembered
<1>3. QED
  BY <1>1, <1>2 DEF Recalled, Handy, Shown, SalesUnder

\* A step about entries, questions or the server leaves the page in order.
LEMMA Aside ==
  ASSUME IInv, Kept, wire' = wire, Learns, PageStays,
         page'.waits \ page'.retries \subseteq page.waits \ page.retries,
         \A k \in Key :
           /\ \/ page'.asks[k].why = page.asks[k].why /\ page'.asks[k].cart = page.asks[k].cart
              \/ page'.asks[k].why \notin {"charge", "recover", "recheck"}
           /\ store'.detached[k].status = "none" =>
                store.detached[k].status = "none" \/ world'.freed[k] # "no" \/ Shown(k)'
  PROVE  Calm'
<1> SUFFICES ASSUME world.calm
             PROVE  Pending' /\ Resolving' /\ Waiting' /\ AtHand' /\ OneOpenKey' /\ Remembered'
  BY DEF PageStays, Calm
<1>1. /\ Pending /\ Resolving /\ Waiting /\ AtHand /\ OneOpenKey /\ Remembered
      /\ TerminalTypeOK /\ Carried
  BY DEF IInv, Calm
<1>2. \A r \in Request : Sent(r) => wire[r].key \in Key
  BY <1>1 DEF TerminalTypeOK, Messages, Sent
<1>3. page.key \in Key \cup {None}
  BY <1>1 DEF TerminalTypeOK, Pages
<1>4. Pending'
  BY <1>1, <1>3 DEF Pending, PageStays, Learns
<1>5. Resolving'
  BY <1>1 DEF Resolving, Blocking, PageStays
<1>6. Waiting'
  BY <1>1 DEF Waiting, PageStays
<1>7. \A k \in Key : Handy(k) => Handy(k)'
  BY DEF Handy, PageStays, Learns
<1>8. AtHand' /\ OneOpenKey'
  BY <1>1, <1>7, AtHandStays, OneOpenKeyStays DEF PageStays
<1>9. Remembered'
  <2>1. \A k \in Key : Recalled(k) => Recalled(k)'
    BY <1>7, StaysShown DEF Recalled, Handy
  <2>2. QED
    BY <1>1, <2>1, RememberedStays
<1>10. QED
  BY <1>1, <1>4, <1>5, <1>6, <1>8, <1>9

\* A question stays, ends, or is one of the Pending tab about an entry.
AskingAside(k) ==
  \/ page'.asks[k].why = page.asks[k].why /\ page'.asks[k].cart = page.asks[k].cart
  \/ page'.asks[k].why = "none" /\ page'.asks[k].cart = None
  \/ page'.asks[k].why \in {"check", "retry", "dismiss"} /\ page'.asks[k].cart = None
     /\ store'.detached[k].status # "none"

\* An entry stays, or goes when its key was let go or its sale was shown.
KeepingAside(k) ==
  /\ store'.detached[k].cart \in {None, store.detached[k].cart}
  /\ store'.detached[k].status # "none" =>
       store.detached[k].status # "none" /\ store'.detached[k].cart = store.detached[k].cart
  /\ store'.detached[k].status = "none" =>
       \/ store.detached[k].status = "none"
       \/ page'.asks[k].why = "none" /\ (world'.freed[k] # "no" \/ Shown(k)')

\* Such a step keeps the whole invariant.
LEMMA AsideStep ==
  ASSUME IInv, Kept, TerminalTypeOK', wire' = wire, Learns, PageStays,
         page'.print = page.print, page'.payload = page.payload,
         world'.customer = world.customer, page'.local \subseteq page.local,
         page'.retries \subseteq page.retries \cap page'.waits, page'.waits \subseteq page.waits,
         page'.waits \ page'.retries \subseteq page.waits \ page.retries,
         \A k \in Key : AskingAside(k) /\ KeepingAside(k) /\ Backed(k)'
  PROVE  IInv'
<1>1. TerminalTypeOK /\ Entries /\ Customers
  BY DEF IInv
<1>2. Unheld /\ page'.local \subseteq Minted /\ store'.pending \in {store.pending, None}
  BY <1>1 DEF Unheld, PageStays, Entries
<1>3. ASSUME NEW k \in Key
      PROVE  /\ Asking(k) /\ Keeping(k)
             /\ page'.asks[k].why \in {"check", "retry", "dismiss"} => store'.detached[k].status # "none"
             /\ \/ page'.asks[k].why = page.asks[k].why /\ page'.asks[k].cart = page.asks[k].cart
                \/ page'.asks[k].why \notin {"charge", "recover", "recheck"}
             /\ store'.detached[k].status = "none" =>
                  store.detached[k].status = "none" \/ world'.freed[k] # "no" \/ Shown(k)'
             /\ AnOrder(store'.detached[k].cart) /\ AnOrder(page'.asks[k].cart)
  <2>1. AskingAside(k) /\ KeepingAside(k)
    OBVIOUS
  <2>2. Keeping(k)
    BY <2>1 DEF KeepingAside, Keeping
  <2>3. store.detached[k].status # "none" => k \in Minted
    BY <1>1 DEF Entries
  <2>4. Asking(k)
    BY <2>1, <2>3 DEF AskingAside, KeepingAside, Asking
  <2>5. page'.asks[k].why \in {"check", "retry", "dismiss"} => store'.detached[k].status # "none"
    BY <1>1, <2>1 DEF AskingAside, KeepingAside, Entries
  <2>6. AnOrder(store'.detached[k].cart) /\ AnOrder(page'.asks[k].cart)
    BY <2>1 DEF AskingAside, KeepingAside, AnOrder
  <2>7. QED
    BY <2>1, <2>2, <2>4, <2>5, <2>6 DEF AskingAside, KeepingAside
<1>4. Carried' /\ SoldOnce' /\ Held' /\ Entries' /\ Fates'
  BY <1>2, <1>3, Silent
<1>5. Customers'
  BY <1>1, <1>3, CustomersStay DEF AnOrder, PageStays
<1>6. Calm'
  BY <1>3, Aside
<1>7. QED
  BY <1>4, <1>5, <1>6 DEF IInv

-----------------------------------------------------------------------------
(* Steps beside the page. *)

\* The server works, or hears of a request.
LEMMA ServerSteps ==
  ASSUME IInv, Kept, UNCHANGED terminal
  PROVE  IInv'
<1>1. TerminalTypeOK /\ Entries /\ Fates
  BY DEF IInv
<1>2. page' = page /\ store' = store /\ wire' = wire /\ world' = world
  BY DEF terminal
<1>3. TerminalTypeOK'
  BY <1>1, <1>2 DEF Kept, TerminalTypeOK
<1>4. Learns
  BY <1>1, <1>2 DEF Learns, Kept, Fates
<1>5. \A k \in Key : Shown(k) => Shown(k)'
  BY <1>4, StaysShown
<1>6. \A k \in Key : AskingAside(k) /\ KeepingAside(k) /\ Backed(k)'
  BY <1>1, <1>2, <1>5 DEF AskingAside, KeepingAside, Backed, Fates
<1>7. QED
  BY <1>1, <1>2, <1>3, <1>4, <1>6, AsideStep DEF PageStays, Entries

\* The Pending tab asks.
LEMMA AskDetachedStep ==
  ASSUME IInv, NEW k \in Key, AskDetached(k)
  PROVE  IInv'
<1>1. /\ TerminalTypeOK /\ Entries /\ Fates /\ ServiceTypeOK /\ Carried /\ SoldOnce
      /\ page \in Pages
  BY DEF IInv, TerminalTypeOK
<1>2. PICK why \in {"check", "retry", "dismiss"} :
        page' = [page EXCEPT !.asks = Ask(k, why, None)]
  BY DEF AskDetached
<1>3. store.detached[k].status # "none"
  BY DEF AskDetached
<1>4. store' = store /\ wire' = wire /\ world' = world /\ UNCHANGED serviceVars
  BY DEF AskDetached
<1>5. Kept
  BY <1>1, <1>4, Idles
<1>6. page.asks \in [Key -> Questions] /\ [why |-> why, step |-> "read", cart |-> None] \in Questions
  BY <1>1 DEF Pages, Questions, Whys, Steps
<1>7. Ask(k, why, None) \in [Key -> Questions] /\ Ask(k, why, None)[k] = [why |-> why, step |-> "read", cart |-> None]
      /\ \A j \in Key \ {k} : Ask(k, why, None)[j] = page.asks[j]
  BY <1>6 DEF Ask
<1>8. page' \in Pages /\ page'.asks = Ask(k, why, None)
  BY <1>1, <1>2, <1>7 DEF Pages
<1>9. /\ PageStays /\ page'.print = page.print /\ page'.payload = page.payload
      /\ page'.local = page.local /\ page'.retries = page.retries /\ page'.waits = page.waits
  BY <1>1, <1>2, <1>4 DEF PageStays, Pages
<1>10. TerminalTypeOK'
  BY <1>1, <1>4, <1>5, <1>8 DEF Kept, TerminalTypeOK
<1>11. Learns
  BY <1>1, <1>4, <1>5 DEF Learns, Kept, Fates
<1>12. \A j \in Key : Shown(j) => Shown(j)'
  BY <1>5, <1>11, StaysShown
<1>13. \A j \in Key : AskingAside(j) /\ KeepingAside(j) /\ Backed(j)'
  BY <1>1, <1>3, <1>4, <1>7, <1>8, <1>12 DEF AskingAside, KeepingAside, Backed, Fates
<1>14. QED
  BY <1>1, <1>4, <1>5, <1>9, <1>10, <1>11, <1>13, AsideStep DEF Entries

\* What changes of one entry may be.
EntryStep(k) ==
  \/ store'.detached[k] = store.detached[k]
  \/ store.detached[k].status # "none" /\ store'.detached[k] = Landed(k, store) /\ Shown(k)'
  \/ store.detached[k].status # "none" /\ store'.detached[k] = Failed(k, FALSE, store)
  \/ store.detached[k].status # "none" /\ store'.detached[k] = Failed(k, TRUE, store) /\ world'.freed[k] # "no"
  \/ store'.detached[k] = NoEntry /\ page'.asks[k].why = "none" /\ (world'.freed[k] # "no" \/ Shown(k)')

\* A step about one key, its question and its entry.
LEMMA OneKeyStep ==
  ASSUME IInv, Kept, NEW k \in Key, wire' = wire,
         page' \in Pages, store' \in Stores, world' \in Worlds,
         PageStays, page'.print = page.print, page'.payload = page.payload,
         world'.customer = world.customer, page'.local \subseteq page.local,
         page'.retries \subseteq page.retries \cap page'.waits, page'.waits \subseteq page.waits,
         page'.waits \ page'.retries \subseteq page.waits \ page.retries,
         \A j \in Key \ {k} : /\ page'.asks[j] = page.asks[j] /\ store'.detached[j] = store.detached[j]
                              /\ world'.freed[j] = world.freed[j],
         world.seen \subseteq world'.seen, world'.seen \subseteq sales',
         world'.freed[k] \in {world.freed[k], "failed"} \/ (world'.freed[k] = "abandoned" /\ Dead(k)'),
         \/ page'.asks[k].why = page.asks[k].why /\ page'.asks[k].cart = page.asks[k].cart
         \/ page'.asks[k] = NoAsk,
         EntryStep(k)
  PROVE  IInv'
<1>1. TerminalTypeOK /\ Fates /\ TerminalTypeOK'
  BY DEF IInv, Kept, TerminalTypeOK
<1>2. Learns
  BY DEF Learns
<1>3. \A j \in Key : Shown(j) => Shown(j)'
  BY <1>2, StaysShown
<1>4. \A j \in Key : world.freed[j] # "no" => world'.freed[j] # "no"
  BY <1>2 DEF Learns
<1>5. ASSUME NEW j \in Key
      PROVE  AskingAside(j) /\ KeepingAside(j) /\ Backed(j)'
  <2>1. Backed(j)
    BY <1>1 DEF Fates, Backed
  <2>2. CASE j # k
    BY <1>3, <1>4, <2>1, <2>2 DEF AskingAside, KeepingAside, Backed
  <2>3. CASE j = k
    <3>1. AskingAside(k)
      BY DEF AskingAside, NoAsk
    <3>2. store.detached[k] \in Entry
      BY <1>1 DEF TerminalTypeOK, Stores
    <3>3. CASE store'.detached[k] = store.detached[k]
      BY <1>3, <1>4, <2>1, <2>3, <3>1, <3>3 DEF KeepingAside, Backed
    <3>4. CASE store.detached[k].status # "none" /\ store'.detached[k] = Landed(k, store) /\ Shown(k)'
      BY <2>3, <3>1, <3>2, <3>4 DEF KeepingAside, Backed, Landed, Entry
    <3>5. CASE store.detached[k].status # "none" /\ store'.detached[k] = Failed(k, FALSE, store)
      BY <2>3, <3>1, <3>2, <3>5 DEF KeepingAside, Backed, Failed, Entry
    <3>6. CASE store.detached[k].status # "none" /\ store'.detached[k] = Failed(k, TRUE, store) /\ world'.freed[k] # "no"
      BY <2>3, <3>1, <3>2, <3>6 DEF KeepingAside, Backed, Failed, Entry
    <3>7. CASE store'.detached[k] = NoEntry /\ page'.asks[k].why = "none" /\ (world'.freed[k] # "no" \/ Shown(k)')
      BY <2>3, <3>1, <3>7 DEF KeepingAside, Backed, NoEntry
    <3>8. QED
      BY <3>3, <3>4, <3>5, <3>6, <3>7 DEF EntryStep
  <2>4. QED
    BY <2>2, <2>3
<1>6. QED
  BY <1>1, <1>2, <1>5, AsideStep

\* Changes of one key's question, entry and fate.
LEMMA DoneShape ==
  ASSUME page \in Pages, NEW k \in Key
  PROVE  /\ Done(k) \in Pages /\ Done(k).asks[k] = NoAsk
         /\ \A j \in Key \ {k} : Done(k).asks[j] = page.asks[j]
         /\ Done(k).phase = page.phase /\ Done(k).key = page.key /\ Done(k).print = page.print
         /\ Done(k).payload = page.payload /\ Done(k).busy = page.busy
         /\ Done(k).resolving = page.resolving /\ Done(k).notice = page.notice
         /\ Done(k).local = page.local /\ Done(k).waits = page.waits
         /\ Done(k).retries = page.retries /\ Done(k).polled = page.polled
<1>1. page.asks \in [Key -> Questions] /\ NoAsk \in Questions
  BY DEF Pages, NoAsk, Questions, Whys, Steps
<1>2. [page.asks EXCEPT ![k] = NoAsk] \in [Key -> Questions]
  BY <1>1
<1>3. Done(k) = [page EXCEPT !.asks = [page.asks EXCEPT ![k] = NoAsk]]
  BY DEF Done, Pages
<1>4. QED
  BY <1>1, <1>2, <1>3 DEF Pages

\* An entry is replaced.
LEMMA EntryShape ==
  ASSUME store \in Stores, NEW k \in Key, NEW entry \in Entry
  PROVE  LET st == [store EXCEPT !.detached[k] = entry]
         IN  /\ st \in Stores /\ st.detached[k] = entry
             /\ \A j \in Key \ {k} : st.detached[j] = store.detached[j]
             /\ st.cart = store.cart /\ st.pending = store.pending /\ st.queue = store.queue
<1>1. [store.detached EXCEPT ![k] = entry] \in [Key -> Entry] /\ store.detached \in [Key -> Entry]
  BY DEF Stores
<1>2. [store EXCEPT !.detached[k] = entry] = [store EXCEPT !.detached = [store.detached EXCEPT ![k] = entry]]
  BY DEF Stores
<1>3. QED
  BY <1>1, <1>2 DEF Stores

\* The entries a step may leave.
LEMMA EntriesType ==
  ASSUME store \in Stores, NEW k \in Key
  PROVE  NoEntry \in Entry /\ Landed(k, store) \in Entry
         /\ \A safe \in BOOLEAN : Failed(k, safe, store) \in Entry
<1>1. store.detached[k] \in Entry
  BY DEF Stores
<1>2. QED
  BY <1>1 DEF NoEntry, Landed, Failed, Entry

\* An entry is replaced unless it is gone.
LEMMA UpdateShape ==
  ASSUME store \in Stores, NEW k \in Key, NEW entry \in Entry
  PROVE  LET st == Update(k, entry, store)
         IN  /\ st \in Stores
             /\ \/ store.detached[k].status = "none" /\ st.detached[k] = store.detached[k]
                \/ store.detached[k].status # "none" /\ st.detached[k] = entry
             /\ \A j \in Key \ {k} : st.detached[j] = store.detached[j]
             /\ st.cart = store.cart /\ st.pending = store.pending
<1>1. CASE store.detached[k].status = "none"
  <2>1. Update(k, entry, store) = store
    BY <1>1 DEF Update
  <2>2. QED
    BY <1>1, <2>1
<1>2. CASE store.detached[k].status # "none"
  <2>1. Update(k, entry, store) = [store EXCEPT !.detached[k] = entry]
    BY <1>2 DEF Update
  <2>2. QED
    BY <1>2, <2>1, EntryShape
<1>3. QED
  BY <1>1, <1>2

\* A key is let go.
LEMMA FatesShape ==
  ASSUME NEW wd \in Worlds, NEW k \in Key, NEW fate \in {"no", "failed", "abandoned"}
  PROVE  \A w : w = [wd EXCEPT !.freed[k] = fate] =>
             /\ w \in Worlds /\ w.freed[k] = fate
             /\ \A j \in Key \ {k} : w.freed[j] = wd.freed[j]
             /\ w.customer = wd.customer /\ w.calm = wd.calm /\ w.seen = wd.seen
<1>1. /\ [wd.freed EXCEPT ![k] = fate] \in [Key -> {"no", "failed", "abandoned"}]
      /\ wd.freed \in [Key -> {"no", "failed", "abandoned"}]
  BY DEF Worlds
<1>2. [wd EXCEPT !.freed[k] = fate] = [wd EXCEPT !.freed = [wd.freed EXCEPT ![k] = fate]]
  BY DEF Worlds
<1>3. QED
  BY <1>1, <1>2 DEF Worlds

\* A step that goes on with the question about k, or ends it, beside the page.
LEMMA Dismissals ==
  ASSUME IInv, NEW k \in Key, Dismiss(k)
  PROVE  IInv'
<1>1. /\ page \in Pages /\ store \in Stores /\ world \in Worlds /\ Entries /\ Fates
      /\ ServiceTypeOK /\ Carried /\ SoldOnce
  BY DEF IInv, TerminalTypeOK
<1>2. store' = [store EXCEPT !.detached[k] = NoEntry] /\ page' = [page EXCEPT !.local = page.local \ {k}]
      /\ wire' = wire /\ world' = world /\ UNCHANGED serviceVars /\ page.asks[k].why = "none"
  BY <1>1 DEF Dismiss, Forgotten, Pages
<1>3. Kept
  BY <1>1, <1>2, Idles
<1>4. /\ page' \in Pages /\ page'.asks = page.asks /\ page'.local \subseteq page.local
      /\ page'.waits = page.waits /\ page'.retries = page.retries
      /\ page'.print = page.print /\ page'.payload = page.payload
      /\ page'.key = page.key /\ page'.phase = page.phase /\ page'.busy = page.busy
      /\ page'.resolving = page.resolving
  BY <1>1, <1>2 DEF Pages
<1>5. /\ store' \in Stores /\ store'.detached[k] = NoEntry
      /\ \A j \in Key \ {k} : store'.detached[j] = store.detached[j]
      /\ store'.cart = store.cart /\ store'.pending = store.pending
  BY <1>1, <1>2, EntryShape, EntriesType
<1>6. PageStays
  BY <1>2, <1>4, <1>5 DEF PageStays
<1>7. world.freed[k] # "no" \/ Shown(k)'
  <2>1. world.freed[k] # "no" \/ Shown(k)
    BY <1>1 DEF Dismiss, Fates
  <2>2. Shown(k) => Shown(k)'
    BY <1>2 DEF Shown, SalesUnder, serviceVars
  <2>3. QED
    BY <2>1, <2>2
<1>8. world.seen \subseteq sales'
  BY <1>1, <1>2 DEF Fates, serviceVars
<1>9. EntryStep(k)
  BY <1>2, <1>4, <1>5, <1>7 DEF EntryStep
<1>10. QED
  BY <1>1, <1>2, <1>3, <1>4, <1>5, <1>6, <1>8, <1>9, OneKeyStep DEF Entries

\* What the page finds out about a detached sale; a question that is given up.
LEMMA SettledAside ==
  ASSUME IInv, Kept, NEW k \in Key, wire' = wire, page' = Done(k),
         store' \in Stores, store'.cart = store.cart, store'.pending = store.pending,
         world' \in Worlds, world'.customer = world.customer, world'.calm = world.calm,
         \A j \in Key \ {k} : store'.detached[j] = store.detached[j] /\ world'.freed[j] = world.freed[j],
         world.seen \subseteq world'.seen, world'.seen \subseteq sales',
         world'.freed[k] \in {world.freed[k], "failed"} \/ (world'.freed[k] = "abandoned" /\ Dead(k)'),
         EntryStep(k)
  PROVE  IInv'
<1>1. page \in Pages /\ Entries
  BY DEF IInv, TerminalTypeOK
<1>2. /\ page' \in Pages /\ page'.asks[k] = NoAsk
      /\ \A j \in Key \ {k} : page'.asks[j] = page.asks[j]
      /\ page'.local = page.local /\ page'.waits = page.waits /\ page'.retries = page.retries
      /\ page'.print = page.print /\ page'.payload = page.payload
      /\ page'.key = page.key /\ page'.phase = page.phase /\ page'.busy = page.busy
      /\ page'.resolving = page.resolving
  BY <1>1, DoneShape
<1>3. PageStays
  BY <1>2 DEF PageStays
<1>4. QED
  BY <1>1, <1>2, <1>3, OneKeyStep DEF Entries

\* A sale found for a detached entry.
LEMMA FoundAside ==
  ASSUME IInv, UNCHANGED serviceVars, NEW k \in Key, NEW s \in SalesUnder(k), Found(k, s),
         page.asks[k].why \notin {"charge", "recover", "recheck"}
  PROVE  IInv'
<1>1. /\ page \in Pages /\ store \in Stores /\ world \in Worlds /\ Fates /\ sales \subseteq Request
      /\ ServiceTypeOK /\ Carried /\ SoldOnce
  BY DEF IInv, TerminalTypeOK, ServiceTypeOK
<1>2. /\ page' = Done(k) /\ store' = Update(k, Landed(k, store), store)
      /\ world' = Seen(s, world) /\ wire' = wire
  BY DEF Found
<1>3. Kept /\ sales' = sales /\ SalesUnder(k)' = SalesUnder(k)
  BY <1>1, Idles DEF serviceVars, SalesUnder
<1>4. s \in sales /\ s \in Request
  BY <1>1 DEF SalesUnder
<1>5. /\ world' \in Worlds /\ world'.seen = world.seen \cup {s} /\ world'.freed = world.freed
      /\ world'.customer = world.customer /\ world'.calm = world.calm
  BY <1>1, <1>2, <1>4 DEF Worlds, Seen
<1>6. Shown(k)'
  BY <1>3, <1>5 DEF Shown
<1>7. /\ store' \in Stores /\ store'.cart = store.cart /\ store'.pending = store.pending
      /\ \A j \in Key \ {k} : store'.detached[j] = store.detached[j]
      /\ \/ store'.detached[k] = store.detached[k]
         \/ store.detached[k].status # "none" /\ store'.detached[k] = Landed(k, store)
  BY <1>1, <1>2, UpdateShape, EntriesType
<1>8. EntryStep(k)
  BY <1>6, <1>7 DEF EntryStep
<1>9. world'.seen \subseteq sales'
  BY <1>1, <1>3, <1>4, <1>5 DEF Fates
<1>10. QED
  BY <1>2, <1>3, <1>5, <1>7, <1>8, <1>9, SettledAside

\* What the answer 'not-found' may rest on.
Evident(k, evidence) == evidence = "failed" \/ (evidence = "abandoned" /\ Dead(k)')

\* The key of a detached entry is free, and is not used again.
LEMMA NotFoundAside ==
  ASSUME IInv, Kept, sales' = sales, NEW k \in Key, NEW evidence, Evident(k, evidence),
         wire' = wire, world' = [world EXCEPT !.freed[k] = evidence],
         \/ page' = Done(k) /\ store' = Update(k, Failed(k, TRUE, store), store)
         \/ page' = [Done(k) EXCEPT !.local = @ \ {k}] /\ store' = Forgotten(k, store)
         \/ page' = Done(k) /\ store' = store
  PROVE  IInv'
<1>1. /\ page \in Pages /\ store \in Stores /\ world \in Worlds /\ Fates /\ Entries
      /\ evidence \in {"no", "failed", "abandoned"} /\ evidence # "no"
  BY DEF IInv, TerminalTypeOK, Evident
<1>2. /\ world' \in Worlds /\ world'.freed[k] = evidence
      /\ \A j \in Key \ {k} : world'.freed[j] = world.freed[j]
      /\ world'.customer = world.customer /\ world'.calm = world.calm /\ world'.seen = world.seen
  BY <1>1, FatesShape
<1>3. world.seen \subseteq world'.seen /\ world'.seen \subseteq sales' /\ world'.freed[k] # "no"
      /\ (world'.freed[k] \in {world.freed[k], "failed"} \/ (world'.freed[k] = "abandoned" /\ Dead(k)'))
  BY <1>1, <1>2 DEF Fates, Evident
<1>4. CASE page' = Done(k) /\ store' = Update(k, Failed(k, TRUE, store), store)
  <2>1. /\ store' \in Stores /\ store'.cart = store.cart /\ store'.pending = store.pending
        /\ \A j \in Key \ {k} : store'.detached[j] = store.detached[j]
        /\ \/ store'.detached[k] = store.detached[k]
           \/ store.detached[k].status # "none" /\ store'.detached[k] = Failed(k, TRUE, store)
    BY <1>1, <1>4, UpdateShape, EntriesType
  <2>2. EntryStep(k)
    BY <1>3, <2>1 DEF EntryStep
  <2>3. QED
    BY <1>2, <1>3, <1>4, <2>1, <2>2, SettledAside
<1>5. CASE page' = Done(k) /\ store' = store
  <2>1. EntryStep(k)
    BY <1>5 DEF EntryStep
  <2>2. QED
    BY <1>1, <1>2, <1>3, <1>5, <2>1, SettledAside
<1>6. CASE page' = [Done(k) EXCEPT !.local = @ \ {k}] /\ store' = Forgotten(k, store)
  <2>1. PICK pg \in Pages : pg = Done(k)
    BY <1>1, DoneShape
  <2>2. /\ pg.asks[k] = NoAsk /\ \A j \in Key \ {k} : pg.asks[j] = page.asks[j]
        /\ pg.local = page.local /\ pg.waits = page.waits /\ pg.retries = page.retries
        /\ pg.print = page.print /\ pg.payload = page.payload
        /\ pg.key = page.key /\ pg.phase = page.phase /\ pg.busy = page.busy
        /\ pg.resolving = page.resolving
    BY <1>1, <2>1, DoneShape
  <2>3. page' = [pg EXCEPT !.local = pg.local \ {k}]
    BY <1>6, <2>1 DEF Pages
  <2>4. /\ page' \in Pages /\ page'.asks = pg.asks /\ page'.local \subseteq page.local
        /\ page'.waits = page.waits /\ page'.retries = page.retries
        /\ page'.print = page.print /\ page'.payload = page.payload
        /\ page'.key = page.key /\ page'.phase = page.phase /\ page'.busy = page.busy
        /\ page'.resolving = page.resolving
    BY <2>1, <2>2, <2>3 DEF Pages
  <2>5. /\ store' \in Stores /\ store'.detached[k] = NoEntry
        /\ \A j \in Key \ {k} : store'.detached[j] = store.detached[j]
        /\ store'.cart = store.cart /\ store'.pending = store.pending
    BY <1>1, <1>6, EntryShape, EntriesType DEF Forgotten
  <2>6. EntryStep(k)
    <3>1. page'.asks[k].why = "none"
      BY <2>2, <2>4 DEF NoAsk
    <3>2. QED
      BY <1>3, <2>5, <3>1 DEF EntryStep
  <2>7. PageStays
    BY <1>2, <2>4, <2>5 DEF PageStays
  <2>8. QED
    BY <1>1, <1>2, <1>3, <2>2, <2>4, <2>5, <2>6, <2>7, OneKeyStep DEF Entries
<1>7. QED
  BY <1>4, <1>5, <1>6

\* A question about an entry is given up.
LEMMA KeptAside ==
  ASSUME IInv, UNCHANGED serviceVars, NEW k \in Key, NEW wd \in Worlds, KeepKey(k, wd),
         wd.customer = world.customer, wd.calm = world.calm, wd.seen = world.seen, wd.freed = world.freed,
         page.asks[k].why \notin {"charge", "recover", "recheck"}
  PROVE  IInv'
<1>1. /\ page \in Pages /\ store \in Stores /\ world \in Worlds /\ Fates
      /\ ServiceTypeOK /\ Carried /\ SoldOnce
  BY DEF IInv, TerminalTypeOK
<1>2. page' = Done(k) /\ world' = wd /\ store' = store /\ wire' = wire
  BY DEF KeepKey
<1>3. Kept /\ sales' = sales
  BY <1>1, Idles DEF serviceVars
<1>4. EntryStep(k)
  BY <1>2 DEF EntryStep
<1>5. world'.seen \subseteq sales'
  BY <1>1, <1>2, <1>3 DEF Fates
<1>6. QED
  BY <1>1, <1>2, <1>3, <1>4, <1>5, SettledAside

\* A step about one key that leaves its question and the handlers alone.
LEMMA PolledStep ==
  ASSUME IInv, UNCHANGED serviceVars, NEW k \in Key, wire' = wire,
         page' \in Pages, PageStays, page'.print = page.print, page'.payload = page.payload,
         page'.local = page.local, page'.waits = page.waits, page'.retries = page.retries,
         \A j \in Key : page'.asks[j].why = page.asks[j].why /\ page'.asks[j].cart = page.asks[j].cart,
         \A j \in Key \ {k} : page'.asks[j] = page.asks[j],
         store' \in Stores, world' \in Worlds, world'.customer = world.customer,
         \A j \in Key \ {k} : store'.detached[j] = store.detached[j] /\ world'.freed[j] = world.freed[j],
         world.seen \subseteq world'.seen, world'.seen \subseteq sales,
         world'.freed[k] \in {world.freed[k], "failed"} \/ (world'.freed[k] = "abandoned" /\ Dead(k)),
         EntryStep(k)
  PROVE  IInv'
<1>1. Kept /\ sales' = sales /\ (Dead(k)' <=> Dead(k)) /\ Entries
  BY Idles DEF IInv, TerminalTypeOK, serviceVars, Dead
<1>2. QED
  BY <1>1, OneKeyStep DEF Entries

\* GET answers, and the question goes on.
LEMMA ReadOn ==
  ASSUME IInv, UNCHANGED serviceVars, NEW k \in Key, NEW step \in Steps,
         page' = [page EXCEPT !.asks[k].step = step], UNCHANGED <<store, wire, world>>
  PROVE  IInv'
<1>1. page \in Pages /\ store \in Stores /\ world \in Worlds /\ Fates /\ page.asks \in [Key -> Questions]
  BY DEF IInv, TerminalTypeOK, Pages
<1>2. [page.asks[k] EXCEPT !.step = step] \in Questions
      /\ [page.asks[k] EXCEPT !.step = step].why = page.asks[k].why
      /\ [page.asks[k] EXCEPT !.step = step].cart = page.asks[k].cart
  BY <1>1 DEF Questions
<1>3. page' = [page EXCEPT !.asks = [page.asks EXCEPT ![k] = [page.asks[k] EXCEPT !.step = step]]]
  BY <1>1 DEF Pages
<1>4. [page.asks EXCEPT ![k] = [page.asks[k] EXCEPT !.step = step]] \in [Key -> Questions]
  BY <1>1, <1>2
<1>5. /\ page' \in Pages /\ page'.asks = [page.asks EXCEPT ![k] = [page.asks[k] EXCEPT !.step = step]]
      /\ page'.local = page.local /\ page'.waits = page.waits /\ page'.retries = page.retries
      /\ page'.print = page.print /\ page'.payload = page.payload
      /\ page'.key = page.key /\ page'.phase = page.phase /\ page'.busy = page.busy
      /\ page'.resolving = page.resolving
  BY <1>1, <1>3, <1>4 DEF Pages
<1>6. PageStays /\ EntryStep(k)
  BY <1>5 DEF PageStays, EntryStep
<1>7. /\ \A j \in Key : page'.asks[j].why = page.asks[j].why /\ page'.asks[j].cart = page.asks[j].cart
      /\ \A j \in Key \ {k} : page'.asks[j] = page.asks[j]
  BY <1>1, <1>2, <1>5
<1>8. world.seen \subseteq sales
  BY <1>1 DEF Fates
<1>9. QED
  BY <1>1, <1>5, <1>6, <1>7, <1>8, PolledStep

\* The background poll.
LEMMA PollSteps ==
  ASSUME IInv, NEW k \in Key, Poll(k) \/ ApplyPoll(k)
  PROVE  IInv'
<1>1. page \in Pages /\ store \in Stores /\ world \in Worlds /\ Fates /\ sales \subseteq Request
  BY DEF IInv, TerminalTypeOK, ServiceTypeOK
<1>2. UNCHANGED serviceVars /\ wire' = wire /\ SalesUnder(k) \subseteq sales /\ world.seen \subseteq sales
  BY <1>1 DEF Poll, ApplyPoll, SalesUnder, Fates
<1>3. page' \in {page, [page EXCEPT !.polled = {k}], [page EXCEPT !.polled = {}]}
  BY DEF Poll, ApplyPoll
<1>4. /\ page' \in Pages /\ page'.asks = page.asks
      /\ page'.local = page.local /\ page'.waits = page.waits /\ page'.retries = page.retries
      /\ page'.print = page.print /\ page'.payload = page.payload
      /\ page'.key = page.key /\ page'.phase = page.phase /\ page'.busy = page.busy
      /\ page'.resolving = page.resolving
  BY <1>1, <1>3 DEF Pages
<1>5. CASE Recorded(k) /\ store' = Update(k, Landed(k, store), store)
           /\ world' = [world EXCEPT !.seen = world.seen \cup SalesUnder(k)]
  <2>1. /\ store' \in Stores /\ store'.cart = store.cart /\ store'.pending = store.pending
        /\ \A j \in Key \ {k} : store'.detached[j] = store.detached[j]
        /\ \/ store'.detached[k] = store.detached[k]
           \/ store.detached[k].status # "none" /\ store'.detached[k] = Landed(k, store)
    BY <1>1, <1>5, UpdateShape, EntriesType
  <2>2. /\ world' \in Worlds /\ world'.seen = world.seen \cup SalesUnder(k) /\ world'.freed = world.freed
        /\ world'.customer = world.customer /\ world'.calm = world.calm
    BY <1>1, <1>2, <1>5 DEF Worlds
  <2>3. Shown(k)'
    BY <1>2, <1>5, <2>2 DEF Shown, Recorded, SalesUnder, serviceVars
  <2>4. EntryStep(k) /\ PageStays
    BY <1>4, <2>1, <2>2, <2>3 DEF EntryStep, PageStays
  <2>5. QED
    BY <1>2, <1>4, <2>1, <2>2, <2>4, PolledStep
<1>6. ASSUME NEW evidence \in {"no", "abandoned", "failed"}, evidence # "no",
             evidence = "failed" \/ Dead(k),
             store' = Update(k, Failed(k, TRUE, store), store),
             world' = [world EXCEPT !.freed[k] = evidence]
      PROVE  IInv'
  <2>1. /\ store' \in Stores /\ store'.cart = store.cart /\ store'.pending = store.pending
        /\ \A j \in Key \ {k} : store'.detached[j] = store.detached[j]
        /\ \/ store'.detached[k] = store.detached[k]
           \/ store.detached[k].status # "none" /\ store'.detached[k] = Failed(k, TRUE, store)
    BY <1>1, <1>6, UpdateShape, EntriesType
  <2>2. /\ world' \in Worlds /\ world'.freed[k] = evidence
        /\ \A j \in Key \ {k} : world'.freed[j] = world.freed[j]
        /\ world'.customer = world.customer /\ world'.calm = world.calm /\ world'.seen = world.seen
    BY <1>1, <1>6, FatesShape
  <2>3. EntryStep(k) /\ PageStays
    BY <1>4, <1>6, <2>1, <2>2 DEF EntryStep, PageStays
  <2>4. QED
    BY <1>2, <1>4, <1>6, <2>1, <2>2, <2>3, PolledStep
<1>7. CASE UNCHANGED <<store, world>>
  <2>1. EntryStep(k) /\ PageStays
    BY <1>4, <1>7 DEF EntryStep, PageStays
  <2>2. QED
    BY <1>1, <1>2, <1>4, <1>7, <2>1, PolledStep
<1>8. QED
  BY <1>5, <1>6, <1>7 DEF Poll, ApplyPoll

\* The answer to a detached handler, or to the retry of a detached sale.
LEMMA DetachedAnswer ==
  ASSUME IInv, UNCHANGED serviceVars, wire' = wire, NEW r \in page.waits, NEW sale \in Request \cup {None},
         NEW definite \in BOOLEAN, SettleDetached(r, sale, definite),
         sale # None => sale \in SalesUnder(wire[r].key)
  PROVE  IInv'
<1>1. /\ page \in Pages /\ store \in Stores /\ world \in Worlds /\ Fates /\ Entries
      /\ page.asks \in [Key -> Questions] /\ NoAsk \in Questions /\ sales' = sales /\ Kept
      /\ wire \in [Request -> Messages] /\ r \in Request
  BY Idles DEF IInv, TerminalTypeOK, Pages, NoAsk, Questions, Whys, Steps, serviceVars
<1>2. PICK k \in Key : k = wire[r].key
  BY <1>1 DEF Entries, Sent, Messages
<1>3. PICK q \in Questions : q = IF r \in page.retries THEN NoAsk ELSE page.asks[k]
  BY <1>1
<1>4. /\ page' = [page EXCEPT !.local = page.local \ {k}, !.waits = page.waits \ {r},
                             !.retries = page.retries \ {r}, !.asks = [page.asks EXCEPT ![k] = q]]
  BY <1>1, <1>2, <1>3 DEF SettleDetached, Pages
<1>5. [page.asks EXCEPT ![k] = q] \in [Key -> Questions]
  BY <1>1
<1>6. /\ page' \in Pages /\ page'.asks = [page.asks EXCEPT ![k] = q]
      /\ page'.local \subseteq page.local /\ page'.waits = page.waits \ {r}
      /\ page'.retries = page.retries \ {r}
      /\ page'.print = page.print /\ page'.payload = page.payload
      /\ page'.key = page.key /\ page'.phase = page.phase /\ page'.busy = page.busy
      /\ page'.resolving = page.resolving
  BY <1>1, <1>4, <1>5 DEF Pages
<1>7. /\ \A j \in Key \ {k} : page'.asks[j] = page.asks[j]
      /\ page'.asks[k] \in {NoAsk, page.asks[k]}
  BY <1>1, <1>3, <1>6
<1>8. PICK entry \in Entry : /\ entry = IF sale # None THEN Landed(k, store) ELSE Failed(k, definite, store)
                             /\ store' = Update(k, entry, store)
  BY <1>1, <1>2, EntriesType DEF SettleDetached
<1>9. /\ store' \in Stores /\ store'.cart = store.cart /\ store'.pending = store.pending
      /\ \A j \in Key \ {k} : store'.detached[j] = store.detached[j]
      /\ \/ store'.detached[k] = store.detached[k]
         \/ store.detached[k].status # "none" /\ store'.detached[k] = entry
  BY <1>1, <1>8, UpdateShape
<1>10. PICK seen \in SUBSET Request : seen = IF sale # None THEN world.seen \cup {sale} ELSE world.seen
  BY <1>1 DEF Worlds
<1>11. PICK fate \in {"no", "failed", "abandoned"} : fate = IF definite THEN "failed" ELSE world.freed[k]
  BY <1>1 DEF Worlds
<1>12. world' = [world EXCEPT !.seen = seen, !.freed = [world.freed EXCEPT ![k] = fate]]
  BY <1>1, <1>2, <1>10, <1>11 DEF SettleDetached, Worlds
<1>13. /\ [world.freed EXCEPT ![k] = fate] \in [Key -> {"no", "failed", "abandoned"}]
       /\ world.freed \in [Key -> {"no", "failed", "abandoned"}]
  BY <1>1 DEF Worlds
<1>14. /\ world' \in Worlds /\ world'.seen = seen /\ world'.freed[k] = fate
       /\ \A j \in Key \ {k} : world'.freed[j] = world.freed[j]
       /\ world'.customer = world.customer /\ world'.calm = world.calm
  BY <1>1, <1>12, <1>13 DEF Worlds
<1>15. sale # None => Shown(k)'
  <2>1. SalesUnder(k)' = SalesUnder(k)
    BY DEF SalesUnder, serviceVars
  <2>2. QED
    BY <1>2, <1>10, <1>14, <2>1 DEF Shown
<1>16. EntryStep(k)
  BY <1>8, <1>9, <1>11, <1>14, <1>15 DEF EntryStep
<1>17. /\ PageStays /\ page'.retries \subseteq page.retries \cap page'.waits
       /\ page'.waits \ page'.retries \subseteq page.waits \ page.retries
  BY <1>1, <1>6, <1>9, <1>14 DEF PageStays, Entries
<1>18. world.seen \subseteq world'.seen /\ world'.seen \subseteq sales'
  BY <1>1, <1>2, <1>10, <1>14 DEF Fates, SalesUnder
<1>19. QED
  BY <1>1, <1>6, <1>7, <1>9, <1>11, <1>14, <1>16, <1>17, <1>18, OneKeyStep

\* A step of the connection, a fence that lands late, a banner taken down.
LEMMA Elsewhere ==
  ASSUME IInv, Kept, wire' = wire, page' \in Pages, store' \in Stores, world' \in Worlds,
         PageStays, page'.print = page.print, page'.payload = page.payload,
         page'.local = page.local, page'.waits = page.waits, page'.retries = page.retries,
         page'.asks = page.asks, store'.detached = store.detached,
         world'.customer = world.customer, world'.seen = world.seen, world'.freed = world.freed
  PROVE  IInv'
<1>1. TerminalTypeOK /\ TerminalTypeOK' /\ Entries /\ Fates
  BY DEF IInv, Kept, TerminalTypeOK
<1>2. Learns
  BY <1>1 DEF Learns, Kept, Fates
<1>3. \A k \in Key : Shown(k) => Shown(k)'
  BY <1>2, StaysShown
<1>4. \A k \in Key : AskingAside(k) /\ KeepingAside(k) /\ Backed(k)'
  BY <1>1, <1>3 DEF AskingAside, KeepingAside, Backed, Fates
<1>5. QED
  BY <1>1, <1>2, <1>4, AsideStep DEF Entries

\* The bound on disruptions.
LEMMA Disrupted ==
  ASSUME world \in Worlds, world.disruptions < MaxDisruptions
  PROVE  world.disruptions + 1 \in 0..MaxDisruptions
<1>1. world.disruptions \in 0..MaxDisruptions /\ MaxDisruptions \in Nat
  BY TerminalBounds DEF Worlds
<1>2. QED
  BY <1>1

\* The connection goes and comes back.
LEMMA ConnectionSteps ==
  ASSUME IInv, GoOffline \/ GoOnline
  PROVE  IInv'
<1>1. page \in Pages /\ store \in Stores /\ world \in Worlds /\ Kept /\ wire' = wire
  BY Idles DEF IInv, TerminalTypeOK, GoOffline, GoOnline
<1>2. CASE GoOffline
  <2>1. /\ page' \in Pages /\ page'.asks = page.asks
        /\ page'.local = page.local /\ page'.waits = page.waits /\ page'.retries = page.retries
        /\ page'.print = page.print /\ page'.payload = page.payload
        /\ page'.key = page.key /\ page'.phase = page.phase /\ page'.busy = page.busy
        /\ page'.resolving = page.resolving
    BY <1>1, <1>2 DEF GoOffline, Pages
  <2>2. /\ world' \in Worlds /\ world'.seen = world.seen /\ world'.freed = world.freed
        /\ world'.customer = world.customer /\ world'.calm = world.calm
    BY <1>1, <1>2, Disrupted DEF GoOffline, Worlds
  <2>3. QED
    BY <1>1, <1>2, <2>1, <2>2, Elsewhere DEF GoOffline, PageStays
<1>3. CASE GoOnline
  <2>1. /\ store' \in Stores /\ store'.cart = store.cart /\ store'.pending = store.pending
        /\ store'.detached = store.detached
    BY <1>1, <1>3 DEF GoOnline, Stores
  <2>2. /\ world' \in Worlds /\ world'.seen = world.seen /\ world'.freed = world.freed
        /\ world'.customer = world.customer /\ world'.calm = world.calm
    BY <1>1, <1>3 DEF GoOnline, Worlds, Stores
  <2>3. QED
    BY <1>1, <1>3, <2>1, <2>2, Elsewhere DEF GoOnline, PageStays
<1>4. QED
  BY <1>2, <1>3

\* A fence whose answer was lost lands.
LEMMA LateFences ==
  ASSUME IInv, NEW k \in Key, LateFence(k)
  PROVE  IInv'
<1>1. page \in Pages /\ store \in Stores /\ world \in Worlds
  BY DEF IInv, TerminalTypeOK
<1>2. Kept /\ page' = page /\ store' = store /\ wire' = wire
  BY Buries DEF LateFence, IInv, TerminalTypeOK
<1>3. /\ world' \in Worlds /\ world'.seen = world.seen /\ world'.freed = world.freed
      /\ world'.customer = world.customer /\ world'.calm = world.calm
  BY <1>1 DEF LateFence, Worlds
<1>4. QED
  BY <1>1, <1>2, <1>3, Elsewhere DEF PageStays

-----------------------------------------------------------------------------
(* Steps of the page that send nothing. *)

\* An entry stays, or takes over the attempt the page lets go.
Detaching(k) ==
  \/ store'.detached[k] = store.detached[k]
  \/ k = page.key /\ page'.key = None /\ store'.detached[k] = Detached(page.payload)

\* A step of the page that leaves its own books in order keeps the invariant.
LEMMA FrontStep ==
  ASSUME IInv, Kept, wire' = wire, page' \in Pages, store' \in Stores, world' \in Worlds, Learns, Unheld,
         world'.customer = world.customer,
         page'.payload \in {page.payload, None}, store'.cart \in {store.cart, None},
         store'.pending \in {store.pending, None}, page'.local \subseteq Minted,
         page'.retries \subseteq page.retries \cap page'.waits, page'.waits \subseteq page.waits,
         \A k \in Key :
           /\ Asking(k) /\ Detaching(k)
           /\ page'.asks[k].why \in {"check", "retry", "dismiss"} => store.detached[k].status # "none",
         world'.calm => Calm'
  PROVE  IInv'
<1>1. TerminalTypeOK /\ TerminalTypeOK' /\ Fates /\ Customers /\ Calm'
  BY DEF IInv, Kept, TerminalTypeOK, Calm
<1>2. \A k \in Key : Shown(k) => Shown(k)'
  BY StaysShown
<1>3. ASSUME NEW k \in Key
      PROVE  /\ Keeping(k) /\ Backed(k)'
             /\ page'.asks[k].why \in {"check", "retry", "dismiss"} => store'.detached[k].status # "none"
             /\ AnOrder(store'.detached[k].cart) /\ AnOrder(page'.asks[k].cart)
  <2>1. Detaching(k) /\ Asking(k)
    OBVIOUS
  <2>2. Keeping(k) /\ AnOrder(store'.detached[k].cart) /\ AnOrder(page'.asks[k].cart)
    BY <2>1 DEF Detaching, Detached, Keeping, AnOrder, Asking
  <2>3. Backed(k)'
    BY <1>1, <1>2, <2>1 DEF Detaching, Detached, Backed, Fates, Learns
  <2>4. page'.asks[k].why \in {"check", "retry", "dismiss"} => store'.detached[k].status # "none"
    BY <2>1 DEF Detaching, Detached
  <2>5. QED
    BY <2>2, <2>3, <2>4
<1>4. Carried' /\ SoldOnce' /\ Held' /\ Entries' /\ Fates'
  BY <1>1, <1>3, Silent
<1>5. Customers'
  BY <1>1, <1>3, CustomersStay DEF AnOrder
<1>6. QED
  BY <1>1, <1>4, <1>5 DEF IInv

\* The cart is emptied or queued, a popup closed, while no attempt is being made.
LEMMA CounterStep ==
  ASSUME IInv, UNCHANGED serviceVars, wire' = wire, world' = world, page' \in Pages, store' \in Stores,
         page'.phase \in {page.phase, "none"}, store'.cart \in {store.cart, None},
         page.phase # "saving",
         page'.key = page.key, page'.print = page.print, page'.payload = page.payload,
         page'.busy = page.busy, page'.resolving = page.resolving, page'.asks = page.asks,
         page'.local = page.local, page'.waits = page.waits, page'.retries = page.retries,
         store'.pending = store.pending, store'.detached = store.detached
  PROVE  IInv'
<1>1. TerminalTypeOK /\ Entries /\ Fates /\ Kept /\ sales' = sales /\ world' \in Worlds
  BY Idles DEF IInv, TerminalTypeOK, serviceVars
<1>2. Learns
  BY <1>1 DEF Learns, Fates
<1>3. ASSUME world.calm
      PROVE  Calm'
  <2>1. Pending /\ Resolving /\ Waiting /\ AtHand /\ OneOpenKey /\ Remembered
    BY <1>3 DEF IInv, Calm
  <2>2. Pending'
    BY <2>1 DEF Pending
  <2>3. Resolving'
    BY <2>1 DEF Resolving, Blocking
  <2>4. Waiting'
    BY <2>1 DEF Waiting
  <2>5. \A k \in Key : (Handy(k) => Handy(k)') /\ (Recalled(k) => Recalled(k)')
    BY <1>1, <1>2, StaysShown DEF Handy, Recalled
  <2>6. AtHand' /\ OneOpenKey' /\ Remembered'
    BY <1>1, <1>2, <2>1, <2>5, AtHandStays, OneOpenKeyStays, RememberedStays
  <2>7. QED
    BY <2>2, <2>3, <2>4, <2>6 DEF Calm
<1>4. Unheld /\ \A k \in Key : Asking(k) /\ Detaching(k)
  BY DEF Unheld, Asking, Detaching
<1>5. QED
  BY <1>1, <1>2, <1>3, <1>4, FrontStep DEF Entries

\* The steps before and after a charge.
LEMMA CounterSteps ==
  ASSUME IInv, Empty \/ EditCart \/ ChargeOffline \/ NewSale
  PROVE  IInv'
<1>1. page \in Pages /\ store \in Stores /\ world \in Worlds
  BY DEF IInv, TerminalTypeOK
<1>2. CASE Empty \/ ChargeOffline
  <2>1. /\ store' \in Stores /\ store'.cart = None /\ store'.pending = store.pending
        /\ store'.detached = store.detached
    <3>1. CASE Empty
      BY <1>1, <3>1 DEF Empty, Stores
    <3>2. CASE ChargeOffline
      <4>1. store.cart \in Rung /\ store.cart.who \in Customer /\ store.queue \in SUBSET Customer
        BY <1>1, <3>2 DEF ChargeOffline, MayCharge, Stores, Rung
      <4>2. store' = [store EXCEPT !.queue = store.queue \cup {store.cart.who}, !.cart = None]
        BY <1>1, <3>2 DEF ChargeOffline, Stores
      <4>3. QED
        BY <1>1, <4>1, <4>2 DEF Stores
    <3>3. QED
      BY <1>2, <3>1, <3>2
  <2>2. QED
    BY <1>1, <1>2, <2>1, CounterStep DEF Empty, ChargeOffline, MayCharge
<1>3. CASE EditCart \/ NewSale
  <2>1. page' = [page EXCEPT !.phase = "none"] /\ page.phase # "saving"
    BY <1>3 DEF EditCart, NewSale
  <2>2. /\ page' \in Pages /\ page'.phase = "none" /\ page'.asks = page.asks
        /\ page'.local = page.local /\ page'.waits = page.waits /\ page'.retries = page.retries
        /\ page'.print = page.print /\ page'.payload = page.payload
        /\ page'.key = page.key /\ page'.busy = page.busy /\ page'.resolving = page.resolving
    BY <1>1, <2>1 DEF Pages
  <2>3. QED
    BY <1>1, <1>3, <2>1, <2>2, CounterStep DEF EditCart, NewSale
<1>4. QED
  BY <1>2, <1>3

\* An order is rung up or changed.
LEMMA RingStep ==
  ASSUME IInv, NEW c \in Cart, Ring(c)
  PROVE  IInv'
<1>1. /\ TerminalTypeOK /\ Entries /\ Fates /\ Customers /\ Kept /\ sales' = sales
      /\ page \in Pages /\ store \in Stores /\ world \in Worlds
  BY Idles DEF IInv, TerminalTypeOK, serviceVars, Ring
<1>2. page' = page /\ wire' = wire /\ page.phase = "none"
  BY DEF Ring
<1>3. PICK rung \in Rung :
        /\ store' = [store EXCEPT !.cart = rung]
        /\ \/ /\ store.cart = None /\ rung.who = world.customer + 1
              /\ world' = [world EXCEPT !.customer = world.customer + 1]
              /\ world.customer < MaxCustomers
           \/ store.cart # None /\ rung.who = store.cart.who /\ world' = world
  <2>1. CASE /\ store.cart = None /\ world.customer < MaxCustomers
             /\ world' = [world EXCEPT !.customer = @ + 1]
             /\ store' = [store EXCEPT !.cart = [of |-> c, who |-> world.customer + 1]]
    <3>1. world.customer + 1 \in Customer
      <4>1. world.customer \in 0..MaxCustomers /\ MaxCustomers \in Nat
        BY <1>1, TerminalBounds DEF Worlds
      <4>2. QED
        BY <2>1, <4>1 DEF Customer
    <3>2. [of |-> c, who |-> world.customer + 1] \in Rung
      BY <3>1 DEF Rung
    <3>3. world' = [world EXCEPT !.customer = world.customer + 1]
      BY <1>1, <2>1 DEF Worlds
    <3>4. QED
      BY <2>1, <3>2, <3>3
  <2>2. CASE /\ store.cart # None /\ store' = [store EXCEPT !.cart.of = c] /\ UNCHANGED world
    <3> DEFINE w == [store.cart EXCEPT !.of = c]
    <3>1. store.cart \in Rung
      BY <1>1, <2>2 DEF Stores
    <3>2. w \in Rung /\ w.who = store.cart.who
      BY <3>1 DEF Rung
    <3>3. store' = [store EXCEPT !.cart = w]
      BY <1>1, <2>2 DEF Stores
    <3> HIDE DEF w
    <3>4. QED
      BY <2>2, <3>2, <3>3
  <2>3. QED
    BY <2>1, <2>2 DEF Ring
<1>4. /\ store' \in Stores /\ store'.cart = rung /\ store'.pending = store.pending
      /\ store'.detached = store.detached /\ store'.queue = store.queue
  BY <1>1, <1>3 DEF Stores
<1>5. /\ world' \in Worlds /\ world'.seen = world.seen /\ world'.freed = world.freed
      /\ world'.calm = world.calm /\ world.customer <= world'.customer
      /\ rung.who <= world'.customer
      /\ store.cart = None => rung.who > world.customer
  <2>1. world.customer \in 0..MaxCustomers /\ MaxCustomers \in Nat
    BY <1>1, TerminalBounds DEF Worlds
  <2>2. CASE store.cart = None
    <3>1. /\ world' = [world EXCEPT !.customer = world.customer + 1]
          /\ rung.who = world.customer + 1 /\ world.customer < MaxCustomers
      BY <1>3, <2>2
    <3>2. world.customer + 1 \in 0..MaxCustomers
      BY <2>1, <3>1
    <3>3. /\ world' \in Worlds /\ world'.seen = world.seen /\ world'.freed = world.freed
          /\ world'.calm = world.calm /\ world'.customer = world.customer + 1
      BY <1>1, <3>1, <3>2 DEF Worlds
    <3>4. QED
      BY <2>1, <3>1, <3>3
  <2>3. CASE store.cart # None
    BY <1>1, <1>3, <2>1, <2>3 DEF Customers, Come
  <2>4. QED
    BY <2>2, <2>3
<1>6. Learns /\ TerminalTypeOK'
  BY <1>1, <1>2, <1>4, <1>5 DEF Learns, Fates, Kept, TerminalTypeOK
<1>7. Unheld /\ \A k \in Key : Asking(k) /\ Keeping(k)
  BY <1>1, <1>2, <1>4 DEF Unheld, Asking, Keeping
<1>8. \A k \in Key : Shown(k) => Shown(k)'
  BY <1>1, <1>6, StaysShown
<1>9. \A k \in Key : Backed(k)'
  BY <1>1, <1>4, <1>5, <1>8 DEF Backed, Fates
<1>10. Carried' /\ SoldOnce' /\ Held' /\ Entries' /\ Fates'
  BY <1>1, <1>2, <1>4, <1>6, <1>7, <1>9, Silent DEF Entries
<1>11. \A other \in Rung : other.who <= world.customer => other.who <= world'.customer
  BY <1>1, <1>5, TerminalBounds DEF Worlds, Rung, Customer
<1>12. Customers'
  <2>1. /\ page.payload \in Rung \cup {None}
        /\ \A r \in Request : wire[r].cart \in Rung \cup {None}
        /\ \A k \in Key : store.detached[k].cart \in Rung \cup {None} /\ page.asks[k].cart \in Rung \cup {None}
    BY <1>1 DEF TerminalTypeOK, Pages, Stores, Messages, Entry, Questions
  <2>2. QED
    BY <1>1, <1>2, <1>4, <1>5, <1>11, <2>1 DEF Customers, Come
<1>13. ASSUME world.calm
       PROVE  Calm'
  <2>1. Pending /\ Resolving /\ Waiting /\ AtHand /\ OneOpenKey /\ Remembered
    BY <1>13 DEF IInv, Calm
  <2>2. Pending'
    BY <1>1, <1>2, <1>4, <1>5, <2>1 DEF Pending
  <2>3. Resolving'
    BY <1>2, <1>4, <2>1 DEF Resolving, Blocking
  <2>4. Waiting'
    BY <1>2, <2>1 DEF Waiting
  <2>5. \A k \in Key : (Handy(k) => Handy(k)') /\ (Recalled(k) => Recalled(k)')
    BY <1>2, <1>4, <1>5, <1>8 DEF Handy, Recalled
  <2>6. AtHand'
    <3>1. CASE store.cart = None
      <4>1. \A r \in Request : Sent(r) => wire[r].cart.who # rung.who
        <5>1. \A r \in Request : Sent(r) => wire[r].cart \in Rung /\ wire[r].cart.who <= world.customer
          BY <1>1 DEF IInv, Carried, Customers, Come, TerminalTypeOK, Messages
        <5>2. world.customer \in Int /\ rung.who \in Int /\ \A other \in Rung : other.who \in Int
          BY <1>1, TerminalBounds DEF Worlds, Rung, Customer
        <5>3. QED
          BY <1>5, <3>1, <5>1, <5>2
      <4>2. QED
        BY <1>2, <1>4, <4>1 DEF AtHand, Sent
    <3>2. CASE store.cart # None
      BY <1>1, <1>2, <1>3, <1>4, <2>1, <2>5, <3>2, AtHandStays
    <3>3. QED
      BY <3>1, <3>2
  <2>7. OneOpenKey' /\ Remembered'
    BY <1>1, <1>2, <1>6, <2>1, <2>5, OneOpenKeyStays, RememberedStays
  <2>8. QED
    BY <2>2, <2>3, <2>4, <2>6, <2>7 DEF Calm
<1>14. QED
  BY <1>1, <1>5, <1>6, <1>10, <1>12, <1>13 DEF IInv, Calm

\* A question is put.
LEMMA AskShape ==
  ASSUME page \in Pages, NEW k \in Key, NEW why \in Whys, NEW rung \in Rung \cup {None}
  PROVE  /\ Ask(k, why, rung) \in [Key -> Questions]
         /\ Ask(k, why, rung)[k].why = why /\ Ask(k, why, rung)[k].cart = rung
         /\ \A j \in Key \ {k} : Ask(k, why, rung)[j] = page.asks[j]
<1>1. page.asks \in [Key -> Questions] /\ [why |-> why, step |-> "read", cart |-> rung] \in Questions
  BY DEF Pages, Questions, Steps
<1>2. QED
  BY <1>1 DEF Ask

\* A changed cart: the held key is resolved first.
LEMMA ChargeChangedStep ==
  ASSUME IInv, ChargeChanged
  PROVE  IInv'
<1>1. /\ TerminalTypeOK /\ Entries /\ Fates /\ Held /\ Kept /\ sales' = sales
      /\ page \in Pages /\ store \in Stores /\ world \in Worlds
  BY Idles DEF IInv, TerminalTypeOK, serviceVars, ChargeChanged
<1>2. PICK k \in Key : k = page.key
  BY <1>1 DEF ChargeChanged, Pages
<1>3. PICK rung \in Rung : rung = store.cart
  BY <1>1 DEF ChargeChanged, MayCharge, Stores
<1>4. PICK asks \in [Key -> Questions] :
        /\ asks = Ask(k, "charge", rung)
        /\ asks[k].why = "charge" /\ asks[k].cart = rung
        /\ \A j \in Key \ {k} : asks[j] = page.asks[j]
  BY <1>1, AskShape DEF Whys
<1>5. page' = [page EXCEPT !.phase = "saving", !.busy = k, !.resolving = TRUE, !.asks = asks]
  BY <1>2, <1>3, <1>4 DEF ChargeChanged
<1>6. /\ page' \in Pages /\ page'.phase = "saving" /\ page'.busy = k /\ page'.resolving = TRUE
      /\ page'.asks = asks /\ page'.key = k /\ page'.print = page.print /\ page'.payload = page.payload
      /\ page'.local = page.local /\ page'.waits = page.waits /\ page'.retries = page.retries
  BY <1>1, <1>2, <1>5 DEF Pages
<1>7. /\ store' = store /\ wire' = wire /\ world' = world /\ ~page.resolving /\ page.phase # "saving"
      /\ rung # None /\ k # None
  BY <1>2, <1>3 DEF ChargeChanged, MayCharge
<1>8. Learns
  BY <1>1, <1>7 DEF Learns, Fates
<1>9. ASSUME world.calm
      PROVE  Calm'
  <2>1. Pending /\ Resolving /\ Waiting /\ AtHand /\ OneOpenKey /\ Remembered
    BY <1>9 DEF IInv, Calm
  <2>2. Pending'
    BY <1>2, <1>6, <1>7, <2>1 DEF Pending
  <2>3. \A j \in Key : Blocking(j)' <=> j = k
    <3>1. \A j \in Key : ~Blocking(j)
      BY <1>7, <2>1 DEF Resolving
    <3>2. QED
      BY <1>4, <1>6, <3>1 DEF Blocking
  <2>4. Resolving'
    BY <1>3, <1>4, <1>6, <1>7, <2>3 DEF Resolving, Blocking
  <2>5. Waiting'
    BY <1>2, <1>6, <1>7, <2>1 DEF Waiting
  <2>6. \A j \in Key : (Handy(j) => Handy(j)') /\ (Recalled(j) => Recalled(j)')
    BY <1>1, <1>2, <1>6, <1>7, <1>8, StaysShown DEF Handy, Recalled
  <2>7. AtHand' /\ OneOpenKey' /\ Remembered'
    BY <1>1, <1>7, <1>8, <2>1, <2>6, AtHandStays, OneOpenKeyStays, RememberedStays
  <2>8. QED
    BY <2>2, <2>4, <2>5, <2>7 DEF Calm
<1>10. ASSUME NEW j \in Key
       PROVE  /\ Asking(j) /\ Detaching(j)
              /\ page'.asks[j].why \in {"check", "retry", "dismiss"} => store.detached[j].status # "none"
  BY <1>1, <1>2, <1>3, <1>4, <1>6, <1>7 DEF Asking, Detaching, Entries, Held
<1>11. Unheld
  BY <1>2, <1>6 DEF Unheld
<1>12. QED
  BY <1>1, <1>6, <1>7, <1>8, <1>9, <1>10, <1>11, FrontStep DEF Entries

\* New Sale while saving.
LEMMA DetachStep ==
  ASSUME IInv, Detach
  PROVE  IInv'
<1>1. /\ TerminalTypeOK /\ Entries /\ Fates /\ Held /\ Kept /\ sales' = sales
      /\ page \in Pages /\ store \in Stores /\ world \in Worlds
  BY Idles DEF IInv, TerminalTypeOK, serviceVars, Detach
<1>2. PICK k \in Key : k = page.key
  BY <1>1 DEF Detach, Pages
<1>3. PICK rung \in Rung : rung = page.payload
  BY <1>1 DEF Detach, Pages
<1>4. PICK detached \in [Key -> Entry] :
        /\ detached = [store.detached EXCEPT ![k] = Detached(rung)]
        /\ detached[k] = Detached(rung)
        /\ \A j \in Key \ {k} : detached[j] = store.detached[j]
  <2>1. store.detached \in [Key -> Entry] /\ Detached(rung) \in Entry
    BY <1>1 DEF Stores, Detached, Entry
  <2>2. [store.detached EXCEPT ![k] = Detached(rung)] \in [Key -> Entry]
    BY <2>1
  <2>3. QED
    BY <2>1, <2>2
<1>5. store' = [store EXCEPT !.cart = None, !.pending = None, !.detached = detached]
  BY <1>1, <1>2, <1>3, <1>4 DEF Detach, Stores
<1>6. /\ store' \in Stores /\ store'.cart = None /\ store'.pending = None /\ store'.detached = detached
  BY <1>1, <1>5 DEF Stores
<1>7. /\ page' \in Pages /\ page'.key = None /\ page'.payload = None /\ page'.phase = "none"
      /\ page'.local = page.local \cup {k} /\ page'.waits = page.waits /\ page'.retries = page.retries
      /\ page'.asks = page.asks /\ page'.resolving = page.resolving
  BY <1>1, <1>2 DEF Detach, Forget, Pages
<1>8. wire' = wire /\ world' = world /\ page.phase = "saving" /\ k # None
  BY <1>2 DEF Detach
<1>9. Learns /\ Unheld
  BY <1>1, <1>7, <1>8 DEF Learns, Fates, Unheld
<1>10. ASSUME world.calm
       PROVE  Calm'
  <2>1. Pending /\ Resolving /\ Waiting /\ AtHand /\ OneOpenKey /\ Remembered
    BY <1>10 DEF IInv, Calm
  <2>2. Pending' /\ AtHand'
    BY <1>6, <1>7 DEF Pending, AtHand
  <2>3. Resolving'
    BY <1>7, <1>8, <2>1, NoneIsNothing DEF Resolving, Blocking
  <2>4. Waiting'
    BY <1>1, <1>7, <1>8 DEF Waiting, Entries, Sent
  <2>5. ASSUME NEW j \in Key, Recalled(j)
        PROVE  Recalled(j)'
    <3>1. CASE j = k
      BY <1>4, <1>6, <3>1 DEF Recalled, Detached
    <3>2. CASE j # k
      BY <1>2, <1>4, <1>6, <1>8, <1>9, <2>1, <2>5, <3>2, StaysShown, NoneIsNothing, <1>1 DEF Recalled, Handy, Pending
    <3>3. QED
      BY <3>1, <3>2
  <2>6. OneOpenKey' /\ Remembered'
    BY <1>1, <1>8, <1>9, <2>1, <2>5, OneOpenKeyStays, RememberedStays
  <2>7. QED
    BY <2>2, <2>3, <2>4, <2>6 DEF Calm
<1>11. ASSUME NEW j \in Key
       PROVE  /\ Asking(j) /\ Detaching(j)
              /\ page'.asks[j].why \in {"check", "retry", "dismiss"} => store.detached[j].status # "none"
  BY <1>1, <1>2, <1>3, <1>4, <1>6, <1>7 DEF Asking, Detaching, Entries
<1>12. k \in Minted
  BY <1>1, <1>2, <1>8 DEF Held
<1>13. QED
  BY <1>1, <1>6, <1>7, <1>8, <1>9, <1>10, <1>11, <1>12, FrontStep DEF Entries

\* The banner asks again, or comes down.
LEMMA RecheckStep ==
  ASSUME IInv, Recheck
  PROVE  IInv'
<1>1. /\ TerminalTypeOK /\ Entries /\ Fates /\ Kept /\ sales' = sales
      /\ page \in Pages /\ store \in Stores /\ world \in Worlds
  BY Idles DEF IInv, TerminalTypeOK, serviceVars, Recheck
<1>2. store' = store /\ wire' = wire /\ world' = world /\ ~page.resolving /\ page.phase = "none"
  BY DEF Recheck
<1>3. CASE store.pending = None
  <2>1. page' = [page EXCEPT !.notice = FALSE]
    BY <1>3 DEF Recheck
  <2>2. /\ page' \in Pages /\ page'.asks = page.asks
        /\ page'.local = page.local /\ page'.waits = page.waits /\ page'.retries = page.retries
        /\ page'.print = page.print /\ page'.payload = page.payload
        /\ page'.key = page.key /\ page'.phase = page.phase /\ page'.busy = page.busy
        /\ page'.resolving = page.resolving
    BY <1>1, <2>1 DEF Pages
  <2>3. QED
    BY <1>1, <1>2, <2>2, Elsewhere DEF PageStays
<1>4. CASE store.pending # None
  <2>1. PICK k \in Key : k = store.pending
    BY <1>1, <1>4 DEF Stores
  <2>2. PICK asks \in [Key -> Questions] :
          /\ asks = Ask(k, "recheck", None)
          /\ asks[k].why = "recheck" /\ asks[k].cart = None
          /\ \A j \in Key \ {k} : asks[j] = page.asks[j]
    BY <1>1, AskShape DEF Whys
  <2>3. page' = [page EXCEPT !.resolving = TRUE, !.asks = asks]
    BY <1>4, <2>1, <2>2 DEF Recheck
  <2>4. /\ page' \in Pages /\ page'.phase = "none" /\ page'.busy = page.busy /\ page'.resolving = TRUE
        /\ page'.asks = asks /\ page'.key = page.key /\ page'.print = page.print
        /\ page'.payload = page.payload
        /\ page'.local = page.local /\ page'.waits = page.waits /\ page'.retries = page.retries
    BY <1>1, <1>2, <2>3 DEF Pages
  <2>5. Learns /\ Unheld
    BY <1>1, <1>2, <2>4 DEF Learns, Fates, Unheld
  <2>6. ASSUME world.calm
        PROVE  Calm'
    <3>1. Pending /\ Resolving /\ Waiting /\ AtHand /\ OneOpenKey /\ Remembered
      BY <2>6 DEF IInv, Calm
    <3>2. Pending' /\ Waiting'
      BY <1>2, <2>4, <3>1 DEF Pending, Waiting
    <3>3. \A j \in Key : Blocking(j)' <=> j = k
      <4>1. \A j \in Key : ~Blocking(j)
        BY <1>2, <3>1 DEF Resolving
      <4>2. QED
        BY <2>2, <2>4, <4>1 DEF Blocking
    <3>4. Resolving'
      BY <1>2, <2>1, <2>2, <2>4, <3>3 DEF Resolving, Blocking
    <3>5. \A j \in Key : (Handy(j) => Handy(j)') /\ (Recalled(j) => Recalled(j)')
      BY <1>1, <1>2, <2>4, <2>5, StaysShown DEF Handy, Recalled
    <3>6. AtHand' /\ OneOpenKey' /\ Remembered'
      BY <1>1, <1>2, <2>5, <3>1, <3>5, AtHandStays, OneOpenKeyStays, RememberedStays
    <3>7. QED
      BY <3>2, <3>4, <3>6 DEF Calm
  <2>7. k \in Minted
    BY <1>1, <1>4, <2>1 DEF Entries
  <2>8. ASSUME NEW j \in Key
        PROVE  /\ Asking(j) /\ Detaching(j)
               /\ page'.asks[j].why \in {"check", "retry", "dismiss"} => store.detached[j].status # "none"
    BY <1>1, <1>2, <2>2, <2>4, <2>7 DEF Asking, Detaching, Entries
  <2>9. QED
    BY <1>1, <1>2, <2>4, <2>5, <2>6, <2>8, FrontStep DEF Entries
<1>5. QED
  BY <1>3, <1>4

\* What a reloaded page asks about.
LEMMA ReloadShape ==
  ASSUME IInv, Reload
  PROVE  /\ page' \in Pages /\ page'.key = None /\ page'.payload = None /\ page'.phase = "none"
         /\ page'.local = {} /\ page'.waits = {} /\ page'.retries = {}
         /\ store.pending # None => page'.resolving
         /\ \A k \in Key : page'.asks[k].cart = None /\ page'.asks[k].why =
              IF k = store.pending THEN "recover"
              ELSE IF store.detached[k].status = "saving" THEN "check" ELSE "none"
<1> DEFINE asks == [k \in Key |->
             CASE k = store.pending -> [NoAsk EXCEPT !.why = "recover"]
               [] k # store.pending /\ store.detached[k].status = "saving" -> [NoAsk EXCEPT !.why = "check"]
               [] OTHER -> NoAsk]
<1>1. FreshPage \in Pages
  <2>1. [k \in Key |-> NoAsk] \in [Key -> Questions]
    BY DEF NoAsk, Questions, Whys, Steps
  <2>2. QED
    BY <2>1 DEF FreshPage, Pages
<1>2. [NoAsk EXCEPT !.why = "recover"] = [why |-> "recover", step |-> "read", cart |-> None]
  BY DEF NoAsk
<1>3. [NoAsk EXCEPT !.why = "check"] = [why |-> "check", step |-> "read", cart |-> None]
  BY DEF NoAsk
<1>4. asks = [k \in Key |->
        IF k = store.pending THEN [why |-> "recover", step |-> "read", cart |-> None]
        ELSE IF store.detached[k].status = "saving" THEN [why |-> "check", step |-> "read", cart |-> None]
        ELSE NoAsk]
  BY <1>2, <1>3
<1>5. page' = [FreshPage EXCEPT !.resolving = store.pending # None, !.asks = asks]
  BY DEF Reload
<1> HIDE DEF asks
<1>6. asks \in [Key -> Questions]
  BY <1>4 DEF NoAsk, Questions, Whys, Steps
<1>7. \A k \in Key : asks[k].cart = None /\ asks[k].why =
        IF k = store.pending THEN "recover"
        ELSE IF store.detached[k].status = "saving" THEN "check" ELSE "none"
  BY <1>4 DEF NoAsk
<1>8. /\ page' \in Pages /\ page'.asks = asks /\ page'.resolving = (store.pending # None)
      /\ page'.key = FreshPage.key /\ page'.payload = FreshPage.payload /\ page'.phase = FreshPage.phase
      /\ page'.local = FreshPage.local /\ page'.waits = FreshPage.waits
      /\ page'.retries = FreshPage.retries
  BY <1>1, <1>5, <1>6 DEF Pages
<1>9. /\ FreshPage.key = None /\ FreshPage.payload = None /\ FreshPage.phase = "none"
      /\ FreshPage.local = {} /\ FreshPage.waits = {} /\ FreshPage.retries = {}
  BY DEF FreshPage
<1>10. QED
  BY <1>7, <1>8, <1>9

\* A reload: the pending record keeps what the page forgets.
LEMMA ReloadStep ==
  ASSUME IInv, Reload
  PROVE  IInv'
<1>1. /\ TerminalTypeOK /\ Entries /\ Fates /\ Kept /\ sales' = sales
      /\ page \in Pages /\ store \in Stores /\ world \in Worlds
  BY Idles DEF IInv, TerminalTypeOK, serviceVars, Reload
<1>2. store' = store /\ wire' = wire
  BY DEF Reload
<1>3. /\ page' \in Pages /\ page'.key = None /\ page'.payload = None /\ page'.phase = "none"
      /\ page'.local = {} /\ page'.waits = {} /\ page'.retries = {}
      /\ store.pending # None => page'.resolving
      /\ \A k \in Key : page'.asks[k].cart = None /\ page'.asks[k].why =
           IF k = store.pending THEN "recover"
           ELSE IF store.detached[k].status = "saving" THEN "check" ELSE "none"
  BY ReloadShape
<1>4. /\ world' \in Worlds /\ world'.seen = world.seen /\ world'.freed = world.freed
      /\ world'.customer = world.customer /\ world'.calm = world.calm
  BY <1>1, Disrupted DEF Reload, Worlds
<1>5. Learns /\ Unheld
  BY <1>1, <1>3, <1>4 DEF Learns, Fates, Unheld
<1>6. ASSUME world.calm
      PROVE  Calm'
  <2>1. Pending /\ Resolving /\ Waiting /\ AtHand /\ OneOpenKey /\ Remembered
    BY <1>6 DEF IInv, Calm
  <2>2. Pending' /\ Waiting'
    BY <1>3 DEF Pending, Waiting
  <2>3. \A j \in Key : Blocking(j)' <=> j = store.pending
    BY <1>3 DEF Blocking
  <2>4. Resolving'
    <3>1. \A j \in Key : j = store.pending => page'.resolving
      BY <1>3, NoneIsNothing
    <3>2. \A j \in Key : page'.asks[j].why # "charge"
      BY <1>3
    <3>3. QED
      BY <1>2, <1>3, <2>3, <3>1, <3>2 DEF Resolving, Blocking
  <2>5. \A j \in Key : (Handy(j) => Handy(j)') /\ (Recalled(j) => Recalled(j)')
    BY <1>1, <1>2, <1>3, <1>4, <1>5, <2>1, StaysShown, NoneIsNothing DEF Handy, Recalled, Pending
  <2>6. AtHand' /\ OneOpenKey' /\ Remembered'
    BY <1>1, <1>2, <1>5, <2>1, <2>5, AtHandStays, OneOpenKeyStays, RememberedStays
  <2>7. QED
    BY <2>2, <2>4, <2>6 DEF Calm
<1>7. ASSUME NEW j \in Key
      PROVE  /\ Asking(j) /\ Detaching(j)
             /\ page'.asks[j].why \in {"check", "retry", "dismiss"} => store.detached[j].status # "none"
  <2>1. j = store.pending => j \in Minted
    BY <1>1, NoneIsNothing DEF Entries
  <2>2. store.detached[j].status = "saving" => j \in Minted
    BY <1>1 DEF Entries
  <2>3. QED
    BY <1>2, <1>3, <2>1, <2>2 DEF Asking, Detaching
<1>8. QED
  BY <1>1, <1>2, <1>3, <1>4, <1>5, <1>6, <1>7, FrontStep DEF Entries

\* What a handler notes when it acts on the page.
LEMMA NotingShape ==
  ASSUME NEW wd \in Worlds, NEW k \in Key
  PROVE  \A w : w = Noting(k, page, wd) =>
           /\ w \in Worlds /\ w.customer = wd.customer /\ w.seen = wd.seen /\ w.freed = wd.freed
           /\ w.calm => wd.calm /\ page.key = k
<1>1. CASE page.key = k
  BY <1>1 DEF Noting
<1>2. CASE page.key # k
  <2>1. Noting(k, page, wd) = [wd EXCEPT !.calm = FALSE]
    BY <1>2 DEF Noting
  <2>2. QED
    BY <2>1 DEF Worlds
<1>3. QED
  BY <1>1, <1>2

\* The answer to the page's own handler.
LEMMA FrontAnswer ==
  ASSUME IInv, UNCHANGED serviceVars, wire' = wire, NEW r \in page.waits, NEW sale \in Request \cup {None},
         NEW definite \in BOOLEAN, SettleFront(r, sale, definite),
         sale # None => sale \in SalesUnder(wire[r].key)
  PROVE  IInv'
<1>1. /\ TerminalTypeOK /\ Entries /\ Fates /\ Kept /\ sales' = sales /\ sales \subseteq Request
      /\ page \in Pages /\ store \in Stores /\ world \in Worlds
      /\ wire \in [Request -> Messages] /\ r \in Request
  BY Idles DEF IInv, TerminalTypeOK, ServiceTypeOK, serviceVars, Pages
<1>2. PICK k \in Key : k = wire[r].key
  BY <1>1 DEF Entries, Sent, Messages
<1>3. r \notin page.retries
  BY DEF SettleFront
<1>4. PICK busy \in Request \cup Key \cup {None} : busy = Release(r)
  BY <1>1 DEF Release, Pages
<1>5. PICK rest \in Pages :
        /\ rest = [page EXCEPT !.waits = @ \ {r}, !.busy = Release(r)]
        /\ rest.waits = page.waits \ {r} /\ rest.busy = busy /\ rest.phase = page.phase
        /\ rest.key = page.key /\ rest.print = page.print /\ rest.payload = page.payload
        /\ rest.resolving = page.resolving /\ rest.local = page.local
        /\ rest.retries = page.retries /\ rest.asks = page.asks
  <2>1. [page EXCEPT !.waits = @ \ {r}, !.busy = Release(r)] = [page EXCEPT !.waits = page.waits \ {r}, !.busy = busy]
    BY <1>1, <1>4 DEF Pages
  <2>2. QED
    BY <1>1, <1>4, <2>1 DEF Pages
<1>6. PICK noted \in Worlds :
        /\ noted = Noting(k, page, world)
        /\ noted.customer = world.customer /\ noted.seen = world.seen /\ noted.freed = world.freed
        /\ noted.calm => world.calm /\ page.key = k
  BY <1>1, NotingShape
<1>7. CASE sale # None
  <2>1. page' = Forget("success", rest) /\ store' = [store EXCEPT !.cart = None, !.pending = None]
        /\ world' = Seen(sale, noted)
    BY <1>2, <1>5, <1>6, <1>7 DEF SettleFront, Confirmed
  <2>2. /\ page' \in Pages /\ page'.phase = "success" /\ page'.key = None /\ page'.payload = None
        /\ page'.waits = page.waits \ {r} /\ page'.resolving = page.resolving
        /\ page'.local = page.local /\ page'.retries = page.retries /\ page'.asks = page.asks
    BY <1>5, <2>1 DEF Forget, Pages
  <2>3. /\ store' \in Stores /\ store'.cart = None /\ store'.pending = None
        /\ store'.detached = store.detached
    BY <1>1, <2>1 DEF Stores
  <2>4. sale \in sales /\ sale \in SalesUnder(k)
    BY <1>2, <1>7 DEF SalesUnder
  <2>5. /\ world' \in Worlds /\ world'.seen = world.seen \cup {sale} /\ world'.freed = world.freed
        /\ world'.customer = world.customer /\ world'.calm = noted.calm
    BY <1>1, <1>6, <2>1, <2>4 DEF Seen, Worlds
  <2>6. Learns /\ Unheld
    BY <1>1, <2>2, <2>4, <2>5 DEF Learns, Fates, Unheld
  <2>7. ASSUME world'.calm
        PROVE  Calm'
    <3>1. /\ page.key = k
          /\ Pending /\ Resolving /\ Waiting /\ AtHand /\ OneOpenKey /\ Remembered
      BY <1>6, <2>5, <2>7 DEF IInv, Calm
    <3>2. ~page.resolving
      BY <1>1, <1>2, <1>3, <3>1 DEF Waiting
    <3>3. Pending' /\ AtHand'
      BY <2>2, <2>3 DEF Pending, AtHand
    <3>4. Resolving'
      BY <2>2, <3>1, <3>2 DEF Resolving, Blocking
    <3>5. Waiting'
      BY <1>1, <2>2 DEF Waiting, Entries, Sent
    <3>6. Shown(k)'
      <4>1. SalesUnder(k)' = SalesUnder(k)
        BY DEF SalesUnder, serviceVars
      <4>2. QED
        BY <2>4, <2>5, <4>1 DEF Shown
    <3>7. \A j \in Key : Recalled(j) => Recalled(j)'
      BY <1>1, <2>3, <2>5, <2>6, <3>1, <3>6, StaysShown, NoneIsNothing DEF Handy, Recalled, Pending
    <3>8. OneOpenKey' /\ Remembered'
      BY <1>1, <2>6, <3>1, <3>7, OneOpenKeyStays, RememberedStays
    <3>9. QED
      BY <3>3, <3>4, <3>5, <3>8 DEF Calm
  <2>8. ASSUME NEW j \in Key
        PROVE  /\ Asking(j) /\ Detaching(j)
               /\ page'.asks[j].why \in {"check", "retry", "dismiss"} => store.detached[j].status # "none"
    BY <1>1, <2>2, <2>3 DEF Asking, Detaching, Entries
  <2>9. QED
    BY <1>1, <1>3, <2>2, <2>3, <2>5, <2>6, <2>7, <2>8, FrontStep DEF Entries
<1>8. CASE sale = None /\ definite
  <2>1. page' = Forget("error", rest) /\ store' = [store EXCEPT !.pending = None]
        /\ world' = [noted EXCEPT !.freed[k] = "failed"]
    BY <1>2, <1>5, <1>6, <1>8 DEF SettleFront
  <2>2. /\ page' \in Pages /\ page'.phase = "error" /\ page'.key = None /\ page'.payload = None
        /\ page'.waits = page.waits \ {r} /\ page'.resolving = page.resolving
        /\ page'.local = page.local /\ page'.retries = page.retries /\ page'.asks = page.asks
    BY <1>5, <2>1 DEF Forget, Pages
  <2>3. /\ store' \in Stores /\ store'.cart = store.cart /\ store'.pending = None
        /\ store'.detached = store.detached
    BY <1>1, <2>1 DEF Stores
  <2>4. /\ world' \in Worlds /\ world'.seen = world.seen /\ world'.freed[k] = "failed"
        /\ \A j \in Key \ {k} : world'.freed[j] = world.freed[j]
        /\ world'.customer = world.customer /\ world'.calm = noted.calm
    BY <1>6, <2>1, FatesShape
  <2>5. Learns /\ Unheld
    BY <1>1, <2>2, <2>4 DEF Learns, Fates, Unheld
  <2>6. ASSUME world'.calm
        PROVE  Calm'
    <3>1. /\ page.key = k
          /\ Pending /\ Resolving /\ Waiting /\ AtHand /\ OneOpenKey /\ Remembered
      BY <1>6, <2>4, <2>6 DEF IInv, Calm
    <3>2. ~page.resolving
      BY <1>1, <1>2, <1>3, <3>1 DEF Waiting
    <3>3. Pending'
      BY <2>2 DEF Pending
    <3>4. Resolving'
      BY <2>2, <3>1, <3>2 DEF Resolving, Blocking
    <3>5. Waiting'
      BY <1>1, <2>2 DEF Waiting, Entries, Sent
    <3>6. \A j \in Key : (Handy(j) => Handy(j)') /\ (Recalled(j) => Recalled(j)')
      BY <1>1, <2>3, <2>4, <2>5, <3>1, StaysShown, NoneIsNothing DEF Handy, Recalled, Pending
    <3>7. AtHand' /\ OneOpenKey' /\ Remembered'
      BY <1>1, <2>3, <2>5, <3>1, <3>6, AtHandStays, OneOpenKeyStays, RememberedStays
    <3>8. QED
      BY <3>3, <3>4, <3>5, <3>7 DEF Calm
  <2>7. ASSUME NEW j \in Key
        PROVE  /\ Asking(j) /\ Detaching(j)
               /\ page'.asks[j].why \in {"check", "retry", "dismiss"} => store.detached[j].status # "none"
    BY <1>1, <2>2, <2>3 DEF Asking, Detaching, Entries
  <2>8. QED
    BY <1>1, <1>3, <2>2, <2>3, <2>4, <2>5, <2>6, <2>7, FrontStep DEF Entries
<1>9. CASE sale = None /\ ~definite
  <2>1. page' = [rest EXCEPT !.phase = "error"] /\ store' = store /\ world' = noted
    BY <1>2, <1>5, <1>6, <1>9 DEF SettleFront
  <2>2. /\ page' \in Pages /\ page'.phase = "error" /\ page'.key = page.key
        /\ page'.payload = page.payload /\ page'.print = page.print
        /\ page'.waits = page.waits \ {r} /\ page'.resolving = page.resolving
        /\ page'.local = page.local /\ page'.retries = page.retries /\ page'.asks = page.asks
    BY <1>5, <2>1 DEF Pages
  <2>3. Learns /\ Unheld
    BY <1>1, <1>6, <2>1, <2>2 DEF Learns, Fates, Unheld
  <2>4. ASSUME world'.calm
        PROVE  Calm'
    <3>1. /\ page.key = k
          /\ Pending /\ Resolving /\ Waiting /\ AtHand /\ OneOpenKey /\ Remembered
      BY <1>6, <2>1, <2>4 DEF IInv, Calm
    <3>2. ~page.resolving /\ page.busy = r
      BY <1>1, <1>2, <1>3, <3>1 DEF Waiting
    <3>3. Pending'
      BY <1>6, <2>1, <2>2, <3>1 DEF Pending
    <3>4. Resolving'
      BY <2>2, <3>1, <3>2 DEF Resolving, Blocking
    <3>5. Waiting'
      BY <2>2, <3>1, <3>2 DEF Waiting
    <3>6. \A j \in Key : (Handy(j) => Handy(j)') /\ (Recalled(j) => Recalled(j)')
      BY <1>1, <1>6, <2>1, <2>2, <2>3, <3>1, StaysShown DEF Handy, Recalled
    <3>7. AtHand' /\ OneOpenKey' /\ Remembered'
      BY <1>1, <2>1, <2>3, <3>1, <3>6, AtHandStays, OneOpenKeyStays, RememberedStays
    <3>8. QED
      BY <3>3, <3>4, <3>5, <3>7 DEF Calm
  <2>5. ASSUME NEW j \in Key
        PROVE  /\ Asking(j) /\ Detaching(j)
               /\ page'.asks[j].why \in {"check", "retry", "dismiss"} => store.detached[j].status # "none"
    BY <1>1, <2>1, <2>2 DEF Asking, Detaching, Entries
  <2>6. QED
    BY <1>1, <1>3, <1>6, <2>1, <2>2, <2>3, <2>4, <2>5, FrontStep DEF Entries
<1>10. QED
  BY <1>7, <1>8, <1>9

\* The sale of the attempt that kept the page from charging is found.
LEMMA FoundFront ==
  ASSUME IInv, UNCHANGED serviceVars, NEW k \in Key, NEW s \in SalesUnder(k), Found(k, s), Blocking(k)
  PROVE  IInv'
<1>1. /\ TerminalTypeOK /\ Entries /\ Fates /\ Kept /\ sales' = sales /\ sales \subseteq Request
      /\ page \in Pages /\ store \in Stores /\ world \in Worlds
  BY Idles DEF IInv, TerminalTypeOK, ServiceTypeOK, serviceVars, Pages
<1>2. PICK pg \in Pages :
        /\ pg = Done(k) /\ pg.asks[k] = NoAsk /\ \A j \in Key \ {k} : pg.asks[j] = page.asks[j]
        /\ pg.local = page.local /\ pg.waits = page.waits /\ pg.retries = page.retries
        /\ pg.busy = page.busy
  BY <1>1, DoneShape
<1>3. Release(k) \in Request \cup Key \cup {None}
  BY <1>1 DEF Release, Pages
<1>4. PICK front \in Pages :
        /\ front = [Confirmed(pg) EXCEPT !.resolving = FALSE]
        /\ front.asks = pg.asks /\ front.phase = "success" /\ front.key = None /\ front.payload = None
        /\ front.local = page.local /\ front.waits = page.waits /\ front.retries = page.retries
  <2>1. PICK shown \in Pages :
          /\ shown = Confirmed(pg)
          /\ shown.asks = pg.asks /\ shown.phase = "success" /\ shown.key = None /\ shown.payload = None
          /\ shown.local = page.local /\ shown.waits = page.waits /\ shown.retries = page.retries
    <3>1. Confirmed(pg) = [pg EXCEPT !.phase = "success", !.key = None, !.print = None, !.payload = None]
      BY DEF Confirmed, Forget
    <3>2. Confirmed(pg) \in Pages
      BY <1>2, <3>1 DEF Pages
    <3>3. /\ Confirmed(pg).asks = pg.asks /\ Confirmed(pg).phase = "success"
          /\ Confirmed(pg).key = None /\ Confirmed(pg).payload = None
          /\ Confirmed(pg).local = pg.local /\ Confirmed(pg).waits = pg.waits
          /\ Confirmed(pg).retries = pg.retries
      BY <1>2, <3>1 DEF Pages
    <3>4. QED
      BY <1>2, <3>2, <3>3
  <2>2. [shown EXCEPT !.resolving = FALSE] \in Pages
    BY <2>1 DEF Pages
  <2>3. QED
    BY <2>1, <2>2 DEF Pages
<1>5. /\ page' \in Pages /\ page'.phase = "success" /\ page'.key = None /\ page'.payload = None
      /\ page'.asks = pg.asks
      /\ page'.local = page.local /\ page'.waits = page.waits /\ page'.retries = page.retries
  <2>1. CASE page.asks[k].why = "charge"
    <3>1. page' = [front EXCEPT !.busy = Release(k)]
      BY <1>2, <1>4, <2>1 DEF Found
    <3>2. QED
      BY <1>3, <1>4, <3>1 DEF Pages
  <2>2. CASE page.asks[k].why \in {"recover", "recheck"}
    <3>1. PICK notice \in BOOLEAN : page' = [front EXCEPT !.notice = notice]
      <4>1. page' = [front EXCEPT !.notice = IF page.asks[k].why = "recheck" THEN FALSE ELSE front.notice]
        BY <1>2, <1>4, <2>2 DEF Found, Pages
      <4>2. (IF page.asks[k].why = "recheck" THEN FALSE ELSE front.notice) \in BOOLEAN
        BY <1>4 DEF Pages
      <4>3. QED
        BY <4>1, <4>2
    <3>2. QED
      BY <1>4, <3>1 DEF Pages
  <2>3. QED
    BY <2>1, <2>2 DEF Blocking
<1>6. /\ store' \in Stores /\ store'.cart \in {store.cart, None} /\ store'.pending = None
      /\ store'.detached = store.detached /\ wire' = wire
      /\ page.asks[k].why = "charge" => store'.cart = None
  BY <1>1 DEF Found, Blocking, Stores
<1>7. s \in sales /\ s \in Request
  BY <1>1 DEF SalesUnder
<1>8. /\ world' \in Worlds /\ world'.seen = world.seen \cup {s} /\ world'.freed = world.freed
      /\ world'.customer = world.customer
      /\ world'.calm => world.calm /\ (page.asks[k].why = "charge" => page.key = k)
                        /\ (page.asks[k].why # "charge" => store'.cart = None)
  <2>1. CASE page.asks[k].why = "charge"
    <3>1. PICK noted \in Worlds :
            /\ noted = Noting(k, page, world)
            /\ noted.customer = world.customer /\ noted.seen = world.seen /\ noted.freed = world.freed
            /\ noted.calm => world.calm /\ page.key = k
      BY <1>1, NotingShape
    <3>2. world' = Seen(s, noted)
      BY <2>1, <3>1 DEF Found
    <3>3. QED
      BY <1>1, <1>7, <2>1, <3>1, <3>2 DEF Seen, Worlds
  <2>2. CASE page.asks[k].why \in {"recover", "recheck"}
    <3>1. PICK noted \in Worlds :
            /\ noted = IF store.cart = None THEN world ELSE [world EXCEPT !.calm = FALSE]
            /\ noted.customer = world.customer /\ noted.seen = world.seen /\ noted.freed = world.freed
            /\ noted.calm => world.calm /\ store.cart = None
      <4>1. CASE store.cart = None
        BY <1>1, <4>1
      <4>2. CASE store.cart # None
        <5>1. /\ [world EXCEPT !.calm = FALSE] \in Worlds
              /\ [world EXCEPT !.calm = FALSE].calm = FALSE
              /\ [world EXCEPT !.calm = FALSE].customer = world.customer
              /\ [world EXCEPT !.calm = FALSE].seen = world.seen
              /\ [world EXCEPT !.calm = FALSE].freed = world.freed
          BY <1>1 DEF Worlds
        <5>2. QED
          BY <4>2, <5>1
      <4>3. QED
        BY <4>1, <4>2
    <3>2. world' = Seen(s, noted) /\ store'.cart = store.cart
      BY <1>1, <2>2, <3>1 DEF Found, Stores
    <3>3. QED
      BY <1>1, <1>7, <2>2, <3>1, <3>2 DEF Seen, Worlds
  <2>3. QED
    BY <2>1, <2>2 DEF Blocking
<1>9. Learns /\ Unheld
  BY <1>1, <1>5, <1>7, <1>8 DEF Learns, Fates, Unheld
<1>10. ASSUME world'.calm
       PROVE  Calm'
  <2>1. Pending /\ Resolving /\ Waiting /\ AtHand /\ OneOpenKey /\ Remembered
    BY <1>8, <1>10 DEF IInv, Calm
  <2>2. Pending' /\ AtHand'
    BY <1>5, <1>6, <1>8, <1>10 DEF Pending, AtHand
  <2>3. Resolving'
    <3>1. \A j \in Key : ~Blocking(j)'
      BY <1>2, <1>5, <2>1 DEF Resolving, Blocking, NoAsk
    <3>2. QED
      BY <3>1 DEF Resolving, Blocking
  <2>4. Waiting'
    BY <1>1, <1>5, <1>6 DEF Waiting, Entries, Sent
  <2>5. Shown(k)'
    <3>1. SalesUnder(k)' = SalesUnder(k)
      BY DEF SalesUnder, serviceVars
    <3>2. QED
      BY <1>8, <3>1 DEF Shown
  <2>6. \A j \in Key : j \in {page.key, store.pending} => j = k \/ world.freed[j] # "no"
    BY <1>8, <1>10, <2>1, NoneIsNothing DEF Pending, Resolving, Blocking
  <2>7. \A j \in Key : Recalled(j) => Recalled(j)'
    BY <1>6, <1>8, <1>9, <2>5, <2>6, StaysShown, <1>1 DEF Handy, Recalled
  <2>8. OneOpenKey' /\ Remembered'
    BY <1>1, <1>6, <1>9, <2>1, <2>7, OneOpenKeyStays, RememberedStays
  <2>9. QED
    BY <2>2, <2>3, <2>4, <2>8 DEF Calm
<1>11. ASSUME NEW j \in Key
       PROVE  /\ Asking(j) /\ Detaching(j)
              /\ page'.asks[j].why \in {"check", "retry", "dismiss"} => store.detached[j].status # "none"
  BY <1>1, <1>2, <1>5, <1>6 DEF Asking, Detaching, Entries, NoAsk
<1>12. QED
  BY <1>1, <1>5, <1>6, <1>8, <1>9, <1>10, <1>11, FrontStep DEF Entries

\* The pending attempt is over, or the page keeps its key.
LEMMA NotFoundFront ==
  ASSUME IInv, Kept, sales' = sales, NEW k \in Key, NEW evidence, Evident(k, evidence),
         page.asks[k].why \in {"recover", "recheck"}, wire' = wire,
         page' = [Done(k) EXCEPT !.resolving = FALSE,
                                 !.notice = IF page.asks[k].why = "recheck" THEN FALSE ELSE @],
         store' = [store EXCEPT !.pending = None],
         world' = [world EXCEPT !.freed[k] = evidence]
  PROVE  IInv'
<1>1. /\ TerminalTypeOK /\ Entries /\ Fates /\ page \in Pages /\ store \in Stores /\ world \in Worlds
      /\ evidence \in {"no", "failed", "abandoned"} /\ evidence # "no"
  BY DEF IInv, TerminalTypeOK, Evident
<1>2. PICK pg \in Pages :
        /\ pg = Done(k) /\ pg.asks[k] = NoAsk /\ \A j \in Key \ {k} : pg.asks[j] = page.asks[j]
        /\ pg.local = page.local /\ pg.waits = page.waits /\ pg.retries = page.retries
        /\ pg.key = page.key /\ pg.print = page.print /\ pg.payload = page.payload
        /\ pg.phase = page.phase /\ pg.busy = page.busy
  BY <1>1, DoneShape
<1>3. PICK notice \in BOOLEAN : page' = [pg EXCEPT !.resolving = FALSE, !.notice = notice]
  <2>1. page' = [pg EXCEPT !.resolving = FALSE,
                           !.notice = IF page.asks[k].why = "recheck" THEN FALSE ELSE pg.notice]
    BY <1>2 DEF Pages
  <2>2. (IF page.asks[k].why = "recheck" THEN FALSE ELSE pg.notice) \in BOOLEAN
    BY <1>2 DEF Pages
  <2>3. QED
    BY <2>1, <2>2
<1>4. /\ page' \in Pages /\ page'.asks = pg.asks
      /\ page'.local = page.local /\ page'.waits = page.waits /\ page'.retries = page.retries
      /\ page'.key = page.key /\ page'.print = page.print /\ page'.payload = page.payload
      /\ page'.phase = page.phase /\ page'.busy = page.busy /\ page'.resolving = FALSE
  BY <1>2, <1>3 DEF Pages
<1>5. /\ store' \in Stores /\ store'.cart = store.cart /\ store'.pending = None
      /\ store'.detached = store.detached
  BY <1>1 DEF Stores
<1>6. /\ world' \in Worlds /\ world'.freed[k] = evidence
      /\ \A j \in Key \ {k} : world'.freed[j] = world.freed[j]
      /\ world'.customer = world.customer /\ world'.calm = world.calm /\ world'.seen = world.seen
  BY <1>1, FatesShape
<1>7. Learns /\ Unheld
  BY <1>1, <1>4, <1>6 DEF Learns, Fates, Unheld, Evident
<1>8. ASSUME world.calm
      PROVE  Calm'
  <2>1. Pending /\ Resolving /\ Waiting /\ AtHand /\ OneOpenKey /\ Remembered
    BY <1>8 DEF IInv, Calm
  <2>2. k = store.pending /\ page.phase # "saving"
    BY <2>1 DEF Resolving
  <2>3. page.key \in Key \cup {None}
    BY <1>1 DEF Pages
  <2>4. Pending'
    BY <1>1, <1>4, <1>5, <1>6, <2>1, <2>2, <2>3 DEF Pending
  <2>5. Resolving'
    <3>1. \A j \in Key : ~Blocking(j)'
      BY <1>2, <1>4, <2>1 DEF Resolving, Blocking, NoAsk
    <3>2. QED
      BY <3>1 DEF Resolving, Blocking
  <2>6. Waiting'
    BY <1>4, <2>1, <2>2 DEF Waiting
  <2>7. \A j \in Key : (Handy(j) => Handy(j)') /\ (Recalled(j) => Recalled(j)')
    BY <1>1, <1>4, <1>5, <1>6, <1>7, <2>2, StaysShown DEF Handy, Recalled
  <2>8. AtHand' /\ OneOpenKey' /\ Remembered'
    BY <1>1, <1>5, <1>7, <2>1, <2>7, AtHandStays, OneOpenKeyStays, RememberedStays
  <2>9. QED
    BY <2>4, <2>5, <2>6, <2>8 DEF Calm
<1>9. ASSUME NEW j \in Key
      PROVE  /\ Asking(j) /\ Detaching(j)
             /\ page'.asks[j].why \in {"check", "retry", "dismiss"} => store.detached[j].status # "none"
  BY <1>1, <1>2, <1>4, <1>5 DEF Asking, Detaching, Entries, NoAsk
<1>10. QED
  BY <1>1, <1>4, <1>5, <1>6, <1>7, <1>8, <1>9, FrontStep DEF Entries

\* The attempt that kept the page from charging stays unresolved.
LEMMA KeptFront ==
  ASSUME IInv, UNCHANGED serviceVars, NEW k \in Key, NEW wd \in Worlds, KeepKey(k, wd),
         wd.customer = world.customer, wd.calm = world.calm, wd.seen = world.seen, wd.freed = world.freed,
         Blocking(k)
  PROVE  IInv'
<1>1. /\ TerminalTypeOK /\ Entries /\ Fates /\ Kept /\ sales' = sales
      /\ page \in Pages /\ store \in Stores /\ world \in Worlds
  BY Idles DEF IInv, TerminalTypeOK, serviceVars
<1>2. PICK pg \in Pages :
        /\ pg = Done(k) /\ pg.asks[k] = NoAsk /\ \A j \in Key \ {k} : pg.asks[j] = page.asks[j]
        /\ pg.local = page.local /\ pg.waits = page.waits /\ pg.retries = page.retries
        /\ pg.key = page.key /\ pg.print = page.print /\ pg.payload = page.payload
        /\ pg.phase = page.phase
  BY <1>1, DoneShape
<1>3. PICK blocked \in Pages :
        /\ blocked = [pg EXCEPT !.resolving = FALSE] /\ blocked.asks = pg.asks
        /\ blocked.local = page.local /\ blocked.waits = page.waits /\ blocked.retries = page.retries
        /\ blocked.key = page.key /\ blocked.print = page.print /\ blocked.payload = page.payload
        /\ blocked.resolving = FALSE
  <2>1. [pg EXCEPT !.resolving = FALSE] \in Pages
    BY <1>2 DEF Pages
  <2>2. QED
    BY <1>2, <2>1 DEF Pages
<1>4. Release(k) \in Request \cup Key \cup {None}
  BY <1>1 DEF Release, Pages
<1>5. /\ page' \in Pages /\ page'.asks = pg.asks
      /\ page'.local = page.local /\ page'.waits = page.waits /\ page'.retries = page.retries
      /\ page'.key = page.key /\ page'.print = page.print /\ page'.payload = page.payload
      /\ page'.resolving = FALSE
  <2>1. CASE page.asks[k].why = "charge"
    <3>1. page' = [blocked EXCEPT !.notice = TRUE, !.phase = "error", !.busy = Release(k)]
      BY <1>2, <1>3, <2>1 DEF KeepKey
    <3>2. QED
      BY <1>3, <1>4, <3>1 DEF Pages
  <2>2. CASE page.asks[k].why = "recover"
    <3>1. page' = [blocked EXCEPT !.notice = TRUE]
      BY <1>2, <1>3, <2>2 DEF KeepKey
    <3>2. QED
      BY <1>3, <3>1 DEF Pages
  <2>3. CASE page.asks[k].why = "recheck"
    BY <1>2, <1>3, <2>3 DEF KeepKey
  <2>4. QED
    BY <2>1, <2>2, <2>3 DEF Blocking
<1>6. store' = store /\ wire' = wire
  BY DEF KeepKey
<1>7. /\ world' \in Worlds /\ world'.seen = world.seen /\ world'.freed = world.freed
      /\ world'.customer = world.customer
      /\ world'.calm => world.calm
  BY <1>1, NotingShape DEF KeepKey
<1>8. Learns /\ Unheld
  BY <1>1, <1>5, <1>7 DEF Learns, Fates, Unheld
<1>9. ASSUME world'.calm
      PROVE  Calm'
  <2>1. Pending /\ Resolving /\ Waiting /\ AtHand /\ OneOpenKey /\ Remembered
    BY <1>7, <1>9 DEF IInv, Calm
  <2>2. Pending'
    BY <1>5, <1>6, <1>7, <2>1 DEF Pending
  <2>3. Resolving'
    <3>1. \A j \in Key : ~Blocking(j)'
      BY <1>2, <1>5, <2>1 DEF Resolving, Blocking, NoAsk
    <3>2. QED
      BY <3>1 DEF Resolving, Blocking
  <2>4. Waiting'
    BY <1>5, <1>6, <2>1 DEF Waiting, Resolving
  <2>5. \A j \in Key : (Handy(j) => Handy(j)') /\ (Recalled(j) => Recalled(j)')
    BY <1>1, <1>5, <1>6, <1>7, <1>8, StaysShown DEF Handy, Recalled
  <2>6. AtHand' /\ OneOpenKey' /\ Remembered'
    BY <1>1, <1>6, <1>8, <2>1, <2>5, AtHandStays, OneOpenKeyStays, RememberedStays
  <2>7. QED
    BY <2>2, <2>3, <2>4, <2>6 DEF Calm
<1>10. ASSUME NEW j \in Key
       PROVE  /\ Asking(j) /\ Detaching(j)
              /\ page'.asks[j].why \in {"check", "retry", "dismiss"} => store.detached[j].status # "none"
  BY <1>1, <1>2, <1>5, <1>6 DEF Asking, Detaching, Entries, NoAsk
<1>11. QED
  BY <1>1, <1>5, <1>6, <1>7, <1>8, <1>9, <1>10, FrontStep DEF Entries

-----------------------------------------------------------------------------
(* Steps that send a request. *)

\* A request leaves with key k and the cart of every request of k so far.
LEMMA Sending ==
  ASSUME TerminalTypeOK, Carried, Kept, NEW r \in Request, NEW k \in Key, NEW rung \in Rung,
         Unsent(r), wire' = [wire EXCEPT ![r] = [key |-> k, cart |-> rung]], SentWith(k, rung.of)
  PROVE  /\ wire' \in [Request -> Messages] /\ wire'[r].key = k /\ wire'[r].cart = rung
         /\ \A q \in Request \ {r} : wire'[q] = wire[q]
         /\ Carried' /\ Minted' = Minted \cup {k} /\ SentWith(k, rung.of)'
         /\ \A q \in Request : Sent(q)' <=> Sent(q) \/ q = r
<1>1. wire \in [Request -> Messages] /\ [key |-> k, cart |-> rung] \in Messages /\ k # None /\ rung # None
  BY NoneIsNothing DEF TerminalTypeOK, Messages
<1>2. /\ wire' \in [Request -> Messages] /\ wire'[r].key = k /\ wire'[r].cart = rung
      /\ \A q \in Request \ {r} : wire'[q] = wire[q]
  BY <1>1
<1>3. ~Sent(r) /\ \A q \in Request : Sent(q)' <=> Sent(q) \/ q = r
  BY <1>1, <1>2 DEF Sent, Unsent
<1>4. SentWith(k, rung.of)'
  BY <1>2 DEF SentWith
<1>5. Minted' = Minted \cup {k}
  BY <1>1, <1>2 DEF Minted, Unsent
<1>6. Carried'
  <2>1. ASSUME NEW q \in Request
        PROVE  /\ call'[q].at # "idle" => /\ Sent(q)' /\ call'[q].key = wire'[q].key
                                          /\ call'[q].cart = wire'[q].cart.of
               /\ Sent(q)' => wire'[q].cart # None
    BY <1>1, <1>2, <1>3 DEF Kept, Carried
  <2>2. ASSUME NEW p \in Request, NEW q \in Request, wire'[p].key = wire'[q].key, Sent(p)'
        PROVE  wire'[p].cart.of = wire'[q].cart.of
    BY <1>2, <1>3, <1>4, <2>2 DEF Carried, SentWith
  <2>3. QED
    BY <2>1, <2>2 DEF Carried
<1>7. QED
  BY <1>2, <1>3, <1>4, <1>5, <1>6

\* What is sent with one cart still is, whatever is sent under other keys.
LEMMA SentWithStays ==
  ASSUME NEW r \in Request, NEW k \in Key, wire'[r].key = k, \A q \in Request \ {r} : wire'[q] = wire[q],
         NEW j \in Key \ {k}, NEW c, SentWith(j, c)
  PROVE  SentWith(j, c)'
BY DEF SentWith

\* The page sends the order at the terminal under k.
LEMMA SendStep ==
  ASSUME IInv, Kept, NEW r \in Request, NEW k \in Key, NEW rung \in Rung,
         Unsent(r), wire' = [wire EXCEPT ![r] = [key |-> k, cart |-> rung]], SentWith(k, rung.of),
         page' \in Pages, store' \in Stores, world' \in Worlds, Learns, AnOrder(rung),
         page'.key = k, page'.print = rung.of, page'.payload = rung,
         page'.waits = page.waits \cup {r}, page'.retries = page.retries, page'.local = page.local,
         store'.pending = k, store'.cart = store.cart, store'.detached = store.detached,
         world'.customer = world.customer,
         k \notin page.local, store.detached[k].status = "none",
         \A q \in page.retries : wire[q].key # k,
         \A j \in Key : \/ page'.asks[j].why = page.asks[j].why /\ page'.asks[j].cart = page.asks[j].cart
                        \/ page'.asks[j] = NoAsk,
         world'.calm =>
           /\ world.calm /\ rung = store.cart
           /\ page'.phase = "saving" /\ page'.busy = r /\ page'.resolving = FALSE
           /\ \A j \in Key : ~Blocking(j)'
           /\ \A q \in page.waits \ page.retries : wire[q].key # k
           /\ \A j \in Key : Handy(j) => j = k \/ world'.freed[j] # "no"
  PROVE  IInv'
<1>1. /\ TerminalTypeOK /\ Carried /\ Held /\ Entries /\ Fates /\ Customers
      /\ wire \in [Request -> Messages] /\ k # None
  BY NoneIsNothing DEF IInv, TerminalTypeOK
<1>2. /\ wire' \in [Request -> Messages] /\ wire'[r].key = k /\ wire'[r].cart = rung
      /\ \A q \in Request \ {r} : wire'[q] = wire[q]
      /\ Carried' /\ Minted' = Minted \cup {k} /\ SentWith(k, rung.of)'
      /\ \A q \in Request : Sent(q)' <=> Sent(q) \/ q = r
  BY <1>1, Sending
<1>3. TerminalTypeOK' /\ SoldOnce'
  BY <1>2 DEF Kept, TerminalTypeOK
<1>4. r \notin page.waits /\ page.retries \subseteq page.waits /\ page.waits \subseteq Request
  BY <1>1 DEF Entries, Sent, Unsent, TerminalTypeOK, Pages
<1>5. Held'
  BY <1>1, <1>2, <1>4, NoneIsNothing DEF Held
<1>6. Entries'
  <2>1. page'.local \subseteq Minted' /\ store'.pending \in Minted' \cup {None}
    BY <1>1, <1>2 DEF Entries
  <2>2. page'.retries \subseteq page'.waits /\ \A q \in page'.waits : Sent(q)'
    BY <1>1, <1>2, <1>4 DEF Entries
  <2>3. ASSUME NEW j \in Key
        PROVE  /\ page'.asks[j].why # "none" => j \in Minted'
               /\ page'.asks[j].why = "charge" => page'.asks[j].cart # None
               /\ page'.asks[j].why \in {"check", "retry", "dismiss"} => store'.detached[j].status # "none"
    BY <1>1, <1>2 DEF Entries, NoAsk
  <2>4. ASSUME NEW j \in Key, store'.detached[j].status # "none"
        PROVE  j \in Minted' /\ store'.detached[j].cart # None /\ SentWith(j, store.detached[j].cart.of)'
    <3>1. j # k /\ j \in Minted /\ store.detached[j].cart # None /\ SentWith(j, store.detached[j].cart.of)
      BY <1>1, <2>4 DEF Entries
    <3>2. SentWith(j, store.detached[j].cart.of)'
      BY <1>2, <3>1, SentWithStays
    <3>3. QED
      BY <1>2, <3>1, <3>2
  <2>5. QED
    BY <2>1, <2>2, <2>3, <2>4 DEF Entries
<1>7. \A j \in Key : Shown(j) => Shown(j)'
  BY StaysShown
<1>8. Fates'
  <2>1. \A j \in Key : world'.freed[j] = "abandoned" => Dead(j)'
    BY <1>1 DEF Fates, Learns, Kept
  <2>2. QED
    BY <1>1, <1>7, <2>1 DEF Fates, Learns
<1>9. Customers'
  <2>1. \A q \in Request : wire'[q].cart = wire[q].cart \/ AnOrder(wire'[q].cart)
    BY <1>2
  <2>2. \A j \in Key : AnOrder(store'.detached[j].cart) /\ AnOrder(page'.asks[j].cart)
    BY DEF AnOrder, NoAsk
  <2>3. AnOrder(store'.cart) /\ AnOrder(page'.payload)
    BY DEF AnOrder
  <2>4. QED
    BY <1>1, <2>1, <2>2, <2>3, CustomersStay
<1>10. ASSUME world'.calm
       PROVE  Calm'
  <2>1. /\ world.calm /\ rung = store.cart
        /\ page'.phase = "saving" /\ page'.busy = r /\ page'.resolving = FALSE
        /\ \A j \in Key : ~Blocking(j)'
        /\ \A q \in page.waits \ page.retries : wire[q].key # k
        /\ \A j \in Key : Handy(j) => j = k \/ world'.freed[j] # "no"
    BY <1>10
  <2>2. AtHand /\ OneOpenKey /\ Remembered
    BY <2>1 DEF IInv, Calm
  <2>3. Pending'
    BY DEF Pending
  <2>4. Resolving'
    BY <2>1 DEF Resolving, Blocking
  <2>5. Waiting'
    BY <1>2, <1>4, <2>1 DEF Waiting
  <2>6. \A j \in Key : Handy(j) => Handy(j)'
    BY <2>1 DEF Handy
  <2>7. \A q \in Request : Sent(q) => wire[q].key \in Key
    BY <1>1 DEF Sent, Messages
  <2>8. Handy(k)'
    BY DEF Handy
  <2>9. AtHand'
    <3> SUFFICES ASSUME store'.cart # None, NEW q \in Request, Sent(q)', wire'[q].cart.who = store'.cart.who
                 PROVE  Handy(wire[q].key)'
      BY DEF AtHand
    <3>1. CASE q = r
      BY <1>2, <2>8, <3>1
    <3>2. CASE q # r
      <4>1. PICK j \in Key : j = wire[q].key
        BY <1>2, <2>7, <3>2
      <4>2. Handy(j)'
        BY <1>2, <2>2, <2>6, <3>2, <4>1 DEF AtHand
      <4>3. QED
        BY <1>2, <3>2, <4>1, <4>2
    <3>3. QED
      BY <3>1, <3>2
  <2>10. \A q \in Request : Sent(q) /\ wire[q].cart.who = rung.who /\ wire[q].key # k =>
           world'.freed[wire[q].key] # "no"
    <3>1. store.cart # None
      BY <2>1, NoneIsNothing
    <3>2. QED
      BY <2>1, <2>2, <2>7, <3>1 DEF AtHand
  <2>11. OneOpenKey'
    <3> SUFFICES ASSUME NEW p \in Request, NEW q \in Request, Sent(p)', Sent(q)',
                        wire'[p].cart.who = wire'[q].cart.who, wire'[p].key # wire'[q].key
                 PROVE  world'.freed[wire'[p].key] # "no" \/ world'.freed[wire'[q].key] # "no"
      BY DEF OneOpenKey
    <3>1. CASE p # r /\ q # r
      BY <1>2, <2>2, <2>7, <3>1 DEF OneOpenKey, Learns
    <3>2. CASE p = r \/ q = r
      BY <1>2, <2>10, <3>2
    <3>3. QED
      BY <3>1, <3>2
  <2>12. \A j \in Key : Recalled(j) => Recalled(j)'
    BY <1>7, <2>6 DEF Recalled
  <2>13. Remembered'
    <3> SUFFICES ASSUME NEW q \in Request, Sent(q)'
                 PROVE  Recalled(wire[q].key)'
      BY DEF Remembered
    <3>1. CASE q = r
      BY <1>2, <2>8, <3>1 DEF Recalled
    <3>2. CASE q # r
      <4>1. PICK j \in Key : j = wire[q].key
        BY <1>2, <2>7, <3>2
      <4>2. Recalled(j)'
        BY <1>2, <2>2, <2>12, <3>2, <4>1 DEF Remembered
      <4>3. QED
        BY <1>2, <3>2, <4>1, <4>2 DEF Recalled, Handy, Shown, SalesUnder
    <3>3. QED
      BY <3>1, <3>2
  <2>14. QED
    BY <2>3, <2>4, <2>5, <2>9, <2>11, <2>13 DEF Calm
<1>11. QED
  BY <1>2, <1>3, <1>5, <1>6, <1>8, <1>9, <1>10 DEF IInv, Calm

\* A charge is sent, under the key it was tried with or a new one.
LEMMA ChargeStep ==
  ASSUME IInv, NEW r \in Request, ChargeOnline(r)
  PROVE  IInv'
<1>1. /\ TerminalTypeOK /\ Entries /\ Fates /\ Held /\ Kept /\ sales' = sales
      /\ page \in Pages /\ store \in Stores /\ world \in Worlds
  BY Idles DEF IInv, TerminalTypeOK, serviceVars, ChargeOnline
<1>2. PICK rung \in Rung : rung = store.cart
  BY <1>1 DEF ChargeOnline, MayCharge, Stores
<1>3. PICK k \in Key :
        /\ k \in IF Unmodified THEN {page.key} ELSE Key \ Minted
        /\ Send(r, k, rung, [page EXCEPT !.phase = "saving", !.busy = r], store, world)
  BY <1>1, <1>2 DEF ChargeOnline, Unmodified, Pages
<1>4. (page.key = None /\ k \notin Minted) \/ (page.key = k /\ k # None /\ page.print = rung.of)
  <2>1. CASE Unmodified
    BY <1>2, <1>3, <2>1 DEF Unmodified
  <2>2. CASE ~Unmodified
    <3>1. page.key = None
      BY <2>2 DEF ChargeOnline
    <3>2. k \in Key \ Minted
      BY <1>3, <2>2
    <3>3. QED
      BY <3>1, <3>2
  <2>3. QED
    BY <2>1, <2>2
<1>5. Unsent(r) /\ wire' = [wire EXCEPT ![r] = [key |-> k, cart |-> rung]]
  BY <1>3 DEF Send
<1>6. PICK pg \in Pages :
        /\ pg = [page EXCEPT !.phase = "saving", !.busy = r]
        /\ pg.phase = "saving" /\ pg.busy = r /\ pg.resolving = page.resolving
        /\ pg.waits = page.waits /\ pg.retries = page.retries /\ pg.local = page.local
        /\ pg.asks = page.asks
  <2>1. [page EXCEPT !.phase = "saving", !.busy = r] \in Pages
    BY <1>1 DEF Pages
  <2>2. QED
    BY <1>1, <2>1 DEF Pages
<1>7. PICK waits \in SUBSET Request : waits = page.waits \cup {r}
  BY <1>1 DEF Pages
<1>8. page' = [pg EXCEPT !.key = k, !.print = rung.of, !.payload = rung, !.waits = waits]
  BY <1>3, <1>6, <1>7 DEF Send, Pages
<1>9. /\ page' \in Pages /\ page'.key = k /\ page'.print = rung.of /\ page'.payload = rung
      /\ page'.waits = page.waits \cup {r} /\ page'.retries = page.retries /\ page'.local = page.local
      /\ page'.phase = "saving" /\ page'.busy = r /\ page'.resolving = page.resolving
      /\ page'.asks = page.asks
  BY <1>6, <1>7, <1>8 DEF Pages, Rung
<1>10. /\ store' \in Stores /\ store'.cart = store.cart /\ store'.pending = k
       /\ store'.detached = store.detached
  BY <1>1, <1>3 DEF Send, Remember, Stores
<1>11. /\ world' \in Worlds /\ world'.seen = world.seen /\ world'.freed = world.freed
       /\ world'.customer = world.customer
       /\ world'.calm => world.calm /\ store.pending \in {None, k}
  <2>1. CASE store.pending \in {None, k}
    BY <1>1, <1>3, <2>1 DEF Send
  <2>2. CASE store.pending \notin {None, k}
    <3>1. world' = [world EXCEPT !.calm = FALSE]
      BY <1>3, <2>2 DEF Send
    <3>2. QED
      BY <1>1, <3>1 DEF Worlds
  <2>3. QED
    BY <2>1, <2>2
<1>12. Learns
  BY <1>1, <1>11 DEF Learns, Fates
<1>13. SentWith(k, rung.of)
  <2>1. CASE page.key = k /\ k # None /\ page.print = rung.of
    <3>1. SentWith(page.key, page.print)
      BY <1>1, <2>1 DEF Held
    <3>2. QED
      BY <2>1, <3>1
  <2>2. CASE k \notin Minted
    BY <2>2, NoneIsNothing DEF SentWith, Minted
  <2>3. QED
    BY <1>4, <2>1, <2>2
<1>14. k \notin page.local /\ store.detached[k].status = "none" /\ \A q \in page.retries : wire[q].key # k
  <2>1. CASE page.key = k
    BY <1>1, <2>1, NoneIsNothing DEF Held
  <2>2. CASE k \notin Minted
    <3>1. page.retries \subseteq Request
      BY <1>1 DEF Pages
    <3>2. QED
      BY <1>1, <2>2, <3>1, NoneIsNothing DEF Entries, Minted
  <2>3. QED
    BY <1>4, <2>1, <2>2
<1>15. ASSUME world'.calm
       PROVE  /\ world.calm /\ page'.resolving = FALSE
              /\ \A j \in Key : ~Blocking(j)'
              /\ \A q \in page.waits \ page.retries : wire[q].key # k
              /\ \A j \in Key : Handy(j) => j = k \/ world'.freed[j] # "no"
  <2>1. /\ world.calm /\ Resolving /\ Waiting /\ ~page.resolving /\ page.phase # "saving"
    BY <1>11, <1>15 DEF IInv, Calm, ChargeOnline, MayCharge
  <2>2. page'.resolving = FALSE
    BY <1>1, <1>9, <2>1 DEF Pages
  <2>3. \A j \in Key : ~Blocking(j)'
    BY <1>9, <2>1 DEF Resolving, Blocking
  <2>4. \A q \in page.waits \ page.retries : wire[q].key # k
    <3>1. page.waits \subseteq Request
      BY <1>1 DEF Pages
    <3>2. QED
      BY <1>4, <2>1, <3>1, NoneIsNothing DEF Waiting, Minted
  <2>5. \A j \in Key : Handy(j) => j = k \/ world'.freed[j] # "no"
    BY <1>4, <1>11, <1>15, NoneIsNothing DEF Handy
  <2>6. QED
    BY <2>1, <2>2, <2>3, <2>4, <2>5
<1>16. AnOrder(rung)
  BY <1>2 DEF AnOrder
<1>17. QED
  BY <1>1, <1>2, <1>5, <1>9, <1>10, <1>11, <1>12, <1>13, <1>14, <1>15, <1>16, SendStep

\* The held key is free: the changed cart is sent under a new one.
LEMMA ResendStep ==
  ASSUME IInv, Kept, sales' = sales, NEW k \in Key, NEW evidence, Evident(k, evidence),
         page.asks[k].why = "charge", NEW r \in Request, NEW new \in Key \ Minted,
         Send(r, new, page.asks[k].cart,
              [Done(k) EXCEPT !.resolving = FALSE, !.notice = FALSE, !.busy = IF @ = k THEN r ELSE @],
              [store EXCEPT !.pending = None], Noting(k, page, [world EXCEPT !.freed[k] = evidence]))
  PROVE  IInv'
<1>1. /\ TerminalTypeOK /\ Entries /\ Fates /\ Held
      /\ page \in Pages /\ store \in Stores /\ world \in Worlds
      /\ evidence \in {"no", "failed", "abandoned"} /\ evidence # "no"
  BY DEF IInv, TerminalTypeOK, Evident
<1>2. PICK rung \in Rung : rung = page.asks[k].cart
  BY <1>1 DEF Entries, Pages, Questions
<1>3. PICK pg \in Pages :
        /\ pg = Done(k) /\ pg.asks[k] = NoAsk /\ \A j \in Key \ {k} : pg.asks[j] = page.asks[j]
        /\ pg.local = page.local /\ pg.waits = page.waits /\ pg.retries = page.retries
        /\ pg.phase = page.phase /\ pg.busy = page.busy
  BY <1>1, DoneShape
<1>4. PICK busy \in Request \cup Key \cup {None} : busy = IF page.busy = k THEN r ELSE page.busy
  BY <1>1 DEF Pages
<1>5. PICK front \in Pages :
        /\ front = [Done(k) EXCEPT !.resolving = FALSE, !.notice = FALSE, !.busy = IF @ = k THEN r ELSE @]
        /\ front.asks = pg.asks /\ front.phase = page.phase /\ front.busy = busy
        /\ front.resolving = FALSE
        /\ front.local = page.local /\ front.waits = page.waits /\ front.retries = page.retries
  <2> DEFINE f == [pg EXCEPT !.resolving = FALSE, !.notice = FALSE, !.busy = busy]
  <2>1. f \in Pages
    <3>1. pg \in Pages /\ busy \in Request \cup Key \cup {None}
      OBVIOUS
    <3>2. QED
      BY <3>1 DEF Pages
  <2>2. /\ f.asks = pg.asks /\ f.phase = page.phase /\ f.busy = busy /\ f.resolving = FALSE
        /\ f.local = page.local /\ f.waits = page.waits /\ f.retries = page.retries
    BY <1>3, <1>4 DEF Pages
  <2>3. f = [Done(k) EXCEPT !.resolving = FALSE, !.notice = FALSE, !.busy = IF @ = k THEN r ELSE @]
    BY <1>3, <1>4 DEF Pages
  <2> HIDE DEF f
  <2>4. QED
    BY <2>1, <2>2, <2>3
<1>6. PICK waits \in SUBSET Request : waits = page.waits \cup {r}
  BY <1>1 DEF Pages
<1>7. PICK freed \in Worlds :
        /\ freed = [world EXCEPT !.freed[k] = evidence] /\ freed.freed[k] = evidence
        /\ \A j \in Key \ {k} : freed.freed[j] = world.freed[j]
        /\ freed.customer = world.customer /\ freed.calm = world.calm /\ freed.seen = world.seen
  <2>1. \E w : w = [world EXCEPT !.freed[k] = evidence]
    OBVIOUS
  <2>2. QED
    BY <1>1, <2>1, FatesShape
<1>8. PICK noted \in Worlds :
        /\ noted = Noting(k, page, freed)
        /\ noted.customer = freed.customer /\ noted.seen = freed.seen /\ noted.freed = freed.freed
        /\ noted.calm => freed.calm /\ page.key = k
  BY NotingShape
<1>9. PICK st \in Stores :
        /\ st = [store EXCEPT !.pending = None] /\ st.pending = None
        /\ st.cart = store.cart /\ st.detached = store.detached
  BY <1>1 DEF Stores
<1>10. Send(r, new, rung, front, st, noted)
  BY <1>2, <1>5, <1>7, <1>8, <1>9
<1>11. Unsent(r) /\ wire' = [wire EXCEPT ![r] = [key |-> new, cart |-> rung]]
  BY <1>10 DEF Send
<1>12. page' = [front EXCEPT !.key = new, !.print = rung.of, !.payload = rung, !.waits = waits]
  BY <1>5, <1>6, <1>10 DEF Send, Pages
<1>13. /\ page' \in Pages /\ page'.key = new /\ page'.print = rung.of /\ page'.payload = rung
       /\ page'.waits = page.waits \cup {r} /\ page'.retries = page.retries /\ page'.local = page.local
       /\ page'.phase = page.phase /\ page'.busy = busy /\ page'.resolving = FALSE
       /\ page'.asks = pg.asks
  <2>1. rung.of \in Cart /\ front \in Pages /\ waits \in SUBSET Request /\ new \in Key
    BY DEF Rung
  <2>2. page' \in Pages
    BY <1>12, <2>1 DEF Pages
  <2>3. /\ page'.key = new /\ page'.print = rung.of /\ page'.payload = rung
        /\ page'.waits = waits /\ page'.retries = front.retries /\ page'.local = front.local
        /\ page'.phase = front.phase /\ page'.busy = front.busy /\ page'.resolving = front.resolving
        /\ page'.asks = front.asks
    BY <1>12, <2>1 DEF Pages
  <2>4. QED
    BY <1>5, <1>6, <2>2, <2>3
<1>14. /\ store' \in Stores /\ store'.cart = store.cart /\ store'.pending = new
       /\ store'.detached = store.detached
  BY <1>9, <1>10 DEF Send, Remember, Stores
<1>15. world' = noted
  BY <1>9, <1>10 DEF Send
<1>16. Learns
  BY <1>1, <1>7, <1>8, <1>15 DEF Learns, Fates, Evident
<1>17. page.retries \subseteq Request /\ page.waits \subseteq Request /\ new \notin Minted /\ new # None
  BY <1>1, NoneIsNothing DEF Pages
<1>18. SentWith(new, rung.of) /\ new \notin page.local /\ store.detached[new].status = "none"
       /\ (\A q \in page.retries : wire[q].key # new) /\ \A q \in page.waits : wire[q].key # new
  BY <1>1, <1>17 DEF SentWith, Minted, Entries
<1>19. ASSUME world'.calm
       PROVE  /\ world.calm /\ rung = store.cart
              /\ page'.phase = "saving" /\ page'.busy = r
              /\ \A j \in Key : ~Blocking(j)'
              /\ \A j \in Key : Handy(j) => world'.freed[j] # "no"
  <2>1. /\ world.calm /\ page.key = k /\ Resolving /\ Pending
    BY <1>7, <1>8, <1>15, <1>19 DEF IInv, Calm
  <2>2. page.phase = "saving" /\ page.busy = k /\ rung = store.cart
    BY <1>2, <2>1 DEF Resolving
  <2>3. \A j \in Key : ~Blocking(j)'
    BY <1>3, <1>13, <2>1 DEF Resolving, Blocking, NoAsk
  <2>4. \A j \in Key : Handy(j) => world'.freed[j] # "no"
    <3>1. store.pending \in {None, k} /\ world'.freed[k] # "no"
      BY <1>1, <1>7, <1>8, <1>15, <2>1, NoneIsNothing DEF Pending
    <3>2. \A j \in Key : world.freed[j] # "no" => world'.freed[j] # "no"
      BY <1>16 DEF Learns
    <3>3. QED
      BY <2>1, <3>1, <3>2, NoneIsNothing DEF Handy
  <2>5. QED
    BY <1>4, <1>13, <2>1, <2>2, <2>3, <2>4
<1>20. AnOrder(rung)
  BY <1>2 DEF AnOrder
<1>21. \A j \in Key : \/ page'.asks[j].why = page.asks[j].why /\ page'.asks[j].cart = page.asks[j].cart
                      \/ page'.asks[j] = NoAsk
  BY <1>3, <1>13
<1>22. QED
  BY <1>7, <1>8, <1>11, <1>13, <1>14, <1>15, <1>16, <1>18, <1>19, <1>20, <1>21, SendStep

\* A detached sale is sent again under its own, freed key.
LEMMA RetryStep ==
  ASSUME IInv, Kept, sales' = sales, NEW k \in Key, NEW evidence, Evident(k, evidence),
         page.asks[k].why = "retry", NEW r \in Request, Unsent(r),
         wire' = [wire EXCEPT ![r] = [key |-> k, cart |-> store.detached[k].cart]],
         page' = [page EXCEPT !.asks[k].step = "sent", !.local = @ \cup {k},
                              !.waits = @ \cup {r}, !.retries = @ \cup {r}],
         store' = [store EXCEPT !.detached[k].status = "saving"],
         world' = [world EXCEPT !.freed[k] = evidence]
  PROVE  IInv'
<1>1. /\ TerminalTypeOK /\ Carried /\ Entries /\ Fates /\ Held /\ Customers
      /\ page \in Pages /\ store \in Stores /\ world \in Worlds /\ wire \in [Request -> Messages]
      /\ evidence \in {"no", "failed", "abandoned"} /\ evidence # "no" /\ k # None
  BY NoneIsNothing DEF IInv, TerminalTypeOK, Evident
<1>2. store.detached[k].status # "none" /\ store.detached[k].cart # None /\ k \in Minted /\ k # page.key
  BY <1>1 DEF Entries, Held
<1>3. PICK entry \in Entry : entry = store.detached[k]
  BY <1>1 DEF Stores
<1>4. PICK rung \in Rung : rung = store.detached[k].cart /\ entry.cart = rung
  BY <1>2, <1>3 DEF Entry
<1>5. PICK asks \in [Key -> Questions] :
        /\ asks = [page.asks EXCEPT ![k] = [page.asks[k] EXCEPT !.step = "sent"]]
        /\ \A j \in Key : asks[j].why = page.asks[j].why /\ asks[j].cart = page.asks[j].cart
  <2>1. page.asks \in [Key -> Questions]
    BY <1>1 DEF Pages
  <2>2. /\ [page.asks[k] EXCEPT !.step = "sent"] \in Questions
        /\ [page.asks[k] EXCEPT !.step = "sent"].why = page.asks[k].why
        /\ [page.asks[k] EXCEPT !.step = "sent"].cart = page.asks[k].cart
    BY <2>1 DEF Questions, Steps
  <2>3. [page.asks EXCEPT ![k] = [page.asks[k] EXCEPT !.step = "sent"]] \in [Key -> Questions]
    BY <2>1, <2>2
  <2>4. QED
    BY <2>1, <2>2, <2>3
<1>6. PICK waits \in SUBSET Request, retries \in SUBSET Request, local \in SUBSET Key :
        waits = page.waits \cup {r} /\ retries = page.retries \cup {r} /\ local = page.local \cup {k}
  BY <1>1 DEF Pages
<1>7. page' = [page EXCEPT !.asks = asks, !.local = local, !.waits = waits, !.retries = retries]
  BY <1>1, <1>5, <1>6 DEF Pages
<1>8. /\ page' \in Pages /\ page'.asks = asks /\ page'.local = local
      /\ page'.waits = waits /\ page'.retries = retries
      /\ page'.key = page.key /\ page'.print = page.print /\ page'.payload = page.payload
      /\ page'.phase = page.phase /\ page'.busy = page.busy /\ page'.resolving = page.resolving
  BY <1>1, <1>7 DEF Pages
<1>9. /\ store' \in Stores /\ store'.detached[k].status = "saving" /\ store'.detached[k].cart = rung
      /\ \A j \in Key \ {k} : store'.detached[j] = store.detached[j]
      /\ store'.cart = store.cart /\ store'.pending = store.pending
  <2>1. PICK again \in Entry :
          again = [entry EXCEPT !.status = "saving"] /\ again.status = "saving" /\ again.cart = rung
    <3>1. [entry EXCEPT !.status = "saving"] \in Entry
      BY DEF Entry
    <3>2. QED
      BY <1>4, <3>1 DEF Entry
  <2>2. store' = [store EXCEPT !.detached[k] = again]
    BY <1>1, <1>3, <2>1 DEF Stores
  <2>3. /\ store' \in Stores /\ store'.detached[k] = again
        /\ \A j \in Key \ {k} : store'.detached[j] = store.detached[j]
        /\ store'.cart = store.cart /\ store'.pending = store.pending
    <3>1. /\ store.detached \in [Key -> Entry]
          /\ [store.detached EXCEPT ![k] = again] \in [Key -> Entry]
      BY <1>1 DEF Stores
    <3>2. store' = [store EXCEPT !.detached = [store.detached EXCEPT ![k] = again]]
      BY <1>1, <2>2 DEF Stores
    <3>3. QED
      BY <1>1, <3>1, <3>2 DEF Stores
  <2>4. QED
    BY <2>1, <2>3
<1>10. /\ world' \in Worlds /\ world'.freed[k] = evidence
       /\ \A j \in Key \ {k} : world'.freed[j] = world.freed[j]
       /\ world'.customer = world.customer /\ world'.calm = world.calm /\ world'.seen = world.seen
  BY <1>1, FatesShape
<1>11. Learns /\ \A j \in Key : Shown(j) => Shown(j)'
  <2>1. Learns
    BY <1>1, <1>10 DEF Learns, Fates, Evident
  <2>2. QED
    BY <2>1, StaysShown
<1>12. SentWith(k, rung.of)
  BY <1>1, <1>2, <1>4 DEF Entries
<1>13. wire' = [wire EXCEPT ![r] = [key |-> k, cart |-> rung]]
  BY <1>4
<1>14. /\ wire' \in [Request -> Messages] /\ wire'[r].key = k /\ wire'[r].cart = rung
       /\ \A q \in Request \ {r} : wire'[q] = wire[q]
       /\ Carried' /\ Minted' = Minted \cup {k} /\ SentWith(k, rung.of)'
       /\ \A q \in Request : Sent(q)' <=> Sent(q) \/ q = r
  BY <1>1, <1>12, <1>13, Sending
<1>15. TerminalTypeOK' /\ SoldOnce'
  BY <1>8, <1>9, <1>10, <1>14 DEF Kept, TerminalTypeOK
<1>16. r \notin page.waits /\ page.retries \subseteq page.waits /\ page.waits \subseteq Request
  BY <1>1 DEF Entries, Sent, Unsent, Pages
<1>17. Held'
  <2> SUFFICES ASSUME page.key # None
               PROVE  Held'
    BY <1>8 DEF Held
  <2>1. PICK j \in Key : j = page.key
    BY <1>1 DEF Pages
  <2>2. /\ j \in Minted /\ page.payload # None /\ page.payload.of = page.print /\ SentWith(j, page.print)
        /\ j \notin page.local /\ store.detached[j].status = "none"
        /\ \A q \in page.retries : wire[q].key # j
    BY <1>1, <2>1 DEF Held
  <2>3. SentWith(j, page.print)'
    BY <1>2, <1>8, <1>14, <2>1, <2>2, SentWithStays
  <2>4. \A q \in page'.retries : wire'[q].key # j
    BY <1>2, <1>6, <1>8, <1>14, <1>16, <2>1, <2>2
  <2>5. store'.detached[j].status = "none" /\ j \notin page'.local /\ j \in Minted'
    BY <1>2, <1>6, <1>8, <1>9, <1>14, <2>1, <2>2
  <2>6. QED
    BY <1>8, <2>1, <2>2, <2>3, <2>4, <2>5 DEF Held, SentWith
<1>18. Entries'
  <2>1. page'.local \subseteq Minted' /\ store'.pending \in Minted' \cup {None}
    BY <1>1, <1>6, <1>8, <1>9, <1>14 DEF Entries
  <2>2. page'.retries \subseteq page'.waits /\ \A q \in page'.waits : Sent(q)'
    BY <1>1, <1>6, <1>8, <1>14, <1>16 DEF Entries
  <2>3. ASSUME NEW j \in Key
        PROVE  /\ page'.asks[j].why # "none" => j \in Minted'
               /\ page'.asks[j].why = "charge" => page'.asks[j].cart # None
               /\ page'.asks[j].why \in {"check", "retry", "dismiss"} => store'.detached[j].status # "none"
    BY <1>1, <1>5, <1>8, <1>9, <1>14 DEF Entries
  <2>4. ASSUME NEW j \in Key, store'.detached[j].status # "none"
        PROVE  /\ j \in Minted' /\ store'.detached[j].cart # None
               /\ \A q \in Request : wire'[q].key = j => wire'[q].cart.of = store'.detached[j].cart.of
    <3>1. CASE j = k
      BY <1>9, <1>14, <3>1, NoneIsNothing DEF SentWith
    <3>2. CASE j # k
      <4>1. j \in Minted /\ store.detached[j].cart # None /\ SentWith(j, store.detached[j].cart.of)
        BY <1>1, <1>9, <2>4, <3>2 DEF Entries
      <4>2. SentWith(j, store.detached[j].cart.of)'
        BY <1>14, <3>2, <4>1, SentWithStays
      <4>3. QED
        BY <1>9, <1>14, <3>2, <4>1, <4>2 DEF SentWith
    <3>3. QED
      BY <3>1, <3>2
  <2>5. QED
    BY <2>1, <2>2, <2>3, <2>4 DEF Entries, SentWith
<1>19. Fates'
  <2>1. \A j \in Key : world'.freed[j] = "abandoned" => Dead(j)'
    BY <1>1, <1>11 DEF Fates, Learns, Kept
  <2>2. ASSUME NEW j \in Key
        PROVE  /\ store'.detached[j].status = "success" => Shown(j)'
               /\ store'.detached[j].status = "error" /\ store'.detached[j].safe => world'.freed[j] # "no"
    BY <1>1, <1>9, <1>10, <1>11 DEF Fates
  <2>3. QED
    BY <1>11, <2>1, <2>2 DEF Fates, Learns
<1>20. Customers'
  <2>1. AnOrder(rung)
    BY <1>4 DEF AnOrder
  <2>2. \A q \in Request : wire'[q].cart = wire[q].cart \/ AnOrder(wire'[q].cart)
    BY <1>14, <2>1
  <2>3. ASSUME NEW j \in Key
        PROVE  AnOrder(store'.detached[j].cart) /\ AnOrder(page'.asks[j].cart)
    <3>1. store'.detached[j].cart = store.detached[j].cart
      BY <1>4, <1>9
    <3>2. QED
      BY <1>5, <1>8, <3>1 DEF AnOrder
  <2>4. AnOrder(store'.cart) /\ AnOrder(page'.payload)
    BY <1>8, <1>9 DEF AnOrder
  <2>5. QED
    BY <1>1, <1>10, <2>2, <2>3, <2>4, CustomersStay
<1>21. ASSUME world.calm
       PROVE  Calm'
  <2>1. Pending /\ Resolving /\ Waiting /\ AtHand /\ OneOpenKey /\ Remembered
    BY <1>21 DEF IInv, Calm
  <2>2. \A j \in Key : world.freed[j] # "no" => world'.freed[j] # "no"
    BY <1>11 DEF Learns
  <2>3. Pending'
    <3>1. page.key \in Key \cup {None}
      BY <1>1 DEF Pages
    <3>2. QED
      BY <1>8, <1>9, <2>1, <2>2, <3>1 DEF Pending
  <2>4. Resolving'
    BY <1>5, <1>8, <1>9, <2>1 DEF Resolving, Blocking
  <2>5. Waiting'
    BY <1>6, <1>8, <1>14, <1>16, <2>1 DEF Waiting
  <2>6. \A q \in Request : Sent(q) => wire[q].key \in Key
    BY <1>1 DEF Sent, Messages
  <2>7. \A j \in Key : (Handy(j) => Handy(j)') /\ (Recalled(j) => Recalled(j)')
    BY <1>8, <1>9, <1>11, <2>2 DEF Handy, Recalled
  <2>8. world'.freed[k] # "no" /\ Handy(k)' /\ Recalled(k)'
    BY <1>1, <1>10 DEF Handy, Recalled
  <2>9. AtHand'
    <3> SUFFICES ASSUME store'.cart # None, NEW q \in Request, Sent(q)', wire'[q].cart.who = store'.cart.who
                 PROVE  Handy(wire[q].key)'
      BY DEF AtHand
    <3>1. CASE q = r
      BY <1>14, <2>8, <3>1
    <3>2. CASE q # r
      <4>1. PICK j \in Key : j = wire[q].key
        BY <1>14, <2>6, <3>2
      <4>2. Handy(j)'
        BY <1>9, <1>14, <2>1, <2>7, <3>2, <4>1 DEF AtHand
      <4>3. QED
        BY <1>14, <3>2, <4>1, <4>2
    <3>3. QED
      BY <3>1, <3>2
  <2>10. OneOpenKey'
    <3> SUFFICES ASSUME NEW p \in Request, NEW q \in Request, Sent(p)', Sent(q)',
                        wire'[p].cart.who = wire'[q].cart.who, wire'[p].key # wire'[q].key
                 PROVE  world'.freed[wire'[p].key] # "no" \/ world'.freed[wire'[q].key] # "no"
      BY DEF OneOpenKey
    <3>1. CASE p # r /\ q # r
      BY <1>14, <2>1, <2>2, <2>6, <3>1 DEF OneOpenKey
    <3>2. CASE p = r \/ q = r
      BY <1>14, <2>8, <3>2
    <3>3. QED
      BY <3>1, <3>2
  <2>11. Remembered'
    <3> SUFFICES ASSUME NEW q \in Request, Sent(q)'
                 PROVE  Recalled(wire[q].key)'
      BY DEF Remembered
    <3>1. CASE q = r
      BY <1>14, <2>8, <3>1
    <3>2. CASE q # r
      <4>1. PICK j \in Key : j = wire[q].key
        BY <1>14, <2>6, <3>2
      <4>2. Recalled(j)'
        BY <1>14, <2>1, <2>7, <3>2, <4>1 DEF Remembered
      <4>3. QED
        BY <1>14, <3>2, <4>1, <4>2
    <3>3. QED
      BY <3>1, <3>2
  <2>12. QED
    BY <2>3, <2>4, <2>5, <2>9, <2>10, <2>11 DEF Calm
<1>22. QED
  BY <1>10, <1>14, <1>15, <1>17, <1>18, <1>19, <1>20, <1>21 DEF IInv, Calm

-----------------------------------------------------------------------------
(* Every step keeps the invariant. *)

\* 'found', whatever it was asked for.
LEMMA FoundStep ==
  ASSUME IInv, UNCHANGED serviceVars, NEW k \in Key, NEW s \in SalesUnder(k), Found(k, s)
  PROVE  IInv'
BY FoundAside, FoundFront DEF Blocking

\* 'not-found', whatever it was asked for.
LEMMA NotFoundStep ==
  ASSUME IInv, Kept, sales' = sales, NEW k \in Key, NEW evidence, Evident(k, evidence),
         NotFound(k, evidence)
  PROVE  IInv'
<1>1. CASE /\ page.asks[k].why = "charge"
           /\ \E r \in Request, new \in Key \ Minted :
                Send(r, new, page.asks[k].cart,
                     [Done(k) EXCEPT !.resolving = FALSE, !.notice = FALSE, !.busy = IF @ = k THEN r ELSE @],
                     [store EXCEPT !.pending = None],
                     Noting(k, page, [world EXCEPT !.freed[k] = evidence]))
  BY <1>1, ResendStep
<1>2. CASE /\ page.asks[k].why \in {"recover", "recheck"}
           /\ page' = [Done(k) EXCEPT !.resolving = FALSE,
                                      !.notice = IF page.asks[k].why = "recheck" THEN FALSE ELSE @]
           /\ store' = [store EXCEPT !.pending = None]
           /\ world' = [world EXCEPT !.freed[k] = evidence]
           /\ wire' = wire
  BY <1>2, NotFoundFront
<1>3. CASE /\ \/ page' = Done(k) /\ store' = Update(k, Failed(k, TRUE, store), store)
              \/ page' = [Done(k) EXCEPT !.local = @ \ {k}] /\ store' = Forgotten(k, store)
              \/ page' = Done(k) /\ store' = store
           /\ world' = [world EXCEPT !.freed[k] = evidence]
           /\ wire' = wire
  BY <1>3, NotFoundAside
<1>4. CASE /\ page.asks[k].why = "retry"
           /\ \E r \in Request :
                /\ Unsent(r)
                /\ wire' = [wire EXCEPT ![r] = [key |-> k, cart |-> store.detached[k].cart]]
                /\ page' = [page EXCEPT !.asks[k].step = "sent", !.local = @ \cup {k},
                                        !.waits = @ \cup {r}, !.retries = @ \cup {r}]
           /\ store' = [store EXCEPT !.detached[k].status = "saving"]
           /\ world' = [world EXCEPT !.freed[k] = evidence]
  BY <1>4, RetryStep
<1>5. QED
  BY <1>1, <1>2, <1>3, <1>4 DEF NotFound

\* 'in-progress' or 'unknown', whatever it was asked for.
LEMMA KeptStep ==
  ASSUME IInv, UNCHANGED serviceVars, NEW k \in Key, NEW wd \in Worlds, KeepKey(k, wd),
         wd.customer = world.customer, wd.calm = world.calm, wd.seen = world.seen, wd.freed = world.freed
  PROVE  IInv'
BY KeptAside, KeptFront DEF Blocking

\* The question whether an attempt was made, and what was heard of it.
LEMMA AskSteps ==
  ASSUME IInv, NEW k \in Key, ReadAttempt(k) \/ HearFailed(k) \/ FenceAttempt(k)
  PROVE  IInv'
<1>1. ServiceTypeOK /\ Carried /\ SoldOnce /\ world \in Worlds
  BY DEF IInv, TerminalTypeOK
<1>2. ASSUME NEW evidence, NotFound(k, evidence), UNCHANGED serviceVars,
             evidence = "failed" \/ (evidence = "abandoned" /\ Dead(k))
      PROVE  IInv'
  <2>1. Kept /\ sales' = sales /\ Evident(k, evidence)
    BY <1>1, <1>2, Idles DEF serviceVars, Evident, Dead
  <2>2. QED
    BY <1>2, <2>1, NotFoundStep
<1>3. CASE ReadAttempt(k)
  <2>1. CASE UNCHANGED <<store, wire, world>>
             /\ page' = [page EXCEPT !.asks[k].step = IF row[k].status = "none" THEN "fence" ELSE "failed"]
    <3>1. PICK step \in Steps : step = IF row[k].status = "none" THEN "fence" ELSE "failed"
      BY DEF Steps
    <3>2. page' = [page EXCEPT !.asks[k].step = step] /\ UNCHANGED serviceVars
      BY <1>3, <2>1, <3>1 DEF ReadAttempt
    <3>3. QED
      BY <2>1, <3>2, ReadOn
  <2>2. CASE KeepKey(k, world)
    BY <1>1, <1>3, <2>2, KeptStep DEF ReadAttempt
  <2>3. CASE \E s \in SalesUnder(k) : Found(k, s)
    BY <1>3, <2>3, FoundStep DEF ReadAttempt
  <2>4. CASE Dead(k) /\ NotFound(k, "abandoned")
    BY <1>2, <1>3, <2>4 DEF ReadAttempt
  <2>5. QED
    BY <1>3, <2>1, <2>2, <2>3, <2>4 DEF ReadAttempt
<1>4. CASE HearFailed(k)
  BY <1>2, <1>4 DEF HearFailed
<1>5. CASE FenceAttempt(k)
  <2>1. CASE KeepKey(k, world) /\ UNCHANGED serviceVars
    BY <1>1, <2>1, KeptStep
  <2>2. CASE /\ world.disruptions < MaxDisruptions
             /\ KeepKey(k, [world EXCEPT !.disruptions = @ + 1, !.fences = @ \cup {k}])
             /\ UNCHANGED serviceVars
    <3>1. PICK n \in 0..MaxDisruptions : n = world.disruptions + 1
      BY <1>1, <2>2, Disrupted
    <3>2. PICK fences \in SUBSET Key : fences = world.fences \cup {k}
      BY <1>1 DEF Worlds
    <3>3. PICK wd \in Worlds :
            /\ wd = [world EXCEPT !.disruptions = n, !.fences = fences]
            /\ wd.customer = world.customer /\ wd.calm = world.calm
            /\ wd.seen = world.seen /\ wd.freed = world.freed
      <4>1. [world EXCEPT !.disruptions = n, !.fences = fences] \in Worlds
        BY <1>1 DEF Worlds
      <4>2. QED
        BY <1>1, <4>1 DEF Worlds
    <3>4. wd = [world EXCEPT !.disruptions = @ + 1, !.fences = @ \cup {k}]
      BY <1>1, <3>1, <3>2, <3>3 DEF Worlds
    <3>5. KeepKey(k, wd)
      BY <2>2, <3>4
    <3>6. QED
      BY <2>2, <3>3, <3>5, KeptStep
  <2>3. CASE (\E s \in SalesUnder(k) : Found(k, s)) /\ UNCHANGED serviceVars
    BY <2>3, FoundStep
  <2>4. CASE Dead(k) /\ NotFound(k, "abandoned") /\ UNCHANGED serviceVars
    BY <1>2, <2>4
  <2>5. CASE Bury(k) /\ NotFound(k, "abandoned")
    <3>1. Kept /\ Dead(k)' /\ sales' = sales
      BY <1>1, <2>5, Buries DEF Bury
    <3>2. Evident(k, "abandoned")
      BY <3>1 DEF Evident
    <3>3. QED
      BY <2>5, <3>1, <3>2, NotFoundStep
  <2>6. QED
    BY <1>5, <2>1, <2>2, <2>3, <2>4, <2>5 DEF FenceAttempt
<1>6. QED
  BY <1>3, <1>4, <1>5

\* An answer, or none.
LEMMA AnswerSteps ==
  ASSUME IInv, NEW r \in Request, Answered(r) \/ NoAnswer(r)
  PROVE  IInv'
<1>1. TerminalTypeOK /\ Carried /\ SoldOnce /\ Entries
  BY DEF IInv
<1>2. ASSUME NEW sale \in Request \cup {None}, NEW definite \in BOOLEAN, r \in page.waits,
             SettleAnswer(r, sale, definite), sale # None => sale \in SalesUnder(wire[r].key)
      PROVE  IInv'
  BY <1>2, DetachedAnswer, FrontAnswer DEF SettleAnswer
<1>3. CASE Answered(r)
  <2>1. call[r].sale \in Request \cup {None} /\ call[r].at = "done"
    BY <1>1, <1>3 DEF Answered, TerminalTypeOK, ServiceTypeOK, Calls
  <2>2. call[r].sale # None => call[r].sale \in SalesUnder(wire[r].key)
    BY <1>1, <2>1 DEF SoldOnce, Carried
  <2>3. PICK definite \in BOOLEAN : definite = (call[r].outcome = "REFUSED")
    OBVIOUS
  <2>4. r \in page.waits /\ SettleAnswer(r, call[r].sale, definite)
    BY <1>3, <2>3 DEF Answered
  <2>5. QED
    BY <1>2, <2>1, <2>2, <2>4
<1>4. CASE NoAnswer(r)
  BY <1>2, <1>4 DEF NoAnswer
<1>5. QED
  BY <1>3, <1>4

\* A request arrives, or the server works on one.
LEMMA ServiceSteps ==
  ASSUME IInv, NEW r \in Request, Deliver(r) \/ (Serve(r) /\ UNCHANGED terminal)
  PROVE  IInv'
<1>1. TerminalTypeOK /\ ServiceTypeOK /\ Carried /\ SoldOnce
  BY DEF IInv, TerminalTypeOK
<1>2. ServerStep(r) /\ UNCHANGED terminal
  BY DEF Deliver, ServerStep, Sent, Unsent
<1>3. Sent(r) => wire[r] \in [key : Key, cart : Rung]
  <2>1. wire[r] \in Messages
    BY <1>1 DEF TerminalTypeOK
  <2>2. Sent(r) => wire[r].key \in Key /\ wire[r].cart \in Rung
    BY <1>1, <2>1 DEF Sent, Carried, Messages
  <2>3. QED
    BY <2>1, <2>2 DEF Messages
<1>4. Kept
  BY <1>1, <1>2, <1>3, Serving
<1>5. QED
  BY <1>2, <1>4, ServerSteps

\* A terminal starts with nothing sent, held or remembered.
LEMMA Initially ==
  TerminalInit => IInv
<1> SUFFICES ASSUME TerminalInit
             PROVE  IInv
  OBVIOUS
<1>1. /\ row = [k \in Key |-> [status |-> "none", owner |-> None]]
      /\ call = [r \in Request |-> [at |-> "idle", key |-> None, cart |-> None, outcome |-> "NONE", sale |-> None]]
      /\ sales = {}
  BY DEF TerminalInit, ServiceInit
<1>2. ServiceTypeOK
  BY <1>1 DEF ServiceTypeOK, Rows, Calls
<1>3. /\ page \in Pages /\ page.key = None /\ page.payload = None /\ page.local = {} /\ page.waits = {}
      /\ page.retries = {} /\ \A k \in Key : page.asks[k] = NoAsk
  <2>1. [k \in Key |-> NoAsk] \in [Key -> Questions]
    BY DEF NoAsk, Questions, Whys, Steps
  <2>2. QED
    BY <2>1 DEF TerminalInit, FreshPage, Pages
<1>4. /\ store \in Stores /\ store.cart = None /\ store.pending = None
      /\ \A k \in Key : store.detached[k] = NoEntry
  <2>1. [k \in Key |-> NoEntry] \in [Key -> Entry]
    BY DEF NoEntry, Entry
  <2>2. QED
    BY <2>1 DEF TerminalInit, Stores
<1>5. wire \in [Request -> Messages] /\ \A r \in Request : wire[r] = [key |-> None, cart |-> None]
  BY DEF TerminalInit, Messages
<1>6. /\ world \in Worlds /\ world.seen = {} /\ \A k \in Key : world.freed[k] = "no"
  <2>1. MaxCustomers \in Nat /\ MaxDisruptions \in Nat
    BY TerminalBounds
  <2>2. 0 \in 0..MaxCustomers /\ 0 \in 0..MaxDisruptions
    BY <2>1
  <2>3. QED
    BY <2>2 DEF TerminalInit, Worlds
<1>7. TerminalTypeOK
  BY <1>2, <1>3, <1>4, <1>5, <1>6 DEF TerminalTypeOK
<1>8. Carried
  BY <1>1, <1>5 DEF Carried, Sent
<1>9. SoldOnce
  BY <1>1 DEF SoldOnce
<1>10. Customers
  BY <1>3, <1>4, <1>5 DEF Customers, Come, NoEntry, NoAsk
<1>11. Held /\ Entries
  BY <1>3, <1>4 DEF Held, Entries, NoEntry, NoAsk
<1>12. Fates
  BY <1>1, <1>4, <1>6 DEF Fates, NoEntry
<1>13. Calm
  BY <1>3, <1>4, <1>5 DEF Calm, Pending, Resolving, Blocking, Waiting, AtHand, OneOpenKey, Remembered, Sent, NoAsk
<1>14. QED
  BY <1>7, <1>8, <1>9, <1>10, <1>11, <1>12, <1>13 DEF IInv

\* Nothing happens.
LEMMA Stutters ==
  ASSUME IInv, UNCHANGED allVars
  PROVE  IInv'
<1>1. UNCHANGED serviceVars /\ UNCHANGED terminal
  BY DEF allVars, serviceVars, terminal
<1>2. Kept
  BY <1>1, Idles DEF IInv, TerminalTypeOK
<1>3. QED
  BY <1>1, <1>2, ServerSteps

\* Every step keeps the invariant.
LEMMA Inductive ==
  IInv /\ [TerminalNext]_allVars => IInv'
<1> SUFFICES ASSUME IInv, [TerminalNext]_allVars
             PROVE  IInv'
  OBVIOUS
<1>1. CASE Cashier
  <2>1. ASSUME NEW c \in Cart, Ring(c)
        PROVE  IInv'
    BY <2>1, RingStep
  <2>2. ASSUME NEW r \in Request, ChargeOnline(r)
        PROVE  IInv'
    BY <2>2, ChargeStep
  <2>3. ASSUME NEW k \in Key, AskDetached(k) \/ Dismiss(k)
        PROVE  IInv'
    BY <2>3, AskDetachedStep, Dismissals
  <2>4. CASE Empty \/ EditCart \/ ChargeOffline \/ NewSale
    BY <2>4, CounterSteps
  <2>5. CASE ChargeChanged \/ Detach \/ Recheck \/ Reload
    BY <2>5, ChargeChangedStep, DetachStep, RecheckStep, ReloadStep
  <2>6. QED
    BY <1>1, <2>1, <2>2, <2>3, <2>4, <2>5 DEF Cashier
<1>2. ASSUME NEW r \in Request, Answered(r) \/ NoAnswer(r)
      PROVE  IInv'
  BY <1>2, AnswerSteps
<1>3. ASSUME NEW r \in Request, Deliver(r) \/ (Serve(r) /\ UNCHANGED terminal)
      PROVE  IInv'
  BY <1>3, ServiceSteps
<1>4. ASSUME NEW k \in Key, ReadAttempt(k) \/ HearFailed(k) \/ FenceAttempt(k)
      PROVE  IInv'
  BY <1>4, AskSteps
<1>5. ASSUME NEW k \in Key, LateFence(k) \/ Poll(k) \/ ApplyPoll(k)
      PROVE  IInv'
  BY <1>5, LateFences, PollSteps
<1>6. CASE GoOffline \/ GoOnline
  BY <1>6, ConnectionSteps
<1>7. CASE UNCHANGED allVars
  BY <1>7, Stutters
<1>8. QED
  BY <1>1, <1>2, <1>3, <1>4, <1>5, <1>6, <1>7 DEF TerminalNext

\* The invariant the theorems below are read off.
THEOREM Invariance ==
  TerminalSpec => []IInv
BY Initially, Inductive, PTL DEF TerminalSpec

-----------------------------------------------------------------------------
(* What the terminal promises. *)

\* Whatever is retried, edited, detached or recovered, a key is only ever sent with
\* one cart: no retry is refused as a reuse of its key.
THEOREM KeysKeepTheirCarts ==
  TerminalSpec => []OneCartPerKey
<1>1. IInv => OneCartPerKey
  BY DEF IInv, OneCartPerKey, Carried, Sent, Unsent
<1>2. QED
  BY <1>1, Invariance, PTL

\* A key the terminal let go as abandoned never has a sale, however late its
\* requests arrive.
THEOREM AbandonedIsFinal ==
  TerminalSpec => []AbandonedNeverSells
<1>1. IInv => AbandonedNeverSells
  BY DEF IInv, AbandonedNeverSells, Fates, SoldOnce, Dead, SalesUnder
<1>2. QED
  BY <1>1, Invariance, PTL

\* What a popup or a Pending entry calls a success is a committed sale.
THEOREM SuccessIsASale ==
  TerminalSpec => []SuccessMeansSold
<1>1. IInv => SuccessMeansSold
  BY DEF IInv, SuccessMeansSold, Fates, Shown
<1>2. QED
  BY <1>1, Invariance, PTL

\* No customer is charged twice online, for the reasons ChargedOnce excepts aside.
THEOREM CustomersPayOnce ==
  TerminalSpec => []ChargedOnce
<1>1. IInv => ChargedOnce
  <2> SUFFICES ASSUME IInv, world.calm, NEW r \in sales, NEW q \in sales, r # q,
                      wire[r].cart.who = wire[q].cart.who
               PROVE  "failed" \in {world.freed[wire[r].key], world.freed[wire[q].key]}
    BY DEF ChargedOnce
  <2>1. /\ r \in Request /\ q \in Request /\ Sent(r) /\ Sent(q)
        /\ call[r].key = wire[r].key /\ call[q].key = wire[q].key
        /\ wire[r].key \in Key /\ wire[q].key \in Key
    BY DEF IInv, TerminalTypeOK, ServiceTypeOK, SoldOnce, Carried, Sent, Messages
  <2>2. wire[r].key # wire[q].key
    BY <2>1 DEF IInv, SoldOnce
  <2>3. world.freed[wire[r].key] # "no" \/ world.freed[wire[q].key] # "no"
    BY <2>1, <2>2 DEF IInv, Calm, OneOpenKey
  <2>4. world.freed[wire[r].key] # "abandoned" /\ world.freed[wire[q].key] # "abandoned"
    BY <2>1 DEF IInv, Fates, Dead, SoldOnce
  <2>5. QED
    BY <2>1, <2>3, <2>4 DEF IInv, TerminalTypeOK, Worlds
<1>2. QED
  BY <1>1, Invariance, PTL

\* A sale nobody was shown is at hand, in the Pending tab, or was given up as failed.
THEOREM NoSaleIsForgotten ==
  TerminalSpec => []SalesAreAccounted
<1>1. IInv => SalesAreAccounted
  <2> SUFFICES ASSUME IInv, world.calm, NEW r \in sales \ world.seen
               PROVE  \/ wire[r].key \in {store.pending, page.key}
                      \/ store.detached[wire[r].key].status # "none"
                      \/ world.freed[wire[r].key] = "failed"
    BY DEF SalesAreAccounted
  <2>1. /\ r \in Request /\ Sent(r) /\ call[r].key = wire[r].key /\ wire[r].key \in Key
    BY DEF IInv, TerminalTypeOK, ServiceTypeOK, SoldOnce, Carried, Sent, Messages
  <2>2. Recalled(wire[r].key)
    BY <2>1 DEF IInv, Calm, Remembered
  <2>3. ~Shown(wire[r].key)
    BY <2>1 DEF IInv, SoldOnce, Shown, SalesUnder
  <2>4. world.freed[wire[r].key] # "abandoned"
    BY <2>1 DEF IInv, Fates, Dead, SoldOnce
  <2>5. QED
    BY <2>1, <2>2, <2>3, <2>4 DEF Recalled, Handy, IInv, TerminalTypeOK, Worlds
<1>2. QED
  BY <1>1, Invariance, PTL
=============================================================================
