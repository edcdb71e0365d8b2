--------------------------- MODULE CheckoutService ---------------------------
(***************************************************************************)
(* What POST /transactions promises a terminal about an idempotency key,   *)
(* without the leases, statements and waits that CheckoutAttempt keeps the *)
(* promise with: a key has one attempt row, one owner at a time, at most   *)
(* one sale, and is dead once abandoned.  A request is told of a sale of   *)
(* its own cart, refused for good, or told nothing it can rely on.         *)
(***************************************************************************)

CONSTANTS Request, Key, Cart, None

VARIABLES row,    \* the attempt of each key
          call,   \* what each request carries, how far it is, what it answered
          sales   \* the requests whose sale committed

serviceVars == <<row, call, sales>>

Rows == [status : {"none", "in_progress", "committed", "failed", "abandoned"},
         owner : Request \cup {None}]

Calls == [at : {"idle", "open", "claimed", "done"}, key : Key \cup {None}, cart : Cart \cup {None},
          outcome : {"NONE", "SOLD", "REFUSED", "UNSURE"}, sale : Request \cup {None}]

ServiceTypeOK ==
  /\ row \in [Key -> Rows]
  /\ call \in [Request -> Calls]
  /\ sales \subseteq Request

ServiceInit ==
  /\ row = [k \in Key |-> [status |-> "none", owner |-> None]]
  /\ call = [r \in Request |->
       [at |-> "idle", key |-> None, cart |-> None, outcome |-> "NONE", sale |-> None]]
  /\ sales = {}

SalesUnder(k) == {s \in sales : call[s].key = k}

Mine(r) == row[call[r].key] = [status |-> "in_progress", owner |-> r]

Tell(r, o, s) == call' = [call EXCEPT ![r].at = "done", ![r].outcome = o, ![r].sale = s]

Open(r, k, c) ==
  /\ call[r].at = "idle"
  /\ call' = [call EXCEPT ![r].at = "open", ![r].key = k, ![r].cart = c]
  /\ UNCHANGED <<row, sales>>

\* A request takes the key over, unless its fate is sealed.
TakeKey(r) ==
  /\ call[r].at = "open"
  /\ row[call[r].key].status \in {"none", "failed", "in_progress"}
  /\ row' = [row EXCEPT ![call[r].key] = [status |-> "in_progress", owner |-> r]]
  /\ call' = [call EXCEPT ![r].at = "claimed"]
  /\ UNCHANGED sales

Commit(r) ==
  /\ call[r].at = "claimed" /\ Mine(r)
  /\ row' = [row EXCEPT ![call[r].key].status = "committed"]
  /\ sales' = sales \cup {r}
  /\ Tell(r, "SOLD", r)

TellSale(r) ==
  /\ call[r].at \in {"open", "claimed"}
  /\ \E s \in SalesUnder(call[r].key) : call[s].cart = call[r].cart /\ Tell(r, "SOLD", s)
  /\ UNCHANGED <<row, sales>>

\* An owner's failure may release the key; a failure is one the caller can
\* rely on after a claim, or when the key has the sale of another cart.
Refuse(r) ==
  /\ \/ call[r].at = "claimed"
     \/ call[r].at = "open" /\ \E s \in SalesUnder(call[r].key) : call[s].cart # call[r].cart
  /\ \/ UNCHANGED row
     \/ Mine(r) /\ row' = [row EXCEPT ![call[r].key].status = "failed"]
  /\ Tell(r, "REFUSED", None)
  /\ UNCHANGED sales

LeaveUnsure(r) ==
  /\ call[r].at \in {"open", "claimed"}
  /\ Tell(r, "UNSURE", None)
  /\ UNCHANGED <<row, sales>>

\* The explicit fence: it may also overtake an owner that looks dead.
Bury(k) ==
  /\ SalesUnder(k) = {}
  /\ row[k].status \in {"none", "failed", "in_progress"}
  /\ row' = [row EXCEPT ![k].status = "abandoned"]
  /\ UNCHANGED <<call, sales>>

Serve(r) == TakeKey(r) \/ Commit(r) \/ TellSale(r) \/ Refuse(r) \/ LeaveUnsure(r)

ServiceNext ==
  \/ \E r \in Request, k \in Key, c \in Cart : Open(r, k, c)
  \/ \E r \in Request : Serve(r)
  \/ \E k \in Key : Bury(k)

ServiceSpec == ServiceInit /\ [][ServiceNext]_serviceVars
=============================================================================
