---------------------------- MODULE ProductPublication ----------------------------
(* Where a shared product and its branch copy are sold (products.service.ts):     *)
(* publishing, toggling, bulk updates, lifecycle changes, forking a copy and      *)
(* replacing the source by it, and the product type that scopes them.  A          *)
(* transaction is three steps: its checks, its statements (what it wrote is its   *)
(* own until it commits, and its marker is decided on what it sees), its commit.  *)
(* productCatalogLockId is lock; status changes run without it, except a restore. *)
(* The actor is a supervisor with access to every branch, as the routes require;  *)
(* the checks handlers make before their transaction only refuse earlier.         *)
EXTENDS Naturals

CONSTANTS Branch, Home, Handler, Nobody,
          MaxRequests      \* bound on the requests made, disables and forks apart

ASSUME HomeIsABranch == Home \in Branch
ASSUME NobodyIsFresh == Nobody \notin Handler
ASSUME RequestsAreCounted == MaxRequests \in Nat

Product == {"source", "copy"}

\* What setting up a product consists of: its recipe components and flavor slots; the
\* rest that readiness reads (which sizes are on and priced, whether items are archived
\* and other products on sale); and its choices, option groups and unit conversions.
Part == {"recipe", "sizes", "choices"}

Transitions ==
  [draft |-> {"active", "archived"},
   active |-> {"temporarily_unavailable", "discontinued", "archived"},
   temporarily_unavailable |-> {"active", "archived"},
   discontinued |-> {"active", "archived"},
   archived |-> {"active"}]

Statuses == DOMAIN Transitions

VARIABLES
  product,   \* products: status, in the custom type, parts that lack something, everPublished
  row,       \* branch_product_availability: no row, off or on
  scope,     \* the branches of the custom type
  lock,      \* who holds a product's catalog lock
  task,      \* the handlers in flight
  requests,  \* counter for MaxRequests
  replaced,  \* ghost: the copy replaced the source at Home, and nobody undid it
  crossed    \* ghost: products of which two transactions overlapped their marks

catalogVars == <<product, row, scope, lock, task, requests, replaced, crossed>>

Tasks == [op : {"none", "publish", "enable", "replace", "restore", "activate", "remove", "pause"},
          at : {"idle", "asked", "checked", "staged", "cascade"},
          of : Product, to : Statuses, on : SUBSET Branch, off : SUBSET Branch,
          mark : BOOLEAN]

NoTask == [op |-> "none", at |-> "idle", of |-> "source", to |-> "active",
         on |-> {}, off |-> {}, mark |-> FALSE]

Unborn == [status |-> "none", typed |-> FALSE, lacks |-> Part, marked |-> FALSE]

\* The product and the type were made when Home was the only branch, and the
\* product was set up but never put on sale.
CatalogInit ==
  /\ \E s \in {"draft", "active"} :
       product = [p \in Product |-> IF p = "copy" THEN Unborn
                                    ELSE [Unborn EXCEPT !.status = s, !.lacks = {}]]
  /\ row = [p \in Product |-> [b \in Branch |-> IF p = "source" /\ b = Home THEN "off" ELSE "none"]]
  /\ scope = {Home}
  /\ lock = [p \in Product |-> Nobody]
  /\ task = [h \in Handler |-> NoTask]
  /\ requests = 0
  /\ replaced = FALSE
  /\ crossed = {}

Exists(p) == product[p].status # "none"
OnAt(p) == {b \in Branch : row[p][b] = "on"}
RowsOf(p) == {b \in Branch : row[p][b] # "none"}
InScope(p) == IF product[p].typed THEN scope ELSE Branch

\* Mutant: the checks run and the rows are written without the lock.
Unheld(t) == {}

\* The locks a transaction holds: its product's, both for a replacement, none for
\* a status change that restores nothing.
LocksOf(t) == CASE t.op = "replace" -> Product
                [] t.op \in {"publish", "enable"} -> {t.of}
                [] t.op = "restore" /\ t.at # "asked" -> {t.of}
                [] OTHER -> {}

Asked == requests < MaxRequests /\ requests' = requests + 1

Take(h, t) ==
  /\ \A p \in LocksOf(t) : lock[p] = Nobody
  /\ lock' = [p \in Product |-> IF p \in LocksOf(t) THEN h ELSE lock[p]]
  /\ task' = [task EXCEPT ![h] = t]

Leave(h) ==
  /\ lock' = [p \in Product |-> IF lock[p] = h THEN Nobody ELSE lock[p]]
  /\ task' = [task EXCEPT ![h] = NoTask]

\* What every enabling write repeats under the lock: the product is not withdrawn,
\* a copy only at its own branch, a typed product only inside its type's scope.
MayEnable(p, B) ==
  /\ product[p].status \notin {"none", "discontinued", "archived"}
  /\ p = "copy" => B \subseteq {Home}
  /\ B \subseteq InScope(p)

\* evaluateProductReadiness: active, with a size that can be sold and its recipe.
\* (Stock rows and flavors of the branch, which a publication supplies or passes
\* over and a replacement asks for, are left out: they only refuse.)
Ready(p) == product[p].status = "active" /\ product[p].lacks \subseteq {"choices"}

\* evaluatePublicationConfiguration, which only a publication asks.
Configured(p) == "choices" \notin product[p].lacks

\* Add to POS at one branch or a selection: status, spread guard, readiness and
\* configuration are judged under the lock.
BeginPublish(h, p, B) ==
  /\ Asked /\ task[h].at = "idle" /\ B # {}
  /\ MayEnable(p, B) /\ Ready(p) /\ Configured(p)
  /\ Take(h, [NoTask EXCEPT !.op = "publish", !.at = "checked", !.of = p, !.on = B])
  /\ UNCHANGED <<product, row, scope, replaced, crossed>>

\* The toggle and the bulk update, when they turn a row on.
BeginEnable(h, p, B, Off) ==
  /\ Asked /\ task[h].at = "idle" /\ B # {} /\ Off \in {{}, Branch \ B}
  /\ MayEnable(p, B)
  /\ Take(h, [NoTask EXCEPT !.op = "enable", !.at = "checked", !.of = p, !.on = B, !.off = Off])
  /\ UNCHANGED <<product, row, scope, replaced, crossed>>

\* The copy takes the source's place at its branch, holding both locks, if it is ready.
BeginReplace(h) ==
  /\ Asked /\ task[h].at = "idle" /\ Exists("copy") /\ Ready("copy")
  /\ Take(h, [NoTask EXCEPT !.op = "replace", !.at = "checked", !.of = "copy", !.on = {Home}])
  /\ UNCHANGED <<product, row, scope, replaced, crossed>>

\* A lifecycle change reads the status, checks the transition, and acts on it later.
AskStatus(h, p, s) ==
  /\ task[h].at = "idle" /\ Exists(p) /\ Asked
  /\ s \in Transitions[product[p].status]
  /\ LET op == CASE s = "active" -> IF product[p].status = "archived" THEN "restore" ELSE "activate"
                 [] s = "temporarily_unavailable" -> "pause"
                 [] OTHER -> "remove"
     IN task' = [task EXCEPT ![h] = [NoTask EXCEPT !.op = op, !.of = p, !.to = s,
                             !.at = IF op = "activate" THEN "checked" ELSE "asked"]]
  /\ UNCHANGED <<product, row, scope, lock, replaced, crossed>>

\* A restore turns rows on, so its transaction opens by taking the lock.
LockRestore(h) ==
  /\ task[h].op = "restore" /\ task[h].at = "asked"
  /\ Take(h, [task[h] EXCEPT !.at = "checked"])
  /\ UNCHANGED <<product, row, scope, requests, replaced, crossed>>

\* Mutant: restoring turns the source on beside the copy that replaced it.
RestoredBeside(p) == {b \in InScope(p) : row[p][b] = "off"}

\* The rows a restore turns on: those inside the type's scope, except where a copy
\* that is on has replaced the product.
Restored(p) ==
  {b \in InScope(p) : /\ row[p][b] = "off"
                      /\ p = "source" /\ b = Home => OnAt("copy") = {}}

\* Mutant: only a publication marks the product.
MarkedByPublication(t) == t.op = "publish"

\* markEverPublishedIfLive: what the transaction sees is what it wrote itself and
\* what others have committed.
SeesLive(t) ==
  /\ t.op \in {"activate", "restore"} \/ product[t.of].status = "active"
  /\ (OnAt(t.of) \cup t.on) \ t.off # {}

Stage(h) ==
  /\ task[h].at = "checked"
  /\ LET t == [task[h] EXCEPT !.at = "staged",
                 !.on = IF task[h].op = "restore" THEN Restored(task[h].of) ELSE @]
     IN task' = [task EXCEPT ![h] = [t EXCEPT !.mark = SeesLive(t)]]
  /\ UNCHANGED <<product, row, scope, lock, requests, replaced, crossed>>

\* The rows of p after task t: a replacement also turns the source off at Home.
RowsAfter(t, p) ==
  [b \in Branch |-> CASE p = t.of /\ b \in t.on -> "on"
                      [] p = t.of /\ b \in t.off -> "off"
                      [] p = "source" /\ t.op = "replace" /\ b = Home -> "off"
                      [] OTHER -> row[p][b]]

\* A replacement stands until the copy is off at Home or the source is enabled there.
Stands(t) ==
  /\ t.op = "replace" \/ replaced
  /\ RowsAfter(t, "copy")[Home] = "on"
  /\ ~(t.of = "source" /\ t.op \in {"publish", "enable"} /\ Home \in t.on)

Commit(h) ==
  LET t == task[h] p == t.of IN
  /\ t.at = "staged"
  /\ row' = [q \in Product |-> RowsAfter(t, q)]
  /\ product' = [product EXCEPT
       ![p].status = IF t.op \in {"activate", "restore"} THEN "active" ELSE @,
       ![p].marked = @ \/ t.mark]
  /\ crossed' = IF \E g \in Handler \ {h} : task[g].at = "staged" /\ task[g].of = p
                THEN crossed \cup {p} ELSE crossed
  /\ replaced' = Stands(t)
  /\ Leave(h)
  /\ UNCHANGED <<scope, requests>>

\* Withdrawing or pausing a product: one bare update ...
WriteStatus(h) ==
  /\ task[h].at = "asked" /\ task[h].op \in {"remove", "pause"}
  /\ product' = [product EXCEPT ![task[h].of].status = task[h].to]
  /\ task' = [task EXCEPT ![h] = IF task[h].op = "pause" THEN NoTask
                                 ELSE [task[h] EXCEPT !.at = "cascade"]]
  /\ UNCHANGED <<row, scope, lock, requests, replaced, crossed>>

\* ... and, for a withdrawal, a second one that turns its rows off.
CascadeOff(h) ==
  LET p == task[h].of IN
  /\ task[h].at = "cascade"
  /\ row' = [row EXCEPT ![p] = [b \in Branch |-> IF @[b] = "on" THEN "off" ELSE @[b]]]
  /\ replaced' = (replaced /\ p = "source")
  /\ Leave(h)
  /\ UNCHANGED <<product, scope, requests, crossed>>

\* An error, a timeout or a crash: the transaction rolls back.
Abort(h) ==
  /\ task[h].at # "idle"
  /\ Leave(h)
  /\ UNCHANGED <<product, row, scope, requests, replaced, crossed>>

\* Turning a row off takes no lock and creates the row where there is none.
Disable(p, b) ==
  /\ Exists(p) /\ row[p][b] # "off"
  /\ row' = [row EXCEPT ![p][b] = "off"]
  /\ replaced' = (replaced /\ (p = "source" \/ b # Home))
  /\ UNCHANGED <<product, scope, lock, task, requests, crossed>>

\* Every flavor of the product ran out at a branch: the stock cascade turns its row
\* off, and creates it unless the product has a custom type.
RunOut(p, b) == (row[p][b] = "none" => ~product[p].typed) /\ Disable(p, b)

\* Mutant: recipe components and slots are edited without the catalog lock.
EditableAnyTime(p) == TRUE

Editable(p) == lock[p] = Nobody

\* An edit takes something away from a part, or completes it.
Edited(p, part) ==
  [product EXCEPT ![p].lacks = IF part \in @ THEN @ \ {part} ELSE @ \cup {part}]

\* A component or flavor slot is changed or removed: under the lock.
Configure(p) ==
  /\ Asked /\ product[p].status \notin {"none", "archived"} /\ Editable(p)
  /\ product' = Edited(p, "recipe")
  /\ UNCHANGED <<row, scope, lock, task, replaced, crossed>>

\* A missing component is added: without it.
AddComponent(p) ==
  /\ Asked /\ product[p].status \notin {"none", "archived"} /\ "recipe" \in product[p].lacks
  /\ product' = Edited(p, "recipe")
  /\ UNCHANGED <<row, scope, lock, task, replaced, crossed>>

\* A size is edited or deleted, an item archived, an option or its group changed or
\* unassigned: none of these takes the product's lock.  (Bound: it counts for two requests.)
EditFreely(p, part) ==
  /\ requests + 2 <= MaxRequests /\ requests' = requests + 2
  /\ Exists(p) /\ part # "recipe"
  /\ product' = Edited(p, part)
  /\ UNCHANGED <<row, scope, lock, task, replaced, crossed>>

\* The custom type is assigned under the lock, if it covers every configured branch.
AssignType(p) ==
  /\ Asked /\ product[p].status \notin {"none", "archived"} /\ ~product[p].typed
  /\ Editable(p) /\ RowsOf(p) \subseteq scope
  /\ product' = [product EXCEPT ![p].typed = TRUE]
  /\ UNCHANGED <<row, scope, lock, task, replaced, crossed>>

ClearType(p) ==
  /\ Asked /\ product[p].status \notin {"none", "archived"} /\ product[p].typed
  /\ product' = [product EXCEPT ![p].typed = FALSE]
  /\ UNCHANGED <<row, scope, lock, task, replaced, crossed>>

\* A type's scope may grow, never shrink.
WidenType(b) ==
  /\ Asked /\ b \notin scope /\ scope' = scope \cup {b}
  /\ UNCHANGED <<product, row, lock, task, replaced, crossed>>

\* forkProductForBranch: a draft copy, off, set up like the source except that
\* components switched off there are on in it, and with the source's type if that
\* covers the branch (or with the one the supervisor chose).
Fork(typed, lacks) ==
  /\ ~Exists("copy") /\ row["source"][Home] # "none"
  /\ typed => Home \in scope
  /\ product["source"].lacks \ {"recipe"} \subseteq lacks
  /\ lacks \subseteq product["source"].lacks
  /\ product' = [product EXCEPT !["copy"] = [status |-> "draft", typed |-> typed,
                                             lacks |-> lacks, marked |-> FALSE]]
  /\ row' = [row EXCEPT !["copy"][Home] = "off"]
  /\ UNCHANGED <<scope, lock, task, requests, replaced, crossed>>

Handle(h) ==
  \/ \E p \in Product, B \in SUBSET Branch :
       \/ BeginPublish(h, p, B)
       \/ \E Off \in SUBSET Branch : BeginEnable(h, p, B, Off)
  \/ \E p \in Product, s \in Statuses : AskStatus(h, p, s)
  \/ BeginReplace(h) \/ LockRestore(h) \/ Stage(h) \/ Commit(h)
  \/ WriteStatus(h) \/ CascadeOff(h) \/ Abort(h)

CatalogNext ==
  \/ \E h \in Handler : Handle(h)
  \/ \E p \in Product :
       \/ \E b \in Branch : Disable(p, b) \/ RunOut(p, b)
       \/ \E part \in Part : EditFreely(p, part)
       \/ Configure(p) \/ AddComponent(p) \/ AssignType(p) \/ ClearType(p)
  \/ \E b \in Branch : WidenType(b)
  \/ \E typed \in BOOLEAN, lacks \in SUBSET Part : Fork(typed, lacks)

CatalogSpec == CatalogInit /\ [][CatalogNext]_catalogVars

----------------------------------------------------------------------------------

CatalogTypeOK ==
  /\ product \in [Product -> [status : Statuses \cup {"none"}, typed : BOOLEAN,
                              lacks : SUBSET Part, marked : BOOLEAN]]
  /\ row \in [Product -> [Branch -> {"none", "off", "on"}]]
  /\ scope \in SUBSET Branch
  /\ lock \in [Product -> Handler \cup {Nobody}]
  /\ task \in [Handler -> Tasks]
  /\ requests \in 0..MaxRequests /\ replaced \in BOOLEAN /\ crossed \in SUBSET Product

\* A product of a custom type is on sale only at branches the type covers, whatever
\* races with the type's assignment: toggles, publications, restores, new rows.
SellsInScope ==
  /\ CatalogTypeOK
  /\ \A p \in Product : OnAt(p) \subseteq InScope(p)

\* Where a copy has replaced its source, the source stays off until someone enables
\* it there or the copy is turned off: restoring the source never undoes it.
ReplacedStaysOff == replaced => row["source"][Home] = "off"

\* A product that is live somewhere carries the ever-published marker, unless two
\* transactions on it overlapped so that neither saw what the other wrote.
LiveIsMarked ==
  \A p \in Product \ crossed :
    product[p].status = "active" /\ OnAt(p) # {} => product[p].marked

\* Nothing is published, and no copy replaces its source, with a recipe component or
\* flavor slot gone since readiness was judged: who takes one away needs the same lock.
\* It says nothing of sizes and choices, which are edited without the lock and may lack
\* something again by the time the transaction commits.  (productCatalogLockId.)
PublishedWithRecipe ==
  [][\A h \in Handler :
       task[h].op \in {"publish", "replace"} /\ Commit(h)
         => "recipe" \notin product[task[h].of].lacks]_catalogVars
===================================================================================
