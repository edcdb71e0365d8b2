-------------------------- MODULE StockLocks_proofs --------------------------
(***************************************************************************)
(* For any number of transactions, sales, branches and items: a circle of  *)
(* waiting is a sale undone while it is settled, or a reversal of sales    *)
(* from before the universal inventory.                                    *)
(*                                                                         *)
(* Below, the lock of the audit chain: for any number of groups, workers   *)
(* and calls of recordAuditLog the outbox's entries are one chain, and     *)
(* AuditTrail is what it delivers.                                         *)
(***************************************************************************)
EXTENDS StockLocks, AuditOutbox, WellFoundedInduction, FiniteSetTheorems, SequenceTheorems, TLAPS

-----------------------------------------------------------------------------
(* Locks and transactions. *)

\* Every lock is of one kind, which says how it is built.
LEMMA LockKinds ==
  ASSUME NEW l \in Lock
  PROVE  /\ l.kind \in {"shift", "txn", "job", "ingredient", "key", "row"}
         /\ l.kind = "shift" => \E b \in Branch : l = Shift(b)
         /\ l.kind = "txn" => \E s \in Sale : l = Txn(s)
         /\ l.kind = "job" => \E s \in Sale : l = Job(s)
         /\ l.kind = "ingredient" => \E g \in Ingredient : l = Ingr(g)
         /\ l.kind = "key" => \E b \in Branch, i \in Item : l = Key(b, i)
         /\ l.kind = "row" => \E b \in Branch, i \in Item : l = Row(b, i)
BY DEF Lock, Shift, Txn, Job, Ingr, Key, Row

\* The lock of each constructor has its kind and remembers what it locks.
LEMMA KindsOfLocks ==
  /\ \A b : Shift(b).kind = "shift"
  /\ \A s : Txn(s).kind = "txn" /\ Txn(s).of = s
  /\ \A s : Job(s).kind = "job" /\ Job(s).of = s
  /\ \A b, i : Key(b, i).kind = "key" /\ Key(b, i).of = b /\ Key(b, i).item = i
  /\ \A b, i : Row(b, i).kind = "row" /\ Row(b, i).of = b /\ Row(b, i).item = i
  /\ \A s : \A l \in Keys(s) : l.kind = "key"
  /\ \A s : \A l \in Rows(s) : l.kind = "row"
  /\ \A s : \A l \in Ingredients(s) : l.kind = "ingredient"
BY DEF Shift, Txn, Job, Key, Row, Ingr, Keys, Rows, Ingredients

\* The locks of a known sale, branch or item are locks.
LEMMA LocksExist ==
  /\ \A b \in Branch : Shift(b) \in Lock
  /\ \A s \in Sale : Txn(s) \in Lock /\ Job(s) \in Lock
  /\ \A s \in Sale : Keys(s) \subseteq Lock /\ Rows(s) \subseteq Lock /\ Ingredients(s) \subseteq Lock
  /\ \A b \in Branch, i \in Item : Key(b, i) \in Lock /\ Row(b, i) \in Lock
<1>1. \A s \in Sale : Keys(s) \subseteq Lock /\ Rows(s) \subseteq Lock
  BY SalesAreKnown DEF Lock, Keys, Rows
<1>2. \A s \in Sale : Ingredients(s) \subseteq Lock
  BY SalesAreKnown DEF Lock, Ingredients
<1> QED
  BY <1>1, <1>2 DEF Lock

\* The stage at which a transaction takes each kind of lock.
LEMMA Stages ==
  ASSUME NEW op, NEW l
  PROVE  /\ l.kind = "shift" => Stage(op, l) = 0
         /\ l.kind = "txn" => Stage(op, l) = (IF op \in Settling THEN 6 ELSE 1)
         /\ l.kind = "job" => Stage(op, l) = 2
         /\ l.kind = "ingredient" => Stage(op, l) = 3
         /\ l.kind = "key" => Stage(op, l) = 4
         /\ l.kind = "row" => Stage(op, l) = 5
BY DEF Stage

\* A non-empty set of ids has a largest.
LEMMA Largest ==
  ASSUME NEW N \in Nat, NEW S \in SUBSET (0..N), S # {}
  PROVE  \E m \in S : \A n \in S : n <= m
<1> DEFINE T == {N - n : n \in S}
           R == OpToRel(<, Nat)
<1>1. T \subseteq Nat /\ T # {}
  <2>1. \A n \in S : N - n \in Nat
    OBVIOUS
  <2> QED
    BY <2>1
<1>2. PICK x \in T : \A y \in T : ~(<<y, x>> \in R)
  <2> HIDE DEF T, R
  <2>1. IsWellFoundedOn(R, Nat)
    BY NatLessThanWellFounded DEF R
  <2> QED
    BY <1>1, <2>1, WFMin
<1>3. \A y \in T : ~(y < x)
  BY <1>1, <1>2 DEF OpToRel
<1>4. PICK m \in S : x = N - m
  BY <1>2
<1>5. ASSUME NEW n \in S
      PROVE  n <= m
  <2>1. N - n \in T
    OBVIOUS
  <2>2. ~(N - n < N - m)
    BY <2>1, <1>3, <1>4
  <2> QED
    BY <2>2
<1> QED
  BY <1>5

-----------------------------------------------------------------------------
(* The inductive invariant. *)

\* Nobody shares a lock.
Exclusive == \A a, b \in Actor : a # b => tx[a].held \cap tx[b].held = {}

\* What a transaction of each kind has, or has yet to take.
Footprint(t) ==
  LET s == t.sale  all == t.held \cup t.want IN
  /\ t.op = "none" => t.want = {}
  /\ t.op \in {"sell", "undo", "cancel", "reverse"} \cup Settling => s \in Sale
  /\ t.op = "sell" => all \subseteq Rows(s)
  /\ t.op \in Settling => Job(s) \in all /\ all \subseteq {Job(s), Txn(s)} \cup Keys(s) \cup Rows(s)
  /\ t.op = "undo" => Txn(s) \in all /\ all \subseteq {Txn(s), Shift(At[s])}
  /\ t.op = "cancel" => /\ Txn(s) \in t.held /\ Job(s) \in all /\ t.want \subseteq {Job(s)} \cup Rows(s)
                        /\ all \subseteq {Txn(s), Shift(At[s]), Job(s)} \cup Rows(s)
  /\ t.op = "reverse" => /\ Txn(s) \in t.held /\ t.want \subseteq Ingredients(s) \cup Keys(s) \cup Rows(s)
                         /\ all \subseteq {Txn(s), Shift(At[s])} \cup Ingredients(s) \cup Keys(s) \cup Rows(s)
  /\ t.op \in {"desk", "move"} => \A l \in all : l.kind \in {"key", "row"}
  /\ t.op = "move" => \A b \in Branch, i \in Item : Row(b, i) \in all => Key(b, i) \in all
  /\ t.op # "move" => t.from = None
  /\ t.op = "close" => \A l \in all : l.kind = "shift"

\* What it has comes before what it wants.
InOrder(t) == \A l \in t.held, m \in t.want : Before(t, l, m)

\* What a transaction knows of its sale and job while it has their locks.
Informed(a) ==
  LET t == tx[a]  s == t.sale IN
  /\ t.op = "sell" => sale[s] = "none" /\ \A b \in Actor : tx[b].op = "sell" /\ tx[b].sale = s => b = a
  /\ t.op \in {"undo", "cancel", "reverse"} /\ Txn(s) \in t.held => sale[s] = "completed"
  /\ t.op \in {"apply", "fail"} /\ Job(s) \in t.held => job[s].status = "processing"
  /\ t.op = "requeue" /\ Job(s) \in t.held => job[s].status = "failed"
  /\ t.op = "cancel" /\ Job(s) \in t.held => job[s].status \in {"pending", "failed"}
  /\ t.op = "reverse" => job[s].status \in {"none", "completed", "cancelled"}

\* A job starts with its sale and is cancelled with it.
JobFits(s) ==
  /\ sale[s] = "none" => job[s].status = "none"
  /\ job[s].status = "cancelled" => sale[s] = "undone"

IInv ==
  /\ TypeOK
  /\ Exclusive
  /\ \A a \in Actor : Footprint(tx[a]) /\ InOrder(tx[a]) /\ Informed(a)
  /\ \A s \in Sale : JobFits(s)

-----------------------------------------------------------------------------
(* Circles. *)

\* What the order of locks says of two of them, kind by kind.
LEMMA WhatComesBefore ==
  ASSUME NEW t, NEW l \in Lock, NEW m \in Lock, Before(t, l, m)
  PROVE  /\ m.kind # "shift"
         /\ m.kind = "txn" /\ t.op \notin Settling => l.kind = "shift"
         /\ m.kind = "job" => l.kind = "shift" \/ (l.kind = "txn" /\ t.op \notin Settling)
         /\ l.kind = "txn" => t.op \notin Settling /\ m.kind # "txn"
         /\ l.kind \in {"key", "row"} => m.kind \in {"key", "row"} \/ (m.kind = "txn" /\ t.op \in Settling)
         /\ l.kind = "key" /\ m.kind = "key" => l.item < m.item \/ (l.item = m.item /\ l.of < m.of)
         /\ l.kind = "row" => m.kind # "key"
         /\ l.kind = "row" /\ m.kind = "row" => l.item < m.item \/ (l.item = m.item /\ l.of = t.from)
<1>1. l.kind = m.kind => /\ l.kind \in {"ingredient", "key", "row"}
                         /\ l.kind = "key" => l.item < m.item \/ (l.item = m.item /\ l.of < m.of)
                         /\ l.kind = "row" => l.item < m.item \/ (l.item = m.item /\ l.of = t.from)
  <2>1. Stage(t.op, l) < Stage(t.op, m) => l.kind # m.kind
    BY LockKinds, Stages
  <2> QED
    BY <2>1, LockKinds DEF Before, Sorted
<1>2. l.kind # m.kind => Stage(t.op, l) < Stage(t.op, m)
  BY DEF Before
<1> QED
  BY <1>1, <1>2, LockKinds, Stages

\* a waits for l, which one of D has.
Waits(D, a, l) == Awaits(a, l) /\ \E b \in D : b # a /\ l \in tx[b].held

\* In a circle everyone waits, and is waited for.
LEMMA EveryoneWaits ==
  ASSUME NEW D \in Circles, NEW a \in D
  PROVE  /\ \E l : Waits(D, a, l)
         /\ \E c \in D \ {a}, l \in tx[a].held : Waits(D, c, l)
<1>1. D \subseteq Actor /\ Stuck(D) /\ \A E \in SUBSET D : Stuck(E) => E = D
  BY DEF Circles
<1>2. PICK b \in D : Blocks(b, a)
  BY <1>1 DEF Stuck
<1>3. PICK c \in D \ {a} : Blocks(a, c)
  <2>1. ASSUME \A c \in D \ {a} : ~Blocks(a, c)
        PROVE  FALSE
    <3>1. b \in D \ {a}
      BY <1>2 DEF Blocks
    <3>2. \A c \in D \ {a} : \E d \in D \ {a} : Blocks(d, c)
      BY <1>1, <2>1 DEF Stuck
    <3>3. Stuck(D \ {a})
      BY <3>1, <3>2 DEF Stuck
    <3> QED
      BY <1>1, <3>3
  <2> QED
    BY <2>1
<1> QED
  BY <1>2, <1>3 DEF Blocks, Waits

\* Two rivals are a circle.
LEMMA RivalsAreStuck ==
  ASSUME IInv, NEW a \in Actor, NEW b \in Actor, Rivals(a, b)
  PROVE  Stuck({a, b})
<1> DEFINE s == tx[a].sale
<1>1. s \in Sale /\ a # b
  BY DEF IInv, Footprint, Rivals, Settling
<1>2. Txn(s) \in tx[a].held
  BY DEF IInv, Footprint, Rivals
<1>3. Job(s) \in tx[b].held
  <2>1. Job(s) \in tx[b].held \cup tx[b].want
    BY DEF IInv, Footprint, Rivals
  <2>2. ASSUME Job(s) \in tx[b].want
        PROVE  FALSE
    <3>1. Before(tx[b], Txn(s), Job(s))
      BY <2>2 DEF Awaits, Rivals, Txn, Job
    <3> QED
      BY <1>1, <3>1, LocksExist, WhatComesBefore DEF Rivals, Txn, Job
  <2> QED
    BY <2>1, <2>2
<1> QED
  BY <1>1, <1>2, <1>3 DEF Stuck, Blocks, Rivals

\* What an open transaction has and wants are locks.
LEMMA LocksAreTyped ==
  ASSUME TypeOK, NEW a \in Actor
  PROVE  /\ tx[a] \in Tx
         /\ \A l \in tx[a].held \cup tx[a].want : l \in Lock
BY DEF TypeOK, Tx

\* The first locks, and a transaction's and a job's row, are nobody's to wait for in a
\* circle without rivals.
LEMMA OnStockOnly ==
  ASSUME IInv, NEW D \in Circles, \A a, b \in D : ~Rivals(a, b)
  PROVE  \A a \in D : \A l : Waits(D, a, l) => l \in Lock /\ l.kind \in {"ingredient", "key", "row"}
<1>1. D \subseteq Actor
  BY DEF Circles
<1>2. \A a \in D : \A l : Waits(D, a, l) => l \in Lock /\ l \in tx[a].want /\ a \in Actor
  BY <1>1, LocksAreTyped DEF Waits, Awaits, IInv
<1>3. \A a \in D : \A l : Waits(D, a, l) => \A m \in tx[a].held : m \in Lock /\ Before(tx[a], m, l)
  BY <1>2, LocksAreTyped DEF IInv, InOrder
<1>4. \A a \in D : \A l : Waits(D, a, l) => l.kind # "shift"
  <2>1. SUFFICES ASSUME NEW a \in D, NEW l, Waits(D, a, l), l.kind = "shift"
                 PROVE  FALSE
    OBVIOUS
  <2>2. tx[a].held = {}
    BY <1>2, <1>3, <2>1, WhatComesBefore
  <2> QED
    BY <2>2, EveryoneWaits
<1>5. \A a \in D : \A l : Waits(D, a, l) => l.kind # "txn"
  <2>1. SUFFICES ASSUME NEW a \in D, NEW l, Waits(D, a, l), l.kind = "txn"
                 PROVE  FALSE
    OBVIOUS
  <2>2. PICK s \in Sale : l = Txn(s)
    BY <1>2, <2>1, LockKinds
  <2>3. PICK b \in D : b # a /\ l \in tx[b].held
    BY <2>1 DEF Waits
  <2>4. CASE tx[a].op \notin Settling
    <3>1. PICK c \in D \ {a}, m \in tx[a].held : Waits(D, c, m)
      BY EveryoneWaits
    <3>2. m.kind = "shift"
      BY <1>2, <1>3, <2>1, <2>4, <3>1, WhatComesBefore
    <3> QED
      BY <1>4, <3>1, <3>2
  <2>5. CASE tx[a].op \in Settling
    <3>1. tx[a].sale = s /\ Job(s) \in tx[a].held
      <4>1. s = tx[a].sale /\ Job(s) \in tx[a].held \cup tx[a].want
        BY <1>2, <2>1, <2>2, <2>5, KindsOfLocks DEF IInv, Footprint, Settling
      <4>2. ASSUME Job(s) \in tx[a].want
            PROVE  FALSE
        <5>1. Before(tx[a], l, Job(s))
          BY <2>1, <2>2, <4>2 DEF Waits, Awaits, Txn, Job
        <5> QED
          BY <1>2, <2>1, <2>5, <5>1, LocksExist, WhatComesBefore DEF Job
      <4> QED
        BY <4>1, <4>2
    <3>2. PICK m : Waits(D, b, m)
      BY EveryoneWaits
    <3>3. m \in Lock /\ m \in tx[b].want /\ Before(tx[b], l, m) /\ m.kind \notin {"shift", "txn"} /\ tx[b].op \notin Settling
      BY <1>2, <1>3, <2>1, <2>3, <3>2, WhatComesBefore
    <3>4. tx[b].op \in {"cancel", "reverse"} /\ tx[b].sale = s
      <4>1. tx[b].op \in Ops /\ Footprint(tx[b]) /\ l.kind = "txn" /\ l.of = s
        BY <1>1, <2>2, <2>3, LocksAreTyped, KindsOfLocks DEF IInv, Tx
      <4>2. tx[b].op # "undo"
        BY <2>3, <3>3, <4>1, KindsOfLocks DEF Footprint
      <4> QED
        BY <2>3, <3>3, <4>1, <4>2, KindsOfLocks DEF Footprint, Ops, Settling
    <3>5. CASE tx[b].op = "reverse"
      BY <1>1, <2>5, <3>1, <3>4, <3>5 DEF IInv, Informed, Settling
    <3>6. CASE tx[b].op = "cancel"
      <4>1. Job(s) \notin tx[b].held
        BY <1>1, <2>3, <3>1 DEF IInv, Exclusive
      <4>2. Job(s) \in tx[b].want
        BY <1>1, <3>4, <3>6, <4>1 DEF IInv, Footprint
      <4>3. m = Job(s)
        <5>1. m # Job(s) => Before(tx[b], m, Job(s))
          BY <3>2, <4>2 DEF Waits, Awaits
        <5>2. m.kind \in {"job", "row"}
          BY <1>1, <3>3, <3>6, KindsOfLocks DEF IInv, Footprint
        <5>3. m.kind = "job" => m = Job(s)
          BY <1>1, <3>3, <3>4, <3>6, KindsOfLocks DEF IInv, Footprint
        <5> QED
          BY <3>3, <3>4, <5>1, <5>2, <5>3, LocksExist, WhatComesBefore DEF Job
      <4>4. Rivals(b, a)
        BY <2>1, <2>2, <2>5, <3>1, <3>2, <3>4, <3>6, <4>3 DEF Rivals, Waits
      <4> QED
        BY <4>4
    <3> QED
      BY <3>4, <3>5, <3>6
  <2> QED
    BY <2>4, <2>5
<1>6. \A a \in D : \A l : Waits(D, a, l) => l.kind # "job"
  <2>1. SUFFICES ASSUME NEW a \in D, NEW l, Waits(D, a, l), l.kind = "job"
                 PROVE  FALSE
    OBVIOUS
  <2>2. PICK c \in D \ {a}, m \in tx[a].held : Waits(D, c, m)
    BY EveryoneWaits
  <2>3. m.kind \in {"shift", "txn"}
    BY <1>2, <1>3, <2>1, <2>2, WhatComesBefore
  <2> QED
    BY <1>4, <1>5, <2>2, <2>3
<1> QED
  BY <1>2, <1>4, <1>5, <1>6, LockKinds

\* Who moves stock and waits for a row has the keys of the rows it has; only a transfer
\* has two of one item.
LEMMA RowsAreKeyed ==
  ASSUME IInv, NEW c \in Actor, NEW b \in Branch, NEW i \in Item, Row(b, i) \in tx[c].held,
         tx[c].from \in Branch
  PROVE  tx[c].op = "move" /\ Key(b, i) \in tx[c].held
<1>1. Footprint(tx[c]) /\ InOrder(tx[c])
  BY DEF IInv
<1>2. tx[c].op = "move"
  BY <1>1, NoneIsFresh DEF Footprint
<1>3. Key(b, i) \in tx[c].held \cup tx[c].want
  BY <1>1, <1>2 DEF Footprint
<1>4. ~Before(tx[c], Row(b, i), Key(b, i))
  BY LocksExist, KindsOfLocks, WhatComesBefore
<1> QED
  BY <1>1, <1>2, <1>3, <1>4 DEF InOrder

\* In a circle without rivals nobody waits for a row: of the rows waited for, one of the
\* largest item is held by a transfer that waits for another's, and both would have one key.
LEMMA NoRows ==
  ASSUME IInv, NEW D \in Circles, \A a, b \in D : ~Rivals(a, b)
  PROVE  \A a \in D : \A l : Waits(D, a, l) => l.kind # "row"
<1>1. D \subseteq Actor
  BY DEF Circles
<1> DEFINE Items == {i \in Item : \E a \in D, b \in Branch : Waits(D, a, Row(b, i))}
<1>2. SUFFICES ASSUME NEW a0 \in D, NEW l0, Waits(D, a0, l0), l0.kind = "row"
               PROVE  FALSE
  OBVIOUS
<1>3. Items # {} /\ Items \subseteq 0..MaxId
  <2>1. \E b \in Branch, i \in Item : l0 = Row(b, i)
    BY <1>2, OnStockOnly, LockKinds
  <2> QED
    BY <1>2, <2>1, IdsAreOrdered
<1>4. PICK i \in Items : \A j \in Items : j <= i
  <2> HIDE DEF Items
  <2> QED
    BY <1>3, IdsAreOrdered, Largest
\* Who has a row of item i waits for the other row of i, and is a transfer.
<1>5. ASSUME NEW c \in D, NEW b \in Branch, Row(b, i) \in tx[c].held
      PROVE  /\ tx[c].op = "move" /\ tx[c].from = b /\ Key(b, i) \in tx[c].held
             /\ \E d \in Branch : Waits(D, c, Row(d, i))
  <2>1. PICK m : Waits(D, c, m)
    BY EveryoneWaits
  <2>2. m \in Lock /\ m.kind \in {"ingredient", "key", "row"} /\ m \in tx[c].want
    BY <2>1, OnStockOnly DEF Waits, Awaits
  <2>3. Before(tx[c], Row(b, i), m)
    BY <1>1, <1>5, <2>2 DEF IInv, InOrder
  <2>4. m.kind = "row" /\ (i < m.item \/ (i = m.item /\ b = tx[c].from))
    <3>1. Row(b, i) \in Lock /\ Row(b, i).kind = "row" /\ Row(b, i).item = i /\ Row(b, i).of = b
      BY LocksExist, KindsOfLocks
    <3> QED
      BY <2>2, <2>3, <3>1, WhatComesBefore
  <2>5. PICK d \in Branch, j \in Item : m = Row(d, j)
    BY <2>2, <2>4, LockKinds
  <2>6. j \in Items /\ m.item = j
    BY <2>1, <2>5, KindsOfLocks
  <2>7. i = j /\ b = tx[c].from
    BY <1>3, <1>4, <2>4, <2>6, IdsAreOrdered
  <2>8. tx[c].op = "move" /\ Key(b, i) \in tx[c].held
    BY <1>1, <1>5, <2>7, RowsAreKeyed
  <2> QED
    BY <2>1, <2>5, <2>7, <2>8
<1>6. PICK a \in D, b \in Branch : Waits(D, a, Row(b, i))
  OBVIOUS
<1>7. PICK c \in D : Row(b, i) \in tx[c].held
  BY <1>6 DEF Waits
<1>8. PICK d \in Branch : Waits(D, c, Row(d, i))
  BY <1>5, <1>7
<1>9. PICK e \in D : e # c /\ Row(d, i) \in tx[e].held
  BY <1>8 DEF Waits
\* Both are transfers of item i, and each has the key of every row it comes to.
<1>10. Key(d, i) \in tx[c].held
  <2>1. Row(d, i) \in tx[c].want /\ tx[c].op = "move" /\ Footprint(tx[c]) /\ InOrder(tx[c])
    BY <1>1, <1>5, <1>7, <1>8 DEF IInv, Waits, Awaits
  <2>2. Key(d, i) \in tx[c].held \cup tx[c].want
    BY <2>1 DEF Footprint
  <2>3. ~Before(tx[c], Row(b, i), Key(d, i))
    <3>1. Row(b, i) \in Lock /\ Key(d, i) \in Lock /\ Row(b, i).kind = "row" /\ Key(d, i).kind = "key"
      BY LocksExist, KindsOfLocks
    <3> QED
      BY <3>1, WhatComesBefore
  <2> QED
    BY <1>7, <2>1, <2>2, <2>3 DEF InOrder
<1>11. Key(d, i) \in tx[e].held
  BY <1>5, <1>9
<1> QED
  BY <1>1, <1>9, <1>10, <1>11 DEF IInv, Exclusive

\* Nor for a key: the holder of the last key waited for would wait for a later one.
LEMMA NoKeys ==
  ASSUME IInv, NEW D \in Circles, \A a, b \in D : ~Rivals(a, b)
  PROVE  \A a \in D : \A l : Waits(D, a, l) => l.kind # "key"
<1>1. D \subseteq Actor
  BY DEF Circles
<1> DEFINE Items == {i \in Item : \E a \in D, b \in Branch : Waits(D, a, Key(b, i))}
           Branches(i) == {b \in Branch : \E a \in D : Waits(D, a, Key(b, i))}
<1>2. SUFFICES ASSUME NEW a0 \in D, NEW l0, Waits(D, a0, l0), l0.kind = "key"
               PROVE  FALSE
  OBVIOUS
<1>3. Items # {} /\ Items \subseteq 0..MaxId
  <2>1. \E b \in Branch, i \in Item : l0 = Key(b, i)
    BY <1>2, OnStockOnly, LockKinds
  <2> QED
    BY <1>2, <2>1, IdsAreOrdered
<1>4. PICK i \in Items : \A j \in Items : j <= i
  <2> HIDE DEF Items
  <2> QED
    BY <1>3, IdsAreOrdered, Largest
<1>5. i \in Item /\ Branches(i) # {} /\ Branches(i) \subseteq 0..MaxId
  BY IdsAreOrdered
<1>6. PICK b \in Branches(i) : \A d \in Branches(i) : d <= b
  <2> HIDE DEF Branches
  <2> QED
    BY <1>5, IdsAreOrdered, Largest
<1>7. PICK c \in D : Key(b, i) \in tx[c].held
  BY DEF Waits
<1>8. PICK m : Waits(D, c, m)
  BY EveryoneWaits
<1>9. m \in Lock /\ m.kind \in {"ingredient", "key"} /\ m \in tx[c].want
  BY <1>8, OnStockOnly, NoRows DEF Waits, Awaits
<1>10. Before(tx[c], Key(b, i), m)
  BY <1>1, <1>7, <1>9 DEF IInv, InOrder
<1>11. m.kind = "key" /\ (i < m.item \/ (i = m.item /\ b < m.of))
  <2>1. Key(b, i) \in Lock /\ Key(b, i).kind = "key" /\ Key(b, i).item = i /\ Key(b, i).of = b
    BY <1>5, LocksExist, KindsOfLocks
  <2> QED
    BY <1>9, <1>10, <2>1, WhatComesBefore
<1>12. PICK d \in Branch, j \in Item : m = Key(d, j)
  BY <1>9, <1>11, LockKinds
<1>13. m.item = j /\ m.of = d /\ j \in Items /\ (j = i => d \in Branches(i))
  BY <1>8, <1>12, KindsOfLocks
<1> QED
  BY <1>4, <1>5, <1>6, <1>11, <1>13, IdsAreOrdered

\* So a circle without rivals waits for ingredients only, which only legacy reversals take.
LEMMA NoOtherCircles == IInv => OnlyRivalsDeadlock
<1>1. SUFFICES ASSUME IInv, NEW D \in Circles
               PROVE  \/ \E a, b \in D : D = {a, b} /\ Rivals(a, b)
                      \/ \A a \in D : OverIngredients(a)
  BY DEF OnlyRivalsDeadlock, IInv
<1>2. D \subseteq Actor /\ \A E \in SUBSET D : Stuck(E) => E = D
  BY DEF Circles
<1>3. ASSUME NEW a \in D, NEW b \in D, Rivals(a, b)
      PROVE  D = {a, b}
  <2>1. Stuck({a, b})
    BY <1>1, <1>2, <1>3, RivalsAreStuck
  <2> QED
    BY <1>2, <2>1
<1>4. ASSUME \A a, b \in D : ~Rivals(a, b)
      PROVE  \A a \in D : OverIngredients(a)
  <2>1. \A a \in D : \A l : Waits(D, a, l) => l.kind = "ingredient"
    BY <1>1, <1>4, OnStockOnly, NoRows, NoKeys
  <2> TAKE a \in D
  <2>2. PICK l : Waits(D, a, l)
    BY EveryoneWaits
  <2>3. l.kind = "ingredient" /\ Awaits(a, l) /\ l \in tx[a].want
    BY <2>1, <2>2 DEF Waits, Awaits
  <2> QED
    BY <2>3 DEF OverIngredients
<1> QED
  BY <1>3, <1>4

-----------------------------------------------------------------------------
(* Every step keeps the invariant. *)

\* A transaction begins with no lock.
LEMMA Started ==
  ASSUME NEW op \in Ops, NEW s \in Sale \cup {None}, NEW locks \in SUBSET Lock
  PROVE  LET t == Start(op, s, locks) IN
         t \in Tx /\ t.op = op /\ t.sale = s /\ t.from = None /\ t.held = {} /\ t.want = locks
BY DEF Start, NoTx, Tx

\* One that ended leaves none.
LEMMA HasEnded ==
  ASSUME NEW t \in Tx
  PROVE  LET e == Ended(t) IN
         e \in Tx /\ e.op = "none" /\ e.from = None /\ e.held = {} /\ e.want = {}
BY DEF Ended, Tx, Ops

\* Only a moves, and takes nothing that anyone has.
LEMMA OneMoves ==
  ASSUME IInv, NEW a \in Actor, NEW t \in Tx,
         tx' = [tx EXCEPT ![a] = t], UNCHANGED <<sale, job>>,
         \A l \in t.held \ tx[a].held : \A b \in Actor : l \notin tx[b].held,
         Footprint(t), InOrder(t),
         t.op = "sell" => /\ sale[t.sale] = "none"
                          /\ \A b \in Actor \ {a} : ~(tx[b].op = "sell" /\ tx[b].sale = t.sale),
         t.op # "sell" => Informed(a)'
  PROVE  IInv'
<1>1. TypeOK'
  BY DEF IInv, TypeOK
<1>2. tx'[a] = t /\ \A b \in Actor \ {a} : tx'[b] = tx[b]
  BY DEF IInv, TypeOK
<1>3. Exclusive'
  BY <1>2 DEF IInv, Exclusive
<1>4. \A b \in Actor : Footprint(tx'[b]) /\ InOrder(tx'[b])
  BY <1>2 DEF IInv
<1>5. \A b \in Actor : Informed(b)'
  <2>1. CASE t.op = "sell"
    BY <1>2, <2>1 DEF IInv, Informed, Settling
  <2>2. CASE t.op # "sell"
    BY <1>2, <2>2 DEF IInv, Informed
  <2> QED
    BY <2>1, <2>2
<1>6. \A s \in Sale : JobFits(s)'
  BY DEF IInv, JobFits
<1>7. \A b \in Actor : Footprint(tx[b])' /\ InOrder(tx[b])'
  BY <1>4 DEF Footprint, InOrder
<1> QED
  BY <1>1, <1>3, <1>5, <1>6, <1>7 DEF IInv

\* Beginning a transaction keeps the invariant.
LEMMA BeginsWell ==
  ASSUME IInv, NEW a \in Actor, NEW t \in Tx, Begin(a, t), UNCHANGED <<sale, job>>,
         t.held = {}, Footprint(t), t.op \notin {"cancel", "reverse"},
         t.op = "sell" => /\ sale[t.sale] = "none"
                          /\ \A b \in Actor : ~(tx[b].op = "sell" /\ tx[b].sale = t.sale)
  PROVE  IInv'
<1>1. tx' = [tx EXCEPT ![a] = t] /\ tx'[a] = t
  BY DEF Begin, IInv, TypeOK
<1>2. InOrder(t)
  BY DEF InOrder
<1>3. t.op # "sell" => Informed(a)'
  BY <1>1 DEF Informed
<1> QED
  BY <1>1, <1>2, <1>3, OneMoves

\* Ending one without a change of sale or job keeps it.
LEMMA EndsWell ==
  ASSUME IInv, NEW a \in Actor, tx' = [tx EXCEPT ![a] = Ended(tx[a])], UNCHANGED <<sale, job>>
  PROVE  IInv'
<1> DEFINE e == Ended(tx[a])
<1>1. e \in Tx /\ e.op = "none" /\ e.from = None /\ e.held = {} /\ e.want = {}
  BY LocksAreTyped, HasEnded DEF IInv
<1> HIDE DEF e
<1>2. Footprint(e) /\ InOrder(e)
  BY <1>1 DEF Footprint, InOrder, Settling
<1>3. tx' = [tx EXCEPT ![a] = e] /\ tx'[a] = e
  BY DEF IInv, TypeOK, e
<1>4. Informed(a)'
  BY <1>1, <1>3 DEF Informed
<1> QED
  BY <1>1, <1>2, <1>3, <1>4, OneMoves

\* A checkout begins.
LEMMA SellStep == ASSUME IInv, NEW a \in Actor, NEW s \in Sale, Sell(a, s) PROVE IInv'
<1> DEFINE t == Start("sell", s, Rows(s))
<1>1. t \in Tx /\ t.op = "sell" /\ t.sale = s /\ t.from = None /\ t.held = {} /\ t.want = Rows(s)
  BY Started, LocksExist DEF Ops
<1>2. Begin(a, t) /\ sale[s] = "none" /\ UNCHANGED <<sale, job>>
      /\ \A b \in Actor : ~(tx[b].op = "sell" /\ tx[b].sale = s)
  BY DEF Sell
<1> HIDE DEF t
<1>3. Footprint(t)
  BY <1>1 DEF Footprint, Settling
<1> QED
  BY <1>1, <1>2, <1>3, BeginsWell

\* A failed job is put back by hand.
LEMMA RequeueStep == ASSUME IInv, NEW a \in Actor, NEW s \in Sale, Requeue(a, s) PROVE IInv'
<1> DEFINE t == Start("requeue", s, {Job(s), Txn(s)})
<1>1. t \in Tx /\ t.op = "requeue" /\ t.sale = s /\ t.from = None /\ t.held = {} /\ t.want = {Job(s), Txn(s)}
  BY Started, LocksExist DEF Ops
<1>2. Begin(a, t) /\ UNCHANGED <<sale, job>>
  BY DEF Requeue
<1> HIDE DEF t
<1>3. Footprint(t)
  BY <1>1 DEF Footprint, Settling
<1> QED
  BY <1>1, <1>2, <1>3, BeginsWell

\* A void or refund begins.
LEMMA UndoStep == ASSUME IInv, NEW a \in Actor, NEW s \in Sale, NEW cash \in BOOLEAN, Undo(a, s, cash) PROVE IInv'
<1> DEFINE locks == {Txn(s)} \cup (IF cash THEN {Shift(At[s])} ELSE {})
           t == Start("undo", s, locks)
<1>1. locks \in SUBSET Lock
  BY LocksExist, SalesAreKnown
<1>2. t \in Tx /\ t.op = "undo" /\ t.sale = s /\ t.from = None /\ t.held = {} /\ t.want = locks
  BY <1>1, Started DEF Ops
<1>3. Begin(a, t) /\ UNCHANGED <<sale, job>>
  BY DEF Undo
<1> HIDE DEF t
<1>4. Footprint(t)
  BY <1>2 DEF Footprint, Settling
<1> QED
  BY <1>2, <1>3, <1>4, BeginsWell

\* A stock-room write begins.
LEMMA DeskStep == ASSUME IInv, NEW a \in Actor, NEW b \in Branch, NEW i \in Item, Desk(a, b, i) PROVE IInv'
<1> DEFINE t == Start("desk", None, {Key(b, i), Row(b, i)})
<1>1. t \in Tx /\ t.op = "desk" /\ t.from = None /\ t.held = {} /\ t.want = {Key(b, i), Row(b, i)}
  BY Started, LocksExist DEF Ops
<1>2. Begin(a, t) /\ UNCHANGED <<sale, job>>
  BY DEF Desk
<1> HIDE DEF t
<1>3. Footprint(t)
  BY <1>1, KindsOfLocks DEF Footprint, Settling
<1> QED
  BY <1>1, <1>2, <1>3, BeginsWell

\* A transfer begins.
LEMMA MoveStep ==
  ASSUME IInv, NEW a \in Actor, NEW from \in Branch, NEW to \in Branch, NEW i \in Item, Move(a, from, to, i)
  PROVE  IInv'
<1> DEFINE locks == {Key(from, i), Key(to, i), Row(from, i), Row(to, i)}
           u == Start("move", None, locks)
           t == [u EXCEPT !.from = from]
<1>1. u \in Tx /\ u.op = "move" /\ u.held = {} /\ u.want = locks
  BY Started, LocksExist DEF Ops
<1> HIDE DEF u
<1>2. t \in Tx /\ t.op = "move" /\ t.held = {} /\ t.want = locks
  BY <1>1 DEF Tx
<1>3. Begin(a, t) /\ UNCHANGED <<sale, job>>
  BY DEF Move, u
<1>4. \A b \in Branch, j \in Item : Row(b, j) \in locks => Key(b, j) \in locks
  BY KindsOfLocks
<1>5. \A l \in locks : l.kind \in {"key", "row"}
  BY KindsOfLocks
<1> HIDE DEF t, locks
<1>6. Footprint(t)
  BY <1>2, <1>4, <1>5 DEF Footprint, Settling
<1> QED
  BY <1>2, <1>3, <1>6, BeginsWell

\* A drawer is closed.
LEMMA CloseStep == ASSUME IInv, NEW a \in Actor, NEW b \in Branch, Close(a, b) PROVE IInv'
<1> DEFINE t == Start("close", None, {Shift(b)})
<1>1. t \in Tx /\ t.op = "close" /\ t.from = None /\ t.held = {} /\ t.want = {Shift(b)}
  BY Started, LocksExist DEF Ops
<1>2. Begin(a, t) /\ UNCHANGED <<sale, job>>
  BY DEF Close
<1> HIDE DEF t
<1>3. Footprint(t)
  BY <1>1, KindsOfLocks DEF Footprint, Settling
<1> QED
  BY <1>1, <1>2, <1>3, BeginsWell

\* A worker claims a job and begins to settle it.
LEMMA ClaimStep == ASSUME IInv, NEW a \in Actor, NEW s \in Sale, Claim(a, s) PROVE IInv'
<1> DEFINE locks == {Job(s), Txn(s)} \cup Keys(s) \cup Rows(s)
           t == Start("apply", s, locks)
<1>1. t \in Tx /\ t.op = "apply" /\ t.sale = s /\ t.from = None /\ t.held = {} /\ t.want = locks
  BY Started, LocksExist DEF Ops
<1>2. /\ Begin(a, t) /\ sale' = sale
      /\ job' = [job EXCEPT ![s] = [status |-> "processing", owner |-> a]]
      /\ job[s].status \in {"pending", "processing"} /\ \A b \in Actor : Job(s) \notin tx[b].held
  BY DEF Claim, Claimable
<1> HIDE DEF t
<1>3. Footprint(t) /\ InOrder(t)
  BY <1>1 DEF Footprint, InOrder, Settling
<1>4. tx'[a] = t /\ \A b \in Actor \ {a} : tx'[b] = tx[b]
  BY <1>2 DEF Begin, IInv, TypeOK
<1>5. job'[s].status = "processing" /\ \A r \in Sale \ {s} : job'[r] = job[r]
  BY <1>2 DEF IInv, TypeOK
<1>6. TypeOK'
  BY <1>1, <1>2 DEF IInv, TypeOK, Begin
<1>7. Exclusive'
  BY <1>1, <1>4 DEF IInv, Exclusive
<1>8. \A b \in Actor : Footprint(tx[b])' /\ InOrder(tx[b])'
  <2>1. \A b \in Actor : Footprint(tx'[b]) /\ InOrder(tx'[b])
    BY <1>3, <1>4 DEF IInv
  <2> QED
    BY <2>1 DEF Footprint, InOrder
<1>9. ASSUME NEW b \in Actor
      PROVE  Informed(b)'
  <2>1. CASE b = a
    BY <1>1, <1>4, <2>1 DEF Informed
  <2>2. CASE b # a
    <3>1. tx'[b] = tx[b] /\ Informed(b)
      BY <1>4, <2>2 DEF IInv
    <3>2. CASE tx[b].sale = s
      BY <1>1, <1>2, <1>4, <3>1, <3>2 DEF Informed
    <3>3. CASE tx[b].sale # s
      BY <1>1, <1>2, <1>4, <3>1, <3>3 DEF Informed, IInv, Footprint, Settling
    <3> QED
      BY <3>2, <3>3
  <2> QED
    BY <2>1, <2>2
<1>10. \A r \in Sale : JobFits(r)'
  BY <1>2, <1>5 DEF IInv, JobFits
<1> QED
  BY <1>6, <1>7, <1>8, <1>9, <1>10 DEF IInv

\* A lock is granted and its condition tested.
LEMMA TakeStep == ASSUME IInv, NEW a \in Actor, NEW l \in tx[a].want, Take(a, l) PROVE IInv'
<1> DEFINE t == [tx[a] EXCEPT !.held = @ \cup {l}, !.want = @ \ {l}]
           s == tx[a].sale
<1>1. tx[a] \in Tx /\ l \in Lock /\ Awaits(a, l) /\ UNCHANGED <<sale, job>>
      /\ \A b \in Actor : l \notin tx[b].held
  BY LocksAreTyped DEF IInv, Take
<1>2. CASE ~Passes(a, l)
  BY <1>2, EndsWell DEF Take
<1>3. CASE Passes(a, l)
  <2>1. tx' = [tx EXCEPT ![a] = t]
    BY <1>3 DEF Take
  <2>2. /\ t \in Tx /\ t.op = tx[a].op /\ t.sale = s /\ t.from = tx[a].from
        /\ t.held = tx[a].held \cup {l} /\ t.want = tx[a].want \ {l}
    BY <1>1 DEF Tx
  <2>3. Footprint(tx[a]) /\ InOrder(tx[a]) /\ Informed(a)
    BY DEF IInv
  <2> HIDE DEF t
  <2>4. Footprint(t)
    <3>1. t.held \cup t.want = tx[a].held \cup tx[a].want
      BY <2>2
    <3> QED
      BY <2>2, <2>3, <3>1 DEF Footprint
  <2>5. InOrder(t)
    <3>1. \A k, m : Before(t, k, m) <=> Before(tx[a], k, m)
      BY <2>2 DEF Before, Sorted, Line
    <3> QED
      BY <1>1, <2>2, <2>3, <3>1 DEF InOrder, Awaits
  <2>6. t.op = "sell" => /\ sale[s] = "none"
                         /\ \A b \in Actor \ {a} : ~(tx[b].op = "sell" /\ tx[b].sale = s)
    BY <2>2, <2>3 DEF Informed
  <2>7. tx'[a] = t
    BY <2>1 DEF IInv, TypeOK
  <2>8. t.op # "sell" => Informed(a)'
    <3>1. /\ l = Txn(s) /\ t.op = "undo" => sale[s] = "completed"
          /\ l = Job(s) /\ t.op \in {"apply", "fail"} => job[s].status = "processing"
          /\ l = Job(s) /\ t.op = "requeue" => job[s].status = "failed"
          /\ l = Job(s) /\ t.op = "cancel" => job[s].status \in {"pending", "failed"}
      BY <1>3, <2>2, KindsOfLocks DEF Passes
    <3>2. t.op \in {"cancel", "reverse"} => Txn(s) \in tx[a].held
      BY <2>2, <2>3 DEF Footprint
    <3> QED
      BY <1>1, <2>2, <2>3, <2>7, <3>1, <3>2 DEF Informed
  <2> QED
    BY <1>1, <2>1, <2>2, <2>4, <2>5, <2>6, <2>8, OneMoves
<1> QED
  BY <1>2, <1>3

\* The undoing of a sale reads the job and chooses to cancel or to reverse.
LEMMA ReadsJobStep == ASSUME IInv, NEW a \in Actor, ReadsJob(a) PROVE IInv'
<1> DEFINE s == tx[a].sale
           Way(op, locks) == [tx[a] EXCEPT !.op = op, !.want = locks]
<1>1. /\ tx[a] \in Tx /\ tx[a].op = "undo" /\ tx[a].want = {} /\ UNCHANGED <<sale, job>>
      /\ s \in Sale /\ Txn(s) \in tx[a].held /\ tx[a].held \subseteq {Txn(s), Shift(At[s])}
      /\ tx[a].from = None /\ sale[s] = "completed" /\ job[s].status \in {"none", "pending", "processing", "completed", "failed", "cancelled"}
  BY LocksAreTyped DEF IInv, ReadsJob, Footprint, Informed, TypeOK, Settling
<1>2. ASSUME NEW op \in {"cancel", "reverse"}, NEW locks \in SUBSET Lock, tx' = [tx EXCEPT ![a] = Way(op, locks)],
             op = "cancel" => locks = {Job(s)} \cup Rows(s),
             op = "reverse" => locks \subseteq Ingredients(s) \cup Keys(s) \cup Rows(s)
                               /\ job[s].status \in {"none", "completed", "cancelled"}
      PROVE  IInv'
  <2>1. /\ Way(op, locks) \in Tx /\ Way(op, locks).op = op /\ Way(op, locks).sale = s
        /\ Way(op, locks).from = None /\ Way(op, locks).held = tx[a].held /\ Way(op, locks).want = locks
    BY <1>1 DEF Tx, Ops
  <2>2. tx'[a] = Way(op, locks)
    BY <1>2 DEF IInv, TypeOK
  <2> DEFINE t == Way(op, locks)
  <2> HIDE DEF Way, t
  <2>3. /\ tx' = [tx EXCEPT ![a] = t] /\ tx'[a] = t
        /\ t \in Tx /\ t.op = op /\ t.sale = s /\ t.from = None /\ t.held = tx[a].held /\ t.want = locks
    BY <1>2, <2>1, <2>2 DEF t
  <2>4. Footprint(t)
    BY <1>1, <1>2, <2>3 DEF Footprint, Settling
  <2>5. InOrder(t)
    <3>1. SUFFICES ASSUME NEW k \in t.held, NEW m \in t.want
                   PROVE  Before(t, k, m)
      BY DEF InOrder
    <3>2. k.kind \in {"txn", "shift"} /\ m.kind \in {"job", "ingredient", "key", "row"} /\ t.op \notin Settling
      BY <1>1, <1>2, <2>3, KindsOfLocks DEF Settling
    <3> QED
      BY <3>2, Stages DEF Before
  <2>6. Informed(a)'
    <3>1. Job(s) \notin t.held
      BY <1>1, <2>3, KindsOfLocks
    <3> QED
      BY <1>1, <1>2, <2>3, <3>1 DEF Informed
  <2> QED
    BY <1>1, <1>2, <2>3, <2>4, <2>5, <2>6, OneMoves
<1>3. CASE job[s].status \in {"pending", "failed"}
  <2>1. tx' = [tx EXCEPT ![a] = Way("cancel", {Job(s)} \cup Rows(s))]
    BY <1>3 DEF ReadsJob
  <2>2. {Job(s)} \cup Rows(s) \in SUBSET Lock
    BY <1>1, LocksExist
  <2> HIDE DEF Way
  <2> QED
    BY <1>2, <2>1, <2>2
<1>4. CASE job[s].status \in {"none", "completed"}
  <2>1. tx' = [tx EXCEPT ![a] = Way("reverse", Ingredients(s) \cup Keys(s) \cup Rows(s))]
    BY <1>4 DEF ReadsJob
  <2>2. Ingredients(s) \cup Keys(s) \cup Rows(s) \in SUBSET Lock
    BY <1>1, LocksExist
  <2> HIDE DEF Way
  <2> QED
    BY <1>2, <1>4, <2>1, <2>2
<1>5. CASE job[s].status = "cancelled"
  BY <1>1, <1>5 DEF IInv, JobFits
<1>6. CASE job[s].status = "processing"
  <2>1. tx' = [tx EXCEPT ![a] = Ended(tx[a])]
    BY <1>6 DEF ReadsJob
  <2> QED
    BY <1>1, <2>1, EndsWell
<1> QED
  BY <1>1, <1>3, <1>4, <1>5, <1>6

\* A transaction is rolled back.
LEMMA FailsStep == ASSUME IInv, NEW a \in Actor, Fails(a) PROVE IInv'
<1>1. UNCHANGED <<sale, job>>
  BY DEF Fails
<1>2. ASSUME tx[a].op = "apply", NEW last \in BOOLEAN, tx' = [tx EXCEPT ![a] = Recording(tx[a].sale, last)]
      PROVE  IInv'
  <2> DEFINE s == tx[a].sale
             locks == {Job(s)} \cup (IF last THEN {Txn(s)} ELSE {})
             t == Start("fail", s, locks)
  <2>1. s \in Sale
    BY <1>2 DEF IInv, Footprint, Settling
  <2>2. t \in Tx /\ t.op = "fail" /\ t.sale = s /\ t.from = None /\ t.held = {} /\ t.want = locks
    BY <2>1, Started, LocksExist DEF Ops
  <2>3. tx' = [tx EXCEPT ![a] = t] /\ tx'[a] = t
    BY <1>2 DEF Recording, IInv, TypeOK
  <2> HIDE DEF t
  <2>4. Footprint(t) /\ InOrder(t)
    BY <2>1, <2>2 DEF Footprint, InOrder, Settling
  <2>5. Informed(a)'
    BY <2>2, <2>3 DEF Informed
  <2> QED
    BY <1>1, <2>2, <2>3, <2>4, <2>5, OneMoves
<1>3. CASE tx' = [tx EXCEPT ![a] = Ended(tx[a])]
  BY <1>1, <1>3, EndsWell
<1> QED
  BY <1>2, <1>3 DEF Fails

\* A transaction commits what it decided.
LEMMA CommitStep == ASSUME IInv, NEW a \in Actor, Commit(a) PROVE IInv'
<1> DEFINE s == tx[a].sale
           e == Ended(tx[a])
<1>1. /\ tx[a].op \notin {"none", "undo"} /\ tx[a].want = {} /\ tx[a].op \in Ops
      /\ Footprint(tx[a]) /\ Informed(a) /\ tx' = [tx EXCEPT ![a] = e]
      /\ job' = JobAfter(a) /\ sale' = SaleAfter(a)
  BY LocksAreTyped DEF Commit, IInv, Tx
<1>2. e \in Tx /\ e.op = "none" /\ e.from = None /\ e.held = {} /\ e.want = {}
  BY LocksAreTyped, HasEnded DEF IInv
<1> HIDE DEF e
<1>3. tx' = [tx EXCEPT ![a] = e] /\ tx'[a] = e /\ \A b \in Actor \ {a} : tx'[b] = tx[b]
  BY <1>1 DEF IInv, TypeOK
<1>4. CASE tx[a].op \in {"desk", "move", "close"}
  <2>1. UNCHANGED <<sale, job>>
    BY <1>1, <1>4 DEF JobAfter, SaleAfter
  <2> QED
    BY <1>1, <2>1, EndsWell DEF e
<1>5. CASE tx[a].op \in {"sell", "apply", "fail", "requeue", "cancel", "reverse"}
  <2>1. s \in Sale
    BY <1>1, <1>5 DEF Footprint, Settling
  \* What became of its sale and its job; of the others nothing.
  <2>2. /\ \A r \in Sale \ {s} : job'[r] = job[r] /\ sale'[r] = sale[r]
        /\ tx[a].op = "sell" => sale'[s] = "completed" /\ job'[s].status = "pending"
        /\ tx[a].op \in {"apply", "fail", "requeue"} =>
             sale'[s] = sale[s] /\ job'[s].status \in {"pending", "completed", "failed"}
        /\ tx[a].op = "cancel" => sale'[s] = "undone" /\ job'[s].status = "cancelled"
        /\ tx[a].op = "reverse" => sale'[s] = "undone" /\ job'[s] = job[s]
        /\ tx[a].op = "apply" => job'[s].status = "completed"
        /\ TypeOK'
    <3>1. TypeOK
      BY DEF IInv
    <3>2. tx' \in [Actor -> Tx]
      BY <1>2, <1>3, <3>1 DEF TypeOK
    <3>3. CASE tx[a].op = "sell"
      BY <1>1, <2>1, <3>1, <3>2, <3>3 DEF JobAfter, SaleAfter, TypeOK
    <3>4. CASE tx[a].op = "apply"
      BY <1>1, <2>1, <3>1, <3>2, <3>4 DEF JobAfter, SaleAfter, TypeOK
    <3>5. CASE tx[a].op = "fail"
      BY <1>1, <2>1, <3>1, <3>2, <3>5 DEF JobAfter, SaleAfter, TypeOK
    <3>6. CASE tx[a].op = "requeue"
      BY <1>1, <2>1, <3>1, <3>2, <3>6 DEF JobAfter, SaleAfter, TypeOK
    <3>7. CASE tx[a].op = "cancel"
      BY <1>1, <2>1, <3>1, <3>2, <3>7 DEF JobAfter, SaleAfter, TypeOK
    <3>8. CASE tx[a].op = "reverse"
      BY <1>1, <2>1, <3>1, <3>2, <3>8 DEF JobAfter, SaleAfter, TypeOK
    <3> QED
      BY <1>5, <3>3, <3>4, <3>5, <3>6, <3>7, <3>8
  \* What it held, so that nobody else does, and what it knew.
  <2>3. /\ tx[a].op = "sell" => sale[s] = "none" /\ job[s].status = "none"
        /\ tx[a].op \in {"apply", "fail", "requeue", "cancel"} => Job(s) \in tx[a].held /\ job[s].status \in {"pending", "processing", "failed"}
        /\ tx[a].op \in {"apply", "fail", "requeue"} => job[s].status \in {"processing", "failed"}
        /\ tx[a].op \in {"cancel", "reverse"} => Txn(s) \in tx[a].held /\ sale[s] = "completed"
    BY <1>1, <2>1 DEF IInv, JobFits, Footprint, Informed, Settling
  <2>4. \A b \in Actor \ {a} : tx[b].held \cap tx[a].held = {}
    BY DEF IInv, Exclusive
  <2>5. Exclusive'
    BY <1>2, <1>3 DEF IInv, Exclusive
  <2>6. \A b \in Actor : Footprint(tx[b])' /\ InOrder(tx[b])'
    <3>1. Footprint(e) /\ InOrder(e)
      BY <1>2 DEF Footprint, InOrder, Settling
    <3>2. \A b \in Actor : Footprint(tx'[b]) /\ InOrder(tx'[b])
      BY <1>3, <3>1 DEF IInv
    <3> QED
      BY <3>2 DEF Footprint, InOrder
  <2>7. ASSUME NEW b \in Actor
        PROVE  Informed(b)'
    <3>1. CASE b = a
      BY <1>2, <1>3, <3>1 DEF Informed
    <3>2. CASE b # a /\ tx[b].sale # s
      <4>1. tx'[b] = tx[b] /\ Informed(b) /\ Footprint(tx[b])
        BY <1>3, <3>2 DEF IInv
      <4> QED
        BY <1>2, <1>3, <2>2, <3>2, <4>1 DEF Informed, Footprint, Settling
    <3>3. CASE b # a /\ tx[b].sale = s
      <4>1. tx'[b] = tx[b] /\ Informed(b) /\ Footprint(tx[b]) /\ tx[b].held \cap tx[a].held = {}
        BY <1>3, <2>4, <3>3 DEF IInv
      <4>2. CASE tx[a].op = "sell"
        BY <1>1, <2>2, <2>3, <3>3, <4>1, <4>2 DEF Informed, Footprint
      <4>3. CASE tx[a].op \in {"apply", "fail", "requeue"}
        BY <1>2, <1>3, <2>1, <2>2, <2>3, <3>3, <4>1, <4>3 DEF Informed, IInv, JobFits
      <4>4. CASE tx[a].op \in {"cancel", "reverse"}
        BY <2>2, <2>3, <3>3, <4>1, <4>4 DEF Informed, Footprint
      <4> QED
        BY <1>5, <4>2, <4>3, <4>4
    <3> QED
      BY <3>1, <3>2, <3>3
  <2>8. \A r \in Sale : JobFits(r)'
    BY <1>5, <2>1, <2>2, <2>3 DEF IInv, JobFits
  <2> QED
    BY <2>2, <2>5, <2>6, <2>7, <2>8 DEF IInv
<1> QED
  BY <1>1, <1>4, <1>5 DEF Ops

-----------------------------------------------------------------------------
(* Results. *)

\* The locks of open transactions are apart, taken in order, and what each transaction
\* knows of its sale and job stays true while it has their locks.
THEOREM Invariance == Spec => []IInv
<1>1. Init => IInv
  <2>1. SUFFICES ASSUME Init
                 PROVE  IInv
    OBVIOUS
  <2>2. NoTx \in Tx /\ NoTx.op = "none" /\ NoTx.from = None /\ NoTx.held = {} /\ NoTx.want = {}
    BY DEF NoTx, Tx, Ops
  <2>3. \A a \in Actor : tx[a] = NoTx
    BY <2>1 DEF Init
  <2> HIDE DEF NoTx
  <2>4. TypeOK
    BY <2>1, <2>2 DEF Init, TypeOK
  <2>5. \A a \in Actor : Footprint(tx[a]) /\ InOrder(tx[a]) /\ Informed(a)
    BY <2>2, <2>3 DEF Footprint, InOrder, Informed, Settling
  <2>6. Exclusive
    BY <2>2, <2>3 DEF Exclusive
  <2>7. \A s \in Sale : JobFits(s)
    BY <2>1 DEF Init, JobFits
  <2> QED
    BY <2>4, <2>5, <2>6, <2>7 DEF IInv
<1>2. IInv /\ [Next]_vars => IInv'
  <2>1. SUFFICES ASSUME IInv, [Next]_vars
                 PROVE  IInv'
    OBVIOUS
  <2>2. ASSUME NEW a \in Actor, NEW s \in Sale, Sell(a, s) \/ Claim(a, s) \/ Requeue(a, s)
        PROVE  IInv'
    BY <2>1, <2>2, SellStep, ClaimStep, RequeueStep
  <2>3. ASSUME NEW a \in Actor, NEW s \in Sale, NEW cash \in BOOLEAN, Undo(a, s, cash)
        PROVE  IInv'
    BY <2>1, <2>3, UndoStep
  <2>4. ASSUME NEW a \in Actor, NEW b \in Branch, Close(a, b)
        PROVE  IInv'
    BY <2>1, <2>4, CloseStep
  <2>5. ASSUME NEW a \in Actor, NEW b \in Branch, NEW i \in Item,
               Desk(a, b, i) \/ \E to \in Branch : Move(a, b, to, i)
        PROVE  IInv'
    BY <2>1, <2>5, DeskStep, MoveStep
  <2>6. ASSUME NEW a \in Actor, Goes(a)
        PROVE  IInv'
    BY <2>1, <2>6, TakeStep, ReadsJobStep, CommitStep DEF Goes
  <2>7. ASSUME NEW a \in Actor, Fails(a)
        PROVE  IInv'
    BY <2>1, <2>7, FailsStep
  <2>8. CASE Victim
    <3>1. PICK a \in Actor : Fails(a)
      BY <2>8 DEF Victim, Circles
    <3> QED
      BY <2>7, <3>1
  <2>9. CASE UNCHANGED vars
    BY <2>1, <2>9
       DEF vars, IInv, TypeOK, Exclusive, Footprint, InOrder, Informed, JobFits
  <2> QED
    BY <2>1, <2>2, <2>3, <2>4, <2>5, <2>6, <2>7, <2>8, <2>9 DEF Next
<1> QED
  BY <1>1, <1>2, PTL DEF Spec

\* For any number of transactions: whoever waits in a circle is undoing a sale that
\* another is settling, or reversing sales from before the universal inventory.
THEOREM OnlyKnownCircles == Spec => []OnlyRivalsDeadlock
BY Invariance, NoOtherCircles, PTL

-----------------------------------------------------------------------------
(* The audit outbox: one chain. *)

\* Every entry is a delivered group's or a finished call's, and there once.
Sources ==
  /\ IsFiniteSet(log)
  /\ \A e, f \in log : e.id = f.id => e = f
  /\ \A e \in log :
       \/ \E g \in Group : \E i \in 1..Size[g] : e.id = <<g, i>> /\ box[g].status = "delivered"
       \/ \E x \in Writer : e.id = <<x, 0>> /\ writer[x].at = "done"

\* The outbox's entries are one chain, in order.
Chain ==
  \A e \in FromOutbox :
    /\ \A f \in FromOutbox : e.prev = f.prev => e = f
    /\ \A f \in FromOutbox : e.at = f.at => e = f
    /\ e.prev = Genesis \/ \E f \in log : f.id = e.prev /\ f.at < e.at

\* A delivery that has read the tail has its group, and nothing of the outbox's has come
\* after that tail.
Appending(w) ==
  LET t == work[w].tail IN
  work[w].at = "append" =>
    /\ Owns(w, Turn(w))
    /\ t = Root \/ \E e \in log : e.id = t.id /\ e.at = t.at
    /\ \A e \in FromOutbox : e.at <= t.at /\ e.prev # t.id

\* Whoever may fail once more has not failed too often.
TriesLeft ==
  \A g \in Group : box[g].status \in {"absent", "pending", "processing"} => box[g].attempts < MaxAttempts

AuditInv == AuditTypeOK /\ TriesLeft /\ Sources /\ Chain /\ \A w \in Worker : Appending(w)

-----------------------------------------------------------------------------

\* A batch has an oldest group.
LEMMA SomeTurn ==
  ASSUME NEW S \in SUBSET Group, S # {}
  PROVE  Min(S) \in S
<1> DEFINE R == OpToRel(<, Nat)
<1>1. IsWellFoundedOn(R, Nat)
  BY NatLessThanWellFounded
<1>2. S \subseteq Nat
  BY GroupsAreOrdered
<1>3. PICK m \in S : \A n \in S : ~(<<n, m>> \in R)
  BY <1>1, <1>2, IsWellFoundedOnSubset, WFMin
<1>4. \A n \in S : ~(n < m)
  BY <1>2, <1>3 DEF OpToRel
<1>5. \A n \in S : m <= n
  BY <1>2, <1>4
<1> QED BY <1>3, <1>5 DEF Min

\* A worker with work left has a group whose turn it is.
LEMMA TurnsAreDue ==
  ASSUME AuditTypeOK, NEW w \in Worker, work[w].at \in {"deliver", "append", "record"}
  PROVE  Turn(w) \in work[w].todo /\ Turn(w) \in Group
BY SomeTurn DEF AuditTypeOK, Works, Turn

\* Ids say who wrote an entry.
LEMMA IdsAreApart ==
  /\ \A g \in Group, x \in Writer : \A i : <<g, i>> # <<x, 0>>
  /\ \A g \in Group : \A i : <<g, i>> # Genesis
  /\ \A x \in Writer : \A i : <<x, i>> # Genesis
  /\ \A g \in Group : \A i : <<g, i>>[1] = g
  /\ \A x \in Writer : <<x, 0>>[1] \notin Group
BY NamesAreFresh DEF Genesis

\* What a step that appends nothing leaves as it was.
LEMMA SourcesStay ==
  ASSUME Sources, log' = log,
         \A g \in Group : box[g].status = "delivered" => box'[g].status = "delivered",
         \A x \in Writer : writer[x].at = "done" => writer'[x].at = "done"
  PROVE  Sources'
BY DEF Sources

\* Nothing appended leaves the chain as it was.
LEMMA ChainStays ==
  ASSUME Chain, log' = log
  PROVE  Chain'
BY DEF Chain, FromOutbox

\* A delivery is disturbed by nobody who leaves its group alone.
LEMMA AppendingStays ==
  ASSUME NEW w \in Worker, Appending(w), work'[w] = work[w], log' = log,
         work[w].at = "append" => box'[Turn(w)].status = "processing" /\ box'[Turn(w)].owner = w
  PROVE  Appending(w)'
BY DEF Appending, Turn, Owns, FromOutbox

\* A worker goes on, but not to an append: the groups that are being appended keep
\* their worker.
LEMMA GoesOn ==
  ASSUME AuditInv, NEW w \in Worker, NEW k \in Works,
         work' = [work EXCEPT ![w] = k], k.at # "append",
         k.at \in {"deliver", "record"} => k.todo # {},
         UNCHANGED <<log, writer>>, slips' \in 0..MaxSlips, requeues' \in 0..MaxRequeues,
         box' \in [Group -> Boxes],
         \A g \in Group : (box'[g].owner # Nobody) <=> (box'[g].status = "processing"),
         \A g \in Group : box[g].status = "delivered" => box'[g].status = "delivered",
         TriesLeft',
         \A v \in Worker \ {w} : work[v].at = "append" => box'[Turn(v)] = box[Turn(v)]
  PROVE  AuditInv'
<1>1. work'[w] = k /\ \A v \in Worker \ {w} : work'[v] = work[v]
  BY DEF AuditInv, AuditTypeOK
<1>2. AuditTypeOK'
  BY <1>1 DEF AuditInv, AuditTypeOK
<1>3. ASSUME NEW v \in Worker
      PROVE  Appending(v)'
  <2>1. CASE v = w
    BY <1>1, <2>1 DEF Appending
  <2>2. CASE v # w
    BY <1>1, <2>2, AppendingStays DEF AuditInv, Appending, Owns
  <2> QED BY <2>1, <2>2
<1> QED BY <1>2, <1>3, SourcesStay, ChainStays DEF AuditInv

\* A group changes that nobody is appending.
LEMMA BoxMoves ==
  ASSUME AuditInv, NEW g \in Group, NEW b \in Boxes,
         box' = [box EXCEPT ![g] = b], b.owner = box[g].owner,
         b.status = box[g].status \/ (box[g].owner = Nobody /\ b.status \notin {"processing", "absent"}),
         box[g].status = "delivered" => b.status = "delivered",
         b.status \in {"absent", "pending", "processing"} => b.attempts < MaxAttempts,
         UNCHANGED <<work, log, writer>>, slips' \in 0..MaxSlips, requeues' \in 0..MaxRequeues
  PROVE  AuditInv'
<1>1. box'[g] = b /\ \A h \in Group \ {g} : box'[h] = box[h]
  BY DEF AuditInv, AuditTypeOK
<1>2. AuditTypeOK'
  BY <1>1 DEF AuditInv, AuditTypeOK
<1>3. ASSUME NEW w \in Worker
      PROVE  Appending(w)'
  <2>1. ASSUME work[w].at = "append"
        PROVE  box'[Turn(w)].status = "processing" /\ box'[Turn(w)].owner = w
    <3>1. Turn(w) \in Group /\ box[Turn(w)].status = "processing" /\ box[Turn(w)].owner = w
      BY <2>1, TurnsAreDue DEF AuditInv, Appending, Owns
    <3> QED BY <1>1, <3>1, NamesAreFresh
  <2> QED BY <2>1, AppendingStays DEF AuditInv
<1>4. TriesLeft'
  BY <1>1 DEF TriesLeft, AuditInv
<1> QED BY <1>1, <1>2, <1>3, <1>4, SourcesStay, ChainStays DEF AuditInv

-----------------------------------------------------------------------------

\* Between two cycles a worker has nothing in hand.
LEMMA IdleIsWork == Idle \in Works
BY DEF Idle, Works, Tips, Root

\* After a group comes the next one, or the end of the cycle.
LEMMA AdvancedIsWork ==
  ASSUME AuditTypeOK, NEW w \in Worker
  PROVE  Advanced(w) \in Works /\ Advanced(w).at \in {"idle", "deliver"}
         /\ (Advanced(w).at = "deliver" => Advanced(w).todo # {})
<1>1. work[w].todo \in SUBSET Group
  BY DEF AuditTypeOK, Works
<1> QED BY <1>1, IdleIsWork DEF Advanced, Works, Tips, Root, Idle

\* Claims, failures and time only change what no delivery has locked.
LEMMA Looking ==
  ASSUME AuditInv, NEW w \in Worker, Look(w)
  PROVE  AuditInv'
<1> DEFINE k == [at |-> "stamp", todo |-> Candidates, tail |-> Root]
<1>1. k \in Works /\ k.at = "stamp"
  BY DEF Works, Tips, Root, Candidates
<1> QED BY <1>1, GoesOn DEF Look, AuditInv, AuditTypeOK, TriesLeft

\* A claim takes over what is still eligible, which nobody is appending.
LEMMA Stamping ==
  ASSUME AuditInv, NEW w \in Worker, Stamp(w)
  PROVE  AuditInv'
<1> DEFINE won == {g \in work[w].todo : Eligible(g)}
           k == IF won = {} THEN Idle ELSE [at |-> "deliver", todo |-> won, tail |-> Root]
<1>1. work[w] \in Works /\ won \subseteq Group
  BY DEF AuditInv, AuditTypeOK, Works
<1>2. k \in Works /\ k.at \in {"idle", "deliver"} /\ (k.at = "deliver" => k.todo # {})
  BY <1>1, IdleIsWork DEF Works, Tips, Root, Idle
<1>3. work' = [work EXCEPT ![w] = k]
  BY DEF Stamp
<1>4. \A g \in Group : box'[g] = IF g \notin won THEN box[g]
        ELSE [box[g] EXCEPT !.status = "processing", !.owner = w, !.stale = FALSE]
  BY DEF Stamp
<1>5. /\ box' \in [Group -> Boxes]
      /\ \A g \in Group : (box'[g].owner # Nobody) <=> (box'[g].status = "processing")
  <2>1. ASSUME NEW g \in Group
        PROVE  box'[g] \in Boxes /\ ((box'[g].owner # Nobody) <=> (box'[g].status = "processing"))
    <3>1. box[g] \in Boxes /\ ((box[g].owner # Nobody) <=> (box[g].status = "processing"))
      BY DEF AuditInv, AuditTypeOK
    <3>2. CASE g \notin won
      BY <1>4, <3>1, <3>2
    <3>3. CASE g \in won
      <4> DEFINE b == [box[g] EXCEPT !.status = "processing", !.owner = w, !.stale = FALSE]
      <4>1. box'[g] = b
        BY <1>4, <3>3
      <4>2. b \in Boxes /\ b.status = "processing" /\ b.owner = w
        BY <3>1 DEF Boxes, Statuses
      <4> QED BY <4>1, <4>2, NamesAreFresh
    <3> QED BY <3>2, <3>3
  <2>2. box' = [g \in Group |-> box'[g]]
    BY DEF Stamp
  <2> QED BY <2>1, <2>2
<1>6. \A g \in Group : box[g].status = "delivered" => box'[g].status = "delivered"
  BY <1>4 DEF Eligible
<1>7. ASSUME NEW v \in Worker \ {w}, work[v].at = "append"
      PROVE  box'[Turn(v)] = box[Turn(v)]
  BY <1>4, <1>7, TurnsAreDue DEF Stamp, Locked, AuditInv
<1>8. TriesLeft'
  <2>1. ASSUME NEW g \in Group
        PROVE  /\ box'[g].attempts = box[g].attempts
               /\ box'[g].status = box[g].status \/ box[g].status \in {"pending", "processing"}
    <3>1. box[g] \in Boxes
      BY DEF AuditInv, AuditTypeOK
    <3> QED BY <1>4, <3>1 DEF Eligible, Boxes
  <2> QED BY <2>1 DEF TriesLeft, AuditInv
<1> QED BY <1>2, <1>3, <1>5, <1>6, <1>7, <1>8, GoesOn DEF Stamp, AuditInv, AuditTypeOK

\* A group that was taken over is left to its worker.
LEMMA Skipping ==
  ASSUME AuditInv, NEW w \in Worker, Skip(w)
  PROVE  AuditInv'
BY AdvancedIsWork, GoesOn DEF Skip, AuditInv, AuditTypeOK, TriesLeft

\* A delivery that fails gives the chain back and appends nothing.
LEMMA Failing ==
  ASSUME AuditInv, NEW w \in Worker, Fail(w)
  PROVE  AuditInv'
<1> DEFINE k == [work[w] EXCEPT !.at = "record", !.tail = Root]
<1>1. work[w] \in Works /\ work[w].todo # {}
  BY DEF AuditInv, AuditTypeOK, Fail
<1>2. k \in Works /\ k.at = "record" /\ k.todo # {}
  BY <1>1 DEF Works, Tips, Root
<1>3. work' = [work EXCEPT ![w] = k]
  BY DEF Fail
<1>4. slips' \in 0..MaxSlips /\ requeues' \in 0..MaxRequeues
  BY BoundsAreCounts DEF Fail, Slip, AuditInv, AuditTypeOK
<1> QED BY <1>2, <1>3, <1>4, GoesOn DEF Fail, AuditInv, AuditTypeOK, TriesLeft

\* A failure is recorded on the group only by the worker that has it.
LEMMA RecordingFailure ==
  ASSUME AuditInv, NEW w \in Worker, Record(w)
  PROVE  AuditInv'
<1> DEFINE g == Turn(w)
           n == box[g].attempts + 1
           b == [status |-> Outcome(n), attempts |-> n, owner |-> Nobody,
                 due |-> n >= MaxAttempts, stale |-> FALSE]
<1>1. g \in Group /\ work[w].at = "record" /\ ~Locked(g)
  BY TurnsAreDue DEF AuditInv, Record
<1>2. box[g] \in Boxes
  BY <1>1 DEF AuditInv, AuditTypeOK
<1>3. CASE ~Owns(w, g)
  <2>1. box' = box
    BY <1>3 DEF Record, FailureMatches
  <2> QED BY <2>1, AdvancedIsWork, GoesOn DEF Record, AuditInv, AuditTypeOK, TriesLeft
<1>4. CASE Owns(w, g)
  <2>1. box' = [box EXCEPT ![g] = b]
    BY <1>4 DEF Record, FailureMatches
  <2>2. box[g].status = "processing" /\ n \in 1..MaxAttempts
    BY <1>1, <1>2, <1>4, BoundsAreCounts DEF Owns, Boxes, AuditInv, TriesLeft
  <2>3. /\ b \in Boxes /\ b.owner = Nobody /\ b.status \in {"pending", "stuck"}
        /\ b.status = "pending" => b.attempts < MaxAttempts
    BY <2>2, BoundsAreCounts DEF Boxes, Statuses, Outcome
  <2>4. box'[g] = b /\ \A h \in Group \ {g} : box'[h] = box[h]
    BY <1>1, <2>1 DEF AuditInv, AuditTypeOK
  <2> HIDE DEF b, n
  <2>5. box' \in [Group -> Boxes]
    BY <1>1, <2>1, <2>3 DEF AuditInv, AuditTypeOK
  <2>6. /\ \A h \in Group : (box'[h].owner # Nobody) <=> (box'[h].status = "processing")
        /\ \A h \in Group : box[h].status = "delivered" => box'[h].status = "delivered"
    BY <2>2, <2>3, <2>4 DEF AuditInv, AuditTypeOK
  <2>7. TriesLeft'
    BY <2>3, <2>4 DEF AuditInv, TriesLeft
  <2>8. \A v \in Worker \ {w} : work[v].at = "append" => box'[Turn(v)] = box[Turn(v)]
    BY <1>1, <2>4, TurnsAreDue DEF Locked, AuditInv
  <2> QED BY <2>5, <2>6, <2>7, <2>8, AdvancedIsWork, GoesOn DEF Record, AuditInv, AuditTypeOK
<1> QED BY <1>3, <1>4

\* A cycle that ends early leaves its claims behind.
LEMMA Abandoning ==
  ASSUME AuditInv, NEW w \in Worker, Abandon(w)
  PROVE  AuditInv'
<1>1. slips' \in 0..MaxSlips /\ requeues' \in 0..MaxRequeues
  BY BoundsAreCounts DEF Abandon, Slip, AuditInv, AuditTypeOK
<1>2. Idle.at = "idle"
  BY DEF Idle
<1> QED BY <1>1, <1>2, IdleIsWork, GoesOn DEF Abandon, AuditInv, AuditTypeOK, TriesLeft

\* Committing an event, time passing and a manual recovery.
LEMMA Waiting ==
  ASSUME AuditInv, NEW g \in Group, Enqueue(g) \/ BackoffEnds(g) \/ ClaimGoesStale(g) \/ RequeueGroup(g)
  PROVE  AuditInv'
<1>1. box[g] \in Boxes /\ ((box[g].owner # Nobody) <=> (box[g].status = "processing"))
  BY DEF AuditInv, AuditTypeOK
<1>2. slips' \in 0..MaxSlips /\ requeues' \in 0..MaxRequeues /\ UNCHANGED <<work, log, writer>>
  BY BoundsAreCounts DEF Enqueue, BackoffEnds, ClaimGoesStale, RequeueGroup, Slip, AuditInv, AuditTypeOK
<1>3. box[g].status \in {"absent", "pending", "processing"} => box[g].attempts < MaxAttempts
  BY DEF AuditInv, TriesLeft
<1>4. CASE Enqueue(g)
  <2> DEFINE b == [box[g] EXCEPT !.status = "pending"]
  <2>1. box' = [box EXCEPT ![g] = b] /\ box[g].status = "absent"
    BY <1>4 DEF Enqueue
  <2>2. b \in Boxes /\ b.owner = box[g].owner /\ b.status = "pending" /\ b.attempts = box[g].attempts
    BY <1>1 DEF Boxes, Statuses
  <2> HIDE DEF b
  <2> QED BY <1>1, <1>2, <1>3, <2>1, <2>2, BoxMoves
<1>5. CASE BackoffEnds(g)
  <2> DEFINE b == [box[g] EXCEPT !.due = TRUE]
  <2>1. box' = [box EXCEPT ![g] = b]
    BY <1>5 DEF BackoffEnds
  <2>2. b \in Boxes /\ b.owner = box[g].owner /\ b.status = box[g].status /\ b.attempts = box[g].attempts
    BY <1>1 DEF Boxes, Statuses
  <2> HIDE DEF b
  <2> QED BY <1>1, <1>2, <1>3, <2>1, <2>2, BoxMoves
<1>6. CASE ClaimGoesStale(g)
  <2> DEFINE b == [box[g] EXCEPT !.stale = TRUE]
  <2>1. box' = [box EXCEPT ![g] = b]
    BY <1>6 DEF ClaimGoesStale
  <2>2. b \in Boxes /\ b.owner = box[g].owner /\ b.status = box[g].status /\ b.attempts = box[g].attempts
    BY <1>1 DEF Boxes, Statuses
  <2> HIDE DEF b
  <2> QED BY <1>1, <1>2, <1>3, <2>1, <2>2, BoxMoves
<1>7. CASE RequeueGroup(g)
  <2> DEFINE b == [box[g] EXCEPT !.status = "pending", !.attempts = 0, !.due = TRUE]
  <2>1. box' = [box EXCEPT ![g] = b] /\ box[g].status = "stuck"
    BY <1>7 DEF RequeueGroup
  <2>2. b \in Boxes /\ b.owner = box[g].owner /\ b.status = "pending" /\ b.attempts = 0
    <3>1. 0 \in 0..MaxAttempts
      BY BoundsAreCounts
    <3> QED BY <1>1, <3>1 DEF Boxes, Statuses
  <2>3. b.attempts < MaxAttempts /\ box[g].owner = Nobody
    BY <1>1, <2>1, <2>2, BoundsAreCounts
  <2> HIDE DEF b
  <2> QED BY <1>2, <2>1, <2>2, <2>3, BoxMoves
<1> QED BY <1>4, <1>5, <1>6, <1>7

\* The tail a delivery reads: nothing of the outbox's is later, or continues it.
LEMMA NothingAfterTheTail ==
  ASSUME AuditInv, NEW t \in Tails
  PROVE  /\ t \in Tips
         /\ t = Root \/ \E e \in log : e.id = t.id /\ e.at = t.at
         /\ \A e \in FromOutbox : e.at <= t.at /\ e.prev # t.id
<1>1. CASE log = {}
  BY <1>1 DEF Tails, Tips, Root, FromOutbox
<1>2. CASE log # {}
  <2>1. PICK e \in log : /\ \A h \in log : h.at <= e.at
                         /\ t = [id |-> e.id, at |-> e.at]
    BY <1>2 DEF Tails
  <2>2. e.id \in Ids /\ e.at \in Nat /\ \A h \in log : h.at \in Nat
    BY DEF AuditInv, AuditTypeOK
  <2>3. t \in Tips
    BY <2>1, <2>2 DEF Tips
  <2>4. t.id = e.id /\ t.at = e.at
    BY <2>1
  <2>5. e.id # Genesis
    <3>1. \/ \E g \in Group : \E i \in 1..Size[g] : e.id = <<g, i>>
          \/ \E x \in Writer : e.id = <<x, 0>>
      BY DEF AuditInv, Sources
    <3> QED BY <3>1, IdsAreApart
  <2>6. ASSUME NEW f \in FromOutbox, f.prev = e.id
        PROVE  FALSE
    <3>1. f \in log
      BY DEF FromOutbox
    <3>2. PICK h \in log : h.id = f.prev /\ h.at < f.at
      BY <2>5, <2>6 DEF AuditInv, Chain
    <3>3. h = e
      BY <2>6, <3>2 DEF AuditInv, Sources
    <3> QED BY <2>1, <2>2, <3>1, <3>2, <3>3
  <2> QED BY <2>1, <2>3, <2>4, <2>6 DEF FromOutbox
<1> QED BY <1>1, <1>2

\* A delivery reads the tail when nobody else can append for the outbox.
LEMMA Opening ==
  ASSUME AuditInv, NEW w \in Worker, Open(w)
  PROVE  AuditInv'
<1>1. PICK t \in Tails : work' = [work EXCEPT ![w].at = "append", ![w].tail = t]
  BY DEF Open
<1>2. work[w] \in Works /\ work[w].todo # {} /\ t \in Tips
  BY NothingAfterTheTail DEF AuditInv, AuditTypeOK, Open
<1>3. /\ work'[w].at = "append" /\ work'[w].tail = t /\ work'[w].todo = work[w].todo
      /\ work'[w] \in Works /\ \A v \in Worker \ {w} : work'[v] = work[v]
      /\ work' \in [Worker -> Works]
  BY <1>1, <1>2 DEF Works, AuditInv, AuditTypeOK
<1>4. \A v \in Worker \ {w} : work[v].at # "append"
  BY DEF Open, ChainIsFree
<1>5. AuditTypeOK'
  BY <1>2, <1>3, <1>4 DEF Open, AuditInv, AuditTypeOK
<1>6. ASSUME NEW v \in Worker
      PROVE  Appending(v)'
  <2>1. CASE v = w
    <3>1. Owns(w, Turn(w))' /\ FromOutbox' = FromOutbox
      BY <1>3 DEF Open, Owns, Turn, FromOutbox
    <3> QED BY <1>3, <2>1, <3>1, NothingAfterTheTail DEF Appending, Open, Root
  <2>2. CASE v # w
    BY <1>3, <1>4, <2>2 DEF Appending
  <2> QED BY <2>1, <2>2
<1>7. Sources' /\ Chain' /\ TriesLeft'
  BY SourcesStay, ChainStays DEF Open, AuditInv, TriesLeft
<1> QED BY <1>5, <1>6, <1>7 DEF AuditInv

-----------------------------------------------------------------------------
(* recordAuditLog. *)

\* recordAuditLog up to its write, or failing.
LEMMA WritersAside ==
  ASSUME AuditInv, NEW x \in Writer, WriterReads(x) \/ WriterFails(x)
  PROVE  AuditInv'
<1>1. PICK r : /\ r \in [at : {"start", "read", "done"}, tail : Ids \cup {Genesis}]
               /\ writer' = [writer EXCEPT ![x] = r]
               /\ r.at = "done" \/ writer[x].at # "done"
  <2>1. writer[x] \in [at : {"start", "read", "done"}, tail : Ids \cup {Genesis}]
    BY DEF AuditInv, AuditTypeOK
  <2>2. CASE WriterReads(x)
    <3>1. PICK t \in Tails : writer' = [writer EXCEPT ![x] = [at |-> "read", tail |-> t.id]]
      BY <2>2 DEF WriterReads
    <3>2. t.id \in Ids \cup {Genesis}
      BY NothingAfterTheTail DEF Tips
    <3> QED BY <2>2, <3>1, <3>2 DEF WriterReads
  <2>3. CASE WriterFails(x)
    <3>1. [writer[x] EXCEPT !.at = "done"] \in [at : {"start", "read", "done"}, tail : Ids \cup {Genesis}]
      BY <2>1
    <3>2. [writer[x] EXCEPT !.at = "done"].at = "done"
      BY <2>1
    <3> QED BY <2>3, <3>1, <3>2 DEF WriterFails
  <2> QED BY <2>2, <2>3
<1>2. UNCHANGED <<box, work, log, requeues>> /\ slips' \in 0..MaxSlips
  BY BoundsAreCounts DEF WriterReads, WriterFails, Slip, AuditInv, AuditTypeOK
<1>3. AuditTypeOK'
  BY <1>1, <1>2 DEF AuditInv, AuditTypeOK
<1>4. \A y \in Writer : writer[y].at = "done" => writer'[y].at = "done"
  BY <1>1 DEF AuditInv, AuditTypeOK
<1>5. Sources' /\ Chain' /\ TriesLeft'
  BY <1>2, <1>4, SourcesStay, ChainStays DEF AuditInv, TriesLeft
<1>6. ASSUME NEW w \in Worker
      PROVE  Appending(w)'
  BY <1>2, AppendingStays DEF AuditInv, Appending, Owns
<1> QED BY <1>3, <1>5, <1>6 DEF AuditInv

\* An entry of recordAuditLog is none of the outbox's.
LEMMA Writing ==
  ASSUME AuditInv, NEW x \in Writer, WriterWrites(x)
  PROVE  AuditInv'
<1>1. PICK t \in Tails : \E at \in 1..(t.at + 1) :
        log' = log \cup {[id |-> <<x, 0>>, prev |-> writer[x].tail, at |-> at]}
  BY DEF WriterWrites
<1>2. t.at \in Nat
  BY NothingAfterTheTail DEF Tips
<1>3. PICK n \in Nat : log' = log \cup {[id |-> <<x, 0>>, prev |-> writer[x].tail, at |-> n]}
  BY <1>1, <1>2
<1> DEFINE e == [id |-> <<x, 0>>, prev |-> writer[x].tail, at |-> n]
<1>4. /\ UNCHANGED <<box, work, slips, requeues>>
      /\ writer[x].at = "read" /\ writer' = [writer EXCEPT ![x].at = "done"]
  BY DEF WriterWrites
<1>5. writer[x] \in [at : {"start", "read", "done"}, tail : Ids \cup {Genesis}]
  BY DEF AuditInv, AuditTypeOK
<1>6. /\ writer' \in [Writer -> [at : {"start", "read", "done"}, tail : Ids \cup {Genesis}]]
      /\ writer'[x].at = "done" /\ \A y \in Writer \ {x} : writer'[y] = writer[y]
  BY <1>4, <1>5 DEF AuditInv, AuditTypeOK
<1>7. \A f \in log : f.id # <<x, 0>>
  BY <1>4, IdsAreApart DEF AuditInv, Sources
<1>8. FromOutbox' = FromOutbox
  BY <1>3, IdsAreApart DEF FromOutbox
<1>9. <<x, 0>> \in Ids
  BY DEF Ids
<1>10. AuditTypeOK'
  BY <1>3, <1>4, <1>5, <1>6, <1>9 DEF AuditInv, AuditTypeOK
<1>11. Sources'
  <2>1. IsFiniteSet(log')
    BY <1>3, FS_AddElement DEF AuditInv, Sources
  <2> QED BY <1>3, <1>4, <1>6, <1>7, <2>1 DEF AuditInv, Sources
<1>12. Chain' /\ TriesLeft'
  BY <1>3, <1>4, <1>8 DEF AuditInv, Chain, TriesLeft
<1>13. ASSUME NEW w \in Worker
       PROVE  Appending(w)'
  BY <1>3, <1>4, <1>8 DEF AuditInv, Appending, Owns, Turn
<1> QED BY <1>10, <1>11, <1>12, <1>13 DEF AuditInv

-----------------------------------------------------------------------------
(* The entries of a delivery. *)

Entry(g, t, first, i) ==
  [id |-> <<g, i>>, prev |-> IF i = 1 THEN t.id ELSE <<g, i - 1>>, at |-> first + i - 1]

\* The first k of them.
Entries(g, t, first, k) == {Entry(g, t, first, i) : i \in 1..k}

\* The block of a delivery is all its entries.
LEMMA BlockIsEntries ==
  ASSUME NEW g, NEW t, NEW first
  PROVE  Block(g, t, first) = Entries(g, t, first, Size[g])
BY DEF Block, Entries, Entry

\* There are as many as are counted.
LEMMA EntriesAreCounted ==
  ASSUME NEW g, NEW t, NEW first \in Nat, NEW k \in Nat
  PROVE  IsFiniteSet(Entries(g, t, first, k)) /\ Cardinality(Entries(g, t, first, k)) = k
<1> DEFINE E == Entries(g, t, first, k)
           f == [i \in 1..k |-> Entry(g, t, first, i)]
<1>1. f \in Surjection(1..k, E)
  BY DEF Surjection, Entries
<1>2. \A i, j \in 1..k : f[i] = f[j] => i = j
  BY DEF Entry
<1>3. f \in Injection(1..k, E)
  BY <1>1, <1>2 DEF Injection, IsInjective, Surjection
<1>4. IsFiniteSet(1..k) /\ Cardinality(1..k) = k
  BY FS_Interval
<1> HIDE DEF E, f
<1>5. IsFiniteSet(E) /\ Cardinality(E) = k
  BY <1>1, <1>3, <1>4, FS_Surjection
<1> QED BY <1>5 DEF E

\* What a delivery adds, and what it adds it to.
LEMMA AppendEffect ==
  ASSUME AuditInv, NEW w \in Worker, AppendGroup(w)
  PROVE  \E first \in Nat :
           LET g == Turn(w) t == work[w].tail IN
           /\ g \in Group /\ t \in Tips /\ box[g].status = "processing" /\ box[g].owner = w
           /\ first > t.at
           /\ log' = log \cup Entries(g, t, first, Size[g])
           /\ FromOutbox' = FromOutbox \cup Entries(g, t, first, Size[g])
           /\ \A e \in log : \A i : e.id # <<g, i>>
           /\ \A e \in FromOutbox : e.at <= t.at
           /\ box' = [box EXCEPT ![g].status = "delivered", ![g].owner = Nobody, ![g].stale = FALSE]
<1> DEFINE g == Turn(w)
           t == work[w].tail
<1>1. g \in Group /\ t \in Tips /\ box[g].status = "processing" /\ box[g].owner = w
  BY TurnsAreDue DEF AppendGroup, AuditInv, AuditTypeOK, Works, Appending, Owns
<1>2. t.at \in Nat
  BY <1>1 DEF Tips
<1>3. PICK first \in Stamps(t) : log' = log \cup Block(g, t, first)
  BY DEF AppendGroup
<1>4. first \in Nat /\ first > t.at
  BY <1>2, BoundsAreCounts DEF Stamps
<1>5. log' = log \cup Entries(g, t, first, Size[g])
  BY <1>3, BlockIsEntries
<1>6. \A e \in Entries(g, t, first, Size[g]) : e.id[1] = g
  BY DEF Entries, Entry
<1>7. FromOutbox' = FromOutbox \cup Entries(g, t, first, Size[g])
  BY <1>1, <1>5, <1>6 DEF FromOutbox
<1>8. ASSUME NEW e \in log, NEW i, e.id = <<g, i>>
      PROVE  FALSE
  <2>1. \/ \E h \in Group : \E j \in 1..Size[h] : e.id = <<h, j>> /\ box[h].status = "delivered"
        \/ \E x \in Writer : e.id = <<x, 0>>
    BY DEF AuditInv, Sources
  <2> QED BY <1>1, <1>8, <2>1, IdsAreApart
<1>9. \A e \in FromOutbox : e.at <= t.at
  BY DEF AuditInv, Appending, AppendGroup
<1>10. box' = [box EXCEPT ![g].status = "delivered", ![g].owner = Nobody, ![g].stale = FALSE]
  BY DEF AppendGroup, Acknowledged
<1> QED BY <1>1, <1>4, <1>5, <1>7, <1>8, <1>9, <1>10

\* The new entries continue the tail and each other, and nothing else does.
LEMMA ChainGrows ==
  ASSUME AuditInv, NEW w \in Worker, AppendGroup(w)
  PROVE  Chain'
<1> DEFINE g == Turn(w)
           t == work[w].tail
<1>1. PICK first \in Nat :
           /\ g \in Group /\ t \in Tips
           /\ first > t.at
           /\ log' = log \cup Entries(g, t, first, Size[g])
           /\ FromOutbox' = FromOutbox \cup Entries(g, t, first, Size[g])
           /\ \A e \in log : \A i : e.id # <<g, i>>
           /\ \A e \in FromOutbox : e.at <= t.at
  BY AppendEffect
<1>2. /\ t.id = Genesis \/ \E e \in log : e.id = t.id /\ e.at = t.at
      /\ \A e \in FromOutbox : e.prev # t.id
  BY DEF AuditInv, Appending, AppendGroup, Root
<1>3. t.at \in Nat /\ Size[g] \in Nat /\ \A e \in log : e.at \in Nat
  BY <1>1, SizesArePositive DEF Tips, AuditInv, AuditTypeOK
<1> DEFINE N == Entries(g, t, first, Size[g])
<1>4. \A e \in N : \E i \in 1..Size[g] :
         e = Entry(g, t, first, i) /\ e.id = <<g, i>> /\ e.at = first + i - 1
         /\ e.prev = IF i = 1 THEN t.id ELSE <<g, i - 1>>
  BY DEF Entries, Entry
<1>5. ASSUME NEW e \in FromOutbox, NEW i, e.prev = <<g, i>>
      PROVE  FALSE
  <2>1. e.prev # Genesis
    BY <1>1, <1>5, IdsAreApart
  <2>2. PICK f \in log : f.id = e.prev
    BY <2>1 DEF AuditInv, Chain
  <2> QED BY <1>1, <1>5, <2>2
<1>6. \A i : t.id # <<g, i>>
  BY <1>1, <1>2, IdsAreApart
<1>7. ASSUME NEW e \in N, NEW f \in N
      PROVE  (e.prev = f.prev => e = f) /\ (e.at = f.at => e = f)
  <2>1. PICK i \in 1..Size[g] :
         e = Entry(g, t, first, i) /\ e.at = first + i - 1
         /\ e.prev = IF i = 1 THEN t.id ELSE <<g, i - 1>>
    BY <1>4
  <2>2. PICK j \in 1..Size[g] :
         f = Entry(g, t, first, j) /\ f.at = first + j - 1
         /\ f.prev = IF j = 1 THEN t.id ELSE <<g, j - 1>>
    BY <1>4
  <2>3. e.at = f.at => i = j
    BY <1>3, <2>1, <2>2
  <2>4. e.prev = f.prev => i = j
    BY <1>3, <1>6, <2>1, <2>2
  <2> QED BY <2>1, <2>2, <2>3, <2>4
<1>8. ASSUME NEW e \in N, NEW f \in FromOutbox
      PROVE  e.prev # f.prev /\ e.at # f.at
  <2>1. PICK i \in 1..Size[g] :
         e.at = first + i - 1 /\ e.prev = IF i = 1 THEN t.id ELSE <<g, i - 1>>
    BY <1>4
  <2>2. f.at \in Nat /\ f.at <= t.at
    BY <1>1, <1>3 DEF FromOutbox
  <2>3. e.at # f.at
    BY <1>1, <1>3, <2>1, <2>2
  <2> QED BY <1>2, <1>5, <2>1, <2>3
<1>9. ASSUME NEW e \in N
      PROVE  e.prev = Genesis \/ \E f \in log' : f.id = e.prev /\ f.at < e.at
  <2>1. PICK i \in 1..Size[g] :
         e.at = first + i - 1 /\ e.prev = IF i = 1 THEN t.id ELSE <<g, i - 1>>
    BY <1>4
  <2>2. CASE i = 1
    BY <1>1, <1>2, <1>3, <2>1, <2>2
  <2>3. CASE i # 1
    <3> DEFINE f == Entry(g, t, first, i - 1)
    <3>1. i - 1 \in 1..Size[g]
      BY <1>3, <2>3
    <3>2. f \in N /\ f.id = <<g, i - 1>> /\ f.at = first + (i - 1) - 1
      BY <3>1 DEF Entries, Entry
    <3>3. f \in log' /\ f.id = e.prev
      BY <1>1, <2>1, <2>3, <3>2
    <3>4. f.at < e.at
      BY <1>3, <2>1, <3>1, <3>2
    <3> QED BY <3>3, <3>4
  <2> QED BY <2>2, <2>3
<1>10. \A e \in FromOutbox : /\ \A f \in FromOutbox : (e.prev = f.prev => e = f) /\ (e.at = f.at => e = f)
                             /\ e.prev = Genesis \/ \E f \in log' : f.id = e.prev /\ f.at < e.at
  BY <1>1 DEF AuditInv, Chain
<1>11. FromOutbox' = FromOutbox \cup N
  BY <1>1
<1> HIDE DEF N
<1> QED BY <1>7, <1>8, <1>9, <1>10, <1>11 DEF Chain

\* A delivery appends its group and acknowledges it.
LEMMA Delivering ==
  ASSUME AuditInv, NEW w \in Worker, AppendGroup(w)
  PROVE  AuditInv'
<1> DEFINE g == Turn(w)
           t == work[w].tail
           b == [box[g] EXCEPT !.status = "delivered", !.owner = Nobody, !.stale = FALSE]
<1>1. PICK first \in Nat :
           /\ g \in Group /\ t \in Tips /\ box[g].status = "processing"
           /\ first > t.at
           /\ log' = log \cup Entries(g, t, first, Size[g])
           /\ \A e \in log : \A i : e.id # <<g, i>>
           /\ box' = [box EXCEPT ![g].status = "delivered", ![g].owner = Nobody, ![g].stale = FALSE]
  BY AppendEffect
<1>2. /\ box[g] \in Boxes /\ box'[g] = b /\ b \in Boxes /\ b.status = "delivered" /\ b.owner = Nobody
      /\ \A h \in Group \ {g} : box'[h] = box[h]
      /\ box' \in [Group -> Boxes]
  BY <1>1 DEF Boxes, Statuses, AuditInv, AuditTypeOK
<1>3. PICK k \in Works : /\ work' = [work EXCEPT ![w] = k] /\ k.at \in {"idle", "deliver", "record"}
                         /\ k.at \in {"deliver", "record"} => k.todo # {}
  <2>1. work[w] \in Works /\ work[w].todo # {}
    BY DEF AuditInv, AuditTypeOK, AppendGroup
  <2> DEFINE r == [work[w] EXCEPT !.at = "record", !.tail = Root]
  <2>2. r \in Works /\ r.at = "record" /\ r.todo # {}
    BY <2>1 DEF Works, Tips, Root
  <2>3. work' = [work EXCEPT ![w] = Advanced(w)] \/ work' = [work EXCEPT ![w] = r]
    BY DEF AppendGroup
  <2> QED BY <2>2, <2>3, AdvancedIsWork DEF AuditInv
<1>4. /\ work'[w] = k /\ \A v \in Worker \ {w} : work'[v] = work[v] /\ work[v].at # "append"
      /\ work' \in [Worker -> Works]
  BY <1>3 DEF AuditInv, AuditTypeOK, AppendGroup
<1>5. slips' \in 0..MaxSlips /\ UNCHANGED <<writer, requeues>>
  BY BoundsAreCounts DEF AppendGroup, Slip, AuditInv, AuditTypeOK
<1> DEFINE N == Entries(g, t, first, Size[g])
<1>6. Size[g] \in Nat \ {0} /\ t.at \in Nat /\ t.id \in Ids \cup {Genesis}
  BY <1>1, SizesArePositive DEF Tips
<1>7. \A e \in N : \E i \in 1..Size[g] : e = Entry(g, t, first, i) /\ e.id = <<g, i>>
  BY DEF Entries, Entry
<1>8. \A i \in 1..Size[g] : <<g, i>> \in Ids
  BY <1>1 DEF Ids
<1>9. ASSUME NEW e \in N
      PROVE  e.id \in Ids /\ e.prev \in Ids \cup {Genesis} /\ e.at \in Nat
  <2>1. PICK i \in 1..Size[g] : /\ e.id = <<g, i>> /\ e.at = first + i - 1
                                /\ e.prev = IF i = 1 THEN t.id ELSE <<g, i - 1>>
    BY DEF Entries, Entry
  <2>2. i # 1 => i - 1 \in 1..Size[g]
    BY <1>6
  <2> QED BY <1>6, <1>8, <2>1, <2>2
<1>10. log' = log \cup N
  BY <1>1
<1> HIDE DEF N, b
<1>11. AuditTypeOK'
  <2>1. \A e \in log' : e.id \in Ids /\ e.prev \in Ids \cup {Genesis} /\ e.at \in Nat
    BY <1>9, <1>10 DEF AuditInv, AuditTypeOK
  <2>2. \A h \in Group : (box'[h].owner # Nobody) <=> (box'[h].status = "processing")
    BY <1>2 DEF AuditInv, AuditTypeOK
  <2>3. \A v \in Worker : work'[v].at \in {"deliver", "append", "record"} => work'[v].todo # {}
    BY <1>3, <1>4 DEF AuditInv, AuditTypeOK
  <2>4. \A u, v \in Worker : work'[u].at = "append" /\ work'[v].at = "append" => u = v
    BY <1>3, <1>4
  <2> QED BY <1>2, <1>4, <1>5, <2>1, <2>2, <2>3, <2>4 DEF AuditInv, AuditTypeOK
<1>12. Sources'
  <2>1. IsFiniteSet(log')
    BY <1>6, <1>10, EntriesAreCounted, FS_Union DEF AuditInv, Sources, N
  <2>2. \A e, f \in log' : e.id = f.id => e = f
    <3>1. \A e, f \in N : e.id = f.id => e = f
      BY <1>7
    <3> QED BY <1>1, <1>7, <1>10, <3>1 DEF AuditInv, Sources
  <2>3. ASSUME NEW e \in log'
        PROVE  \/ \E h \in Group : \E i \in 1..Size[h] : e.id = <<h, i>> /\ box'[h].status = "delivered"
               \/ \E x \in Writer : e.id = <<x, 0>> /\ writer'[x].at = "done"
    <3>1. CASE e \in N
      BY <1>1, <1>2, <1>7, <3>1
    <3>2. CASE e \in log
      BY <1>1, <1>2, <1>5, <3>2 DEF AuditInv, Sources
    <3> QED BY <1>10, <3>1, <3>2
  <2> QED BY <2>1, <2>2, <2>3 DEF Sources
<1>13. ASSUME NEW v \in Worker
       PROVE  Appending(v)'
  BY <1>3, <1>4 DEF Appending
<1>14. TriesLeft'
  BY <1>2 DEF AuditInv, TriesLeft
<1> QED BY <1>11, <1>12, <1>13, <1>14, ChainGrows DEF AuditInv

-----------------------------------------------------------------------------

\* No group, no cycle and no entry.
LEMMA AuditStarts == AuditInit => AuditInv
<1> SUFFICES ASSUME AuditInit PROVE AuditInv
  OBVIOUS
<1>1. AuditTypeOK
  <2>1. box \in [Group -> Boxes]
    BY BoundsAreCounts DEF AuditInit, Boxes, Statuses
  <2>2. \A g \in Group : (box[g].owner # Nobody) <=> (box[g].status = "processing")
    BY DEF AuditInit
  <2>3. work \in [Worker -> Works]
    BY IdleIsWork DEF AuditInit
  <2>4. \A w \in Worker : work[w].at = "idle"
    BY DEF AuditInit, Idle
  <2>5. writer \in [Writer -> [at : {"start", "read", "done"}, tail : Ids \cup {Genesis}]]
    BY DEF AuditInit
  <2>6. log = {} /\ slips \in 0..MaxSlips /\ requeues \in 0..MaxRequeues
    BY BoundsAreCounts DEF AuditInit
  <2> QED BY <2>1, <2>2, <2>3, <2>4, <2>5, <2>6 DEF AuditTypeOK
<1>2. Sources
  BY FS_EmptySet DEF AuditInit, Sources
<1>3. TriesLeft
  BY BoundsAreCounts DEF AuditInit, TriesLeft
<1>4. Chain /\ \A w \in Worker : Appending(w)
  BY DEF AuditInit, Chain, Appending, FromOutbox, Idle
<1> QED BY <1>1, <1>2, <1>3, <1>4 DEF AuditInv

\* Every step keeps the invariant.
LEMMA AuditSteps == AuditInv /\ [AuditNext]_auditVars => AuditInv'
<1> SUFFICES ASSUME AuditInv, [AuditNext]_auditVars
             PROVE  AuditInv'
  OBVIOUS
<1>1. ASSUME NEW w \in Worker, Cycle(w) \/ Fail(w) \/ Abandon(w)
      PROVE  AuditInv'
  BY <1>1, Looking, Stamping, Skipping, Opening, Delivering, RecordingFailure, Failing, Abandoning DEF Cycle
<1>2. CASE UNCHANGED auditVars
  <2>1. Sources' /\ Chain'
    BY <1>2, SourcesStay, ChainStays DEF AuditInv, auditVars
  <2>2. \A w \in Worker : Appending(w)'
    BY <1>2, AppendingStays DEF AuditInv, auditVars, Appending, Owns
  <2> QED BY <1>2, <2>1, <2>2 DEF AuditInv, auditVars, AuditTypeOK, TriesLeft
<1> QED BY <1>1, <1>2, Waiting, WritersAside, Writing DEF AuditNext

\* Whoever polls, fails or is taken over, a delivery in progress has its group to
\* itself, and its tail is the outbox's newest (deliverGroup under auditChainLockId).
THEOREM AuditInvariance == AuditSpec => []AuditInv
BY AuditStarts, AuditSteps, PTL DEF AuditSpec

\* The outbox never forks its chain, for any number of groups, workers and calls to
\* recordAuditLog (deliverGroup's lock, tail read and strictly later stamps).
THEOREM OutboxIsOneChain == AuditSpec => []OutboxNeverForks
<1>1. AuditInv => OutboxNeverForks
  BY DEF AuditInv, Chain, OutboxNeverForks
<1> QED BY <1>1, AuditInvariance, PTL

-----------------------------------------------------------------------------
(* The trail, as AuditTrail lists it. *)

PlaceIn(S, e) == Cardinality({f \in S : f.at <= e.at})
Listed(S) == [n \in 1..Cardinality(S) |-> (CHOOSE e \in S : PlaceIn(S, e) = n).id]

\* Entries that no two are of the same time.
Timed(S) == /\ IsFiniteSet(S)
            /\ \A e \in S : e.at \in Nat
            /\ \A e, f \in S : e.at = f.at => e = f

\* Every place has one entry.
LEMMA PlacesAreTaken ==
  ASSUME NEW S, Timed(S)
  PROVE  /\ Cardinality(S) \in Nat
         /\ \A e \in S : PlaceIn(S, e) \in 1..Cardinality(S)
         /\ \A e, f \in S : PlaceIn(S, e) = PlaceIn(S, f) => e = f
         /\ \A n \in 1..Cardinality(S) : \E e \in S : PlaceIn(S, e) = n
<1> DEFINE U(e) == {f \in S : f.at <= e.at}
<1>1. Cardinality(S) \in Nat
  BY FS_CardinalityType DEF Timed
<1>2. ASSUME NEW e \in S
      PROVE  /\ IsFiniteSet(U(e)) /\ Cardinality(U(e)) \in Nat
             /\ Cardinality(U(e)) <= Cardinality(S)
             /\ Cardinality(U(e)) # 0
  <2>1. e \in U(e)
    BY DEF Timed
  <2>2. U(e) \in SUBSET S
    OBVIOUS
  <2> HIDE DEF U
  <2>3. IsFiniteSet(U(e)) /\ Cardinality(U(e)) <= Cardinality(S)
    BY <2>2, FS_Subset DEF Timed
  <2> QED BY <2>1, <2>3, FS_CardinalityType, FS_EmptySet
<1>3. \A e \in S : PlaceIn(S, e) \in 1..Cardinality(S)
  <2>1. \A e \in S : PlaceIn(S, e) = Cardinality(U(e))
    BY DEF PlaceIn
  <2> HIDE DEF U
  <2> QED BY <1>1, <1>2, <2>1
<1>4. ASSUME NEW e \in S, NEW f \in S, e.at < f.at
      PROVE  PlaceIn(S, e) # PlaceIn(S, f)
  <2>1. U(e) \in SUBSET U(f)
    BY <1>4 DEF Timed
  <2>2. f \in U(f) /\ f \notin U(e)
    BY <1>4 DEF Timed
  <2>3. PlaceIn(S, e) = Cardinality(U(e)) /\ PlaceIn(S, f) = Cardinality(U(f))
    BY DEF PlaceIn
  <2> HIDE DEF U
  <2> QED BY <1>2, <2>1, <2>2, <2>3, FS_Subset
<1>5. \A e, f \in S : PlaceIn(S, e) = PlaceIn(S, f) => e = f
  <2> SUFFICES ASSUME NEW e \in S, NEW f \in S, e # f
               PROVE  PlaceIn(S, e) # PlaceIn(S, f)
    OBVIOUS
  <2>1. e.at \in Nat /\ f.at \in Nat /\ e.at # f.at
    BY DEF Timed
  <2>2. e.at < f.at \/ f.at < e.at
    BY <2>1
  <2> QED BY <1>4, <2>2
<1> DEFINE h == [e \in S |-> PlaceIn(S, e)]
<1>6. h \in [S -> 1..Cardinality(S)] /\ \A e, f \in S : h[e] = h[f] => e = f
  BY <1>3, <1>5
<1>7. h \in Injection(S, 1..Cardinality(S))
  BY <1>6 DEF Injection, IsInjective
<1>8. IsFiniteSet(1..Cardinality(S)) /\ Cardinality(1..Cardinality(S)) = Cardinality(S)
  BY <1>1, FS_Interval
<1>9. h \in Surjection(S, 1..Cardinality(S))
  <2> HIDE DEF h
  <2> QED BY <1>7, <1>8, FS_Injection
<1>10. \A n \in 1..Cardinality(S) : \E e \in S : h[e] = n
  <2> HIDE DEF h
  <2> QED BY <1>9 DEF Surjection
<1> QED BY <1>1, <1>3, <1>5, <1>10

\* The entry in a place.
LEMMA ListedIs ==
  ASSUME NEW S, Timed(S), NEW e \in S
  PROVE  Listed(S)[PlaceIn(S, e)] = e.id
<1>1. PlaceIn(S, e) \in 1..Cardinality(S)
  BY PlacesAreTaken
<1> DEFINE n == PlaceIn(S, e)
           f == CHOOSE d \in S : PlaceIn(S, d) = n
<1>2. f \in S /\ PlaceIn(S, f) = n
  OBVIOUS
<1>3. f = e
  <2> HIDE DEF f
  <2> QED BY <1>2, PlacesAreTaken
<1>4. Listed(S)[n] = f.id
  BY <1>1 DEF Listed
<1> QED BY <1>3, <1>4

\* Later entries are listed after, in their order.
LEMMA LaterEntries ==
  ASSUME NEW S, Timed(S), NEW g, NEW t, NEW first \in Nat, NEW k \in Nat,
         \A e \in S : e.at < first
  PROVE  LET M == S \cup Entries(g, t, first, k) IN
         /\ Timed(M) /\ Cardinality(M) = Cardinality(S) + k
         /\ \A e \in S : PlaceIn(M, e) = PlaceIn(S, e)
         /\ \A i \in 1..k : PlaceIn(M, Entry(g, t, first, i)) = Cardinality(S) + i
<1> DEFINE N == Entries(g, t, first, k)
           M == S \cup N
<1>1. \A i \in Nat : Entry(g, t, first, i).at = first + i - 1
  BY DEF Entry
<1>2. ASSUME NEW j \in Nat
      PROVE  /\ \A e \in Entries(g, t, first, j) :
                \E i \in 1..j : e = Entry(g, t, first, i) /\ e.at = first + i - 1
             /\ S \cap Entries(g, t, first, j) = {}
  BY <1>1 DEF Entries, Timed
<1>3. ASSUME NEW j \in Nat
      PROVE  /\ IsFiniteSet(S \cup Entries(g, t, first, j))
             /\ Cardinality(S \cup Entries(g, t, first, j)) = Cardinality(S) + j
  <2> DEFINE E == Entries(g, t, first, j)
  <2>1. IsFiniteSet(E) /\ Cardinality(E) = j /\ IsFiniteSet(S) /\ Cardinality(S) \in Nat /\ S \cap E = {}
    BY <1>2, EntriesAreCounted, FS_CardinalityType DEF Timed
  <2> HIDE DEF E
  <2>2. Cardinality(S \cap E) = 0
    BY <2>1, FS_EmptySet
  <2>3. /\ IsFiniteSet(S \cup E)
        /\ Cardinality(S \cup E) = Cardinality(S) + Cardinality(E) - Cardinality(S \cap E)
    BY <2>1, FS_Union
  <2>4. Cardinality(S \cup E) = Cardinality(S) + j
    BY <2>1, <2>2, <2>3
  <2> QED BY <2>3, <2>4 DEF E
<1>4. Timed(M)
  <2>1. \A e \in N : e.at \in Nat /\ e.at >= first
    BY <1>2
  <2>2. \A e, f \in N : e.at = f.at => e = f
    BY <1>2
  <2>3. \A e \in S : e.at \in Nat
    BY DEF Timed
  <2>4. \A e \in S, f \in N : e.at # f.at
    BY <2>1, <2>3
  <2>5. IsFiniteSet(M)
    BY <1>3
  <2> HIDE DEF N
  <2> QED BY <2>1, <2>2, <2>3, <2>4, <2>5 DEF Timed
<1>5. ASSUME NEW e \in S
      PROVE  PlaceIn(M, e) = PlaceIn(S, e)
  <2>1. \A f \in N : f.at > e.at
    BY <1>2 DEF Timed
  <2>2. {f \in M : f.at <= e.at} = {f \in S : f.at <= e.at}
    <3>1. e.at \in Nat /\ \A f \in N : f.at \in Nat
      BY <1>2 DEF Timed
    <3> HIDE DEF N
    <3> QED BY <2>1, <3>1
  <2> QED BY <2>2 DEF PlaceIn
<1>6. ASSUME NEW i \in 1..k
      PROVE  PlaceIn(M, Entry(g, t, first, i)) = Cardinality(S) + i
  <2> DEFINE e == Entry(g, t, first, i)
             E == Entries(g, t, first, i)
  <2>1. e.at = first + i - 1
    BY <1>1
  <2>2. \A f \in S : f.at <= e.at
    BY <2>1 DEF Timed
  <2>3. {f \in N : f.at <= e.at} = E
    <3>1. ASSUME NEW f \in N, f.at <= e.at
          PROVE  f \in E
      <4>1. PICK j \in 1..k : f = Entry(g, t, first, j) /\ f.at = first + j - 1
        BY <1>2
      <4>2. j \in 1..i
        BY <2>1, <3>1, <4>1
      <4> QED BY <4>1, <4>2 DEF Entries
    <3>2. ASSUME NEW f \in E
          PROVE  f \in N /\ f.at <= e.at
      <4>1. PICK j \in 1..i : f = Entry(g, t, first, j) /\ f.at = first + j - 1
        BY <1>2
      <4>2. j \in 1..k /\ f.at <= e.at
        BY <2>1, <4>1
      <4> QED BY <4>1, <4>2 DEF Entries
    <3> HIDE DEF N, E, e
    <3> QED BY <3>1, <3>2
  <2>4. {f \in M : f.at <= e.at} = S \cup E
    <3> HIDE DEF N, E, e
    <3> QED BY <2>2, <2>3
  <2> QED BY <1>3, <2>4 DEF PlaceIn
<1> QED BY <1>3, <1>4, <1>5, <1>6

\* S's list, and then k rows of g.
ListedThen(S, g, k) == Listed(S) \o [i \in 1..k |-> <<g, i>>]

\* Later entries are appended to the list.
LEMMA ListGrows ==
  ASSUME NEW S, Timed(S), NEW g, NEW t, NEW first \in Nat, NEW k \in Nat,
         \A e \in S : e.at < first
  PROVE  Listed(S \cup Entries(g, t, first, k)) = ListedThen(S, g, k)
<1> DEFINE M == S \cup Entries(g, t, first, k)
           c == Cardinality(S)
           r == [i \in 1..k |-> <<g, i>>]
           V == {Listed(S)[n] : n \in 1..c} \cup {r[i] : i \in 1..k}
                \cup {Listed(M)[n] : n \in 1..c + k}
<1>1. /\ Timed(M) /\ Cardinality(M) = c + k /\ c \in Nat
      /\ \A e \in S : PlaceIn(M, e) = PlaceIn(S, e)
      /\ \A i \in 1..k : PlaceIn(M, Entry(g, t, first, i)) = c + i
  <2>1. c \in Nat
    BY PlacesAreTaken
  <2>2. /\ Timed(M) /\ Cardinality(M) = c + k
        /\ \A e \in S : PlaceIn(M, e) = PlaceIn(S, e)
        /\ \A i \in 1..k : PlaceIn(M, Entry(g, t, first, i)) = c + i
    BY LaterEntries
  <2> QED BY <2>1, <2>2
<1>2. ASSUME NEW n \in 1..c
      PROVE  Listed(M)[n] = Listed(S)[n]
  <2>1. PICK e \in S : PlaceIn(S, e) = n
    BY PlacesAreTaken
  <2>2. Listed(S)[n] = e.id
    BY <2>1, ListedIs
  <2>3. Listed(M)[n] = e.id
    <3>1. e \in M /\ PlaceIn(M, e) = n
      BY <1>1, <2>1
    <3> HIDE DEF M
    <3> QED BY <1>1, <3>1, ListedIs
  <2> QED BY <2>2, <2>3
<1>3. ASSUME NEW i \in 1..k
      PROVE  Listed(M)[c + i] = r[i]
  <2> DEFINE e == Entry(g, t, first, i)
  <2>1. e \in M /\ e.id = <<g, i>>
    BY DEF Entries, Entry
  <2>2. PlaceIn(M, e) = c + i
    BY <1>1
  <2>3. Listed(M)[c + i] = e.id
    <3> HIDE DEF M, e, c
    <3> QED BY <1>1, <2>1, <2>2, ListedIs
  <2> QED BY <2>1, <2>3
<1>4. Listed(S) = [n \in 1..c |-> Listed(S)[n]] /\ Listed(M) = [n \in 1..c + k |-> Listed(M)[n]]
  BY <1>1 DEF Listed
<1>5. Listed(S) \in Seq(V) /\ Len(Listed(S)) = c
  <2>1. Listed(S) \in [1..c -> V]
    BY <1>4
  <2> HIDE DEF V
  <2> QED BY <1>1, <2>1
<1>6. Listed(M) \in Seq(V) /\ Len(Listed(M)) = c + k
  <2>1. Listed(M) \in [1..c + k -> V]
    BY <1>4
  <2> HIDE DEF V, M
  <2> QED BY <1>1, <2>1
<1>7. r \in Seq(V) /\ Len(r) = k
  <2>1. r \in [1..k -> V]
    OBVIOUS
  <2> HIDE DEF V, r
  <2> QED BY <2>1
<1> HIDE DEF V, r, M, c
<1>8. /\ Listed(S) \o r \in Seq(V) /\ Len(Listed(S) \o r) = c + k
      /\ \A n \in 1..c + k : (Listed(S) \o r)[n] = IF n <= c THEN Listed(S)[n] ELSE r[n - c]
  BY <1>5, <1>7
<1>9. ASSUME NEW n \in 1..c + k
      PROVE  Listed(M)[n] = (Listed(S) \o r)[n]
  <2>1. CASE n <= c
    BY <1>1, <1>2, <1>8, <2>1
  <2>2. CASE n > c
    <3>1. n - c \in 1..k /\ c + (n - c) = n
      BY <1>1, <2>2
    <3>2. Listed(M)[n] = r[n - c]
      BY <1>3, <3>1
    <3> QED BY <1>1, <1>8, <2>2, <3>2
  <2>3. n \in Nat /\ c \in Nat
    BY <1>1
  <2>4. n <= c \/ n > c
    BY <2>3
  <2> QED BY <2>1, <2>2, <2>4
<1>10. Listed(M) = Listed(S) \o r
  BY <1>1, <1>6, <1>8, <1>9, SeqEqual
<1> QED BY <1>10 DEF M, r, ListedThen

-----------------------------------------------------------------------------
(* AuditTrail, step by step. *)

\* AuditTrail's trail is the list of the outbox's entries.
LEMMA TrailIsListed == Trail = Listed(FromOutbox)
BY DEF Trail, Listed, Place, PlaceIn

\* What AuditTrail does not tell apart.
LEMMA Unseen ==
  ASSUME \A g \in Group : /\ box'[g].status = "absent" <=> box[g].status = "absent"
                          /\ box'[g].status = "delivered" <=> box[g].status = "delivered",
         FromOutbox' = FromOutbox
  PROVE  UNCHANGED <<Owed, Acked, Trail>>
<1>1. Owed' = Owed /\ Acked' = Acked
  BY DEF Owed, Acked
<1>2. Trail' = Trail
  BY DEF Trail, Place
<1> QED BY <1>1, <1>2

\* Claims, failures and time: nothing is recorded or delivered.
LEMMA WorkersUnseen ==
  ASSUME AuditInv, NEW w \in Worker,
         Look(w) \/ Stamp(w) \/ Skip(w) \/ Open(w) \/ Record(w) \/ Fail(w) \/ Abandon(w)
  PROVE  UNCHANGED <<Owed, Acked, Trail>>
<1>1. FromOutbox' = FromOutbox
  BY DEF Look, Stamp, Skip, Open, Record, Fail, Abandon, FromOutbox
<1>2. ASSUME NEW g \in Group
      PROVE  /\ box'[g].status = "absent" <=> box[g].status = "absent"
             /\ box'[g].status = "delivered" <=> box[g].status = "delivered"
  <2>1. box[g] \in Boxes
    BY DEF AuditInv, AuditTypeOK
  <2>2. CASE Stamp(w)
    BY <2>1, <2>2 DEF Stamp, Eligible, Boxes
  <2>3. CASE Record(w)
    <3>1. box'[g] = box[g] \/ (box[g].status = "processing" /\ box'[g].status \in {"pending", "stuck"})
      BY <2>1, <2>3 DEF Record, FailureMatches, Owns, Outcome, AuditInv, AuditTypeOK
    <3> QED BY <3>1
  <2>4. CASE Look(w) \/ Skip(w) \/ Open(w) \/ Fail(w) \/ Abandon(w)
    BY <2>4 DEF Look, Skip, Open, Fail, Abandon
  <2> QED BY <2>2, <2>3, <2>4
<1> QED BY <1>1, <1>2, Unseen

\* Time, recoveries and recordAuditLog change nothing of the outbox's trail.
LEMMA OthersUnseen ==
  ASSUME AuditInv,
         \/ \E g \in Group : BackoffEnds(g) \/ ClaimGoesStale(g) \/ RequeueGroup(g)
         \/ \E x \in Writer : WriterReads(x) \/ WriterWrites(x) \/ WriterFails(x)
         \/ UNCHANGED auditVars
  PROVE  UNCHANGED <<Owed, Acked, Trail>>
<1>1. FromOutbox' = FromOutbox
  <2>1. ASSUME NEW x \in Writer, WriterWrites(x)
        PROVE  FromOutbox' = FromOutbox
    <3>1. PICK t \in Tails : \E at \in 1..(t.at + 1) :
            log' = log \cup {[id |-> <<x, 0>>, prev |-> writer[x].tail, at |-> at]}
      BY <2>1 DEF WriterWrites
    <3>2. PICK at : log' = log \cup {[id |-> <<x, 0>>, prev |-> writer[x].tail, at |-> at]}
      BY <3>1
    <3> QED BY <3>2, IdsAreApart DEF FromOutbox
  <2> QED BY <2>1 DEF BackoffEnds, ClaimGoesStale, RequeueGroup, WriterReads, WriterFails,
               auditVars, FromOutbox
<1>2. ASSUME NEW g \in Group
      PROVE  /\ box'[g].status = "absent" <=> box[g].status = "absent"
             /\ box'[g].status = "delivered" <=> box[g].status = "delivered"
  <2>1. box[g] \in Boxes
    BY DEF AuditInv, AuditTypeOK
  <2>2. CASE UNCHANGED box
    BY <2>2
  <2>3. ASSUME NEW h \in Group, BackoffEnds(h) \/ ClaimGoesStale(h) \/ RequeueGroup(h)
        PROVE  \/ box'[g].status = box[g].status
               \/ box[g].status = "stuck" /\ box'[g].status = "pending"
    <3>1. CASE BackoffEnds(h)
      BY <2>1, <3>1 DEF BackoffEnds, AuditInv, AuditTypeOK, Boxes
    <3>2. CASE ClaimGoesStale(h)
      BY <2>1, <3>2 DEF ClaimGoesStale, AuditInv, AuditTypeOK, Boxes
    <3>3. CASE RequeueGroup(h)
      BY <2>1, <3>3 DEF RequeueGroup, AuditInv, AuditTypeOK, Boxes
    <3> QED BY <2>3, <3>1, <3>2, <3>3
  <2> QED BY <2>2, <2>3 DEF WriterReads, WriterWrites, WriterFails, auditVars
<1> QED BY <1>1, <1>2, Unseen

\* enqueue records a group that AuditTrail did not know.
LEMMA Owing ==
  ASSUME AuditInv, NEW g \in Group, Enqueue(g)
  PROVE  Promise!Record(g)
<1>1. /\ box[g].status = "absent" /\ box'[g].status = "pending"
      /\ \A h \in Group \ {g} : box'[h] = box[h]
  BY DEF Enqueue, AuditInv, AuditTypeOK, Boxes
<1>2. Trail' = Trail
  <2>1. FromOutbox' = FromOutbox
    BY DEF Enqueue, FromOutbox
  <2> QED BY <2>1 DEF Trail, Place
<1>3. g \notin Owed \cup Acked /\ Owed' = Owed \cup {g} /\ Acked' = Acked
  BY <1>1 DEF Owed, Acked
<1> QED BY <1>2, <1>3 DEF Promise!Record

\* deliverGroup's commit delivers the group, whole and last.
LEMMA Promised ==
  ASSUME AuditInv, NEW w \in Worker, AppendGroup(w)
  PROVE  \E g \in Group : Promise!Deliver(g)
<1> DEFINE g == Turn(w)
           t == work[w].tail
<1>1. PICK first \in Nat :
           /\ g \in Group /\ t \in Tips /\ box[g].status = "processing"
           /\ first > t.at
           /\ FromOutbox' = FromOutbox \cup Entries(g, t, first, Size[g])
           /\ \A e \in FromOutbox : e.at <= t.at
           /\ box' = [box EXCEPT ![g].status = "delivered", ![g].owner = Nobody, ![g].stale = FALSE]
  BY AppendEffect
<1>2. /\ Timed(FromOutbox) /\ Size[g] \in Nat
      /\ \A e \in FromOutbox : e.at < first
  <2>1. \A e \in FromOutbox : e \in log /\ e.at \in Nat
    BY DEF FromOutbox, AuditInv, AuditTypeOK
  <2>2. IsFiniteSet(FromOutbox)
    BY FS_Subset DEF FromOutbox, AuditInv, Sources
  <2>3. Timed(FromOutbox)
    BY <2>1, <2>2 DEF Timed, AuditInv, Chain
  <2>4. Size[g] \in Nat /\ t.at \in Nat
    BY <1>1, SizesArePositive DEF Tips
  <2> QED BY <1>1, <2>1, <2>3, <2>4
<1>3. Trail' = Trail \o Promise!Rows(g)
  <2>1. Listed(FromOutbox \cup Entries(g, t, first, Size[g])) = ListedThen(FromOutbox, g, Size[g])
    BY <1>2, ListGrows
  <2>2. Trail' = Listed(FromOutbox')
    BY DEF Trail, Listed, Place, PlaceIn
  <2>3. ListedThen(FromOutbox, g, Size[g]) = Trail \o Promise!Rows(g)
    BY TrailIsListed DEF ListedThen, Promise!Rows
  <2> QED BY <1>1, <2>1, <2>2, <2>3
<1>4. g \in Owed /\ Owed' = Owed \ {g} /\ Acked' = Acked \cup {g}
  <2>1. box'[g].status = "delivered" /\ \A h \in Group \ {g} : box'[h] = box[h]
    BY <1>1 DEF AuditInv, AuditTypeOK, Boxes
  <2> QED BY <1>1, <2>1 DEF Owed, Acked
<1>5. Promise!Deliver(g)
  BY <1>3, <1>4 DEF Promise!Deliver
<1> QED BY <1>1, <1>5

\* Each group committed with its operation enters the trail once, whole and in order,
\* in the step that acknowledges it: AuditTrail is implemented.
THEOREM TrailIsKept == AuditSpec => KeepsTheTrail
<1>1. AuditInit => Promise!Init
  <2> SUFFICES ASSUME AuditInit PROVE Promise!Init
    OBVIOUS
  <2>1. FromOutbox = {}
    BY DEF AuditInit, FromOutbox
  <2>2. Trail = <<>>
    BY <2>1, FS_EmptySet DEF Trail
  <2>3. Owed = {} /\ Acked = {}
    BY DEF AuditInit, Owed, Acked
  <2> QED BY <2>2, <2>3 DEF Promise!Init
<1>2. AuditInv /\ [AuditNext]_auditVars => [Promise!Next]_<<Owed, Acked, Trail>>
  <2> SUFFICES ASSUME AuditInv, [AuditNext]_auditVars
               PROVE  Promise!Next \/ UNCHANGED <<Owed, Acked, Trail>>
    OBVIOUS
  <2>1. ASSUME NEW g \in Group, Enqueue(g)
        PROVE  Promise!Next
    BY <2>1, Owing DEF Promise!Next
  <2>2. ASSUME NEW w \in Worker, AppendGroup(w)
        PROVE  Promise!Next
    BY <2>2, Promised DEF Promise!Next
  <2> QED BY <2>1, <2>2, WorkersUnseen, OthersUnseen DEF AuditNext, Cycle
<1>3. AuditSpec => Promise!Spec
  BY <1>1, <1>2, AuditInvariance, PTL DEF AuditSpec, Promise!Spec
<1> QED BY <1>3 DEF KeepsTheTrail
=============================================================================
