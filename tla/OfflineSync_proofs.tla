-------------------------- MODULE OfflineSync_proofs --------------------------
(***************************************************************************)
(* For any number of carts, tabs, cashiers and requests in flight: a       *)
(* queued cart is sold at most once and by its cashier, its row stops      *)
(* waiting only when it is, and no row is ever lost or replaced.           *)
(***************************************************************************)
EXTENDS OfflineSync, WellFoundedInduction, TLAPS

\* A tab that mints or adds holds a cart of a cashier, and a number to add.
Holding(t) ==
  /\ tab[t].at \in {"mint", "add"} => tab[t].cart \in Cart /\ tab[t].by \in Cashier
  /\ tab[t].at = "add" => tab[t].seq \in 1..MaxSeq

\* A batch carries rows as they were queued, under their cashier.
Carries(r) ==
  \A n \in Number :
    /\ req[r].cart[n] # None => row[n].cart = req[r].cart[n] /\ row[n].cashier = req[r].by
    /\ req[r].answer[n] = "synced" => sale[n] # <<>>

\* A queued row has a cashier; its sale, if any, is the only one and its own.
Queued(n) ==
  /\ row[n].cart # None => row[n].cashier \in Cashier
  /\ sale[n] \in {<<>>, <<[cart |-> row[n].cart, cashier |-> row[n].cashier]>>}
  /\ row[n].synced => sale[n] # <<>>

\* The inductive invariant.
IInv ==
  /\ TypeOK
  /\ \A t \in Tab : Holding(t)
  /\ \A r \in Request : Carries(r)
  /\ \A n \in Number : Queued(n)

-----------------------------------------------------------------------------
(* The order of numbers. *)

\* A non-empty set of naturals has a least element.
LEMMA Least ==
  ASSUME NEW S \in SUBSET Nat, S # {}
  PROVE  \E k \in S : \A l \in S : k <= l
<1> DEFINE R == OpToRel(<, Nat)
<1>1. PICK k \in S : \A l \in S : ~(<<l, k>> \in R)
  <2> HIDE DEF R
  <2>1. IsWellFoundedOn(R, Nat)
    BY NatLessThanWellFounded DEF R
  <2> QED
    BY <2>1, WFMin
<1>2. \A l \in S : ~(l < k)
  BY <1>1 DEF OpToRel
<1> HIDE DEF R
<1> QED
  BY <1>2

\* What is left of a batch has a first item.
LEMMA ItemIsLeft ==
  ASSUME NEW r \in Request, Left(r) # {}
  PROVE  Item(r) \in Left(r) /\ Item(r) \in Number
<1> DEFINE On(d) == {k \in 1..MaxSeq : <<d, k>> \in Left(r)}
<1>1. Left(r) \subseteq Number
  BY DEF Left, Batch
<1>2. PICK d \in Day : On(d) # {} /\ \A e \in Day : On(e) # {} => d <= e
  <2>1. \E d \in Day : On(d) # {}
    BY <1>1 DEF Number, Day
  <2> HIDE DEF On
  <2> QED
    BY <2>1 DEF Day
<1>3. On(d) \in SUBSET Nat
  OBVIOUS
<1>4. PICK k \in On(d) : \A l \in On(d) : k <= l
  <2> HIDE DEF On
  <2> QED
    BY <1>2, <1>3, Least
<1>5. ASSUME NEW m \in Left(r) \ {<<d, k>>}
      PROVE  Less(<<d, k>>, m)
  <2>1. PICK e \in Day, l \in 1..MaxSeq : m = <<e, l>>
    BY <1>1 DEF Number
  <2>2. l \in On(e)
    BY <2>1
  <2>3. d <= e /\ (d = e => k <= l)
    BY <1>2, <1>4, <2>2
  <2>4. d = e => k # l
    BY <1>5, <2>1
  <2> QED
    BY <2>1, <2>3, <2>4, BoundsAreCounts DEF Less, Day
<1>6. <<d, k>> \in Left(r)
  OBVIOUS
<1> QED
  BY <1>1, <1>5, <1>6 DEF Item

-----------------------------------------------------------------------------
(* Every step keeps the invariant. *)

\* No two tabs wait for one request.
SyncsApart == \A s, t \in Tab : tab[s].sync = tab[t].sync /\ tab[s].sync # None => s = t

\* A batch at work has an item left; an answered one has none.
Working(r) ==
  /\ req[r].at \in {"next", "commit"} => Left(r) # {}
  /\ req[r].at = "answered" => Left(r) = {}

\* A step that leaves rows, requests and sales alone.
LEMMA TabsOnly ==
  ASSUME IInv, UNCHANGED <<row, req, sale>>, tab' \in [Tab -> Tabs],
         (\A t \in Tab : Holding(t))', SyncsApart',
         counter' \in [Day -> 0..MaxSeq], rules' \in BOOLEAN, today' \in Day, faults' \in 0..MaxFaults
  PROVE  IInv'
<1>1. TypeOK'
  BY DEF IInv, TypeOK, SyncsApart, Left, Batch
<1>2. (\A r \in Request : Carries(r))' /\ (\A n \in Number : Queued(n))'
  BY DEF IInv, Carries, Queued
<1> QED
  BY <1>1, <1>2 DEF IInv

\* Nothing queued, sold or in flight.
LEMMA InitIInv == Init => IInv
<1> SUFFICES ASSUME Init PROVE IInv
  OBVIOUS
<1>1. \A t \in Tab : tab[t].sync = None /\ tab[t].at = "idle"
  <2>1. \A t \in Tab : \E u \in Cashier : tab[t] = Fresh(u)
    BY DEF Init
  <2>2. \A u : Fresh(u).sync = None /\ Fresh(u).at = "idle"
    BY DEF Fresh
  <2> QED
    BY <2>1, <2>2
<1>2. tab \in [Tab -> Tabs]
  <2>1. \A u \in Cashier : Fresh(u) \in Tabs
    BY BoundsAreCounts DEF Fresh, Tabs, Day
  <2> QED
    BY <2>1 DEF Init
<1>3. req \in [Request -> Reqs]
  BY DEF Init, Free, Reqs, Empty, NoAnswer
<1>4. row \in [Number -> Rows]
  BY DEF Init, NoRow, Rows
<1>5. counter \in [Day -> 0..MaxSeq] /\ faults \in 0..MaxFaults /\ today \in Day /\ rules \in BOOLEAN
  BY BoundsAreCounts DEF Init, Day
<1>6. sale \in [Number -> Seq([cart : Cart, cashier : Cashier])]
  BY DEF Init
<1>7. \A s, t \in Tab : tab[s].sync = tab[t].sync /\ tab[s].sync # None => s = t
  BY <1>1
<1>8. \A r \in Request : req[r].at = "free"
  BY DEF Init, Free
<1>9. TypeOK
  BY <1>2, <1>3, <1>4, <1>5, <1>6, <1>7, <1>8 DEF TypeOK
<1>10. \A t \in Tab : Holding(t)
  BY <1>1 DEF Holding
<1>11. \A r \in Request : Carries(r)
  BY DEF Init, Carries, Free, Empty, NoAnswer
<1>12. \A n \in Number : Queued(n)
  BY DEF Init, Queued, NoRow
<1> QED
  BY <1>9, <1>10, <1>11, <1>12 DEF IInv

\* A cart is charged offline: only the tab moves.
LEMMA ChargeStep ==
  ASSUME IInv, NEW t \in Tab, NEW c \in Cart, Charge(t, c)
  PROVE  IInv'
<1>1. tab' \in [Tab -> Tabs] /\ SyncsApart'
  BY DEF IInv, TypeOK, Charge, Tabs, SyncsApart
<1>2. (\A s \in Tab : Holding(s))'
  BY DEF IInv, TypeOK, Charge, Tabs, Holding
<1> QED
  BY <1>1, <1>2, TabsOnly DEF IInv, TypeOK, Charge

\* A number is minted from the tab's own reading of the counter.
LEMMA MintStep ==
  ASSUME IInv, NEW t \in Tab, Mint(t)
  PROVE  IInv'
<1>1. counter[today] + 1 \in 1..MaxSeq
  BY BoundsAreCounts DEF IInv, TypeOK, Mint
<1>2. tab' \in [Tab -> Tabs]
  <2>1. tab[t] \in Tabs /\ today \in Day /\ counter[today] + 1 \in 0..MaxSeq
    BY <1>1 DEF IInv, TypeOK
  <2>2. [tab[t] EXCEPT !.at = "add", !.key = today, !.seq = counter[today] + 1] \in Tabs
    BY <2>1 DEF Tabs
  <2> QED
    BY <2>2 DEF IInv, TypeOK, Mint
<1>4. SyncsApart'
  BY DEF IInv, TypeOK, Mint, Tabs, SyncsApart
<1>3. (\A s \in Tab : Holding(s))'
  BY <1>1 DEF IInv, TypeOK, Mint, Tabs, Holding
<1> QED
  BY <1>2, <1>3, <1>4, TabsOnly DEF IInv, TypeOK, Mint

\* A tab stops waiting for its request's answer.
LEMMA DisconnectStep ==
  ASSUME IInv, NEW t \in Tab, Disconnect(t)
  PROVE  IInv'
<1>1. tab' \in [Tab -> Tabs]
  <2>1. tab[t] \in Tabs
    BY DEF IInv, TypeOK
  <2>2. [tab[t] EXCEPT !.sync = None] \in Tabs
    BY <2>1 DEF Tabs
  <2> QED
    BY <2>2 DEF IInv, TypeOK, Disconnect
<1>3. SyncsApart'
  BY DEF IInv, TypeOK, Disconnect, Tabs, SyncsApart
<1>4. (\A s \in Tab : Holding(s))'
  BY DEF IInv, TypeOK, Disconnect, Tabs, Holding
<1>2. faults' \in 0..MaxFaults
  BY BoundsAreCounts DEF IInv, TypeOK, Disconnect, Fault
<1> QED
  BY <1>1, <1>2, <1>3, <1>4, TabsOnly DEF IInv, TypeOK, Disconnect

\* A reload forgets the tab's work, never the rows.
LEMMA ReloadStep ==
  ASSUME IInv, NEW t \in Tab, Reload(t)
  PROVE  IInv'
<1>1. tab' \in [Tab -> Tabs] /\ SyncsApart' /\ (\A s \in Tab : Holding(s))'
  BY BoundsAreCounts DEF IInv, TypeOK, Reload, Fresh, Tabs, Day, SyncsApart, Holding
<1>2. faults' \in 0..MaxFaults
  BY BoundsAreCounts DEF IInv, TypeOK, Reload, Fault
<1> QED
  BY <1>1, <1>2, TabsOnly DEF IInv, TypeOK, Reload

\* The next cashier logs in; rows keep theirs.
LEMMA SwitchCashierStep ==
  ASSUME IInv, NEW t \in Tab, SwitchCashier(t)
  PROVE  IInv'
<1>1. tab' \in [Tab -> Tabs]
  <2>1. tab[t] \in Tabs
    BY DEF IInv, TypeOK
  <2>2. ASSUME NEW u \in Cashier
        PROVE  [tab[t] EXCEPT !.user = u] \in Tabs
    BY <2>1 DEF Tabs
  <2> QED
    BY <2>2 DEF IInv, TypeOK, SwitchCashier
<1>3. SyncsApart'
  BY DEF IInv, TypeOK, SwitchCashier, Tabs, SyncsApart
<1>4. (\A s \in Tab : Holding(s))'
  BY DEF IInv, TypeOK, SwitchCashier, Tabs, Holding
<1> QED
  BY <1>1, <1>3, <1>4, TabsOnly DEF IInv, TypeOK, SwitchCashier

\* The rules change, or the day.
LEMMA WorldStep ==
  ASSUME IInv, RulesChange \/ Midnight
  PROVE  IInv'
<1>1. tab' = tab /\ UNCHANGED <<row, req, sale, counter, faults>> /\ rules' \in BOOLEAN /\ today' \in Day
  BY DEF IInv, TypeOK, RulesChange, Midnight, Day
<1>2. tab' \in [Tab -> Tabs] /\ SyncsApart' /\ (\A s \in Tab : Holding(s))'
  BY <1>1 DEF IInv, TypeOK, SyncsApart, Holding
<1> QED
  BY <1>1, <1>2, TabsOnly DEF IInv, TypeOK

\* A row is added where there is none, so no batch and no sale is about it yet.
LEMMA AddStep ==
  ASSUME IInv, NEW t \in Tab, Add(t)
  PROVE  IInv'
<1> DEFINE n == <<tab[t].day, tab[t].seq>>
           new == [NoRow EXCEPT !.cart = tab[t].cart, !.cashier = tab[t].by]
<1>1. n \in Number /\ tab[t].cart \in Cart /\ tab[t].by \in Cashier
  BY DEF IInv, TypeOK, Add, Holding, Number, Tabs
<1>2. new \in Rows /\ new.cart = tab[t].cart /\ new.cashier = tab[t].by /\ ~new.synced
  BY <1>1 DEF NoRow, Rows
<1>3. \/ row' = row
      \/ row[n].cart = None /\ row' = [row EXCEPT ![n] = new]
  BY DEF Add, Takes
<1>4. sale[n] # <<>> => row[n].cart # None
  BY <1>1, NoneIsFresh DEF IInv, TypeOK, Queued
<1>5. tab' \in [Tab -> Tabs] /\ SyncsApart' /\ (\A s \in Tab : Holding(s))'
  BY BoundsAreCounts DEF IInv, TypeOK, Add, Fresh, Tabs, Day, SyncsApart, Holding
<1>6. row' \in [Number -> Rows]
  BY <1>1, <1>2, <1>3 DEF IInv, TypeOK
<1>7. counter' \in [Day -> 0..MaxSeq]
  BY DEF IInv, TypeOK, Add, Tabs
<1>8. TypeOK'
  BY <1>5, <1>6, <1>7 DEF IInv, TypeOK, Add, SyncsApart, Left, Batch
<1>9. ASSUME NEW r \in Request
      PROVE  Carries(r)'
  <2>1. \A m \in Number : row[m].cart # None => row'[m] = row[m]
    BY <1>1, <1>3 DEF IInv, TypeOK
  <2>2. Carries(r) /\ req' = req /\ sale' = sale
    BY DEF IInv, Add
  <2>3. ASSUME NEW m \in Number, req[r].cart[m] # None
        PROVE  row'[m] = row[m]
    BY <2>1, <2>2, <2>3 DEF Carries
  <2> QED
    BY <2>2, <2>3 DEF Carries
<1>10. ASSUME NEW m \in Number
       PROVE  Queued(m)'
  <2>1. CASE row'[m] = row[m]
    BY <2>1 DEF IInv, Add, Queued
  <2>2. CASE m = n /\ row[n].cart = None /\ row' = [row EXCEPT ![n] = new]
    BY <1>1, <1>2, <1>4, <2>2 DEF IInv, TypeOK, Add, Queued
  <2> QED
    BY <1>1, <1>3, <2>1, <2>2 DEF IInv, TypeOK
<1> QED
  BY <1>5, <1>8, <1>9, <1>10 DEF IInv

\* An item of a batch gets its answer, "synced" only when it has a sale by now.
LEMMA AnswerStep ==
  ASSUME IInv, NEW r \in Request, NEW n \in Left(r), NEW a \in Answers,
         req' = Answered(r, n, a), UNCHANGED <<row, tab, counter, rules, today>>,
         faults' \in 0..MaxFaults,
         sale' \in [Number -> Seq([cart : Cart, cashier : Cashier])],
         \A m \in Number : sale[m] # <<>> => sale'[m] # <<>>,
         a = "synced" => sale'[n] # <<>>,
         (\A m \in Number : Queued(m))'
  PROVE  IInv'
<1> DEFINE step == IF Left(r) = {n} THEN "answered" ELSE "next"
           new == [req[r] EXCEPT !.answer[n] = a, !.at = step]
<1>1. n \in Number /\ req[r] \in Reqs /\ req[r].answer[n] = "none" /\ req[r].cart[n] # None
  BY DEF IInv, TypeOK, Left, Batch
<1>2. new \in Reqs /\ new.at = step /\ new.by = req[r].by /\ new.cart = req[r].cart
      /\ new.answer = [req[r].answer EXCEPT ![n] = a]
  <2>1. req[r].answer \in [Number -> Answers \cup {"none"}]
    BY <1>1 DEF Reqs
  <2>2. [req[r].answer EXCEPT ![n] = a] \in [Number -> Answers \cup {"none"}]
    BY <2>1
  <2>3. new = [req[r] EXCEPT !.answer = [req[r].answer EXCEPT ![n] = a], !.at = step]
    BY <1>1, <2>1 DEF Reqs
  <2> QED
    BY <1>1, <2>2, <2>3 DEF Reqs
<1>3. req' = [req EXCEPT ![r] = new]
  BY DEF Answered, IInv, TypeOK
<1> HIDE DEF new
<1>4. req' \in [Request -> Reqs] /\ req'[r] = new /\ \A q \in Request \ {r} : req'[q] = req[q]
  BY <1>2, <1>3 DEF IInv, TypeOK
<1>5. Left(r)' = Left(r) \ {n}
  <2>1. \A m \in Number \ {n} : new.answer[m] = req[r].answer[m]
    BY <1>1, <1>2 DEF Reqs
  <2>2. new.answer[n] # "none"
    BY <1>1, <1>2 DEF Reqs, Answers
  <2> QED
    BY <1>1, <1>2, <1>4, <2>1, <2>2 DEF Left, Batch
<1>6. \A q \in Request : Working(q)'
  <2>1. Working(r)'
    BY <1>2, <1>4, <1>5 DEF Working
  <2>2. ASSUME NEW q \in Request \ {r}
        PROVE  Working(q)'
    <3>1. req'[q] = req[q] /\ Working(q)
      BY <1>4 DEF IInv, TypeOK, Working
    <3> QED
      BY <3>1 DEF Working, Left, Batch
  <2> QED
    BY <2>1, <2>2
<1>7. TypeOK'
  BY <1>4, <1>6 DEF IInv, TypeOK, Working
<1>8. ASSUME NEW q \in Request
      PROVE  Carries(q)'
  <2>1. CASE q = r
    <3>1. \A m \in Number \ {n} : new.answer[m] = req[r].answer[m]
      BY <1>1, <1>2 DEF Reqs
    <3>2. new.answer[n] = a
      BY <1>1, <1>2 DEF Reqs
    <3>3. Carries(r)
      BY DEF IInv
    <3> QED
      BY <1>2, <1>4, <2>1, <3>1, <3>2, <3>3 DEF Carries
  <2>2. CASE q # r
    BY <1>4, <2>2 DEF IInv, Carries
  <2> QED
    BY <2>1, <2>2
<1>9. (\A t \in Tab : Holding(t))'
  BY DEF IInv, Holding
<1> QED
  BY <1>7, <1>8, <1>9 DEF IInv

\* An item is answered from an earlier sale, refused, or goes on to its commit.
LEMMA CheckStep ==
  ASSUME IInv, NEW r \in Request, Check(r)
  PROVE  IInv'
<1> DEFINE n == Item(r)
<1>1. n \in Left(r) /\ n \in Number
  BY ItemIsLeft DEF IInv, TypeOK, Check
<1>2. UNCHANGED <<row, counter, tab, sale, rules, today, faults>>
  BY DEF Check
<1>3. sale' \in [Number -> Seq([cart : Cart, cashier : Cashier])] /\ faults' \in 0..MaxFaults
      /\ (\A m \in Number : Queued(m))'
  BY <1>2 DEF IInv, TypeOK, Queued
<1>4. ASSUME NEW a \in Answers, req' = Answered(r, n, a), a = "synced" => sale[n] # <<>>
      PROVE  IInv'
  BY <1>1, <1>2, <1>3, <1>4, AnswerStep
<1>5. CASE req' = [req EXCEPT ![r].at = "commit"]
  <2>1. req[r] \in Reqs /\ Left(r) # {}
    BY <1>1 DEF IInv, TypeOK
  <2>2. req' \in [Request -> Reqs]
    BY <1>5, <2>1 DEF IInv, TypeOK, Reqs
  <2>4. req'[r].at = "commit"
    BY <1>5, <2>1 DEF IInv, TypeOK, Reqs
  <2>5. ASSUME NEW q \in Request
        PROVE  Left(q)' = Left(q) /\ Carries(q)' /\ Working(q)'
    <3>1. /\ req'[q].cart = req[q].cart /\ req'[q].answer = req[q].answer
          /\ req'[q].by = req[q].by /\ (q # r => req'[q].at = req[q].at)
      BY <1>5, <2>1 DEF IInv, TypeOK, Reqs
    <3>2. Left(q)' = Left(q)
      BY <3>1 DEF Left, Batch
    <3>3. Carries(q) /\ Working(q)
      BY DEF IInv, TypeOK, Working
    <3>4. Carries(q)'
      BY <1>2, <3>1, <3>3 DEF Carries
    <3>5. Working(q)'
      BY <2>1, <2>4, <3>1, <3>2, <3>3 DEF Working
    <3> QED
      BY <3>2, <3>4, <3>5
  <2>6. TypeOK'
    BY <1>2, <2>2, <2>5 DEF IInv, TypeOK, Working
  <2>8. (\A t \in Tab : Holding(t))'
    BY <1>2 DEF IInv, Holding
  <2> QED
    BY <1>3, <2>5, <2>6, <2>8 DEF IInv
<1>6. \/ SoldAlready(n) /\ req' = Answered(r, n, "synced")
      \/ req' = Answered(r, n, "failed") \/ req' = Answered(r, n, "refused")
      \/ req' = [req EXCEPT ![r].at = "commit"]
  BY DEF Check
<1> QED
  BY <1>4, <1>5, <1>6 DEF SoldAlready, Answers

\* Whatever becomes of COMMIT, its sale is the row's own and the only one.
LEMMA CommitStep ==
  ASSUME IInv, NEW r \in Request, Commit(r)
  PROVE  IInv'
<1> DEFINE n == Item(r)
<1>1. n \in Left(r) /\ n \in Number
  BY ItemIsLeft DEF IInv, TypeOK, Commit
<1>2. UNCHANGED <<row, counter, tab, rules, today>>
  BY DEF Commit
<1> DEFINE one == [cart |-> req[r].cart[n], cashier |-> req[r].by]
<1>8. row[n].cart = req[r].cart[n] /\ row[n].cashier = req[r].by /\ req[r].cart[n] # None
  BY <1>1 DEF IInv, Carries, Left, Batch
<1>9. one \in [cart : Cart, cashier : Cashier]
  BY <1>1, <1>8 DEF IInv, TypeOK, Queued, Rows
<1>3. \E a \in Answers : req' = Answered(r, n, a) /\ (a = "synced" => sale[n] # <<>> \/ sale' = Sold(r, n))
  BY DEF Commit, Conflicts, Answers
<1>4. faults' \in 0..MaxFaults
  BY BoundsAreCounts DEF IInv, TypeOK, Commit, Fault
<1>5. sale' = sale \/ (sale[n] = <<>> /\ sale' = Sold(r, n))
  BY DEF Commit, Conflicts
<1>6. CASE sale' = sale
  <2>1. (\A m \in Number : Queued(m))' /\ sale' \in [Number -> Seq([cart : Cart, cashier : Cashier])]
    BY <1>2, <1>6 DEF IInv, TypeOK, Queued
  <2>2. \E a \in Answers : req' = Answered(r, n, a) /\ (a = "synced" => sale'[n] # <<>>)
    <3>1. Sold(r, n)[n] # <<>>
      <4>1. sale[n] \in Seq([cart : Cart, cashier : Cashier])
        BY <1>1 DEF IInv, TypeOK
      <4>2. Append(sale[n], one) # <<>>
        BY <1>9, <4>1
      <4> QED
        BY <1>1, <4>2 DEF Sold, IInv, TypeOK
    <3> QED
      BY <1>3, <1>6, <3>1
  <2> QED
    BY <1>1, <1>2, <1>4, <1>6, <2>1, <2>2, AnswerStep
<1>7. CASE sale[n] = <<>> /\ sale' = Sold(r, n)
  <2>3. Append(<<>>, one) = <<one>>
    OBVIOUS
  <2>4. sale' = [sale EXCEPT ![n] = <<one>>]
    BY <1>7, <2>3 DEF Sold
  <2>5. <<one>> \in Seq([cart : Cart, cashier : Cashier]) /\ <<one>> # <<>>
    BY <1>9
  <2>6. sale' \in [Number -> Seq([cart : Cart, cashier : Cashier])]
    BY <2>4, <2>5 DEF IInv, TypeOK
  <2>7. sale'[n] = <<one>> /\ \A m \in Number \ {n} : sale'[m] = sale[m]
    BY <1>1, <2>4 DEF IInv, TypeOK
  <2>8. ASSUME NEW m \in Number
        PROVE  Queued(m)'
    <3>1. Queued(m) /\ row' = row
      BY <1>2 DEF IInv
    <3>2. CASE m = n
      BY <1>8, <2>5, <2>7, <3>1, <3>2 DEF Queued
    <3>3. CASE m # n
      BY <2>7, <3>1, <3>3 DEF Queued
    <3> QED
      BY <3>2, <3>3
  <2>9. \A m \in Number : sale[m] # <<>> => sale'[m] # <<>>
    BY <2>5, <2>7
  <2>10. sale'[n] # <<>>
    BY <2>5, <2>7
  <2> HIDE DEF one, n
  <2> QED
    BY <1>1, <1>2, <1>3, <1>4, <2>6, <2>8, <2>9, <2>10, AnswerStep
<1> QED
  BY <1>5, <1>6, <1>7

\* A request is replaced, and carries nothing, or what its rows allow.
LEMMA RequestStep ==
  ASSUME IInv, NEW r \in Request, NEW new \in Reqs, req' = [req EXCEPT ![r] = new],
         UNCHANGED <<counter, sale, rules, today>>, faults' \in 0..MaxFaults,
         row' \in [Number -> Rows],
         \A m \in Number : row'[m].cart = row[m].cart /\ row'[m].cashier = row[m].cashier,
         (\A m \in Number : Queued(m))',
         Working(r)', Carries(r)',
         tab' \in [Tab -> Tabs], SyncsApart', (\A s \in Tab : Holding(s))'
  PROVE  IInv'
<1>1. req' \in [Request -> Reqs] /\ \A q \in Request \ {r} : req'[q] = req[q]
  BY DEF IInv, TypeOK
<1>2. ASSUME NEW q \in Request
      PROVE  Working(q)' /\ Carries(q)'
  <2>1. CASE q # r
    <3>1. req'[q] = req[q] /\ Working(q) /\ Carries(q)
      BY <1>1, <2>1 DEF IInv, TypeOK, Working
    <3>2. Left(q)' = Left(q)
      BY <3>1 DEF Left, Batch
    <3>3. Working(q)'
      BY <3>1, <3>2 DEF Working
    <3>4. Carries(q)'
      BY <3>1 DEF Carries
    <3> QED
      BY <3>3, <3>4
  <2> QED
    BY <2>1
<1>3. TypeOK'
  BY <1>1, <1>2 DEF IInv, TypeOK, Working, SyncsApart
<1> QED
  BY <1>2, <1>3 DEF IInv

\* A batch leaves with the rows of one cashier, as they are queued.
LEMMA SendStep ==
  ASSUME IInv, NEW t \in Tab, NEW r \in Request, Send(t, r)
  PROVE  IInv'
<1> DEFINE u == tab[t].user
           new(P) == [Free EXCEPT !.at = "next", !.by = u,
                        !.cart = [n \in Number |-> IF n \in P THEN row[n].cart ELSE None]]
<1>1. PICK P \in SUBSET {n \in Number : Eligible(n, u)} : P # {} /\ req' = [req EXCEPT ![r] = new(P)]
  BY DEF Send
<1>2. u \in Cashier
  BY DEF IInv, TypeOK, Tabs
<1>3. /\ new(P).at = "next" /\ new(P).by = u
      /\ new(P).cart = [n \in Number |-> IF n \in P THEN row[n].cart ELSE None]
      /\ new(P).answer = [n \in Number |-> "none"]
  BY DEF Free, NoAnswer
<1>4. new(P) \in Reqs
  <2>1. \A n \in Number : row[n].cart \in Cart \cup {None}
    BY DEF IInv, TypeOK, Rows
  <2>2. [n \in Number |-> IF n \in P THEN row[n].cart ELSE None] \in [Number -> Cart \cup {None}]
    BY <2>1
  <2>3. [n \in Number |-> "none"] \in [Number -> Answers \cup {"none"}]
    OBVIOUS
  <2> QED
    BY <1>2, <2>2, <2>3 DEF Reqs, Free, NoAnswer
<1> HIDE DEF new, u
<1>5. req'[r] = new(P)
  BY <1>1 DEF IInv, TypeOK
<1>6. Left(r)' = P
  <2>1. \A n \in P : n \in Number /\ row[n].cart # None
    BY <1>1 DEF Eligible
  <2> QED
    BY <1>3, <1>5, <2>1 DEF Left, Batch
<1>7. Working(r)'
  BY <1>1, <1>3, <1>5, <1>6 DEF Working
<1>8. UNCHANGED <<row, counter, sale, rules, today, faults>>
  BY DEF Send
<1>9. Carries(r)'
  BY <1>1, <1>3, <1>5, <1>8 DEF Carries, Eligible
<1>10. tab' \in [Tab -> Tabs]
  <2>1. [tab[t] EXCEPT !.sync = r] \in Tabs
    BY DEF IInv, TypeOK, Tabs
  <2> QED
    BY <2>1 DEF Send, IInv, TypeOK
<1>11. SyncsApart'
  BY DEF Send, Awaited, SyncsApart, IInv, TypeOK, Tabs
<1>12. (\A s \in Tab : Holding(s))'
  BY DEF Send, Holding, IInv, TypeOK, Tabs
<1>13. (\A m \in Number : Queued(m))' /\ row' \in [Number -> Rows] /\ faults' \in 0..MaxFaults
  BY <1>8 DEF IInv, TypeOK, Queued
<1> QED
  BY <1>1, <1>4, <1>7, <1>8, <1>9, <1>10, <1>11, <1>12, <1>13, RequestStep

\* An answer is written to its row: "synced" only of a sale.
LEMMA ApplyStep ==
  ASSUME IInv, NEW t \in Tab, NEW n \in Number, Apply(t, n)
  PROVE  IInv'
<1>17. PICK r \in Request : r = tab[t].sync
  BY DEF IInv, TypeOK, Apply, Tabs
<1> DEFINE a == req[r].answer[n]
           less == [req[r] EXCEPT !.cart[n] = None, !.answer[n] = "none"]
           new == IF Batch(r) = {n} THEN Free ELSE less
<1>1. req[r].at = "answered" /\ Left(r) = {} /\ req[r] \in Reqs /\ Carries(r)
  BY <1>17 DEF IInv, TypeOK, Apply
<1>2. less \in Reqs /\ less.at = "answered" /\ less.by = req[r].by
      /\ less.cart = [req[r].cart EXCEPT ![n] = None]
      /\ less.answer = [req[r].answer EXCEPT ![n] = "none"]
  BY <1>1 DEF Reqs
<1>3. Free \in Reqs /\ Free.at = "free" /\ Free.cart = [m \in Number |-> None]
      /\ Free.answer = [m \in Number |-> "none"]
  BY DEF Free, Reqs, Empty, NoAnswer
<1> HIDE DEF less
<1>4. new \in Reqs /\ req' = [req EXCEPT ![r] = new] /\ req'[r] = new
  <2>1. new \in Reqs
    BY <1>2, <1>3
  <2>2. req' = [req EXCEPT ![r] = new]
    BY <1>17 DEF Apply, less
  <2> HIDE DEF new
  <2> QED
    BY <2>1, <2>2 DEF IInv, TypeOK
<1>5. PICK old \in Rows :
        /\ row' = [row EXCEPT ![n] = old]
        /\ old.cart = row[n].cart /\ old.cashier = row[n].cashier
        /\ old.synced => row[n].synced \/ a = "synced"
  <2>1. row[n] \in Rows
    BY DEF IInv, TypeOK
  <2>2. CASE a = "synced" /\ row' = [row EXCEPT ![n].synced = TRUE, ![n].refused = FALSE]
    <3>1. [row[n] EXCEPT !.synced = TRUE, !.refused = FALSE] \in Rows
      BY <2>1 DEF Rows
    <3> QED
      BY <2>1, <2>2, <3>1 DEF Rows, IInv, TypeOK
  <2>3. CASE row' = [row EXCEPT ![n].refused = TRUE]
    <3>1. [row[n] EXCEPT !.refused = TRUE] \in Rows
      BY <2>1 DEF Rows
    <3> QED
      BY <2>1, <2>3, <3>1 DEF Rows, IInv, TypeOK
  <2>4. CASE row' = row
    BY <2>1, <2>4 DEF IInv, TypeOK
  <2> QED
    BY <1>17, <2>2, <2>3, <2>4 DEF Apply, ProvesSale
<1>18. row' \in [Number -> Rows] /\ row'[n] = old /\ \A m \in Number \ {n} : row'[m] = row[m]
  <2>1. row \in [Number -> Rows]
    BY DEF IInv, TypeOK
  <2> QED
    BY <1>5, <2>1
<1>6. \A m \in Number : row'[m].cart = row[m].cart /\ row'[m].cashier = row[m].cashier
  BY <1>5, <1>18
<1>7. \A m \in Number : row'[m].synced => row[m].synced \/ (m = n /\ a = "synced")
  BY <1>5, <1>18
<1>8. UNCHANGED <<counter, sale, rules, today, faults>>
  BY DEF Apply
<1>9. ASSUME NEW m \in Number
      PROVE  Queued(m)'
  <2>1. Queued(m) /\ Carries(r)
    BY <1>1 DEF IInv
  <2>2. a = "synced" => sale[n] # <<>>
    BY <2>1 DEF Carries
  <2>3. row'[m].synced => sale[m] # <<>>
    BY <1>7, <2>1, <2>2 DEF Queued
  <2> QED
    BY <1>6, <1>8, <2>1, <2>3 DEF Queued
<1>10. Left(r)' = {}
  <2>1. CASE Batch(r) = {n}
    BY <1>3, <1>4, <2>1 DEF Left, Batch
  <2>2. CASE Batch(r) # {n}
    <3>1. new = less
      BY <2>2
    <3>2. \A m \in Number \ {n} : less.cart[m] = req[r].cart[m] /\ less.answer[m] = req[r].answer[m]
      BY <1>1, <1>2 DEF Reqs
    <3>3. less.cart[n] = None
      BY <1>1, <1>2 DEF Reqs
    <3>4. \A m \in Number : req[r].cart[m] # None => req[r].answer[m] # "none"
      BY <1>1 DEF Left, Batch
    <3> HIDE DEF new
    <3> QED
      BY <1>4, <3>1, <3>2, <3>3, <3>4 DEF Left, Batch
  <2> QED
    BY <2>1, <2>2
<1>11. Working(r)'
  BY <1>2, <1>3, <1>4, <1>10 DEF Working
<1>12. Carries(r)'
  <2>1. CASE Batch(r) = {n}
    BY <1>3, <1>4, <2>1 DEF Carries
  <2>2. CASE Batch(r) # {n}
    <3>1. new = less
      BY <2>2
    <3>2. \A m \in Number : /\ less.cart[m] # None => less.cart[m] = req[r].cart[m]
                            /\ less.answer[m] = "synced" => req[r].answer[m] = "synced"
      BY <1>1, <1>2 DEF Reqs
    <3> HIDE DEF new
    <3>3. Carries(r) /\ req'[r] = less /\ sale' = sale
      BY <1>1, <1>4, <1>8, <3>1
    <3>4. ASSUME NEW m \in Number
          PROVE  /\ less.cart[m] # None => row'[m].cart = less.cart[m] /\ row'[m].cashier = less.by
                 /\ less.answer[m] = "synced" => sale[m] # <<>>
      BY <1>2, <1>6, <3>2, <3>3 DEF Carries
    <3> QED
      BY <3>3, <3>4 DEF Carries
  <2> QED
    BY <2>1, <2>2
<1>13. tab' = tab \/ tab' = [tab EXCEPT ![t] = [tab[t] EXCEPT !.sync = None]]
  BY <1>17 DEF Apply, IInv, TypeOK
<1>14. tab' \in [Tab -> Tabs]
  <2>1. [tab[t] EXCEPT !.sync = None] \in Tabs
    BY DEF IInv, TypeOK, Tabs
  <2> QED
    BY <1>13, <2>1 DEF IInv, TypeOK
<1>15. SyncsApart'
  BY <1>13 DEF SyncsApart, IInv, TypeOK, Tabs
<1>16. (\A s \in Tab : Holding(s))'
  <2>1. \A s \in Tab : /\ tab'[s].at = tab[s].at /\ tab'[s].cart = tab[s].cart
                       /\ tab'[s].by = tab[s].by /\ tab'[s].seq = tab[s].seq
    <3>1. tab[t] \in Tabs
      BY DEF IInv, TypeOK
    <3>2. \A s \in Tab \ {t} : tab'[s] = tab[s]
      BY <1>13 DEF IInv, TypeOK
    <3>3. tab'[t] \in {tab[t], [tab[t] EXCEPT !.sync = None]}
      BY <1>13 DEF IInv, TypeOK
    <3> QED
      BY <3>1, <3>2, <3>3 DEF Tabs
  <2> QED
    BY <2>1 DEF Holding, IInv
<1>19. faults' \in 0..MaxFaults
  BY <1>8 DEF IInv, TypeOK
<1> HIDE DEF new, a
<1> QED
  BY <1>4, <1>6, <1>8, <1>9, <1>11, <1>12, <1>14, <1>15, <1>16, <1>18, <1>19, RequestStep

\* A request is lost, before or after its work.
LEMMA VanishStep ==
  ASSUME IInv, NEW r \in Request, Vanish(r)
  PROVE  IInv'
<1>1. Free \in Reqs /\ Free.at = "free" /\ Free.cart = [m \in Number |-> None]
      /\ Free.answer = [m \in Number |-> "none"]
  BY DEF Free, Reqs, Empty, NoAnswer
<1>2. req' = [req EXCEPT ![r] = Free] /\ req'[r] = Free
  BY DEF Vanish, IInv, TypeOK
<1>3. Working(r)' /\ Carries(r)'
  BY <1>1, <1>2 DEF Working, Carries
<1>4. UNCHANGED <<row, counter, sale, rules, today>>
  BY DEF Vanish
<1>5. faults' \in 0..MaxFaults
  BY BoundsAreCounts DEF Vanish, Fault, IInv, TypeOK
<1>6. \A t \in Tab : [tab[t] EXCEPT !.sync = None] \in Tabs
  BY DEF IInv, TypeOK, Tabs
<1>7. tab' \in [Tab -> Tabs]
  BY <1>6 DEF Vanish, IInv, TypeOK
<1>8. SyncsApart' /\ (\A t \in Tab : Holding(t))'
  BY DEF Vanish, SyncsApart, Holding, IInv, TypeOK, Tabs
<1>9. (\A m \in Number : Queued(m))' /\ row' \in [Number -> Rows]
      /\ \A m \in Number : row'[m].cart = row[m].cart /\ row'[m].cashier = row[m].cashier
  BY <1>4 DEF IInv, TypeOK, Queued
<1> QED
  BY <1>1, <1>2, <1>3, <1>4, <1>5, <1>7, <1>8, <1>9, RequestStep

-----------------------------------------------------------------------------
(* Results. *)

\* Batches, rows and sales of one number agree, whoever sends, resends or reloads.
THEOREM Invariance == Spec => []IInv
<1>1. IInv /\ [Next]_vars => IInv'
  <2> SUFFICES ASSUME IInv, [Next]_vars PROVE IInv'
    OBVIOUS
  <2>1. ASSUME NEW t \in Tab, NEW c \in Cart, Charge(t, c) PROVE IInv'
    BY <2>1, ChargeStep
  <2>2. ASSUME NEW t \in Tab, Mint(t) \/ Add(t) PROVE IInv'
    BY <2>2, MintStep, AddStep
  <2>3. ASSUME NEW t \in Tab, Disconnect(t) \/ Reload(t) \/ SwitchCashier(t) PROVE IInv'
    BY <2>3, DisconnectStep, ReloadStep, SwitchCashierStep
  <2>4. ASSUME NEW t \in Tab, NEW r \in Request, Send(t, r) PROVE IInv'
    BY <2>4, SendStep
  <2>5. ASSUME NEW t \in Tab, NEW n \in Number, Apply(t, n) PROVE IInv'
    BY <2>5, ApplyStep
  <2>6. ASSUME NEW r \in Request, Check(r) \/ Commit(r) \/ Vanish(r) PROVE IInv'
    BY <2>6, CheckStep, CommitStep, VanishStep
  <2>7. CASE RulesChange \/ Midnight
    BY <2>7, WorldStep
  <2>8. CASE UNCHANGED vars
    <3>1. (\A t \in Tab : Holding(t))' /\ SyncsApart'
      BY <2>8 DEF vars, IInv, TypeOK, Holding, SyncsApart
    <3> QED
      BY <2>8, <3>1, TabsOnly DEF vars, IInv, TypeOK
  <2> QED
    BY <2>1, <2>2, <2>3, <2>4, <2>5, <2>6, <2>7, <2>8 DEF Next
<1> QED
  BY <1>1, InitIInv, PTL DEF Spec

\* However often batches are resent, and however they overlap, a queued cart has at most
\* one sale, its own, under the cashier who rang it (findByOfflineIdentity, the unique
\* index on branch, device and number, isOfflineSaleEligible).
THEOREM QueuedCartsSellOnce == Spec => []SoldOnceByItsCashier
<1>1. IInv => SoldOnceByItsCashier
  <2> SUFFICES ASSUME IInv, NEW n \in Number
               PROVE  /\ Len(sale[n]) <= 1
                      /\ \A i \in DOMAIN sale[n] : sale[n][i] = [cart |-> row[n].cart, cashier |-> row[n].cashier]
    BY DEF IInv, SoldOnceByItsCashier
  <2>1. CASE sale[n] = <<>>
    BY <2>1
  <2>2. CASE sale[n] = <<[cart |-> row[n].cart, cashier |-> row[n].cashier]>>
    BY <2>2
  <2> QED
    BY <2>1, <2>2 DEF IInv, Queued
<1> QED
  BY <1>1, Invariance, PTL

\* A row that stopped waiting has exactly one committed sale, whatever was answered late,
\* twice or for an older batch (runSync).
THEOREM DoneMeansSold == Spec => []SyncedMeansSold
<1>1. IInv => SyncedMeansSold
  <2> SUFFICES ASSUME IInv, NEW n \in Number, row[n].synced PROVE Len(sale[n]) = 1
    BY DEF SyncedMeansSold
  <2> QED
    BY DEF IInv, Queued
<1> QED
  BY <1>1, Invariance, PTL

\* No step loses or replaces a queued cart, or makes a row that is done wait again
\* (nextOfflineSequence, Dexie's add).
THEOREM RowsAreKept == Spec => QueuedIsKept
<1>1. ASSUME IInv, [Next]_vars
      PROVE  [\A n \in Number : row[n].cart # None =>
                /\ row'[n].cart = row[n].cart /\ row'[n].cashier = row[n].cashier
                /\ row[n].synced => row'[n].synced]_vars
  <2>1. ASSUME NEW n \in Number, row[n].cart # None, NEW t \in Tab, Add(t)
        PROVE  row'[n] = row[n]
    <3>1. <<tab[t].day, tab[t].seq>> \in Number
      BY <1>1, <2>1 DEF IInv, TypeOK, Add, Holding, Number, Tabs
    <3> QED
      BY <1>1, <2>1, <3>1 DEF IInv, TypeOK, Add, Takes
  <2>2. ASSUME NEW n \in Number, NEW t \in Tab, NEW m \in Number, Apply(t, m)
        PROVE  /\ row'[n].cart = row[n].cart /\ row'[n].cashier = row[n].cashier
               /\ row[n].synced => row'[n].synced
    BY <1>1, <2>2 DEF IInv, TypeOK, Apply, Rows
  <2>3. \/ row' = row \/ \E t \in Tab : Add(t)
        \/ \E t \in Tab, m \in Number : Apply(t, m)
    BY <1>1 DEF Next, vars, Charge, Mint, Disconnect, Reload, SwitchCashier, Send, Check, Commit,
                Vanish, RulesChange, Midnight
  <2> QED
    BY <2>1, <2>2, <2>3
<1> QED
  BY <1>1, Invariance, PTL DEF Spec, QueuedIsKept
=============================================================================
