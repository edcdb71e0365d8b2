--------------------------- MODULE SaleStock_proofs ---------------------------
(***************************************************************************)
(* For any sales, bills of materials, workers and clerks: what is reserved *)
(* is what unsettled sales need, the movements explain the stock, the      *)
(* badge agrees with the job, and every sale settles as SaleSettlement     *)
(* promises.                                                               *)
(***************************************************************************)
EXTENDS SaleStock, FiniteSetTheorems, TLAPS

(* Sums.  FiniteSetsExt folds a set by a recursive function over its       *)
(* subsets.  Strict inclusion of finite sets is well founded, which gives  *)
(* such a function a unique solution and the sum its two laws.             *)

\* What the sales of S take from a row, and the equation its fold solves.
SumOf(r, S) == MapThenSumSet(LAMBDA s : Need[s][r], S)
First(S) == CHOOSE s \in S : TRUE
Step(r, g, S) == IF S = {} THEN 0 ELSE Need[First(S)][r] + g[S \ {First(S)}]
Solves(r, g, T) == \A S \in SUBSET T : g[S] = Step(r, g, S)

\* A non-empty set of subsets of a finite set has a minimal element.
LEMMA Minimal ==
  ASSUME NEW T, IsFiniteSet(T), NEW B, B \subseteq SUBSET T, B # {}
  PROVE  \E m \in B : \A U \in B : U \subseteq m => U = m
<1> DEFINE R == StrictSubsetOrdering(T)
           F == FiniteSubsetsOf(T)
<1>1. IsWellFoundedOn(R, F) /\ B \subseteq F
  BY FS_StrictSubsetOrderingWellFounded, FS_FiniteSubsetsOfFinite
<1>2. PICK m \in B : \A U \in B : ~(<<U, m>> \in R)
  <2> HIDE DEF R, F
  <2> QED
    BY <1>1, WFMin
<1>3. \A U \in B : U \subseteq m /\ U # m => <<U, m>> \in R
  BY DEF StrictSubsetOrdering
<1>4. ASSUME NEW U \in B, U \subseteq m PROVE U = m
  BY <1>2, <1>3, <1>4
<1> QED
  BY <1>4

\* A set has its first element.
LEMMA FirstIsIn == \A S : S # {} => First(S) \in S
BY DEF First

\* Two solutions agree wherever both are defined.
LEMMA SolutionsAgree ==
  ASSUME NEW r, NEW g, NEW h, NEW T, IsFiniteSet(T), Solves(r, g, T), Solves(r, h, T)
  PROVE  \A S \in SUBSET T : g[S] = h[S]
<1> DEFINE B == {S \in SUBSET T : g[S] # h[S]}
<1>1. ASSUME B # {} PROVE FALSE
  <2>1. PICK m \in B : \A U \in B : U \subseteq m => U = m
    <3>1. B \subseteq SUBSET T
      OBVIOUS
    <3> HIDE DEF B
    <3> QED
      BY <1>1, <3>1, Minimal
  <2>2. g[m] = Step(r, g, m) /\ h[m] = Step(r, h, m) /\ g[m] # h[m]
    BY DEF Solves
  <2>3. m # {}
    BY <2>2 DEF Step
  <2>4. First(m) \in m
    BY <2>3, FirstIsIn
  <2>5. g[m \ {First(m)}] = h[m \ {First(m)}]
    BY <2>1, <2>4
  <2> QED
    BY <2>2, <2>3, <2>5 DEF Step
<1> QED
  BY <1>1

\* Every finite set of sales has a solution.
LEMMA SolutionExists ==
  ASSUME NEW r \in Row, NEW T \in SUBSET Sale, IsFiniteSet(T)
  PROVE  \E g : g \in [SUBSET T -> Nat] /\ Solves(r, g, T)
<1> DEFINE Good(S) == \E g : g \in [SUBSET S -> Nat] /\ Solves(r, g, S)
           B == {S \in SUBSET T : ~Good(S)}
<1>1. ASSUME B # {} PROVE FALSE
  <2>1. PICK m \in B : \A U \in B : U \subseteq m => U = m
    <3>1. B \subseteq SUBSET T
      OBVIOUS
    <3> HIDE DEF B
    <3> QED
      BY <1>1, <3>1, Minimal
  <2>2. m \in SUBSET T /\ ~Good(m)
    OBVIOUS
  <2>3. \A U \in SUBSET m : U # m => Good(U)
    BY <2>1, <2>2
  <2> DEFINE Sol(U) == CHOOSE g : g \in [SUBSET U -> Nat] /\ Solves(r, g, U)
             f == [U \in SUBSET m |-> IF U # m THEN Sol(U)[U]
                                      ELSE IF m = {} THEN 0
                                      ELSE Need[First(m)][r] + Sol(m \ {First(m)})[m \ {First(m)}]]
  <2>4. \A U \in SUBSET m : U # m => Sol(U) \in [SUBSET U -> Nat] /\ Solves(r, Sol(U), U)
    BY <2>3
  <2> HIDE DEF Sol
  <2>5. ASSUME NEW U \in SUBSET m, U # {}
        PROVE  /\ First(U) \in U /\ Need[First(U)][r] \in Nat
               /\ U \ {First(U)} \in SUBSET m /\ U \ {First(U)} # m
    <3>1. First(U) \in U
      BY <2>5, FirstIsIn
    <3> QED
      BY <2>2, <3>1, Quantities
  <2>6. f \in [SUBSET m -> Nat]
    <3>1. ASSUME NEW U \in SUBSET m PROVE f[U] \in Nat
      <4>1. CASE U # m
        BY <2>4, <4>1
      <4>2. CASE U = m /\ m = {}
        BY <4>2
      <4>3. CASE U = m /\ m # {}
        <5>1. PICK V \in SUBSET m : V = m \ {First(m)} /\ V # m
          <6>1. m \in SUBSET m /\ m # {}
            BY <4>3
          <6>2. m \ {First(m)} \in SUBSET m /\ m \ {First(m)} # m
            BY <2>5, <6>1
          <6> QED
            BY <6>2
        <5>2. Sol(V) \in [SUBSET V -> Nat]
          BY <2>4, <5>1
        <5>3. Sol(V)[V] \in Nat /\ Need[First(m)][r] \in Nat
          BY <2>5, <4>3, <5>2
        <5>4. f[m] = Need[First(m)][r] + Sol(V)[V]
          BY <4>3, <5>1
        <5> QED
          BY <4>3, <5>3, <5>4
      <4> QED
        BY <4>1, <4>2, <4>3
    <3> QED
      BY <3>1
  <2>7. \A U \in SUBSET m : U # m => f[U] = Sol(U)[U]
    OBVIOUS
  <2>8. ASSUME NEW U \in SUBSET m PROVE f[U] = Step(r, f, U)
    <3>1. CASE U = {}
      <4>1. CASE m = {}
        BY <3>1, <4>1 DEF Step
      <4>2. CASE m # {}
        BY <2>4, <2>7, <3>1, <4>2 DEF Solves, Step
      <4> QED
        BY <4>1, <4>2
    <3>2. CASE U # {} /\ U = m
      <4>1. f[m] = Need[First(m)][r] + Sol(m \ {First(m)})[m \ {First(m)}]
        BY <3>2
      <4>2. f[m \ {First(m)}] = Sol(m \ {First(m)})[m \ {First(m)}]
        BY <2>5, <2>7, <3>2
      <4> QED
        BY <3>2, <4>1, <4>2 DEF Step
    <3>3. CASE U # {} /\ U # m
      <4> DEFINE V == U \ {First(U)}
      <4>1. V \in SUBSET U /\ V \in SUBSET m /\ V # m
        BY <2>5, <3>3
      <4>2. Solves(r, Sol(U), V) /\ Solves(r, Sol(V), V) /\ IsFiniteSet(V)
        <5>1. Solves(r, Sol(U), U) /\ Solves(r, Sol(V), V)
          BY <2>4, <3>3, <4>1
        <5>2. IsFiniteSet(V)
          BY <2>2, <4>1, FS_Subset
        <5> QED
          BY <4>1, <5>1, <5>2 DEF Solves
      <4>3. Sol(U)[V] = Sol(V)[V]
        <5> HIDE DEF V
        <5> QED
          BY <4>2, SolutionsAgree
      <4>4. Sol(U)[U] = Need[First(U)][r] + Sol(U)[V]
        BY <2>4, <3>3 DEF Solves, Step
      <4>5. f[U] = Sol(U)[U] /\ f[V] = Sol(V)[V]
        BY <2>7, <3>3, <4>1
      <4> QED
        BY <3>3, <4>3, <4>4, <4>5 DEF Step
    <3> QED
      BY <3>1, <3>2, <3>3
  <2> HIDE DEF f
  <2>9. Good(m)
    BY <2>6, <2>8 DEF Solves
  <2> QED
    BY <2>2, <2>9
<1>2. T \notin B
  BY <1>1
<1> QED
  BY <1>2
\* The sum over a finite set is what every solution says, and a natural number.
LEMMA SumSolves ==
  ASSUME NEW r \in Row, NEW T \in SUBSET Sale, IsFiniteSet(T)
  PROVE  /\ SumOf(r, T) \in Nat
         /\ \A g : Solves(r, g, T) => g[T] = SumOf(r, T)
<1>1. PICK f : f \in [SUBSET T -> Nat] /\ Solves(r, f, T)
  BY SolutionExists
<1>2. f = [S \in SUBSET T |-> Step(r, f, S)]
  BY <1>1 DEF Solves
<1> DEFINE Fix(g) == g = [S \in SUBSET T |-> Step(r, g, S)]
           G == CHOOSE g : Fix(g)
<1>3. SumOf(r, T) = G[T]
  BY DEF SumOf, MapThenSumSet, MapThenFoldSet, Step, First
<1>4. Fix(G)
  <2>1. Fix(f)
    BY <1>2
  <2> HIDE DEF Fix
  <2> QED
    BY <2>1
<1> HIDE DEF G
<1>5. Solves(r, G, T)
  <2> SUFFICES ASSUME NEW S \in SUBSET T PROVE G[S] = Step(r, G, S)
    BY DEF Solves
  <2> QED
    BY <1>4
<1>6. \A g : Solves(r, g, T) => g[T] = G[T]
  BY <1>5, SolutionsAgree
<1> QED
  BY <1>1, <1>3, <1>6

\* The sum over a set, by its first element.
LEMMA SumByFirst ==
  ASSUME NEW r \in Row, NEW T \in SUBSET Sale, IsFiniteSet(T)
  PROVE  SumOf(r, T) = IF T = {} THEN 0 ELSE Need[First(T)][r] + SumOf(r, T \ {First(T)})
<1>1. PICK f : f \in [SUBSET T -> Nat] /\ Solves(r, f, T)
  BY SolutionExists
<1>2. f[T] = SumOf(r, T)
  BY <1>1, SumSolves
<1>3. CASE T = {}
  BY <1>1, <1>2, <1>3 DEF Solves, Step
<1>4. CASE T # {}
  <2> DEFINE U == T \ {First(T)}
  <2>1. Solves(r, f, U) /\ IsFiniteSet(U) /\ U \in SUBSET Sale
    <3>1. U \in SUBSET T
      OBVIOUS
    <3>2. IsFiniteSet(U)
      BY <3>1, FS_Subset
    <3> QED
      BY <1>1, <3>1, <3>2 DEF Solves
  <2>2. f[U] = SumOf(r, U)
    <3> HIDE DEF U
    <3> QED
      BY <2>1, SumSolves
  <2> QED
    BY <1>1, <1>2, <1>4, <2>2 DEF Solves, Step
<1> QED
  BY <1>3, <1>4

\* The first law: any element can be taken out of the sum.
LEMMA SumRemoves ==
  ASSUME NEW r \in Row, NEW T \in SUBSET Sale, IsFiniteSet(T), NEW s \in T
  PROVE  SumOf(r, T) = Need[s][r] + SumOf(r, T \ {s})
<1> DEFINE Good(S) == \A u \in S : SumOf(r, S) = Need[u][r] + SumOf(r, S \ {u})
           B == {S \in SUBSET T : ~Good(S)}
<1>1. ASSUME B # {} PROVE FALSE
  <2>1. PICK m \in B : \A U \in B : U \subseteq m => U = m
    <3>1. B \subseteq SUBSET T
      OBVIOUS
    <3> HIDE DEF B
    <3> QED
      BY <1>1, <3>1, Minimal
  <2>2. PICK u \in m : SumOf(r, m) # Need[u][r] + SumOf(r, m \ {u})
    OBVIOUS
  <2>3. m \in SUBSET T /\ m # {}
    OBVIOUS
  <2>4. \A U \in SUBSET m : IsFiniteSet(U) /\ U \in SUBSET Sale
    BY <2>3, FS_Subset
  <2> DEFINE p == First(m)
  <2>5. p \in m
    BY <2>3, FirstIsIn
  <2>6. SumOf(r, m) = Need[p][r] + SumOf(r, m \ {p})
    BY <2>3, <2>4, SumByFirst
  <2>7. u # p
    BY <2>2, <2>6
  <2>8. Good(m \ {p}) /\ Good(m \ {u})
    BY <2>1, <2>3, <2>5
  <2>9. /\ SumOf(r, m \ {p}) = Need[u][r] + SumOf(r, (m \ {p}) \ {u})
        /\ SumOf(r, m \ {u}) = Need[p][r] + SumOf(r, (m \ {u}) \ {p})
    BY <2>5, <2>7, <2>8
  <2>10. (m \ {p}) \ {u} = (m \ {u}) \ {p}
    OBVIOUS
  <2>11. /\ Need[p][r] \in Nat /\ Need[u][r] \in Nat
         /\ SumOf(r, (m \ {u}) \ {p}) \in Nat
    <3>1. p \in Sale /\ u \in Sale
      BY <2>3, <2>5
    <3>2. (m \ {u}) \ {p} \in SUBSET m
      OBVIOUS
    <3>3. SumOf(r, (m \ {u}) \ {p}) \in Nat
      BY <2>4, <3>2, SumSolves
    <3> QED
      BY <3>1, <3>3, Quantities
  <2> DEFINE rest == SumOf(r, (m \ {u}) \ {p})
  <2>12. /\ SumOf(r, m) = Need[p][r] + (Need[u][r] + rest)
         /\ SumOf(r, m \ {u}) = Need[p][r] + rest
    BY <2>6, <2>9, <2>10
  <2> HIDE DEF p, rest
  <2>13. Need[p][r] + (Need[u][r] + rest) = Need[u][r] + (Need[p][r] + rest)
    BY <2>11 DEF rest
  <2> QED
    BY <2>2, <2>12, <2>13
<1>2. Good(T)
  BY <1>1
<1> QED
  BY <1>2

\* The second: a new element adds what it needs.
LEMMA SumAdds ==
  ASSUME NEW r \in Row, NEW T \in SUBSET Sale, IsFiniteSet(T), NEW s \in Sale \ T
  PROVE  IsFiniteSet(T \cup {s}) /\ SumOf(r, T \cup {s}) = SumOf(r, T) + Need[s][r]
<1>1. IsFiniteSet(T \cup {s})
  BY FS_AddElement
<1>2. SumOf(r, T \cup {s}) = Need[s][r] + SumOf(r, (T \cup {s}) \ {s})
  BY <1>1, SumRemoves
<1>3. SumOf(r, (T \cup {s}) \ {s}) = SumOf(r, T)
  <2>1. (T \cup {s}) \ {s} = T
    OBVIOUS
  <2> QED
    BY <2>1
<1>4. Need[s][r] \in Nat /\ SumOf(r, T) \in Nat
  BY Quantities, SumSolves
<1> QED
  BY <1>1, <1>2, <1>3, <1>4
-----------------------------------------------------------------------------
(* The inductive invariant. *)

\* The sales whose stock is still reserved, and the rows a worker or a clerk has
\* locked.
Unsettled == {s \in Sale : OpenJob(s)}
WorkerRows(w) == IF worker[w].at = "applying" THEN RowsOf(worker[w].job) ELSE {}
ClerkRows(c) == {clerk[c].row, clerk[c].to} \ {None}

\* What is reserved is what finitely many unsettled sales need.
Sums == IsFiniteSet(Unsettled) /\ \A r \in Row : reserved[r] = SumOf(r, Unsettled)

\* The movements explain the stock, and it is never short.
Ledger == \A r \in Row : onHand[r] = Opening[r] + saleLedger[r] + deskLedger[r] /\ onHand[r] >= 0

\* A sale, its job and its badge.
Agrees(s) ==
  /\ sale[s] = "none" <=> job[s].status = "none"
  /\ OpenJob(s) => sale[s] = "completed"
  /\ job[s].status \in {"none", "pending", "processing"} => job[s].attempts < MaxAttempts
  /\ job[s].status \in {"pending", "processing"} => badge[s] = "pending"
  /\ job[s].status = "failed" => badge[s] = "failed"
  /\ job[s].status = "completed" <=> badge[s] = "completed"
  /\ job[s].status = "cancelled" => sale[s] = "undone"

\* A worker inside its transaction still has its claim, its rows cover the sale, and
\* it is about to release all that the sale reserved.
Applies(w) ==
  /\ worker[w].at # "free" => worker[w].job \in Sale
  /\ worker[w].at = "applying" =>
       /\ HoldsClaim(w, worker[w].job)
       /\ \A r \in Row : worker[w].release[r] = Need[worker[w].job][r]
       /\ \A r \in WorkerRows(w) : onHand[r] >= Need[worker[w].job][r]

\* A clerk's row is as it was read, and has what is taken from it.
Holds(c) ==
  IF clerk[c].op = "none" THEN clerk[c] = Away
  ELSE /\ clerk[c].row \in Row /\ clerk[c].before = onHand[clerk[c].row]
       /\ clerk[c].op \in {"take", "move"} => clerk[c].qty <= clerk[c].before
       /\ IF clerk[c].op = "move" THEN clerk[c].to \in Row \ {clerk[c].row} ELSE clerk[c].to = None

\* No row is locked twice.
Apart ==
  /\ \A v, w \in Worker : v # w => WorkerRows(v) \cap WorkerRows(w) = {}
  /\ \A w \in Worker, c \in Clerk : WorkerRows(w) \cap ClerkRows(c) = {}
  /\ \A c, d \in Clerk : c # d => ClerkRows(c) \cap ClerkRows(d) = {}

IInv ==
  /\ TypeOK /\ Sums /\ Ledger
  /\ \A s \in Sale : Agrees(s)
  /\ \A w \in Worker : Applies(w)
  /\ \A c \in Clerk : Holds(c)
  /\ Apart
-----------------------------------------------------------------------------
(* What keeps each part of it. *)

\* What is reserved is a natural number, and covers every unsettled sale.
LEMMA ReservedCovers ==
  ASSUME IInv, NEW r \in Row
  PROVE  /\ reserved[r] \in Nat
         /\ \A s \in Unsettled : Need[s][r] <= reserved[r]
<1>1. Unsettled \in SUBSET Sale /\ IsFiniteSet(Unsettled) /\ reserved[r] = SumOf(r, Unsettled)
  BY DEF IInv, Sums, Unsettled
<1>2. reserved[r] \in Nat
  BY <1>1, SumSolves
<1>3. ASSUME NEW s \in Unsettled PROVE Need[s][r] <= reserved[r]
  <2>1. SumOf(r, Unsettled) = Need[s][r] + SumOf(r, Unsettled \ {s})
    BY <1>1, SumRemoves
  <2>2. SumOf(r, Unsettled \ {s}) \in Nat
    <3>1. Unsettled \ {s} \in SUBSET Sale /\ IsFiniteSet(Unsettled \ {s})
      BY <1>1, FS_RemoveElement
    <3> QED
      BY <3>1, SumSolves
  <2>3. Need[s][r] \in Nat
    BY <1>1, Quantities
  <2> QED
    BY <1>1, <2>1, <2>2, <2>3
<1> QED
  BY <1>2, <1>3

\* The sum after a step is the sum over what is unsettled then.
LEMMA SumsThen ==
  ASSUME IsFiniteSet(Unsettled'), \A r \in Row : reserved'[r] = SumOf(r, Unsettled')
  PROVE  Sums'
BY DEF Sums, SumOf, MapThenSumSet, MapThenFoldSet

\* No sale opens or settles.
LEMMA SumsKept ==
  ASSUME Sums, UNCHANGED reserved, \A s \in Sale : OpenJob(s)' = OpenJob(s)
  PROVE  Sums'
<1>1. Unsettled' = Unsettled
  BY DEF Unsettled
<1> QED
  BY <1>1, SumsThen DEF Sums

\* A sale reserves what it needs.
LEMMA SumsGrow ==
  ASSUME Sums, NEW s \in Sale, ~OpenJob(s), OpenJob(s)',
         \A u \in Sale \ {s} : OpenJob(u)' = OpenJob(u),
         \A r \in Row : reserved'[r] = reserved[r] + Need[s][r]
  PROVE  Sums'
<1>1. Unsettled' = Unsettled \cup {s} /\ s \in Sale \ Unsettled /\ Unsettled \in SUBSET Sale
  BY DEF Unsettled
<1>2. IsFiniteSet(Unsettled \cup {s})
  BY <1>1, FS_AddElement DEF Sums
<1>3. \A r \in Row : SumOf(r, Unsettled \cup {s}) = SumOf(r, Unsettled) + Need[s][r]
  BY <1>1, SumAdds DEF Sums
<1>4. \A r \in Row : reserved'[r] = SumOf(r, Unsettled')
  BY <1>1, <1>3 DEF Sums
<1> QED
  BY <1>1, <1>2, <1>4, SumsThen

\* A sale gives back what it needs.
LEMMA SumsShrink ==
  ASSUME Sums, NEW s \in Sale, OpenJob(s), ~OpenJob(s)',
         \A u \in Sale \ {s} : OpenJob(u)' = OpenJob(u),
         \A r \in Row : reserved'[r] = reserved[r] - Need[s][r]
  PROVE  Sums'
<1>1. Unsettled' = Unsettled \ {s} /\ s \in Unsettled /\ Unsettled \in SUBSET Sale
  BY DEF Unsettled
<1>2. IsFiniteSet(Unsettled \ {s})
  BY FS_RemoveElement DEF Sums
<1>3. ASSUME NEW r \in Row PROVE reserved'[r] = SumOf(r, Unsettled')
  <2>1. SumOf(r, Unsettled) = Need[s][r] + SumOf(r, Unsettled \ {s})
    BY <1>1, SumRemoves DEF Sums
  <2>2. SumOf(r, Unsettled \ {s}) \in Nat /\ Need[s][r] \in Nat
    <3>1. Unsettled \ {s} \in SUBSET Sale
      BY <1>1
    <3> QED
      BY <1>2, <3>1, SumSolves, Quantities
  <2>3. reserved[r] = SumOf(r, Unsettled)
    BY DEF Sums
  <2>4. reserved'[r] = SumOf(r, Unsettled \ {s})
    BY <2>1, <2>2, <2>3
  <2> QED
    BY <1>1, <2>4
<1> QED
  BY <1>1, <1>2, <1>3, SumsThen

\* The rows a step needs free are nobody's.
LEMMA FreeIsApart ==
  ASSUME IInv, NEW rows, Free(rows)
  PROVE  /\ \A w \in Worker : rows \cap WorkerRows(w) = {}
         /\ \A c \in Clerk : rows \cap ClerkRows(c) = {}
<1>1. \A w \in Worker : WorkerRows(w) \subseteq Locked
  BY DEF WorkerRows, Locked
<1>2. \A c \in Clerk : ClerkRows(c) \subseteq Locked
  <2>1. \A c \in Clerk : clerk[c] \in Clerks
    BY DEF IInv, TypeOK
  <2>2. \A c \in Clerk : ClerkRows(c) \subseteq Row
    BY <2>1 DEF ClerkRows, Clerks
  <2>3. ASSUME NEW c \in Clerk, NEW r \in ClerkRows(c) PROVE r \in Locked
    <3>1. r \in {q \in Row : \E d \in Clerk : q \in {clerk[d].row, clerk[d].to}}
      BY <2>2, <2>3 DEF ClerkRows
    <3> QED
      BY <3>1 DEF Locked
  <2> QED
    BY <2>3
<1> QED
  BY <1>1, <1>2 DEF Free

\* Locks are only given back.
LEMMA ApartKept ==
  ASSUME Apart, \A w \in Worker : WorkerRows(w)' \subseteq WorkerRows(w),
         \A c \in Clerk : ClerkRows(c)' \subseteq ClerkRows(c)
  PROVE  Apart'
BY DEF Apart

\* A worker that neither moves nor loses its claim, while its rows stay.
LEMMA AppliesKept ==
  ASSUME NEW w \in Worker, Applies(w), worker'[w] = worker[w],
         worker[w].at = "applying" =>
           /\ HoldsClaim(w, worker[w].job)'
           /\ \A r \in WorkerRows(w) : onHand'[r] = onHand[r]
  PROVE  Applies(w)'
<1>1. WorkerRows(w)' = WorkerRows(w)
  BY DEF WorkerRows
<1> QED
  BY <1>1 DEF Applies, HoldsClaim

\* A worker outside its transaction.
LEMMA AppliesNot ==
  ASSUME NEW w \in Worker, worker'[w].at # "applying", worker'[w].at # "free" => worker'[w].job \in Sale
  PROVE  Applies(w)' /\ WorkerRows(w)' = {}
BY DEF Applies, WorkerRows

\* A clerk that does not move, while its row stays.
LEMMA HoldsKept ==
  ASSUME NEW c \in Clerk, Holds(c), clerk'[c] = clerk[c],
         clerk[c].op # "none" => onHand'[clerk[c].row] = onHand[clerk[c].row]
  PROVE  Holds(c)'
BY DEF Holds
-----------------------------------------------------------------------------
(* Every step keeps the invariant. *)

\* To begin with nothing is sold, reserved or locked.
LEMMA InitIInv == Init => IInv
<1> SUFFICES ASSUME Init PROVE IInv
  OBVIOUS
<1>1. TypeOK
  <2>1. \A r \in Row : Opening[r] \in Nat
    BY Quantities
  <2>2. onHand \in [Row -> Int] /\ reserved \in [Row -> Int] /\ saleLedger \in [Row -> Int] /\ deskLedger \in [Row -> Int]
    BY <2>1, Quantities DEF Init
  <2>3. NoJob \in Jobs
    BY Bounds DEF NoJob, Jobs, JobStatuses
  <2>4. Resting \in Workers
    BY DEF Resting, Workers
  <2>5. Away \in Clerks
    BY DEF Away, Clerks
  <2> QED
    BY <2>2, <2>3, <2>4, <2>5 DEF Init, TypeOK
<1>2. Sums
  <2>1. Unsettled = {}
    BY DEF Unsettled, Init, OpenJob, NoJob
  <2>2. IsFiniteSet({})
    BY FS_EmptySet
  <2>3. \A r \in Row : SumOf(r, {}) = 0
    BY <2>2, SumByFirst
  <2> QED
    BY <2>1, <2>2, <2>3 DEF Init, Sums
<1>3. Ledger
  BY Quantities DEF Init, Ledger
<1>4. \A s \in Sale : Agrees(s)
  BY Bounds DEF Init, Agrees, NoJob, OpenJob
<1>5. \A w \in Worker : Applies(w) /\ WorkerRows(w) = {}
  BY DEF Init, Applies, WorkerRows, Resting
<1>6. \A c \in Clerk : Holds(c) /\ ClerkRows(c) = {}
  BY DEF Init, Holds, ClerkRows, Away
<1>7. Apart
  BY <1>5, <1>6 DEF Apart
<1> QED
  BY <1>1, <1>2, <1>3, <1>4, <1>5, <1>6, <1>7 DEF IInv

\* A sale or its job changes, and perhaps what is reserved: the locks stand.
LEMMA LocksStand ==
  ASSUME IInv, UNCHANGED <<onHand, worker, clerk>>,
         \A w \in Worker : worker[w].at = "applying" => HoldsClaim(w, worker[w].job)'
  PROVE  /\ \A w \in Worker : Applies(w)'
         /\ \A c \in Clerk : Holds(c)'
         /\ Apart'
<1>1. \A w \in Worker : Applies(w)'
  BY AppliesKept DEF IInv
<1>2. \A c \in Clerk : Holds(c)'
  BY HoldsKept DEF IInv
<1>3. Apart'
  BY ApartKept DEF IInv, WorkerRows, ClerkRows
<1> QED
  BY <1>1, <1>2, <1>3

\* Checkout.
LEMMA SellKeeps ==
  ASSUME IInv, NEW s \in Sale, Sell(s)
  PROVE  IInv'
<1>1. job[s].status = "none" /\ ~OpenJob(s) /\ job[s].attempts \in 0..MaxAttempts /\ Agrees(s)
  BY DEF IInv, Sell, Agrees, OpenJob, TypeOK, Jobs
<1>2. job[s] \in Jobs /\ [job[s] EXCEPT !.status = "pending"] \in Jobs
  BY DEF IInv, TypeOK, Jobs, JobStatuses
<1>3. job' = [job EXCEPT ![s] = [job[s] EXCEPT !.status = "pending"]]
  BY DEF Sell
<1>4. job' \in [Sale -> Jobs] /\ job'[s] = [job[s] EXCEPT !.status = "pending"]
      /\ \A u \in Sale \ {s} : job'[u] = job[u]
  BY <1>2, <1>3 DEF IInv, TypeOK
<1>5. job'[s].status = "pending" /\ job'[s].attempts = job[s].attempts /\ job'[s].token = job[s].token
  BY <1>2, <1>4 DEF Jobs
<1>6. OpenJob(s)' /\ \A u \in Sale \ {s} : OpenJob(u)' = OpenJob(u)
  BY <1>4, <1>5 DEF OpenJob
<1>7. \A r \in Row : reserved'[r] = reserved[r] + Need[s][r]
  BY DEF Sell
<1>8. Sums'
  BY <1>1, <1>6, <1>7, SumsGrow DEF IInv
<1>9. TypeOK'
  <2>1. \A r \in Row : reserved[r] + Need[s][r] \in Int
    BY Quantities DEF IInv, TypeOK
  <2>2. reserved' \in [Row -> Int]
    BY <2>1 DEF Sell
  <2>3. sale' \in [Sale -> {"none", "completed", "undone"}]
        /\ badge' \in [Sale -> {"none", "pending", "completed", "failed"}]
    BY DEF Sell, IInv, TypeOK
  <2> QED
    BY <1>4, <2>2, <2>3 DEF Sell, IInv, TypeOK, ledgers
<1>10. Ledger'
  BY DEF Sell, IInv, Ledger, ledgers
<1>11. \A u \in Sale : Agrees(u)'
  <2>1. sale'[s] = "completed" /\ badge'[s] = "pending"
        /\ \A u \in Sale \ {s} : sale'[u] = sale[u] /\ badge'[u] = badge[u]
    BY DEF Sell, IInv, TypeOK
  <2>2. Agrees(s)'
    BY <1>1, <1>5, <2>1 DEF Agrees, OpenJob
  <2>3. ASSUME NEW u \in Sale \ {s} PROVE Agrees(u)'
    BY <1>4, <2>1 DEF IInv, Agrees, OpenJob
  <2> QED
    BY <2>2, <2>3
<1>12. \A w \in Worker : worker[w].at = "applying" => HoldsClaim(w, worker[w].job)'
  <2>1. ASSUME NEW w \in Worker, worker[w].at = "applying" PROVE HoldsClaim(w, worker[w].job)'
    <3>1. worker[w].job \in Sale /\ HoldsClaim(w, worker[w].job)
      BY <2>1 DEF IInv, Applies
    <3>2. worker[w].job # s
      BY <1>1, <3>1 DEF HoldsClaim
    <3>3. job'[worker[w].job] = job[worker[w].job] /\ worker' = worker
      BY <1>4, <3>1, <3>2 DEF Sell
    <3> QED
      BY <3>1, <3>3 DEF HoldsClaim
  <2> QED
    BY <2>1
<1>13. UNCHANGED <<onHand, worker, clerk>>
  BY DEF Sell
<1> QED
  BY <1>8, <1>9, <1>10, <1>11, <1>12, <1>13, LocksStand DEF IInv
\* A worker goes on as it was, or leaves its transaction.
Stays(w) ==
  /\ worker'[w] = worker[w]
  /\ worker[w].at = "applying" => HoldsClaim(w, worker[w].job)'
Leaves(w) == worker'[w].at # "applying" /\ (worker'[w].at # "free" => worker'[w].job \in Sale)

\* Jobs, badges and claims change, and no stock does.
LEMMA StockStands ==
  ASSUME IInv, UNCHANGED <<stock, ledgers, sale, clerk>>,
         job' \in [Sale -> Jobs], badge' \in [Sale -> {"none", "pending", "completed", "failed"}],
         worker' \in [Worker -> Workers], used' \in [{"desk", "slips", "requeues"} -> Nat],
         \A s \in Sale : OpenJob(s)' = OpenJob(s) /\ Agrees(s)',
         \A w \in Worker : Stays(w) \/ Leaves(w)
  PROVE  IInv'
<1>1. TypeOK'
  BY DEF IInv, TypeOK, stock, ledgers
<1>2. Sums'
  BY SumsKept DEF IInv, stock
<1>3. Ledger'
  BY DEF IInv, Ledger, stock, ledgers
<1>4. \A w \in Worker : Applies(w)' /\ WorkerRows(w)' \subseteq WorkerRows(w)
  <2>1. ASSUME NEW w \in Worker, Stays(w) PROVE Applies(w)' /\ WorkerRows(w)' \subseteq WorkerRows(w)
    <3>1. Applies(w)'
      BY <2>1, AppliesKept DEF IInv, Stays, stock
    <3>2. WorkerRows(w)' = WorkerRows(w)
      BY <2>1 DEF Stays, WorkerRows
    <3> QED
      BY <3>1, <3>2
  <2>2. ASSUME NEW w \in Worker, Leaves(w) PROVE Applies(w)' /\ WorkerRows(w)' \subseteq WorkerRows(w)
    <3>1. Applies(w)' /\ WorkerRows(w)' = {}
      BY <2>2, AppliesNot DEF Leaves
    <3> QED
      BY <3>1
  <2> QED
    BY <2>1, <2>2
<1>5. \A c \in Clerk : Holds(c)'
  BY HoldsKept DEF IInv, stock
<1>6. Apart'
  BY <1>4, ApartKept DEF IInv, ClerkRows
<1> QED
  BY <1>1, <1>2, <1>3, <1>4, <1>5, <1>6 DEF IInv

\* One sale's job changes, between statuses in which its stock is reserved.
LEMMA JobChanges ==
  ASSUME IInv, UNCHANGED <<stock, ledgers, sale, clerk>>,
         NEW s \in Sale, NEW j \in Jobs, job' = [job EXCEPT ![s] = j],
         NEW b \in {"pending", "failed"}, badge' = [badge EXCEPT ![s] = b],
         OpenJob(s), j.status \in {"pending", "processing", "failed"},
         j.status \in {"pending", "processing"} => b = "pending" /\ j.attempts < MaxAttempts,
         j.status = "failed" => b = "failed",
         worker' \in [Worker -> Workers], used' \in [{"desk", "slips", "requeues"} -> Nat],
         \A w \in Worker :
           \/ Leaves(w)
           \/ /\ worker'[w] = worker[w]
              /\ worker[w].at = "applying" /\ worker[w].job = s => j.status = "processing" /\ j.token = w
  PROVE  IInv'
<1>1. job' \in [Sale -> Jobs] /\ job'[s] = j /\ \A u \in Sale \ {s} : job'[u] = job[u]
  BY DEF IInv, TypeOK
<1>2. badge' \in [Sale -> {"none", "pending", "completed", "failed"}] /\ badge'[s] = b
      /\ \A u \in Sale \ {s} : badge'[u] = badge[u]
  BY DEF IInv, TypeOK
<1>3. OpenJob(s)' = OpenJob(s) /\ Agrees(s)'
  BY <1>1, <1>2 DEF IInv, Agrees, OpenJob
<1>4. \A u \in Sale \ {s} : OpenJob(u)' = OpenJob(u) /\ Agrees(u)'
  BY <1>1, <1>2 DEF IInv, Agrees, OpenJob
<1>5. ASSUME NEW w \in Worker PROVE Stays(w) \/ Leaves(w)
  <2>1. CASE Leaves(w)
    BY <2>1
  <2>2. CASE worker'[w] = worker[w] /\ worker[w].at = "applying"
    <3>1. worker[w].job \in Sale /\ HoldsClaim(w, worker[w].job)
      BY <2>2 DEF IInv, Applies
    <3>2. CASE worker[w].job = s
      BY <1>1, <2>2, <3>2 DEF Stays, HoldsClaim, Leaves
    <3>3. CASE worker[w].job # s
      BY <1>1, <2>2, <3>1, <3>3 DEF Stays, HoldsClaim
    <3> QED
      BY <3>2, <3>3
  <2> QED
    BY <2>1, <2>2 DEF Stays
<1> QED
  BY <1>1, <1>2, <1>3, <1>4, <1>5, StockStands

\* Only the claim of an applying worker has its token.
LEMMA ClaimIsMine ==
  ASSUME IInv, NEW w \in Worker, worker[w].at = "applying"
  PROVE  /\ worker[w].job \in Sale /\ job[worker[w].job].status = "processing"
         /\ job[worker[w].job].token = w /\ OpenJob(worker[w].job)
BY DEF IInv, Applies, HoldsClaim, OpenJob

\* Clocks and manual retries.
LEMMA ClocksKeep ==
  ASSUME IInv, NEW s \in Sale, LockGoesStale(s) \/ BackoffEnds(s) \/ Requeue(s)
  PROVE  IInv'
<1>1. job[s] \in Jobs /\ Agrees(s) /\ worker \in [Worker -> Workers]
      /\ used \in [{"desk", "slips", "requeues"} -> Nat]
      /\ badge \in [Sale -> {"none", "pending", "completed", "failed"}]
  BY DEF IInv, TypeOK
<1>2. ASSUME NEW bound \in {"desk", "slips", "requeues"}, NEW limit, Spend(bound, limit)
      PROVE  used' \in [{"desk", "slips", "requeues"} -> Nat]
  BY <1>1, <1>2 DEF Spend
<1>3. CASE LockGoesStale(s)
  <2>1. PICK j : j = [job[s] EXCEPT !.stale = TRUE] /\ job' = [job EXCEPT ![s] = j]
    BY <1>3 DEF LockGoesStale
  <2>2. j \in Jobs /\ j.status = "processing" /\ j.token = job[s].token /\ j.attempts = job[s].attempts
    BY <1>1, <1>3, <2>1 DEF LockGoesStale, Jobs
  <2>3. used' \in [{"desk", "slips", "requeues"} -> Nat]
    BY <1>1, <1>2, <1>3 DEF LockGoesStale
  <2>4. UNCHANGED <<stock, ledgers, sale, clerk, badge, worker>> /\ OpenJob(s) /\ badge[s] = "pending"
        /\ j.attempts < MaxAttempts
    BY <1>1, <1>3, <2>2 DEF LockGoesStale, OpenJob, Agrees
  <2>5. badge' = [badge EXCEPT ![s] = "pending"]
    BY <1>1, <2>4
  <2>6. \A w \in Worker :
          /\ worker'[w] = worker[w]
          /\ worker[w].at = "applying" /\ worker[w].job = s => j.status = "processing" /\ j.token = w
    BY <2>2, <2>4, ClaimIsMine
  <2>7. \A w \in Worker :
          \/ Leaves(w)
          \/ /\ worker'[w] = worker[w]
             /\ worker[w].at = "applying" /\ worker[w].job = s => j.status = "processing" /\ j.token = w
    BY <2>6
  <2>8. worker' \in [Worker -> Workers] /\ UNCHANGED <<stock, ledgers, sale, clerk>>
        /\ j.status \in {"pending", "processing", "failed"} /\ j.status # "failed"
    BY <1>1, <2>2, <2>4
  <2> QED
    BY <2>1, <2>2, <2>3, <2>4, <2>5, <2>7, <2>8, JobChanges
<1>4. CASE BackoffEnds(s)
  <2>1. PICK j : j = [job[s] EXCEPT !.due = TRUE] /\ job' = [job EXCEPT ![s] = j]
    BY <1>4 DEF BackoffEnds
  <2>2. j \in Jobs /\ j.status = "pending" /\ j.attempts = job[s].attempts /\ job[s].status = "pending"
    BY <1>1, <1>4, <2>1 DEF BackoffEnds, Jobs
  <2>3. UNCHANGED <<stock, ledgers, sale, clerk, badge, worker, used>> /\ OpenJob(s) /\ badge[s] = "pending"
        /\ j.attempts < MaxAttempts
    BY <1>1, <1>4, <2>2 DEF BackoffEnds, OpenJob, Agrees
  <2>4. badge' = [badge EXCEPT ![s] = "pending"]
    BY <1>1, <2>3
  <2>5. \A w \in Worker : worker[w].at = "applying" => worker[w].job # s
    BY <2>2, ClaimIsMine
  <2> QED
    BY <1>1, <2>1, <2>2, <2>3, <2>4, <2>5, JobChanges
<1>5. CASE Requeue(s)
  <2>1. PICK j : j = [NoJob EXCEPT !.status = "pending"] /\ job' = [job EXCEPT ![s] = j]
    BY <1>5 DEF Requeue
  <2>2. j \in Jobs /\ j.status = "pending" /\ j.attempts = 0 /\ 0 < MaxAttempts /\ job[s].status = "failed"
    <3>1. MaxAttempts \in Nat /\ 0 < MaxAttempts /\ 0 \in 0..MaxAttempts
      BY Bounds
    <3>2. j = [status |-> "pending", attempts |-> 0, token |-> None, due |-> TRUE, stale |-> FALSE]
      BY <2>1 DEF NoJob
    <3>3. j \in Jobs
      BY <3>1, <3>2 DEF Jobs, JobStatuses
    <3> QED
      BY <1>5, <3>1, <3>2, <3>3 DEF Requeue
  <2>3. UNCHANGED <<stock, ledgers, sale, clerk, worker>> /\ OpenJob(s) /\ badge' = [badge EXCEPT ![s] = "pending"]
    BY <1>5 DEF Requeue, OpenJob
  <2>4. used' \in [{"desk", "slips", "requeues"} -> Nat]
    BY <1>2, <1>5 DEF Requeue
  <2>5. \A w \in Worker : worker[w].at = "applying" => worker[w].job # s
    BY <2>2, ClaimIsMine
  <2> QED
    BY <1>1, <2>1, <2>2, <2>3, <2>4, <2>5, JobChanges
<1> QED
  BY <1>3, <1>4, <1>5
\* What a worker turns to is a worker's state.
LEMMA DoneAndFailing ==
  ASSUME IInv, NEW w \in Worker, NEW s \in Sale
  PROVE  /\ DoneWith(w, s) \in [Worker -> Workers] /\ Failing(w, s) \in [Worker -> Workers]
         /\ DoneWith(w, s)[w].at = "free"
         /\ Failing(w, s)[w].at = "failing" /\ Failing(w, s)[w].job = s
         /\ \A v \in Worker \ {w} : DoneWith(w, s)[v] = worker[v] /\ Failing(w, s)[v] = worker[v]
<1>1. worker \in [Worker -> Workers] /\ worker[w].batch \in SUBSET Sale
  BY DEF IInv, TypeOK, Workers
<1>2. PICK z : z = [r \in Row |-> 0]
  OBVIOUS
<1>3. z \in [Row -> Nat]
  BY <1>2
<1>4. PICK a : a = [Resting EXCEPT !.batch = worker[w].batch \ {s}]
  OBVIOUS
<1>5. a = [at |-> "free", batch |-> worker[w].batch \ {s}, job |-> None, release |-> z]
  BY <1>2, <1>4 DEF Resting
<1>6. a \in Workers /\ a.at = "free"
  BY <1>1, <1>3, <1>5 DEF Workers
<1>7. PICK b : b = [Resting EXCEPT !.at = "failing", !.job = s, !.batch = worker[w].batch]
  OBVIOUS
<1>8. b = [at |-> "failing", batch |-> worker[w].batch, job |-> s, release |-> z]
  BY <1>2, <1>7 DEF Resting
<1>9. b \in Workers /\ b.at = "failing" /\ b.job = s
  BY <1>1, <1>3, <1>8 DEF Workers
<1>10. DoneWith(w, s) = [worker EXCEPT ![w] = a] /\ Failing(w, s) = [worker EXCEPT ![w] = b]
  BY <1>4, <1>7 DEF DoneWith, Failing
<1> QED
  BY <1>1, <1>6, <1>9, <1>10

\* A worker leaves, with the jobs as they are.
LEMMA LeavingKeeps ==
  ASSUME IInv, UNCHANGED <<stock, ledgers, sale, badge, job, clerk>>, NEW w \in Worker,
         worker' \in [Worker -> Workers], \A v \in Worker \ {w} : worker'[v] = worker[v],
         Leaves(w), used' \in [{"desk", "slips", "requeues"} -> Nat]
  PROVE  IInv'
<1>1. \A s \in Sale : OpenJob(s)' = OpenJob(s) /\ Agrees(s)'
  BY DEF IInv, Agrees, OpenJob
<1>2. \A v \in Worker : Stays(v) \/ Leaves(v)
  BY DEF IInv, Applies, Stays, HoldsClaim
<1> QED
  BY <1>1, <1>2, StockStands DEF IInv, TypeOK

\* A worker skips, fails or drops what it has, or begins on a sale its rows do not cover.
LEMMA WorkerLeaves ==
  ASSUME IInv, NEW w \in Worker,
         \/ Skip(w) \/ FailApply(w) \/ DropBatch(w)
         \/ BeginApply(w) /\ worker'[w].at # "applying"
  PROVE  IInv'
<1>1. worker \in [Worker -> Workers] /\ used \in [{"desk", "slips", "requeues"} -> Nat]
      /\ worker[w].batch \in SUBSET Sale
  BY DEF IInv, TypeOK, Workers
<1>2. CASE Skip(w)
  <2>1. PICK s \in Sale : worker' = DoneWith(w, s)
    BY <1>1, <1>2 DEF Skip
  <2>2. UNCHANGED <<stock, ledgers, sale, badge, job, clerk, used>>
    BY <1>2 DEF Skip
  <2> QED
    BY <1>1, <2>1, <2>2, DoneAndFailing, LeavingKeeps DEF Leaves
<1>3. CASE FailApply(w)
  <2>1. worker[w].job \in Sale /\ worker' = Failing(w, worker[w].job)
    BY <1>3 DEF FailApply, IInv, Applies
  <2>2. UNCHANGED <<stock, ledgers, sale, badge, job, clerk, used>>
    BY <1>3 DEF FailApply
  <2> QED
    BY <1>1, <2>1, <2>2, DoneAndFailing, LeavingKeeps DEF Leaves
<1>4. CASE DropBatch(w)
  <2>1. Resting \in Workers /\ Resting.at = "free"
    BY DEF Resting, Workers
  <2>2. worker' = [worker EXCEPT ![w] = Resting]
        /\ UNCHANGED <<stock, ledgers, sale, badge, job, clerk>>
        /\ used' \in [{"desk", "slips", "requeues"} -> Nat]
    BY <1>1, <1>4 DEF DropBatch, Spend
  <2>3. worker' \in [Worker -> Workers] /\ worker'[w] = Resting
        /\ \A v \in Worker \ {w} : worker'[v] = worker[v]
    BY <1>1, <2>1, <2>2
  <2> QED
    BY <2>1, <2>2, <2>3, LeavingKeeps DEF Leaves
<1>5. CASE BeginApply(w) /\ worker'[w].at # "applying"
  <2>1. PICK s \in Sale :
          worker' = IF ~Covered(s) THEN Failing(w, s)
                    ELSE [worker EXCEPT ![w].job = s, ![w].at = "applying",
                            ![w].release = [r \in Row |-> Smaller(Need[s][r], reserved[r])]]
    BY <1>1, <1>5 DEF BeginApply
  <2>2. CASE ~Covered(s)
    <3>1. worker' = Failing(w, s) /\ UNCHANGED <<stock, ledgers, sale, badge, job, clerk, used>>
      BY <1>5, <2>1, <2>2 DEF BeginApply
    <3> QED
      BY <1>1, <3>1, DoneAndFailing, LeavingKeeps DEF Leaves
  <2>3. CASE Covered(s)
    BY <1>1, <1>5, <2>1, <2>3 DEF Workers
  <2> QED
    BY <2>2, <2>3
<1> QED
  BY <1>2, <1>3, <1>4, <1>5

\* A batch is claimed: nobody is applying any of it.
LEMMA ClaimKeeps ==
  ASSUME IInv, NEW w \in Worker, ClaimBatch(w)
  PROVE  IInv'
<1>1. PICK batch \in SUBSET {s \in Sale : Claimable(s)} :
        /\ worker' = [worker EXCEPT ![w].batch = batch]
        /\ job' = [s \in Sale |->
             IF s \in batch THEN [job[s] EXCEPT !.status = "processing", !.token = w, !.stale = FALSE]
             ELSE job[s]]
  BY DEF ClaimBatch
<1>2. worker[w] \in Workers /\ worker \in [Worker -> Workers] /\ worker[w].at = "free"
      /\ UNCHANGED <<stock, ledgers, sale, badge, clerk, used>> /\ batch \in SUBSET Sale
  BY DEF IInv, TypeOK, ClaimBatch
<1>3. worker' \in [Worker -> Workers] /\ worker'[w].at = "free"
      /\ \A v \in Worker \ {w} : worker'[v] = worker[v]
  <2>1. PICK n : n = [worker[w] EXCEPT !.batch = batch] /\ worker' = [worker EXCEPT ![w] = n]
    BY <1>1
  <2>2. n \in Workers /\ n.at = "free"
    BY <1>2, <2>1 DEF Workers
  <2> QED
    BY <1>2, <2>1, <2>2
<1>4. ASSUME NEW s \in Sale
      PROVE  /\ job'[s] \in Jobs /\ OpenJob(s)' = OpenJob(s) /\ Agrees(s)'
             /\ s \notin batch => job'[s] = job[s]
  <2>1. job[s] \in Jobs /\ Agrees(s) /\ job'[s] = IF s \in batch
          THEN [job[s] EXCEPT !.status = "processing", !.token = w, !.stale = FALSE] ELSE job[s]
    BY <1>1 DEF IInv, TypeOK
  <2>2. CASE s \in batch
    <3>1. job[s].status \in {"pending", "processing"}
      BY <1>1, <2>2 DEF Claimable
    <3>2. job'[s] \in Jobs /\ job'[s].status = "processing" /\ job'[s].attempts = job[s].attempts
      <4>1. job'[s] = [job[s] EXCEPT !.status = "processing", !.token = w, !.stale = FALSE]
        BY <2>1, <2>2
      <4>2. "processing" \in JobStatuses /\ w \in Worker \cup {None}
        BY DEF JobStatuses
      <4> QED
        BY <2>1, <4>1, <4>2 DEF Jobs
    <3> QED
      BY <1>2, <2>1, <2>2, <3>1, <3>2 DEF Agrees, OpenJob
  <2>3. CASE s \notin batch
    BY <1>2, <2>1, <2>3 DEF Agrees, OpenJob
  <2> QED
    BY <2>2, <2>3
<1>5. job' \in [Sale -> Jobs]
  BY <1>1, <1>4
<1>6. ASSUME NEW v \in Worker PROVE Stays(v) \/ Leaves(v)
  <2>1. CASE v = w
    BY <1>3, <2>1 DEF Leaves
  <2>2. CASE v # w /\ worker[v].at = "applying"
    <3>1. worker[v].job \in Sale /\ HoldsClaim(v, worker[v].job)
      BY <2>2 DEF IInv, Applies
    <3>2. worker[v].job \notin batch
      BY <1>1, <2>2, <3>1 DEF Claimable, HoldsClaim, BeingApplied
    <3>3. job'[worker[v].job] = job[worker[v].job] /\ worker'[v] = worker[v]
      BY <1>3, <1>4, <2>2, <3>1, <3>2
    <3> QED
      BY <3>1, <3>3 DEF Stays, HoldsClaim
  <2>3. CASE v # w /\ worker[v].at # "applying"
    BY <1>3, <2>3 DEF Stays
  <2> QED
    BY <2>1, <2>2, <2>3
<1> QED
  BY <1>2, <1>3, <1>4, <1>5, <1>6, StockStands DEF IInv, TypeOK

\* An attempt is recorded: one fewer is left, or the job has failed.
LEMMA RecordKeeps ==
  ASSUME IInv, NEW w \in Worker, RecordFailure(w)
  PROVE  IInv'
<1>1. PICK s \in Sale : s = worker[w].job /\ worker[w].at = "failing" /\ worker' = DoneWith(w, s)
      /\ UNCHANGED <<stock, ledgers, sale, clerk, used>>
  BY DEF RecordFailure, IInv, Applies
<1>2. /\ worker' \in [Worker -> Workers] /\ Leaves(w)
      /\ \A v \in Worker \ {w} : worker'[v] = worker[v]
      /\ used' \in [{"desk", "slips", "requeues"} -> Nat]
  BY <1>1, DoneAndFailing DEF Leaves, IInv, TypeOK
<1>3. CASE ~HoldsClaim(w, s)
  BY <1>1, <1>2, <1>3, LeavingKeeps DEF RecordFailure
<1>4. CASE HoldsClaim(w, s)
  <2> DEFINE attempts == job[s].attempts + 1
             last == Exhausted(attempts)
  <2>1. PICK j : /\ j = [status |-> IF last THEN "failed" ELSE "pending", attempts |-> attempts,
                         token |-> None, due |-> last, stale |-> FALSE]
                 /\ job' = [job EXCEPT ![s] = j]
                 /\ badge' = [badge EXCEPT ![s] = IF last THEN "failed" ELSE @]
    BY <1>1, <1>4 DEF RecordFailure
  <2>2. job[s] \in Jobs /\ Agrees(s) /\ job[s].status = "processing" /\ job[s].token = w
    BY <1>4 DEF IInv, TypeOK, HoldsClaim
  <2>3. attempts \in 0..MaxAttempts /\ (~last => attempts < MaxAttempts) /\ last \in BOOLEAN
    <3>1. job[s].attempts \in Nat /\ job[s].attempts < MaxAttempts /\ MaxAttempts \in Nat
      BY <2>2, Bounds DEF Jobs, Agrees
    <3> QED
      BY <3>1 DEF Exhausted
  <2> HIDE DEF attempts, last
  <2>4. j \in Jobs /\ j.status = (IF last THEN "failed" ELSE "pending") /\ j.attempts = attempts
    BY <2>1, <2>3 DEF Jobs, JobStatuses
  <2>5. badge[s] = "pending" /\ OpenJob(s)
    BY <2>2 DEF Agrees, OpenJob
  <2>6. PICK b \in {"pending", "failed"} : b = IF last THEN "failed" ELSE "pending"
    OBVIOUS
  <2>7. badge' = [badge EXCEPT ![s] = b]
    BY <2>1, <2>5, <2>6
  <2>8. ASSUME NEW v \in Worker
        PROVE  \/ Leaves(v)
               \/ /\ worker'[v] = worker[v]
                  /\ worker[v].at = "applying" /\ worker[v].job = s => j.status = "processing" /\ j.token = v
    <3>1. CASE v = w
      BY <1>2, <3>1
    <3>2. CASE v # w
      BY <1>2, <2>2, <3>2, ClaimIsMine
    <3> QED
      BY <3>1, <3>2
  <2>9. /\ j.status \in {"pending", "processing", "failed"}
        /\ j.status \in {"pending", "processing"} => b = "pending" /\ j.attempts < MaxAttempts
        /\ j.status = "failed" => b = "failed"
    BY <2>3, <2>4, <2>6
  <2>10. /\ UNCHANGED <<stock, ledgers, sale, clerk>> /\ job' = [job EXCEPT ![s] = j] /\ j \in Jobs
         /\ worker' \in [Worker -> Workers] /\ used' \in [{"desk", "slips", "requeues"} -> Nat]
    BY <1>1, <1>2, <2>1, <2>4
  <2> QED
    BY <2>5, <2>7, <2>8, <2>9, <2>10, JobChanges
<1> QED
  BY <1>3, <1>4
\* A worker enters its transaction: its claim holds, its rows were free and cover the
\* sale, and all that the sale reserved is there to release.
LEMMA BeginKeeps ==
  ASSUME IInv, NEW w \in Worker, BeginApply(w), worker'[w].at = "applying"
  PROVE  IInv'
<1>1. worker \in [Worker -> Workers] /\ worker[w] \in Workers
  BY DEF IInv, TypeOK
<1>2. PICK s \in worker[w].batch :
        /\ HoldsClaim(w, s) /\ Free(RowsOf(s))
        /\ worker' = IF ~Covered(s) THEN Failing(w, s)
                     ELSE [worker EXCEPT ![w].job = s, ![w].at = "applying",
                             ![w].release = [r \in Row |-> Smaller(Need[s][r], reserved[r])]]
  BY DEF BeginApply
<1>3. s \in Sale /\ worker[w].at = "free" /\ UNCHANGED <<stock, ledgers, sale, badge, job, clerk, used>>
  BY <1>1, <1>2 DEF BeginApply, Workers
<1>4. Covered(s)
  BY <1>2, <1>3, DoneAndFailing
<1>5. s \in Unsettled
  BY <1>2, <1>3 DEF Unsettled, HoldsClaim, OpenJob
<1>6. PICK release : release = [r \in Row |-> Smaller(Need[s][r], reserved[r])]
  OBVIOUS
<1>7. \A r \in Row : release[r] = Need[s][r] /\ Need[s][r] \in Nat
  <2>1. ASSUME NEW r \in Row PROVE release[r] = Need[s][r] /\ Need[s][r] \in Nat
    <3>1. Need[s][r] <= reserved[r] /\ reserved[r] \in Nat /\ Need[s][r] \in Nat
      BY <1>3, <1>5, ReservedCovers, Quantities
    <3> QED
      BY <1>6, <3>1 DEF Smaller
  <2> QED
    BY <2>1
<1>8. release \in [Row -> Nat]
  BY <1>6, <1>7
<1>9. PICK n : n = [worker[w] EXCEPT !.job = s, !.at = "applying", !.release = release]
  OBVIOUS
<1>10. n \in Workers /\ n.at = "applying" /\ n.job = s /\ n.release = release
  BY <1>1, <1>3, <1>8, <1>9 DEF Workers
<1>11. worker' = [worker EXCEPT ![w] = n]
  BY <1>2, <1>4, <1>6, <1>9
<1>12. worker' \in [Worker -> Workers] /\ worker'[w] = n /\ \A v \in Worker \ {w} : worker'[v] = worker[v]
  BY <1>1, <1>10, <1>11
<1>13. WorkerRows(w)' = RowsOf(s) /\ \A v \in Worker \ {w} : WorkerRows(v)' = WorkerRows(v)
  BY <1>10, <1>12 DEF WorkerRows
<1>14. Applies(w)'
  <2>1. HoldsClaim(w, s)'
    BY <1>2, <1>3 DEF HoldsClaim
  <2>2. \A r \in RowsOf(s) : onHand'[r] >= Need[s][r]
    BY <1>3, <1>4 DEF Covered, stock
  <2> QED
    BY <1>3, <1>7, <1>10, <1>12, <1>13, <2>1, <2>2 DEF Applies, HoldsClaim
<1>15. ASSUME NEW v \in Worker \ {w} PROVE Applies(v)'
  BY <1>3, <1>12, AppliesKept DEF IInv, Applies, HoldsClaim, stock
<1>16. \A c \in Clerk : Holds(c)' /\ ClerkRows(c)' = ClerkRows(c)
  BY <1>3, HoldsKept DEF IInv, ClerkRows, stock
<1>17. Apart'
  <2>1. \A v \in Worker : RowsOf(s) \cap WorkerRows(v) = {}
    BY <1>2, FreeIsApart
  <2>2. \A c \in Clerk : RowsOf(s) \cap ClerkRows(c) = {}
    BY <1>2, FreeIsApart
  <2>3. Apart
    BY DEF IInv
  <2>4. ASSUME NEW u \in Worker, NEW v \in Worker, u # v PROVE WorkerRows(u)' \cap WorkerRows(v)' = {}
    BY <1>13, <2>1, <2>3, <2>4 DEF Apart
  <2>5. ASSUME NEW v \in Worker, NEW c \in Clerk PROVE WorkerRows(v)' \cap ClerkRows(c)' = {}
    BY <1>13, <1>16, <2>2, <2>3 DEF Apart
  <2> QED
    BY <1>16, <2>3, <2>4, <2>5 DEF Apart
<1>18. TypeOK'
  BY <1>3, <1>12 DEF IInv, TypeOK, stock, ledgers
<1>19. Sums'
  BY <1>3, SumsKept DEF IInv, OpenJob, stock
<1>20. Ledger'
  BY <1>3 DEF IInv, Ledger, stock, ledgers
<1>21. \A u \in Sale : Agrees(u)'
  BY <1>3 DEF IInv, Agrees, OpenJob
<1> QED
  BY <1>14, <1>15, <1>16, <1>17, <1>18, <1>19, <1>20, <1>21 DEF IInv

\* Stock moves on rows whose locks the step holds: the others' transactions stand.
LEMMA OthersStand ==
  ASSUME IInv, NEW rows,
         \A r \in Row \ rows : onHand'[r] = onHand[r]
  PROVE  /\ \A w \in Worker :
              /\ WorkerRows(w) \cap rows = {} /\ worker'[w] = worker[w]
              /\ worker[w].at = "applying" => HoldsClaim(w, worker[w].job)'
              => Applies(w)'
         /\ \A c \in Clerk : ClerkRows(c) \cap rows = {} /\ clerk'[c] = clerk[c] => Holds(c)'
<1>1. ASSUME NEW w \in Worker, WorkerRows(w) \cap rows = {}, worker'[w] = worker[w],
             worker[w].at = "applying" => HoldsClaim(w, worker[w].job)'
      PROVE  Applies(w)'
  <2>1. WorkerRows(w) \subseteq Row
    BY DEF WorkerRows, RowsOf
  <2>2. \A r \in WorkerRows(w) : onHand'[r] = onHand[r]
    BY <1>1, <2>1
  <2> QED
    BY <1>1, <2>2, AppliesKept DEF IInv
<1>2. ASSUME NEW c \in Clerk, ClerkRows(c) \cap rows = {}, clerk'[c] = clerk[c]
      PROVE  Holds(c)'
  <2>1. clerk[c].op # "none" => clerk[c].row \in Row /\ clerk[c].row # None
    BY NoneIsFresh DEF IInv, Holds
  <2>2. clerk[c].op # "none" => onHand'[clerk[c].row] = onHand[clerk[c].row]
    BY <1>2, <2>1 DEF ClerkRows
  <2> QED
    BY <1>2, <2>2, HoldsKept DEF IInv
<1> QED
  BY <1>1, <1>2
\* A deduction commits.
LEMMA CommitKeeps ==
  ASSUME IInv, NEW w \in Worker, CommitApply(w)
  PROVE  IInv'
<1>1. PICK s \in Sale : s = worker[w].job /\ worker[w].at = "applying"
  BY ClaimIsMine DEF CommitApply
<1>2. /\ \A r \in Row : worker[w].release[r] = Need[s][r] /\ Need[s][r] \in Nat
      /\ \A r \in RowsOf(s) : onHand[r] >= Need[s][r]
      /\ WorkerRows(w) = RowsOf(s)
      /\ job[s].status = "processing" /\ job[s].token = w /\ OpenJob(s)
      /\ Agrees(s) /\ job[s] \in Jobs
  BY <1>1, ClaimIsMine, Quantities DEF IInv, Applies, WorkerRows, TypeOK
<1>3. /\ onHand' = [r \in Row |-> onHand[r] - Need[s][r]]
      /\ reserved' = [r \in Row |-> reserved[r] - worker[w].release[r]]
      /\ saleLedger' = [r \in Row |-> saleLedger[r] - Need[s][r]]
      /\ job' = [job EXCEPT ![s].status = "completed", ![s].token = None, ![s].stale = FALSE]
      /\ badge' = [badge EXCEPT ![s] = "completed"]
      /\ worker' = DoneWith(w, s) \/ worker' = Failing(w, s)
      /\ UNCHANGED <<deskLedger, sale, clerk, used>>
  BY <1>1 DEF CommitApply
<1>4. worker' \in [Worker -> Workers] /\ Leaves(w) /\ \A v \in Worker \ {w} : worker'[v] = worker[v]
  BY <1>3, DoneAndFailing DEF Leaves
<1>5. PICK j : j = [job[s] EXCEPT !.status = "completed", !.token = None, !.stale = FALSE]
               /\ job' = [job EXCEPT ![s] = j]
  BY <1>3
<1>6. j \in Jobs /\ j.status = "completed" /\ j.attempts = job[s].attempts
  BY <1>2, <1>5 DEF Jobs, JobStatuses
<1>7. job' \in [Sale -> Jobs] /\ job'[s] = j /\ \A u \in Sale \ {s} : job'[u] = job[u]
  BY <1>5, <1>6 DEF IInv, TypeOK
<1>8. ~OpenJob(s)' /\ \A u \in Sale \ {s} : OpenJob(u)' = OpenJob(u)
  BY <1>6, <1>7 DEF OpenJob
<1>9. Sums'
  <2>1. \A r \in Row : reserved'[r] = reserved[r] - Need[s][r]
    BY <1>2, <1>3
  <2> QED
    BY <1>2, <1>8, <2>1, SumsShrink DEF IInv
<1>10. badge' \in [Sale -> {"none", "pending", "completed", "failed"}] /\ badge'[s] = "completed"
       /\ \A u \in Sale \ {s} : badge'[u] = badge[u]
  BY <1>3 DEF IInv, TypeOK
<1>11. \A u \in Sale : Agrees(u)'
  <2>1. Agrees(s)'
    BY <1>2, <1>3, <1>6, <1>7, <1>10 DEF Agrees, OpenJob
  <2>2. ASSUME NEW u \in Sale \ {s} PROVE Agrees(u)'
    BY <1>3, <1>7, <1>10 DEF IInv, Agrees, OpenJob
  <2> QED
    BY <2>1, <2>2
<1>12. /\ onHand' \in [Row -> Int] /\ saleLedger' \in [Row -> Int]
       /\ reserved' \in [Row -> Int]
  <2>1. \A r \in Row : onHand[r] \in Int /\ saleLedger[r] \in Int /\ reserved[r] \in Int
    BY DEF IInv, TypeOK
  <2> QED
    BY <1>2, <1>3, <2>1
<1>13. TypeOK'
  BY <1>3, <1>4, <1>7, <1>10, <1>12 DEF IInv, TypeOK
<1>14. Ledger'
  <2>1. ASSUME NEW r \in Row
        PROVE  onHand'[r] = Opening[r] + saleLedger'[r] + deskLedger'[r] /\ onHand'[r] >= 0
    <3>1. /\ onHand'[r] = onHand[r] - Need[s][r] /\ saleLedger'[r] = saleLedger[r] - Need[s][r]
          /\ deskLedger'[r] = deskLedger[r] /\ Need[s][r] \in Nat
      BY <1>2, <1>3
    <3>2. /\ onHand[r] \in Int /\ saleLedger[r] \in Int /\ deskLedger[r] \in Int /\ Opening[r] \in Nat
          /\ onHand[r] = Opening[r] + saleLedger[r] + deskLedger[r] /\ onHand[r] >= 0
      BY Quantities DEF IInv, TypeOK, Ledger
    <3>3. onHand[r] >= Need[s][r]
      BY <1>2, <3>1, <3>2 DEF RowsOf
    <3> QED
      BY <3>1, <3>2, <3>3
  <2> QED
    BY <2>1 DEF Ledger
<1>15. \A r \in Row \ RowsOf(s) : onHand'[r] = onHand[r]
  <2>1. \A r \in Row \ RowsOf(s) : Need[s][r] = 0 /\ onHand[r] \in Int
    BY <1>2 DEF RowsOf, IInv, TypeOK
  <2> QED
    BY <1>3, <2>1
<1>16. \A v \in Worker : Applies(v)'
  <2>1. Applies(w)'
    BY <1>4, AppliesNot DEF Leaves
  <2>2. ASSUME NEW v \in Worker \ {w} PROVE Applies(v)'
    <3>1. WorkerRows(v) \cap RowsOf(s) = {}
      BY <1>2 DEF IInv, Apart
    <3>2. worker[v].at = "applying" => HoldsClaim(v, worker[v].job)'
      <4>1. worker[v].at = "applying" => worker[v].job \in Sale \ {s} /\ HoldsClaim(v, worker[v].job)
        BY <1>2, ClaimIsMine DEF IInv, Applies
      <4> QED
        BY <1>4, <1>7, <4>1 DEF HoldsClaim
    <3> QED
      BY <1>4, <1>15, <3>1, <3>2, OthersStand
  <2> QED
    BY <2>1, <2>2
<1>17. \A c \in Clerk : Holds(c)'
  <2>1. \A c \in Clerk : ClerkRows(c) \cap RowsOf(s) = {}
    BY <1>2 DEF IInv, Apart
  <2> QED
    BY <1>3, <1>15, <2>1, OthersStand
<1>18. Apart'
  <2>1. WorkerRows(w)' = {} /\ \A v \in Worker \ {w} : WorkerRows(v)' = WorkerRows(v)
    BY <1>4 DEF Leaves, WorkerRows
  <2>2. \A c \in Clerk : ClerkRows(c)' = ClerkRows(c)
    BY <1>3 DEF ClerkRows
  <2>3. \A v \in Worker : WorkerRows(v)' \subseteq WorkerRows(v)
    BY <2>1
  <2> QED
    BY <2>2, <2>3, ApartKept DEF IInv
<1> QED
  BY <1>9, <1>11, <1>13, <1>14, <1>16, <1>17, <1>18 DEF IInv

\* A void or refund: the reservation goes back, or the deduction does.
LEMMA UndoKeeps ==
  ASSUME IInv, NEW s \in Sale, Undo(s)
  PROVE  IInv'
<1>1. sale[s] = "completed" /\ sale' = [sale EXCEPT ![s] = "undone"]
      /\ UNCHANGED <<deskLedger, badge, worker, clerk, used>>
      /\ Agrees(s) /\ job[s] \in Jobs
  BY DEF Undo, Undoable, IInv, TypeOK
<1>2. sale' \in [Sale -> {"none", "completed", "undone"}] /\ sale'[s] = "undone"
      /\ \A u \in Sale \ {s} : sale'[u] = sale[u]
  BY <1>1 DEF IInv, TypeOK
<1>3. \A r \in Row : Need[s][r] \in Nat
  BY Quantities
<1>4. CASE Release(s)
  <2>1. job[s].status \in {"pending", "failed"} /\ OpenJob(s) /\ UNCHANGED <<onHand, saleLedger>>
    BY <1>4 DEF Release, Cancellable, OpenJob
  <2>2. PICK j : j = [job[s] EXCEPT !.status = "cancelled", !.token = None, !.stale = FALSE]
                 /\ job' = [job EXCEPT ![s] = j]
    BY <1>4 DEF Release
  <2>3. j \in Jobs /\ j.status = "cancelled"
    BY <1>1, <2>2 DEF Jobs, JobStatuses
  <2>4. job' \in [Sale -> Jobs] /\ job'[s] = j /\ \A u \in Sale \ {s} : job'[u] = job[u]
    BY <2>2, <2>3 DEF IInv, TypeOK
  <2>5. ~OpenJob(s)' /\ \A u \in Sale \ {s} : OpenJob(u)' = OpenJob(u)
    BY <2>3, <2>4 DEF OpenJob
  <2>6. \A r \in Row : reserved'[r] = reserved[r] - Need[s][r] /\ reserved'[r] \in Int
    <3>1. ASSUME NEW r \in Row PROVE reserved'[r] = reserved[r] - Need[s][r] /\ reserved'[r] \in Int
      <4>1. Need[s][r] <= reserved[r] /\ reserved[r] \in Nat
        BY <2>1, ReservedCovers DEF Unsettled
      <4>2. reserved'[r] = IF reserved[r] < Need[s][r] THEN 0 ELSE reserved[r] - Need[s][r]
        BY <1>4 DEF Release, FlooredAtZero
      <4> QED
        BY <1>3, <4>1, <4>2
    <3> QED
      BY <3>1
  <2>7. Sums'
    BY <2>1, <2>5, <2>6, SumsShrink DEF IInv
  <2>8. \A u \in Sale : Agrees(u)'
    <3>1. Agrees(s)'
      BY <1>1, <1>2, <2>1, <2>3, <2>4 DEF Agrees, OpenJob
    <3>2. ASSUME NEW u \in Sale \ {s} PROVE Agrees(u)'
      BY <1>1, <1>2, <2>4 DEF IInv, Agrees, OpenJob
    <3> QED
      BY <3>1, <3>2
  <2>9. TypeOK'
    <3>1. reserved' \in [Row -> Int]
      BY <1>4, <2>6 DEF Release, FlooredAtZero
    <3> QED
      BY <1>1, <1>2, <2>1, <2>4, <3>1 DEF IInv, TypeOK
  <2>10. Ledger'
    BY <1>1, <2>1 DEF IInv, Ledger
  <2>11. \A v \in Worker : worker[v].at = "applying" => HoldsClaim(v, worker[v].job)'
    <3>1. \A v \in Worker : worker[v].at = "applying" =>
            worker[v].job \in Sale \ {s} /\ HoldsClaim(v, worker[v].job)
      BY <2>1, ClaimIsMine DEF IInv, Applies
    <3> QED
      BY <1>1, <2>4, <3>1 DEF HoldsClaim
  <2> QED
    BY <1>1, <2>1, <2>7, <2>8, <2>9, <2>10, <2>11, LocksStand DEF IInv
<1>5. CASE Reverse(s)
  <2>1. /\ job[s].status = "completed" /\ Free(RowsOf(s)) /\ UNCHANGED <<reserved, job>>
        /\ onHand' = [r \in Row |-> onHand[r] + Need[s][r]]
        /\ saleLedger' = [r \in Row |-> saleLedger[r] + Need[s][r]]
    BY <1>5 DEF Reverse
  <2>2. \A r \in Row : onHand[r] \in Int /\ saleLedger[r] \in Int /\ deskLedger[r] \in Int /\ Opening[r] \in Nat
    BY Quantities DEF IInv, TypeOK
  <2>3. onHand' \in [Row -> Int] /\ saleLedger' \in [Row -> Int]
    BY <1>3, <2>1, <2>2
  <2>4. TypeOK'
    BY <1>1, <1>2, <2>1, <2>3 DEF IInv, TypeOK
  <2>5. \A u \in Sale : OpenJob(u)' = OpenJob(u)
    BY <2>1 DEF OpenJob
  <2>6. Sums'
    BY <2>1, <2>5, SumsKept DEF IInv
  <2>7. Ledger'
    <3>1. ASSUME NEW r \in Row
          PROVE  onHand'[r] = Opening[r] + saleLedger'[r] + deskLedger'[r] /\ onHand'[r] >= 0
      <4>1. onHand'[r] = onHand[r] + Need[s][r] /\ saleLedger'[r] = saleLedger[r] + Need[s][r]
            /\ deskLedger'[r] = deskLedger[r]
        BY <1>1, <2>1
      <4>2. onHand[r] = Opening[r] + saleLedger[r] + deskLedger[r] /\ onHand[r] >= 0
        BY DEF IInv, Ledger
      <4> QED
        BY <1>3, <2>2, <4>1, <4>2
    <3> QED
      BY <3>1 DEF Ledger
  <2>8. \A u \in Sale : Agrees(u)'
    <3>1. Agrees(s)'
      BY <1>1, <1>2, <2>1 DEF Agrees, OpenJob
    <3>2. ASSUME NEW u \in Sale \ {s} PROVE Agrees(u)'
      BY <1>1, <1>2, <2>1 DEF IInv, Agrees, OpenJob
    <3> QED
      BY <3>1, <3>2
  <2>9. \A r \in Row \ RowsOf(s) : onHand'[r] = onHand[r]
    <3>1. \A r \in Row \ RowsOf(s) : Need[s][r] = 0
      BY <1>3 DEF RowsOf
    <3> QED
      BY <2>1, <2>2, <3>1
  <2>10. /\ \A v \in Worker : WorkerRows(v) \cap RowsOf(s) = {}
         /\ \A c \in Clerk : ClerkRows(c) \cap RowsOf(s) = {}
    BY <2>1, FreeIsApart
  <2>11. ASSUME NEW v \in Worker PROVE Applies(v)'
    <3>1. worker[v].at = "applying" => HoldsClaim(v, worker[v].job)'
      BY <1>1, <2>1 DEF IInv, Applies, HoldsClaim
    <3> QED
      BY <1>1, <2>9, <2>10, <3>1, OthersStand
  <2>12. \A c \in Clerk : Holds(c)'
    BY <1>1, <2>9, <2>10, OthersStand
  <2>13. Apart'
    BY <1>1, ApartKept DEF IInv, WorkerRows, ClerkRows
  <2> QED
    BY <2>4, <2>6, <2>7, <2>8, <2>11, <2>12, <2>13 DEF IInv
<1> QED
  BY <1>4, <1>5 DEF Undo
\* A clerk locks and reads what was free.
LEMMA OpenKeeps ==
  ASSUME IInv, NEW c \in Clerk, NEW op \in {"put", "take", "move", "count"}, NEW r \in Row,
         NEW to \in Row \cup {None}, NEW q \in Nat, Open(c, op, r, to, q),
         op \in {"take", "move"} => q <= onHand[r],
         IF op = "move" THEN to \in Row \ {r} ELSE to = None
  PROVE  IInv'
<1>1. PICK k : k = [op |-> op, row |-> r, to |-> to, qty |-> q, before |-> onHand[r]]
               /\ clerk' = [clerk EXCEPT ![c] = k]
  BY DEF Open
<1>2. clerk[c].op = "none" /\ Free({r, to}) /\ UNCHANGED <<stock, ledgers, sale, badge, job, worker>>
  BY DEF Open
<1>3. k \in Clerks
  BY <1>1 DEF Clerks, IInv, TypeOK
<1>4. clerk' \in [Clerk -> Clerks] /\ clerk'[c] = k /\ \A d \in Clerk \ {c} : clerk'[d] = clerk[d]
  BY <1>1, <1>3 DEF IInv, TypeOK
<1>5. used' \in [{"desk", "slips", "requeues"} -> Nat]
  BY DEF Open, Spend, IInv, TypeOK
<1>6. TypeOK'
  BY <1>2, <1>4, <1>5 DEF IInv, TypeOK, stock, ledgers
<1>7. Sums'
  BY <1>2, SumsKept DEF IInv, OpenJob, stock
<1>8. Ledger' /\ \A s \in Sale : Agrees(s)'
  BY <1>2 DEF IInv, Ledger, Agrees, OpenJob, stock, ledgers
<1>9. \A w \in Worker : Applies(w)' /\ WorkerRows(w)' = WorkerRows(w)
  BY <1>2 DEF IInv, Applies, WorkerRows, HoldsClaim, stock
<1>10. Holds(c)'
  BY <1>1, <1>2, <1>4 DEF Holds, stock
<1>11. \A d \in Clerk \ {c} : Holds(d)' /\ ClerkRows(d)' = ClerkRows(d)
  BY <1>2, <1>4, HoldsKept DEF IInv, ClerkRows, stock
<1>12. ClerkRows(c)' \subseteq {r, to}
  BY <1>1, <1>4 DEF ClerkRows
<1>13. Apart'
  <2>1. /\ \A w \in Worker : {r, to} \cap WorkerRows(w) = {}
        /\ \A d \in Clerk : {r, to} \cap ClerkRows(d) = {}
    BY <1>2, FreeIsApart
  <2>2. Apart
    BY DEF IInv
  <2>3. ASSUME NEW w \in Worker, NEW d \in Clerk PROVE WorkerRows(w)' \cap ClerkRows(d)' = {}
    BY <1>9, <1>11, <1>12, <2>1, <2>2 DEF Apart
  <2>4. ASSUME NEW d \in Clerk, NEW e \in Clerk, d # e PROVE ClerkRows(d)' \cap ClerkRows(e)' = {}
    BY <1>11, <1>12, <2>1, <2>2, <2>4 DEF Apart
  <2> QED
    BY <1>9, <2>2, <2>3, <2>4 DEF Apart
<1> QED
  BY <1>6, <1>7, <1>8, <1>9, <1>10, <1>11, <1>13 DEF IInv

\* A clerk's transaction commits: what it adds is what its ledger says, because its
\* rows are as it read them.
LEMMA DeskCommitKeeps ==
  ASSUME IInv, NEW c \in Clerk, CommitDesk(c)
  PROVE  IInv'
<1>1. /\ clerk[c].op # "none" /\ clerk[c] \in Clerks /\ Holds(c)
      /\ onHand' = [r \in Row |->
           IF r = clerk[c].row /\ clerk[c].op = "count" THEN clerk[c].qty ELSE onHand[r] + Delta(c, r)]
      /\ deskLedger' = [r \in Row |-> deskLedger[r] + Delta(c, r)]
      /\ clerk' = [clerk EXCEPT ![c] = Away]
      /\ UNCHANGED <<reserved, saleLedger, sale, badge, job, worker, used>>
  BY DEF CommitDesk, IInv, TypeOK
<1>2. \A r \in Row : onHand[r] \in Int /\ saleLedger[r] \in Int /\ deskLedger[r] \in Int /\ Opening[r] \in Nat
  BY Quantities DEF IInv, TypeOK
<1>3. clerk[c].qty \in Nat /\ clerk[c].before \in Int /\ clerk[c].row \in Row
      /\ clerk[c].before = onHand[clerk[c].row] /\ clerk[c].op \in {"put", "take", "move", "count"}
  BY <1>1 DEF Clerks, Holds
<1>4. ASSUME NEW r \in Row
      PROVE  /\ Delta(c, r) \in Int
             /\ clerk[c].op = "count" /\ r = clerk[c].row => onHand[r] + Delta(c, r) = clerk[c].qty
             /\ onHand[r] + Delta(c, r) >= 0
             /\ r \notin ClerkRows(c) => Delta(c, r) = 0
  <2>1. onHand[r] >= 0 /\ onHand[r] \in Int
    BY <1>2 DEF IInv, Ledger
  <2>2. CASE r = clerk[c].row
    <3>1. CASE clerk[c].op = "put"
      <4>1. Delta(c, r) = clerk[c].qty
        BY <2>2, <3>1 DEF Delta
      <4> QED
        BY <1>3, <2>1, <2>2, <3>1, <4>1, NoneIsFresh DEF ClerkRows
    <3>2. CASE clerk[c].op \in {"take", "move"}
      <4>1. Delta(c, r) = - clerk[c].qty /\ clerk[c].qty <= onHand[r]
        <5>1. Delta(c, r) = - clerk[c].qty
          <6>1. clerk[c].op # "put" /\ r # clerk[c].to
            BY <1>1, <2>2, <3>2, NoneIsFresh DEF Holds
          <6> QED
            BY <2>2, <3>2, <6>1, Zenon DEF Delta
        <5>2. clerk[c].qty <= clerk[c].before
          BY <1>1, <3>2 DEF Holds
        <5> QED
          BY <1>3, <2>2, <5>1, <5>2
      <4> QED
        BY <1>3, <2>1, <2>2, <3>2, <4>1, NoneIsFresh DEF ClerkRows
    <3>3. CASE clerk[c].op = "count"
      <4>1. Delta(c, r) = clerk[c].qty - onHand[r]
        <5>1. Delta(c, r) = clerk[c].qty - clerk[c].before
          <6>1. clerk[c].op # "put" /\ clerk[c].op \notin {"take", "move"} /\ r # clerk[c].to
            BY <1>1, <2>2, <3>3, NoneIsFresh DEF Holds
          <6> QED
            BY <2>2, <3>3, <6>1, Zenon DEF Delta
        <5> QED
          BY <1>3, <2>2, <5>1
      <4> QED
        BY <1>3, <2>1, <2>2, <3>3, <4>1, NoneIsFresh DEF ClerkRows
    <3> QED
      BY <1>3, <3>1, <3>2, <3>3
  <2>3. CASE r # clerk[c].row /\ r = clerk[c].to
    <3>1. Delta(c, r) = clerk[c].qty
      BY <2>3 DEF Delta
    <3> QED
      BY <1>3, <2>1, <2>3, <3>1, NoneIsFresh DEF ClerkRows
  <2>4. CASE r # clerk[c].row /\ r # clerk[c].to
    <3>1. Delta(c, r) = 0
      BY <2>4 DEF Delta
    <3> QED
      BY <2>1, <2>4, <3>1
  <2> QED
    BY <2>2, <2>3, <2>4
<1>5. \A r \in Row : onHand'[r] = onHand[r] + Delta(c, r) /\ deskLedger'[r] = deskLedger[r] + Delta(c, r)
  BY <1>1, <1>4
<1>6. onHand' \in [Row -> Int] /\ deskLedger' \in [Row -> Int]
  <2>1. \A r \in Row : onHand[r] + Delta(c, r) \in Int /\ deskLedger[r] + Delta(c, r) \in Int
                       /\ clerk[c].qty \in Int
    BY <1>2, <1>3, <1>4
  <2> QED
    BY <1>1, <2>1
<1>7. Away \in Clerks
  BY DEF Away, Clerks
<1>8. clerk' \in [Clerk -> Clerks] /\ clerk'[c] = Away /\ \A d \in Clerk \ {c} : clerk'[d] = clerk[d]
  BY <1>1, <1>7 DEF IInv, TypeOK
<1>9. TypeOK'
  BY <1>1, <1>6, <1>8 DEF IInv, TypeOK
<1>10. Sums'
  BY <1>1, SumsKept DEF IInv, OpenJob
<1>11. Ledger'
  <2>1. ASSUME NEW r \in Row
        PROVE  onHand'[r] = Opening[r] + saleLedger'[r] + deskLedger'[r] /\ onHand'[r] >= 0
    <3>1. onHand[r] = Opening[r] + saleLedger[r] + deskLedger[r] /\ saleLedger' = saleLedger
      BY <1>1 DEF IInv, Ledger
    <3>2. onHand'[r] = onHand[r] + Delta(c, r) /\ deskLedger'[r] = deskLedger[r] + Delta(c, r)
      BY <1>5
    <3>3. Delta(c, r) \in Int /\ onHand[r] + Delta(c, r) >= 0
      BY <1>4
    <3> QED
      BY <1>2, <3>1, <3>2, <3>3
  <2> QED
    BY <2>1 DEF Ledger
<1>12. \A s \in Sale : Agrees(s)'
  BY <1>1 DEF IInv, Agrees, OpenJob
<1>13. \A r \in Row \ ClerkRows(c) : onHand'[r] = onHand[r]
  BY <1>2, <1>4, <1>5
<1>14. \A w \in Worker : Applies(w)' /\ WorkerRows(w)' = WorkerRows(w)
  <2>1. ASSUME NEW w \in Worker PROVE Applies(w)'
    <3>1. WorkerRows(w) \cap ClerkRows(c) = {}
      BY DEF IInv, Apart
    <3>2. worker[w].at = "applying" => HoldsClaim(w, worker[w].job)'
      BY <1>1 DEF IInv, Applies, HoldsClaim
    <3> QED
      BY <1>1, <1>13, <3>1, <3>2, OthersStand
  <2> QED
    BY <1>1, <2>1 DEF WorkerRows
<1>15. \A d \in Clerk : Holds(d)' /\ ClerkRows(d)' \subseteq ClerkRows(d)
  <2>1. Holds(c)' /\ ClerkRows(c)' = {}
    BY <1>8 DEF Holds, ClerkRows, Away
  <2>2. ASSUME NEW d \in Clerk \ {c} PROVE Holds(d)' /\ ClerkRows(d)' = ClerkRows(d)
    <3>1. ClerkRows(d) \cap ClerkRows(c) = {}
      BY DEF IInv, Apart
    <3>2. Holds(d)'
      BY <1>8, <1>13, <3>1, OthersStand
    <3> QED
      BY <1>8, <3>2 DEF ClerkRows
  <2> QED
    BY <2>1, <2>2
<1>16. Apart'
  BY <1>14, <1>15, ApartKept DEF IInv
<1> QED
  BY <1>9, <1>10, <1>11, <1>12, <1>14, <1>15, <1>16 DEF IInv

\* The stock room.
LEMMA DeskKeeps ==
  ASSUME IInv, NEW c \in Clerk, Desk(c)
  PROVE  IInv'
<1>1. \A r \in Row : onHand[r] \in Int /\ reserved[r] \in Nat
  BY ReservedCovers DEF IInv, TypeOK
<1>2. 0..MaxStock \subseteq Nat /\ 1..MaxStock \subseteq Nat
  BY Bounds
<1>3. ASSUME NEW r \in Row, NEW q \in 0..MaxStock, OpenCount(c, r, q) PROVE IInv'
  BY <1>2, <1>3, OpenKeeps DEF OpenCount
<1>4. ASSUME NEW r \in Row, NEW q \in 1..MaxStock, OpenPut(c, r, q) PROVE IInv'
  BY <1>2, <1>4, OpenKeeps DEF OpenPut
<1>5. ASSUME NEW r \in Row, NEW q \in 1..MaxStock, OpenTake(c, r, q) PROVE IInv'
  <2>1. q \in Nat /\ q <= onHand[r] /\ Open(c, "take", r, None, q)
    BY <1>1, <1>2, <1>5 DEF OpenTake
  <2> QED
    BY <2>1, OpenKeeps
<1>6. ASSUME NEW r \in Row, NEW q \in 1..MaxStock, NEW to \in Row, OpenMove(c, r, to, q) PROVE IInv'
  <2>1. q \in Nat /\ q <= onHand[r] /\ r # to /\ Open(c, "move", r, to, q)
    BY <1>1, <1>2, <1>6 DEF OpenMove
  <2> QED
    BY <2>1, OpenKeeps
<1>7. CASE AbortDesk(c)
  <2>1. Away \in Clerks
    BY DEF Away, Clerks
  <2>2. /\ clerk' \in [Clerk -> Clerks] /\ clerk'[c] = Away /\ \A d \in Clerk \ {c} : clerk'[d] = clerk[d]
        /\ UNCHANGED <<stock, ledgers, sale, badge, job, worker, used>>
    BY <1>7, <2>1 DEF AbortDesk, IInv, TypeOK
  <2>3. TypeOK'
    BY <2>2 DEF IInv, TypeOK, stock, ledgers
  <2>4. Sums'
    BY <2>2, SumsKept DEF IInv, OpenJob, stock
  <2>5. Ledger' /\ \A s \in Sale : Agrees(s)'
    BY <2>2 DEF IInv, Ledger, Agrees, OpenJob, stock, ledgers
  <2>6. \A w \in Worker : Applies(w)' /\ WorkerRows(w)' = WorkerRows(w)
    BY <2>2 DEF IInv, Applies, WorkerRows, HoldsClaim, stock
  <2>7. Holds(c)' /\ ClerkRows(c)' = {}
    BY <2>2 DEF Holds, ClerkRows, Away
  <2>8. \A d \in Clerk \ {c} : Holds(d)' /\ ClerkRows(d)' = ClerkRows(d)
    BY <2>2, HoldsKept DEF IInv, ClerkRows, stock
  <2>9. Apart'
    <3>1. \A d \in Clerk : ClerkRows(d)' \subseteq ClerkRows(d)
      BY <2>7, <2>8
    <3> QED
      BY <2>6, <3>1, ApartKept DEF IInv
  <2> QED
    BY <2>3, <2>4, <2>5, <2>6, <2>7, <2>8, <2>9 DEF IInv
<1> QED
  BY <1>3, <1>4, <1>5, <1>6, <1>7, DeskCommitKeeps DEF Desk

\* Nothing happens.
LEMMA StutterKeeps == IInv /\ UNCHANGED vars => IInv'
<1> SUFFICES ASSUME IInv, UNCHANGED vars PROVE IInv'
  OBVIOUS
<1>1. UNCHANGED <<onHand, reserved, saleLedger, deskLedger, sale, badge, job, worker, clerk, used>>
  BY DEF vars
<1>2. TypeOK' /\ Ledger' /\ \A s \in Sale : OpenJob(s)' = OpenJob(s) /\ Agrees(s)'
  BY <1>1 DEF IInv, TypeOK, Ledger, Agrees, OpenJob
<1>3. Sums'
  BY <1>1, <1>2, SumsKept DEF IInv
<1>4. \A w \in Worker : worker[w].at = "applying" => HoldsClaim(w, worker[w].job)'
  BY <1>1 DEF IInv, Applies, HoldsClaim
<1> QED
  BY <1>1, <1>2, <1>3, <1>4, LocksStand DEF IInv

\* Every step keeps the invariant.
LEMMA NextIInv == IInv /\ [Next]_vars => IInv'
<1>1. ASSUME IInv, NEW w \in Worker, Work(w) \/ FailApply(w) \/ DropBatch(w) PROVE IInv'
  BY <1>1, ClaimKeeps, WorkerLeaves, BeginKeeps, CommitKeeps, RecordKeeps DEF Work
<1>2. ASSUME IInv, NEW s \in Sale, Sell(s) \/ LockGoesStale(s) \/ BackoffEnds(s) \/ Undo(s) \/ Requeue(s)
      PROVE  IInv'
  BY <1>2, SellKeeps, ClocksKeep, UndoKeeps
<1> QED
  BY <1>1, <1>2, DeskKeeps, StutterKeeps DEF Next

THEOREM Invariance == Spec => []IInv
BY InitIInv, NextIInv, PTL DEF Spec

-----------------------------------------------------------------------------
(* What the invariant gives. *)

\* A row's reserved quantity is exactly what the sales not yet settled need, through
\* retries, reclaims, crashes, voids and manual retries (reserveStockForSale,
\* applyDeduction, cancelAndReleaseReservation).
THEOREM ReservedIsWhatIsOpen == Spec => []ReservedIsOpen
<1>1. IInv => ReservedIsOpen
  BY DEF IInv, Sums, SumOf, Unsettled, ReservedIsOpen
<1> QED
  BY <1>1, Invariance, PTL

\* The movements written explain the quantity on hand, and no quantity goes below zero
\* (applyDeduction, reverseInventoryForTransaction, the stock room's transactions).
THEOREM MovementsExplainStock == Spec => []LedgerExplainsStock
<1>1. IInv => LedgerExplainsStock
  <2> SUFFICES ASSUME IInv PROVE LedgerExplainsStock
    OBVIOUS
  <2>1. \A r \in Row : reserved[r] >= 0
    BY ReservedCovers
  <2> QED
    BY <2>1 DEF IInv, Ledger, LedgerExplainsStock
<1> QED
  BY <1>1, Invariance, PTL

\* The badge of a standing sale says what its job waits for, and that of a voided or
\* refunded one whether its stock had been deducted (recordFailure, requeueFailedJob,
\* applyDeduction, voidTransaction).
THEOREM BadgesAgree == Spec => []BadgeAgrees
<1>1. IInv => BadgeAgrees
  <2> SUFFICES ASSUME IInv, NEW s \in Sale
               PROVE  /\ sale[s] = "completed" =>
                           badge[s] = IF job[s].status = "processing" THEN "pending" ELSE job[s].status
                      /\ sale[s] = "undone" => (badge[s] = "completed" <=> job[s].status = "completed")
    BY DEF BadgeAgrees
  <2>1. Agrees(s) /\ job[s].status \in {"none", "pending", "processing", "completed", "failed", "cancelled"}
    BY DEF IInv, TypeOK, Jobs, JobStatuses
  <2> QED
    BY <2>1 DEF Agrees
<1> QED
  BY <1>1, Invariance, PTL

-----------------------------------------------------------------------------
(* SaleStock implements SaleSettlement. *)

\* Where the settlement of a sale is, from its job and its row.
StageIn(status, row) ==
  CASE status = "none" -> "none"
    [] status \in {"pending", "processing", "failed"} -> "held"
    [] status = "cancelled" -> "released"
    [] status = "completed" /\ row = "completed" -> "deducted"
    [] OTHER -> "reversed"
StageOf(s) == StageIn(job[s].status, sale[s])
Taken == [r \in Row |-> - saleLedger[r]]

LEMMA StageTable ==
  ASSUME NEW row
  PROVE  /\ StageIn("none", row) = "none"
         /\ \A status \in {"pending", "processing", "failed"} : StageIn(status, row) = "held"
         /\ StageIn("cancelled", row) = "released"
         /\ row = "completed" => StageIn("completed", row) = "deducted"
         /\ row # "completed" => StageIn("completed", row) = "reversed"
BY DEF StageIn

\* The stages are those of the refinement mapping.
LEMMA StagesAre == stage = [s \in Sale |-> StageOf(s)]
BY DEF stage, StageOf, StageIn, OpenJob

LEMMA StagesThen == stage' = [s \in Sale |-> StageOf(s)']
BY DEF stage, StageOf, StageIn, OpenJob

\* No sale's settlement advances.
LEMMA StageStands ==
  ASSUME UNCHANGED <<reserved, saleLedger>>, \A s \in Sale : StageOf(s)' = StageOf(s)
  PROVE  UNCHANGED <<stage, reserved, Taken>>
<1>1. stage' = stage
  BY StagesAre, StagesThen
<1> QED
  BY <1>1 DEF Taken

\* One sale's settlement advances.
LEMMA StageAdvances ==
  ASSUME NEW s \in Sale, NEW from, NEW to, StageOf(s) = from, StageOf(s)' = to,
         \A u \in Sale \ {s} : StageOf(u)' = StageOf(u)
  PROVE  Promise!Advance(s, from, to)
<1>1. stage' = [stage EXCEPT ![s] = to] /\ stage[s] = from
  BY StagesAre, StagesThen
<1> QED
  BY <1>1 DEF Promise!Advance

\* What a row reserves and a sale takes, as the promise counts them.
LEMMA Counts ==
  ASSUME IInv, NEW s \in Sale
  PROVE  /\ Promise!Plus(s, reserved) = [r \in Row |-> reserved[r] + Need[s][r]]
         /\ Promise!Minus(s, reserved) = [r \in Row |-> reserved[r] - Need[s][r]]
         /\ Promise!Plus(s, Taken) = [r \in Row |-> - (saleLedger[r] - Need[s][r])]
         /\ Promise!Minus(s, Taken) = [r \in Row |-> - (saleLedger[r] + Need[s][r])]
<1>1. \A r \in Row : saleLedger[r] \in Int /\ Need[s][r] \in Nat
  BY Quantities DEF IInv, TypeOK
<1>2. \A r \in Row : (- saleLedger[r]) + Need[s][r] = - (saleLedger[r] - Need[s][r])
                  /\ (- saleLedger[r]) - Need[s][r] = - (saleLedger[r] + Need[s][r])
  BY <1>1
<1> QED
  BY <1>2 DEF Promise!Plus, Promise!Minus, Taken

\* Checkout holds.
LEMMA SellHolds ==
  ASSUME IInv, NEW s \in Sale, Sell(s)
  PROVE  Promise!Hold(s)
<1>1. job[s].status = "none" /\ job[s] \in Jobs
  BY DEF IInv, Sell, Agrees, TypeOK
<1>2. job'[s].status = "pending" /\ \A u \in Sale \ {s} : job'[u] = job[u] /\ sale'[u] = sale[u]
  BY <1>1 DEF Sell, IInv, TypeOK, Jobs
<1>3. StageOf(s) = "none" /\ StageOf(s)' = "held" /\ \A u \in Sale \ {s} : StageOf(u)' = StageOf(u)
  BY <1>1, <1>2, StageTable DEF StageOf
<1>4. reserved' = [r \in Row |-> reserved[r] + Need[s][r]] /\ saleLedger' = saleLedger
  BY DEF Sell, ledgers
<1> QED
  BY <1>3, <1>4, StageAdvances, Counts DEF Promise!Hold, Taken

\* A worker that commits deducts.
LEMMA CommitDeducts ==
  ASSUME IInv, NEW w \in Worker, CommitApply(w)
  PROVE  \E s \in Sale : Promise!Deduct(s)
<1>1. PICK s \in Sale : s = worker[w].job /\ worker[w].at = "applying"
  BY ClaimIsMine DEF CommitApply
<1>2. /\ \A r \in Row : worker[w].release[r] = Need[s][r]
      /\ job[s].status = "processing" /\ sale[s] = "completed" /\ job[s] \in Jobs
  BY <1>1, ClaimIsMine DEF IInv, Applies, TypeOK, Agrees
<1>3. /\ reserved' = [r \in Row |-> reserved[r] - worker[w].release[r]]
      /\ saleLedger' = [r \in Row |-> saleLedger[r] - Need[s][r]]
      /\ job' = [job EXCEPT ![s].status = "completed", ![s].token = None, ![s].stale = FALSE]
      /\ sale' = sale
  BY <1>1 DEF CommitApply
<1>4. /\ job'[s].status = "completed" /\ sale'[s] = "completed"
      /\ \A u \in Sale \ {s} : job'[u] = job[u] /\ sale'[u] = sale[u]
  BY <1>2, <1>3 DEF IInv, TypeOK, Jobs
<1>5. StageOf(s) = "held" /\ StageOf(s)' = "deducted" /\ \A u \in Sale \ {s} : StageOf(u)' = StageOf(u)
  BY <1>2, <1>4, StageTable DEF StageOf
<1>6. reserved' = [r \in Row |-> reserved[r] - Need[s][r]]
  BY <1>2, <1>3
<1>7. Taken' = [r \in Row |-> - (saleLedger[r] - Need[s][r])]
  BY <1>3 DEF Taken
<1> QED
  BY <1>5, <1>6, <1>7, StageAdvances, Counts DEF Promise!Deduct, Taken

\* A void or a refund releases what is held, or reverses what was deducted.
LEMMA UndoSettles ==
  ASSUME IInv, NEW s \in Sale, Undo(s)
  PROVE  Promise!Release(s) \/ Promise!Reverse(s)
<1>1. /\ sale[s] = "completed" /\ sale'[s] = "undone" /\ job[s] \in Jobs
      /\ \A u \in Sale \ {s} : sale'[u] = sale[u]
  BY DEF Undo, Undoable, IInv, TypeOK
<1>2. CASE Release(s)
  <2>1. job[s].status \in {"pending", "failed"} /\ s \in Unsettled /\ saleLedger' = saleLedger
    BY <1>2 DEF Release, Cancellable, OpenJob, Unsettled
  <2>2. job'[s].status = "cancelled" /\ \A u \in Sale \ {s} : job'[u] = job[u]
    BY <1>1, <1>2 DEF Release, IInv, TypeOK, Jobs
  <2>3. StageOf(s) = "held" /\ StageOf(s)' = "released" /\ \A u \in Sale \ {s} : StageOf(u)' = StageOf(u)
    BY <1>1, <2>1, <2>2, StageTable DEF StageOf
  <2>4. ASSUME NEW r \in Row
        PROVE  (IF reserved[r] < Need[s][r] THEN 0 ELSE reserved[r] - Need[s][r]) = reserved[r] - Need[s][r]
    <3>1. Need[s][r] <= reserved[r] /\ reserved[r] \in Nat /\ Need[s][r] \in Nat
      BY <2>1, ReservedCovers, Quantities
    <3> QED
      BY <3>1
  <2>5. reserved' = [r \in Row |-> reserved[r] - Need[s][r]]
    BY <1>2, <2>4 DEF Release, FlooredAtZero
  <2> QED
    BY <2>1, <2>3, <2>5, StageAdvances, Counts DEF Promise!Release, Taken
<1>3. CASE Reverse(s)
  <2>1. /\ job[s].status = "completed" /\ UNCHANGED <<reserved, job>>
        /\ saleLedger' = [r \in Row |-> saleLedger[r] + Need[s][r]]
    BY <1>3 DEF Reverse
  <2>2. StageOf(s) = "deducted" /\ StageOf(s)' = "reversed" /\ \A u \in Sale \ {s} : StageOf(u)' = StageOf(u)
    BY <1>1, <2>1, StageTable DEF StageOf
  <2>3. Taken' = [r \in Row |-> - (saleLedger[r] + Need[s][r])]
    BY <2>1 DEF Taken
  <2> QED
    BY <2>1, <2>2, <2>3, StageAdvances, Counts DEF Promise!Reverse, Taken
<1> QED
  BY <1>2, <1>3 DEF Undo

\* A step that only moves a job between claims, retries and failure advances nothing.
LEMMA RetriesStand ==
  ASSUME IInv, UNCHANGED <<reserved, saleLedger, sale>>,
         \A s \in Sale : job'[s] = job[s] \/ (OpenJob(s) /\ OpenJob(s)')
  PROVE  UNCHANGED <<stage, reserved, Taken>>
<1>1. \A s \in Sale : StageOf(s)' = StageOf(s)
  BY StageTable DEF StageOf, OpenJob
<1> QED
  BY <1>1, StageStands

LEMMA ClocksStand ==
  ASSUME IInv, NEW s \in Sale, LockGoesStale(s) \/ BackoffEnds(s) \/ Requeue(s)
  PROVE  UNCHANGED <<stage, reserved, Taken>>
<1>1. UNCHANGED <<reserved, saleLedger, sale>>
  BY DEF LockGoesStale, BackoffEnds, Requeue, stock, ledgers
<1>2. job[s] \in Jobs /\ OpenJob(s)
  BY DEF IInv, TypeOK, LockGoesStale, BackoffEnds, Requeue, OpenJob
<1>3. OpenJob(s)' /\ \A u \in Sale \ {s} : job'[u] = job[u]
  BY <1>2 DEF IInv, TypeOK, Jobs, LockGoesStale, BackoffEnds, Requeue, NoJob, OpenJob
<1> QED
  BY <1>1, <1>2, <1>3, RetriesStand

LEMMA WorkersStand ==
  ASSUME IInv, NEW w \in Worker,
         ClaimBatch(w) \/ Skip(w) \/ BeginApply(w) \/ RecordFailure(w) \/ FailApply(w) \/ DropBatch(w)
  PROVE  UNCHANGED <<stage, reserved, Taken>>
<1>1. UNCHANGED <<reserved, saleLedger, sale>>
  BY DEF ClaimBatch, Skip, BeginApply, RecordFailure, FailApply, DropBatch, stock, ledgers
<1>2. CASE ClaimBatch(w)
  <2>1. PICK batch \in SUBSET {s \in Sale : Claimable(s)} :
          job' = [s \in Sale |->
            IF s \in batch THEN [job[s] EXCEPT !.status = "processing", !.token = w, !.stale = FALSE]
            ELSE job[s]]
    BY <1>2 DEF ClaimBatch
  <2>2. \A s \in Sale : job'[s] = job[s] \/ (OpenJob(s) /\ OpenJob(s)')
    <3>1. ASSUME NEW s \in batch
          PROVE  OpenJob(s) /\ OpenJob(s)'
      <4>1. job[s] \in Jobs /\ Claimable(s)
        BY DEF IInv, TypeOK
      <4>2. job'[s] = [job[s] EXCEPT !.status = "processing", !.token = w, !.stale = FALSE]
        BY <2>1
      <4> QED
        BY <4>1, <4>2 DEF Jobs, OpenJob, Claimable
    <3> QED
      BY <2>1, <3>1
  <2> QED
    BY <1>1, <2>2, RetriesStand
<1>3. CASE RecordFailure(w)
  <2>1. PICK s : s = worker[w].job
    OBVIOUS
  <2>2. CASE HoldsClaim(w, s)
    <3>1. PICK j : j.status \in {"failed", "pending"} /\ job' = [job EXCEPT ![s] = j]
      BY <1>3, <2>1, <2>2 DEF RecordFailure
    <3>2. \A u \in Sale : job'[u] = job[u] \/ (OpenJob(u) /\ OpenJob(u)')
      BY <2>2, <3>1 DEF IInv, TypeOK, HoldsClaim, OpenJob
    <3> QED
      BY <1>1, <3>2, RetriesStand
  <2>3. CASE ~HoldsClaim(w, s)
    <3>1. job' = job
      BY <1>3, <2>1, <2>3 DEF RecordFailure
    <3> QED
      BY <1>1, <3>1, RetriesStand
  <2> QED
    BY <2>2, <2>3
<1>4. CASE Skip(w) \/ BeginApply(w) \/ FailApply(w) \/ DropBatch(w)
  <2>1. job' = job
    BY <1>4 DEF Skip, BeginApply, FailApply, DropBatch
  <2> QED
    BY <1>1, <2>1, RetriesStand
<1> QED
  BY <1>2, <1>3, <1>4

LEMMA DeskStands ==
  ASSUME IInv, NEW c \in Clerk, Desk(c)
  PROVE  UNCHANGED <<stage, reserved, Taken>>
<1>1. UNCHANGED <<reserved, saleLedger, sale, job>>
  BY DEF Desk, OpenCount, OpenPut, OpenTake, OpenMove, Open, CommitDesk, AbortDesk, stock, ledgers
<1> QED
  BY <1>1, RetriesStand

\* Whatever workers, voids, retries and the stock room do in between, the stock a
\* sale holds is deducted or released once, reversed at most once, and each of
\* these moves its whole bill of materials in one step (reserveStockForSale,
\* applyDeduction, cancelAndReleaseReservation, reverseInventoryForTransaction).
THEOREM SalesSettle == Spec => SettlesAsPromised
<1>1. Init => Promise!Init
  <2> SUFFICES ASSUME Init PROVE Promise!Init
    OBVIOUS
  <2>1. \A s \in Sale : StageOf(s) = "none"
    BY StageTable DEF Init, NoJob, StageOf
  <2>2. stage = [s \in Sale |-> "none"]
    BY <2>1, StagesAre
  <2>3. [r \in Row |-> - saleLedger[r]] = [r \in Row |-> 0]
    <3>1. \A r \in Row : saleLedger[r] = 0
      BY DEF Init
    <3>2. ASSUME NEW n \in Int, n = 0 PROVE - n = 0
      <4>1. - n = 0 - n
        OBVIOUS
      <4>2. 0 - n = 0
        BY <3>2
      <4> QED
        BY <4>1, <4>2
    <3>3. \A r \in Row : - saleLedger[r] = 0
      BY <3>1, <3>2
    <3> QED
      BY <3>3
  <2> QED
    BY <2>2, <2>3 DEF Init, Promise!Init
<1>2. IInv /\ [Next]_vars => [Promise!Next]_<<stage, reserved, Taken>>
  <2> SUFFICES ASSUME IInv, [Next]_vars
               PROVE  Promise!Next \/ UNCHANGED <<stage, reserved, Taken>>
    OBVIOUS
  <2>1. ASSUME NEW s \in Sale,
               Sell(s) \/ LockGoesStale(s) \/ BackoffEnds(s) \/ Undo(s) \/ Requeue(s)
        PROVE  Promise!Next \/ UNCHANGED <<stage, reserved, Taken>>
    BY <2>1, SellHolds, ClocksStand, UndoSettles DEF Promise!Next
  <2>2. ASSUME NEW w \in Worker, Work(w) \/ FailApply(w) \/ DropBatch(w)
        PROVE  Promise!Next \/ UNCHANGED <<stage, reserved, Taken>>
    BY <2>2, CommitDeducts, WorkersStand DEF Promise!Next, Work
  <2>3. CASE UNCHANGED vars
    BY <2>3, RetriesStand DEF vars
  <2> QED
    BY <2>1, <2>2, <2>3, DeskStands DEF Next
<1>3. [Promise!Next]_<<stage, reserved, Taken>> =>
        [Promise!Next]_<<stage, reserved, [r \in Row |-> - saleLedger[r]]>>
  BY DEF Taken
<1>4. IInv /\ [Next]_vars => [Promise!Next]_<<stage, reserved, [r \in Row |-> - saleLedger[r]]>>
  BY <1>2, <1>3
<1> QED
  BY <1>1, <1>4, Invariance, PTL DEF Spec, SettlesAsPromised, Promise!Spec
=============================================================================
