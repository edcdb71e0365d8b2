----------------------- MODULE InventoryApproval_proofs -----------------------
(***************************************************************************)
(* For any number of calls, keys, photos, requests and reviewers: no key,  *)
(* photo or request moves the stock twice, a request has one future, and a *)
(* count is approved onto the stock it was taken of.                       *)
(*                                                                         *)
(* And the other thing supervisors do at the same time as each other, the  *)
(* catalog: for any branches and handlers, what ProductPublication checks. *)
(***************************************************************************)
EXTENDS InventoryApproval, ProductPublication, TLAPS

\* A call that has been turned away, or not yet sent, names nothing.
AtWork(c) == call[c].at \notin {"unsent", "ended"}
Proven(c) == call[c].at \in {"proven", "moved", "told"}

\* A call at work names a photo; the key it names is claimed, the photo it has
\* proven is spent, and neither is another call's.
Claims(c) ==
  /\ AtWork(c) => call[c].proof \in Proof
  /\ AtWork(c) /\ call[c].key # None =>
       /\ attempt[call[c].key] # "none"
       /\ \A d \in Call : AtWork(d) /\ call[d].key = call[c].key => d = c
  /\ Proven(c) =>
       /\ proof[call[c].proof].row # "kept"
       /\ \A d \in Call : Proven(d) /\ call[d].proof = call[c].proof => d = c

\* A handler at work has read a row.
HasRead(h) == reviewer[h].does # "nothing" => reviewer[h].row \in Req

\* A request has moved the stock once at most, and only approved.
MovedOnce(r) == moves[r] = 0 \/ (moves[r] = 1 /\ Status(r) = "APPROVED")

\* A follow-up's predecessor stays returned and has no other.
OneFuture(r) ==
  \A s \in Req :
    req[s].prev = r => Status(r) = "RETURNED" /\ \A t \in Req : req[t].prev = r => t = s

\* The stamp of a filed count is the version it was counted at, unless the figure is
\* its predecessor's.
TrueStamp(r) ==
  Status(r) # "none" /\ req[r].count =>
    \/ req[r].seen = req[r].stamp
    \/ req[r].prev # None /\ req[req[r].prev].seen = req[r].seen

\* The inductive invariant, of the desk and of the reviews.
DeskIInv == DeskTypeOK /\ \A c \in Call : Claims(c)

ReviewIInv ==
  /\ req \in [Req -> Reqs] /\ moves \in [Req -> Nat] /\ reviewer \in [Reviewer -> Reviewers]
  /\ \A h \in Reviewer : HasRead(h)
  /\ \A r \in Req : MovedOnce(r) /\ OneFuture(r) /\ TrueStamp(r)

IInv == DeskIInv /\ ReviewIInv

-----------------------------------------------------------------------------
(* The desk. *)

\* Nothing is claimed or spent.
LEMMA DeskInitIInv == DeskInit => DeskIInv
<1> SUFFICES ASSUME DeskInit PROVE DeskIInv
  OBVIOUS
<1>1. DeskTypeOK
  BY VersionsAreCounts DEF DeskInit, DeskTypeOK, Attempts, Proofs, Calls, Unsent
<1>2. \A c \in Call : ~AtWork(c) /\ ~Proven(c)
  BY DEF DeskInit, AtWork, Proven, Unsent
<1> QED
  BY <1>1, <1>2 DEF DeskIInv, Claims

\* A key is named by its first call only.
LEMMA PostKeeps ==
  ASSUME DeskIInv, NEW c \in Call, NEW k \in Key \cup {None}, NEW p \in Proof, Post(c, k, p)
  PROVE  DeskIInv'
<1>1. call' \in [Call -> Calls]
  BY DEF Post, DeskIInv, DeskTypeOK, Calls, Over, Unsent
<1>2. attempt' \in [Key -> Attempts]
  BY DEF Post, DeskIInv, DeskTypeOK, Attempts
<1>3. DeskTypeOK'
  BY <1>1, <1>2 DEF Post, DeskIInv, DeskTypeOK
<1>4. \A d \in Call \ {c} : call'[d] = call[d]
  BY DEF Post, DeskIInv, DeskTypeOK
<1>5. \A l \in Key : attempt[l] # "none" => attempt'[l] # "none"
  BY DEF Post, DeskIInv, DeskTypeOK
<1>6. CASE Unclaimed(k)
  <2>1. call'[c] = [at |-> "claimed", key |-> k, proof |-> p]
    BY <1>6 DEF Post, DeskIInv, DeskTypeOK
  <2>2. k # None => attempt[k] = "none" /\ attempt'[k] = "claimed"
    BY <1>6 DEF Post, DeskIInv, DeskTypeOK, Unclaimed
  <2>3. \A d \in Call : AtWork(d) /\ k # None => call[d].key # k
    BY <2>2 DEF DeskIInv, Claims
  <2>4. \A d \in Call \ {c} : AtWork(d)' = AtWork(d) /\ Proven(d)' = Proven(d)
    BY <1>4 DEF AtWork, Proven
  <2>5. AtWork(c)' /\ ~Proven(c)' /\ proof' = proof
    BY <2>1 DEF AtWork, Proven, Post
  <2>6. Claims(c)'
    BY <1>4, <2>1, <2>2, <2>3, <2>4, <2>5 DEF Claims
  <2>7. ASSUME NEW d \in Call \ {c} PROVE Claims(d)'
    <3>1. call[d] \in Calls
      BY DEF DeskIInv, DeskTypeOK
    <3> QED
      BY <1>4, <1>5, <2>1, <2>3, <2>4, <2>5, <3>1 DEF Claims, DeskIInv, Calls
  <2> QED
    BY <1>3, <2>6, <2>7 DEF DeskIInv
<1>7. CASE ~Unclaimed(k)
  <2>1. call'[c] = Over /\ proof' = proof
    BY <1>7 DEF Post, DeskIInv, DeskTypeOK
  <2>2. ~AtWork(c)' /\ ~Proven(c)'
    BY <2>1 DEF AtWork, Proven, Over, Unsent
  <2>3. \A d \in Call \ {c} : AtWork(d)' = AtWork(d) /\ Proven(d)' = Proven(d)
    BY <1>4 DEF AtWork, Proven
  <2>4. ASSUME NEW d \in Call \ {c} PROVE Claims(d)'
    <3>1. call[d] \in Calls
      BY DEF DeskIInv, DeskTypeOK
    <3> QED
      BY <1>4, <1>5, <2>1, <2>2, <2>3, <3>1 DEF Claims, DeskIInv, Calls
  <2>5. Claims(c)'
    BY <2>2 DEF Claims
  <2> QED
    BY <1>3, <2>4, <2>5 DEF DeskIInv
<1> QED
  BY <1>6, <1>7
\* A call that goes on, or is over, while no key and no photo is given back.
LEMMA GoesKeeps ==
  ASSUME DeskIInv, NEW c \in Call, AtWork(c),
         NEW step \in {"checked", "proven", "moved", "told", "ended"}, Goes(c, step),
         DeskTypeOK',
         \A k \in Key : attempt[k] # "none" => attempt'[k] # "none",
         \A p \in Proof : proof[p].row # "kept" => proof'[p].row # "kept",
         step \in {"proven", "moved", "told"} /\ ~Proven(c) =>
           proof[call[c].proof].row = "kept" /\ proof'[call[c].proof].row # "kept"
  PROVE  DeskIInv'
<1>1. call \in [Call -> Calls]
  BY DEF DeskIInv, DeskTypeOK
<1>2. \A d \in Call \ {c} : call'[d] = call[d]
  BY <1>1 DEF Goes
<1>3. \A d \in Call \ {c} : AtWork(d)' = AtWork(d) /\ Proven(d)' = Proven(d)
  BY <1>2 DEF AtWork, Proven
<1>4. call[c] \in Calls /\ call[c].proof \in Proof
  BY <1>1 DEF DeskIInv, Claims
<1>5. CASE step = "ended"
  <2>1. call'[c] = Over
    BY <1>1, <1>5 DEF Goes
  <2>2. ~AtWork(c)' /\ ~Proven(c)'
    BY <2>1 DEF AtWork, Proven, Over, Unsent
  <2>3. ASSUME NEW d \in Call \ {c} PROVE Claims(d)'
    <3>1. call[d] \in Calls /\ (Proven(d) => AtWork(d))
      BY <1>1 DEF Proven, AtWork
    <3> QED
      BY <1>2, <1>3, <2>2, <3>1 DEF Claims, DeskIInv, Calls
  <2>4. Claims(c)'
    BY <2>2 DEF Claims
  <2> QED
    BY <2>3, <2>4 DEF DeskIInv
<1>6. CASE step # "ended"
  <2>1. call'[c] = [call[c] EXCEPT !.at = step]
    BY <1>1, <1>6 DEF Goes
  <2>2. call'[c].at = step /\ call'[c].key = call[c].key /\ call'[c].proof = call[c].proof
    BY <1>4, <2>1 DEF Calls
  <2>3. AtWork(c)' /\ (Proven(c)' <=> step \in {"proven", "moved", "told"})
    BY <1>6, <2>2 DEF AtWork, Proven
  <2>4. \A d \in Call : call'[d].key = call[d].key /\ call'[d].proof = call[d].proof
    BY <1>2, <2>2
  <2>5. \A d \in Call : AtWork(d)' => AtWork(d)
    BY <1>3
  <2>6. \A d \in Call : Proven(d) => call[d].proof \in Proof /\ proof[call[d].proof].row # "kept"
    BY DEF DeskIInv, Claims, Proven, AtWork
  <2>7. Proven(c)' /\ ~Proven(c) => \A d \in Call \ {c} : Proven(d) => call[d].proof # call[c].proof
    BY <2>3, <2>6
  <2>8. ASSUME NEW d \in Call, AtWork(d)'
        PROVE  /\ call[d].proof \in Proof
               /\ call[d].key # None =>
                    /\ attempt'[call[d].key] # "none"
                    /\ \A e \in Call : AtWork(e)' /\ call[e].key = call[d].key => e = d
    <3>1. call[d] \in Calls /\ Claims(d)
      BY <1>1 DEF DeskIInv
    <3> QED
      BY <2>5, <2>8, <3>1 DEF Claims, Calls
  <2>9. ASSUME NEW d \in Call, Proven(d)'
        PROVE  /\ proof'[call[d].proof].row # "kept"
               /\ \A e \in Call : Proven(e)' /\ call[e].proof = call[d].proof => e = d
    <3>1. CASE Proven(c) \/ ~Proven(c)'
      <4>1. \A e \in Call : Proven(e)' => Proven(e)
        BY <1>3, <3>1
      <4>2. Claims(d)
        BY DEF DeskIInv
      <4> QED
        BY <2>6, <2>9, <4>1, <4>2 DEF Claims
    <3>2. CASE Proven(c)' /\ ~Proven(c)
      <4>1. \A e \in Call \ {c} : Proven(e)' => Proven(e) /\ Claims(e)
        BY <1>3 DEF DeskIInv
      <4>2. proof'[call[c].proof].row # "kept"
        BY <2>3, <3>2
      <4> QED
        BY <2>6, <2>7, <2>9, <3>2, <4>1, <4>2 DEF Claims
    <3> QED
      BY <3>1, <3>2
  <2>10. ASSUME NEW d \in Call PROVE Claims(d)'
    BY <2>4, <2>8, <2>9 DEF Claims
  <2> QED
    BY <2>10 DEF DeskIInv
<1> QED
  BY <1>5, <1>6

\* A step that leaves the calls and keys alone, and gives no photo back.
LEMMA PhotosOnly ==
  ASSUME DeskIInv, UNCHANGED <<attempt, call>>, DeskTypeOK',
         \A p \in Proof : proof[p].row # "kept" => proof'[p].row # "kept"
  PROVE  DeskIInv'
<1>1. ASSUME NEW c \in Call PROVE Claims(c)'
  <2>1. Claims(c) /\ call'[c] = call[c]
    BY DEF DeskIInv
  <2>2. \A d \in Call : AtWork(d)' = AtWork(d) /\ Proven(d)' = Proven(d) /\ call'[d] = call[d]
    BY DEF AtWork, Proven
  <2>3. Proven(c) => AtWork(c)
    BY DEF Proven, AtWork
  <2> QED
    BY <2>1, <2>2, <2>3 DEF Claims
<1> QED
  BY <1>1 DEF DeskIInv

\* The desk's steps.
LEMMA DeskStep ==
  ASSUME DeskIInv, DeskNext
  PROVE  DeskIInv'
<1> USE DEF DeskIInv
<1>1. ASSUME NEW c \in Call, NEW k \in Key \cup {None}, NEW p \in Proof, Post(c, k, p)
      PROVE  DeskIInv'
  BY <1>1, PostKeeps
<1>2. ASSUME NEW c \in Call, NEW step \in {"checked", "proven", "moved", "told", "ended"},
             AtWork(c), Goes(c, step)
      PROVE  call' \in [Call -> Calls]
  <2>1. call[c] \in Calls /\ [call[c] EXCEPT !.at = step] \in Calls /\ Over \in Calls
    BY DEF DeskTypeOK, Calls, Over, Unsent
  <2> QED
    BY <1>2, <2>1 DEF DeskTypeOK, Goes
<1>3. ASSUME NEW c \in Call, ReadProof(c)
      PROVE  DeskIInv'
  <2> DEFINE step == IF proof[call[c].proof] = [row |-> "kept", expired |-> FALSE] THEN "checked" ELSE "ended"
  <2>1. AtWork(c) /\ Goes(c, step) /\ UNCHANGED <<version, attempt, proof, sweeping>>
    BY <1>3 DEF ReadProof, AtWork
  <2>2. step \in {"checked", "ended"}
    OBVIOUS
  <2> HIDE DEF step
  <2>3. DeskTypeOK'
    BY <1>2, <2>1, <2>2 DEF DeskTypeOK
  <2> QED
    BY <2>1, <2>2, <2>3, GoesKeeps
<1>4. ASSUME NEW c \in Call, ConsumeProof(c)
      PROVE  DeskIInv'
  <2> DEFINE p == call[c].proof
             step == IF Consumable(p) THEN "proven" ELSE "ended"
  <2>1. AtWork(c) /\ ~Proven(c) /\ Goes(c, step) /\ UNCHANGED <<version, attempt, sweeping>>
    BY <1>4 DEF ConsumeProof, AtWork, Proven
  <2>2. step \in {"proven", "ended"}
    OBVIOUS
  <2>3. p \in Proof
    BY <2>1 DEF Claims
  <2>4. proof' \in [Proof -> Proofs]
    <3>1. [proof[p] EXCEPT !.row = "consumed"] \in Proofs
      BY <2>3 DEF DeskTypeOK, Proofs
    <3> QED
      BY <1>4, <2>3, <3>1 DEF ConsumeProof, DeskTypeOK
  <2>5. /\ \A q \in Proof : proof[q].row # "kept" => proof'[q].row # "kept"
        /\ step = "proven" => proof[p].row = "kept" /\ proof'[p].row # "kept"
    BY <1>4, <2>3 DEF ConsumeProof, Consumable, DeskTypeOK, Proofs
  <2> HIDE DEF step
  <2>6. DeskTypeOK'
    BY <1>2, <2>1, <2>2, <2>4 DEF DeskTypeOK
  <2> QED
    BY <2>1, <2>2, <2>5, <2>6, GoesKeeps
<1>5. ASSUME NEW c \in Call, WriteStock(c)
      PROVE  DeskIInv'
  <2>1. AtWork(c) /\ Proven(c) /\ Goes(c, "moved") /\ UNCHANGED <<attempt, proof, sweeping>>
    BY <1>5 DEF WriteStock, AtWork, Proven
  <2>2. version' \in 0..MaxVersion
    BY <1>5, VersionsAreCounts DEF WriteStock, StockMoves, DeskTypeOK
  <2>3. DeskTypeOK'
    BY <1>2, <2>1, <2>2 DEF DeskTypeOK
  <2> QED
    BY <2>1, <2>3, GoesKeeps
<1>6. ASSUME NEW c \in Call, RecordResult(c)
      PROVE  DeskIInv'
  <2>1. AtWork(c) /\ Proven(c) /\ Goes(c, "told") /\ UNCHANGED <<version, proof, sweeping>>
    BY <1>6 DEF RecordResult, AtWork, Proven
  <2>2. /\ attempt' \in [Key -> Attempts]
        /\ \A k \in Key : attempt[k] # "none" => attempt'[k] # "none"
    BY <1>6 DEF RecordResult, DeskTypeOK, Attempts
  <2>3. DeskTypeOK'
    BY <1>2, <2>1, <2>2 DEF DeskTypeOK
  <2> QED
    BY <2>1, <2>2, <2>3, GoesKeeps
<1>7. ASSUME NEW c \in Call, Lose(c)
      PROVE  DeskIInv'
  <2> DEFINE step == IF call[c].at = "moved" THEN "told" ELSE "ended"
  <2>1. AtWork(c) /\ Goes(c, step) /\ UNCHANGED <<version, attempt, proof, sweeping>>
    BY <1>7 DEF Lose, AtWork
  <2>2. step \in {"told", "ended"} /\ (step = "told" => Proven(c))
    BY DEF Proven
  <2> HIDE DEF step
  <2>3. DeskTypeOK'
    BY <1>2, <2>1, <2>2 DEF DeskTypeOK
  <2> QED
    BY <2>1, <2>2, <2>3, GoesKeeps
<1>8. ASSUME NEW p \in Proof, Expire(p)
      PROVE  DeskIInv'
  <2>1. [proof[p] EXCEPT !.expired = TRUE] \in Proofs
    BY DEF DeskTypeOK, Proofs
  <2>2. proof' \in [Proof -> Proofs] /\ \A q \in Proof : proof'[q].row = proof[q].row
    BY <1>8, <2>1 DEF Expire, DeskTypeOK, Proofs
  <2> QED
    BY <1>8, <2>2, PhotosOnly DEF Expire, DeskTypeOK
<1>9. CASE SweepReads
  BY <1>9, PhotosOnly DEF SweepReads, DeskTypeOK
<1>10. CASE SweepDeletes
  <2>1. \A p \in Proof : [proof[p] EXCEPT !.row = "gone"] \in Proofs
    BY DEF DeskTypeOK, Proofs
  <2>2. proof' \in [Proof -> Proofs]
    BY <1>10, <2>1 DEF SweepDeletes, DeskTypeOK
  <2>3. \A p \in Proof : proof[p].row # "kept" => proof'[p].row # "kept"
    BY <1>10 DEF SweepDeletes, DeskTypeOK, Proofs
  <2> QED
    BY <1>10, <2>2, <2>3, PhotosOnly DEF SweepDeletes, DeskTypeOK
<1> QED
  BY <1>1, <1>3, <1>4, <1>5, <1>6, <1>7, <1>8, <1>9, <1>10 DEF DeskNext

\* A review writes at most the stock's version.
LEMMA ReviewLeavesDesk ==
  ASSUME DeskIInv, UNCHANGED <<attempt, proof, sweeping, call>>, version' \in 0..MaxVersion
  PROVE  DeskIInv'
BY PhotosOnly DEF DeskIInv, DeskTypeOK
-----------------------------------------------------------------------------
(* Reviews. *)

\* No request is filed but those of branch accounts, and nobody reviews.
LEMMA ReviewInitIInv == Init => ReviewIInv
<1> SUFFICES ASSUME Init PROVE ReviewIInv
  OBVIOUS
<1>1. req \in [Req -> Reqs] /\ moves \in [Req -> Nat] /\ reviewer \in [Reviewer -> Reviewers]
  BY VersionsAreCounts DEF Init, Reqs, Reviewers, Idle
<1>2. \A h \in Reviewer : HasRead(h)
  BY DEF Init, HasRead, Idle
<1>3. \A r \in Req : req[r].prev = None /\ req[r].seen = 0 /\ req[r].stamp = 0
  BY DEF Init
<1>4. \A r \in Req : MovedOnce(r) /\ OneFuture(r) /\ TrueStamp(r)
  BY <1>1, <1>3, OldAreRequests DEF Init, MovedOnce, OneFuture, TrueStamp
<1> QED
  BY <1>1, <1>2, <1>4 DEF ReviewIInv

\* A handler that ends, or that opens a row, holds one.
LEMMA HandlerKeeps ==
  ASSUME ReviewIInv, NEW h \in Reviewer, NEW w \in Reviewers,
         w.does # "nothing" => w.row \in Req, reviewer' = [reviewer EXCEPT ![h] = w]
  PROVE  reviewer' \in [Reviewer -> Reviewers] /\ \A g \in Reviewer : HasRead(g)'
BY DEF ReviewIInv, HasRead

LEMMA EndKeeps ==
  ASSUME ReviewIInv, NEW h \in Reviewer, Ends(h)
  PROVE  reviewer' \in [Reviewer -> Reviewers] /\ \A g \in Reviewer : HasRead(g)'
<1>1. Idle \in Reviewers /\ Idle.does = "nothing"
  BY VersionsAreCounts DEF Idle, Reviewers
<1> QED
  BY <1>1, HandlerKeeps DEF Ends

\* A request that takes a status others have left it no follow-up in keeps its
\* figure, its stamp and its predecessor.
LEMMA StatusKeeps ==
  ASSUME ReviewIInv, NEW r \in Req, NEW s \in {"RETURNED", "APPROVED", "CANCELLED"},
         req' = [req EXCEPT ![r].status = s], Status(r) \in {"PENDING", "RETURNED"},
         s = "RETURNED" \/ ~Corrected(r)
  PROVE  /\ req' \in [Req -> Reqs]
         /\ \A q \in Req : OneFuture(q)' /\ TrueStamp(q)'
         /\ Status(r)' = s /\ \A q \in Req \ {r} : Status(q)' = Status(q)
<1>1. req[r] \in Reqs /\ [req[r] EXCEPT !.status = s] \in Reqs
  BY DEF ReviewIInv, Reqs
<1>2. req' = [req EXCEPT ![r] = [req[r] EXCEPT !.status = s]]
  OBVIOUS
<1>3. req' \in [Req -> Reqs]
  BY <1>1, <1>2 DEF ReviewIInv
<1>4. \A q \in Req \ {r} : req'[q] = req[q]
  BY <1>2 DEF ReviewIInv
<1>5. /\ req'[r].status = s /\ req'[r].count = req[r].count /\ req'[r].prev = req[r].prev
      /\ req'[r].stamp = req[r].stamp /\ req'[r].seen = req[r].seen
  BY <1>1, <1>2 DEF ReviewIInv, Reqs
<1>6. \A q \in Req : /\ req'[q].count = req[q].count /\ req'[q].prev = req[q].prev
                     /\ req'[q].stamp = req[q].stamp /\ req'[q].seen = req[q].seen
  BY <1>4, <1>5
<1>7. Status(r)' = s /\ \A q \in Req \ {r} : Status(q)' = Status(q)
  BY <1>4, <1>5 DEF Status
<1>8. ASSUME NEW q \in Req PROVE OneFuture(q)'
  <2>1. OneFuture(q)
    BY DEF ReviewIInv
  <2>2. q = r /\ s # "RETURNED" => \A t \in Req : req[t].prev # q
    BY DEF Corrected
  <2> QED
    BY <1>6, <1>7, <2>1, <2>2 DEF OneFuture
<1>9. ASSUME NEW q \in Req PROVE TrueStamp(q)'
  <2>1. TrueStamp(q) /\ req[q].prev \in Req \cup {None}
    BY DEF ReviewIInv, Reqs
  <2>2. Status(q)' # "none" => Status(q) # "none"
    BY <1>7
  <2> QED
    BY <1>6, <2>1, <2>2 DEF TrueStamp
<1> QED
  BY <1>3, <1>7, <1>8, <1>9

\* A row is filed: a first count, or the follow-up of a returned row that has none.
LEMMA FilingKeeps ==
  ASSUME ReviewIInv, NEW r \in Req, Status(r) = "none", NEW w \in Reqs,
         req' = [req EXCEPT ![r] = w], w.status = "PENDING",
         \/ w.prev = None
         \/ w.prev \in Req /\ Status(w.prev) = "RETURNED" /\ ~Corrected(w.prev),
         w.count => w.seen = w.stamp \/ (w.prev # None /\ req[w.prev].seen = w.seen)
  PROVE  /\ req' \in [Req -> Reqs]
         /\ \A q \in Req : OneFuture(q)' /\ TrueStamp(q)'
         /\ Status(r)' = "PENDING" /\ \A q \in Req \ {r} : Status(q)' = Status(q)
<1>1. /\ req' \in [Req -> Reqs] /\ req'[r] = w
      /\ \A q \in Req \ {r} : req'[q] = req[q]
  BY DEF ReviewIInv
<1>2. Status(r)' = "PENDING" /\ \A q \in Req \ {r} : Status(q)' = Status(q)
  BY <1>1 DEF Status
<1>3. \A q \in Req : req[q].prev # r
  BY DEF ReviewIInv, OneFuture
<1>4. w.prev # r
  BY OldAreRequests
<1>5. ASSUME NEW q \in Req PROVE OneFuture(q)'
  <2>1. OneFuture(q)
    BY DEF ReviewIInv
  <2>2. CASE w.prev = q
    <3>1. \A t \in Req : req[t].prev # q
      BY <2>2, OldAreRequests DEF Corrected
    <3>2. Status(q) = "RETURNED"
      BY <2>2, OldAreRequests
    <3> QED
      BY <1>1, <1>2, <1>4, <2>2, <3>1, <3>2 DEF OneFuture
  <2>3. CASE w.prev # q
    BY <1>1, <1>2, <1>3, <2>1, <2>3 DEF OneFuture
  <2> QED
    BY <2>2, <2>3
<1>6. ASSUME NEW q \in Req PROVE TrueStamp(q)'
  <2>1. CASE q = r
    <3>1. w.prev # None => w.prev \in Req \ {r} /\ req'[w.prev] = req[w.prev]
      BY <1>1, <1>4
    <3> QED
      BY <1>1, <2>1, <3>1 DEF TrueStamp
  <2>2. CASE q # r
    <3>1. TrueStamp(q) /\ req[q].prev \in Req \cup {None} /\ req[q].prev # r
      BY <1>3 DEF ReviewIInv, Reqs
    <3> QED
      BY <1>1, <1>2, <2>2, <3>1 DEF TrueStamp
  <2> QED
    BY <2>1, <2>2
<1> QED
  BY <1>1, <1>2, <1>5, <1>6

\* No movement, and no row that has one changes its status.
LEMMA MovesKept ==
  ASSUME ReviewIInv, NEW r \in Req, Status(r) # "APPROVED", moves' = moves,
         \A q \in Req \ {r} : Status(q)' = Status(q)
  PROVE  \A q \in Req : MovedOnce(q)'
BY DEF ReviewIInv, MovedOnce

\* What a handler reads when it opens a row.
LEMMA OpensKeeps ==
  ASSUME ReviewIInv, DeskIInv, NEW h \in Reviewer, NEW does \in {"approve", "return", "correct"},
         NEW r \in Req, NEW recounted \in BOOLEAN, Opens(h, does, r, recounted)
  PROVE  ReviewIInv'
<1>1. PICK w : /\ w = [does |-> does, row |-> r, stamp |-> IF does = "correct" THEN version ELSE 0,
                       recounted |-> recounted]
               /\ reviewer' = [reviewer EXCEPT ![h] = w]
  BY DEF Opens
<1>2. w \in Reviewers /\ w.row \in Req
  BY <1>1, VersionsAreCounts DEF Reviewers, DeskIInv, DeskTypeOK
<1>3. reviewer' \in [Reviewer -> Reviewers] /\ \A g \in Reviewer : HasRead(g)'
  BY <1>1, <1>2, HandlerKeeps
<1> QED
  BY <1>3 DEF Opens, ReviewIInv, MovedOnce, OneFuture, TrueStamp, Status
\* The reviews' steps.
LEMMA ReviewStep ==
  ASSUME IInv, ReviewNext
  PROVE  IInv'
<1> USE DEF IInv
<1>1. ASSUME NEW r \in Req, SubmitCount(r)
      PROVE  IInv'
  <2>1. PICK w : /\ w = [status |-> "PENDING", count |-> TRUE, prev |-> None,
                         stamp |-> version, seen |-> version]
                 /\ req' = [req EXCEPT ![r] = w]
    BY <1>1 DEF SubmitCount
  <2>2. w \in Reqs
    BY <2>1 DEF Reqs, DeskIInv, DeskTypeOK
  <2>3. Status(r) = "none" /\ UNCHANGED <<deskVars, moves, reviewer>>
    BY <1>1 DEF SubmitCount
  <2>4. /\ req' \in [Req -> Reqs] /\ \A q \in Req : OneFuture(q)' /\ TrueStamp(q)'
        /\ \A q \in Req \ {r} : Status(q)' = Status(q)
    BY <2>1, <2>2, <2>3, FilingKeeps
  <2>5. \A q \in Req : MovedOnce(q)'
    BY <2>3, <2>4, MovesKept
  <2>6. DeskIInv'
    BY <2>3, ReviewLeavesDesk DEF deskVars, DeskIInv, DeskTypeOK
  <2> QED
    BY <2>3, <2>4, <2>5, <2>6 DEF ReviewIInv, HasRead
<1>2. ASSUME NEW r \in Req, Cancel(r)
      PROVE  IInv'
  <2>1. /\ Status(r) \in {"PENDING", "RETURNED"} /\ ~Corrected(r)
        /\ req' = [req EXCEPT ![r].status = "CANCELLED"] /\ UNCHANGED <<deskVars, moves, reviewer>>
    BY <1>2 DEF Cancel, Uncorrected
  <2>2. /\ req' \in [Req -> Reqs] /\ \A q \in Req : OneFuture(q)' /\ TrueStamp(q)'
        /\ \A q \in Req \ {r} : Status(q)' = Status(q)
    BY <2>1, StatusKeeps
  <2>3. \A q \in Req : MovedOnce(q)'
    BY <2>1, <2>2, MovesKept
  <2>4. DeskIInv'
    BY <2>1, ReviewLeavesDesk DEF deskVars, DeskIInv, DeskTypeOK
  <2> QED
    BY <2>1, <2>2, <2>3, <2>4 DEF ReviewIInv, HasRead
<1>3. ASSUME NEW h \in Reviewer, NEW does \in {"approve", "return", "correct"}, NEW r \in Req,
             NEW recounted \in BOOLEAN, Opens(h, does, r, recounted)
      PROVE  IInv'
  <2>1. DeskIInv'
    BY <1>3, ReviewLeavesDesk DEF Opens, deskVars, DeskIInv, DeskTypeOK
  <2> QED
    BY <1>3, <2>1, OpensKeeps
<1>4. ASSUME NEW h \in Reviewer, Approve(h)
      PROVE  IInv'
  <2>1. PICK r \in Req :
        /\ r = reviewer[h].row /\ Status(r) = "PENDING" /\ Ends(h) /\ StockMoves
        /\ req' = [req EXCEPT ![r].status = "APPROVED"]
        /\ UNCHANGED <<attempt, proof, sweeping, call>>
    BY <1>4 DEF Approve, StillPending, ReviewIInv, HasRead
  <2>2. PICK variance \in {0, 1} : moves' = [moves EXCEPT ![r] = @ + variance]
    BY <1>4, <2>1 DEF Approve
  <2>3. ~Corrected(r)
    BY <2>1 DEF ReviewIInv, OneFuture, Corrected
  <2>4. /\ req' \in [Req -> Reqs] /\ \A q \in Req : OneFuture(q)' /\ TrueStamp(q)'
        /\ Status(r)' = "APPROVED" /\ \A q \in Req \ {r} : Status(q)' = Status(q)
    <3>1. Status(r) \in {"PENDING", "RETURNED"} /\ "APPROVED" \in {"RETURNED", "APPROVED", "CANCELLED"}
      BY <2>1
    <3> QED
      BY <2>1, <2>3, <3>1, StatusKeeps
  <2>5. moves[r] = 0 /\ moves'[r] \in {0, 1} /\ \A q \in Req \ {r} : moves'[q] = moves[q]
    BY <2>1, <2>2 DEF ReviewIInv, MovedOnce
  <2>6. moves' \in [Req -> Nat]
    BY <2>1, <2>2 DEF ReviewIInv
  <2>7. ASSUME NEW q \in Req PROVE MovedOnce(q)'
    <3>1. MovedOnce(q)
      BY DEF ReviewIInv
    <3>2. CASE q = r
      BY <2>4, <2>5, <3>2 DEF MovedOnce
    <3>3. CASE q # r
      <4>1. Status(q)' = Status(q) /\ moves'[q] = moves[q]
        BY <2>4, <2>5, <3>3
      <4> QED
        BY <3>1, <4>1 DEF MovedOnce
    <3> QED
      BY <3>2, <3>3
  <2>8. reviewer' \in [Reviewer -> Reviewers] /\ \A g \in Reviewer : HasRead(g)'
    BY <2>1, EndKeeps
  <2>9. DeskIInv'
    <3>1. version' \in 0..MaxVersion
      BY <2>1, VersionsAreCounts DEF StockMoves, DeskIInv, DeskTypeOK
    <3> QED
      BY <2>1, <3>1, ReviewLeavesDesk
  <2> QED
    BY <2>4, <2>6, <2>7, <2>8, <2>9 DEF ReviewIInv
<1>5. ASSUME NEW h \in Reviewer, Return(h)
      PROVE  IInv'
  <2>1. PICK r \in Req :
        /\ r = reviewer[h].row /\ Status(r) = "PENDING" /\ Ends(h) /\ UNCHANGED <<deskVars, moves>>
        /\ req' = [req EXCEPT ![r].status = "RETURNED"]
    BY <1>5 DEF Return, StillPending, ReviewIInv, HasRead
  <2>2. /\ req' \in [Req -> Reqs] /\ \A q \in Req : OneFuture(q)' /\ TrueStamp(q)'
        /\ \A q \in Req \ {r} : Status(q)' = Status(q)
    BY <2>1, StatusKeeps
  <2>3. \A q \in Req : MovedOnce(q)'
    BY <2>1, <2>2, MovesKept
  <2>4. reviewer' \in [Reviewer -> Reviewers] /\ \A g \in Reviewer : HasRead(g)'
    BY <2>1, EndKeeps
  <2>5. DeskIInv'
    BY <2>1, ReviewLeavesDesk DEF deskVars, DeskIInv, DeskTypeOK
  <2> QED
    BY <2>1, <2>2, <2>3, <2>4, <2>5 DEF ReviewIInv
<1>6. ASSUME NEW h \in Reviewer, NEW s \in Req, Correct(h, s)
      PROVE  IInv'
  <2>1. PICK r \in Req :
        /\ r = reviewer[h].row /\ Status(r) = "RETURNED" /\ ~Corrected(r) /\ Status(s) = "none"
        /\ Ends(h) /\ UNCHANGED <<deskVars, moves>>
    BY <1>6 DEF Correct, StillReturned, Uncorrected, ReviewIInv, HasRead
  <2>2. PICK w : /\ w = [status |-> "PENDING", count |-> req[r].count, prev |-> r,
                         stamp |-> reviewer[h].stamp,
                         seen |-> IF reviewer[h].recounted THEN reviewer[h].stamp ELSE req[r].seen]
                 /\ req' = [req EXCEPT ![s] = w]
    BY <1>6, <2>1 DEF Correct
  <2>3. req[r] \in Reqs /\ reviewer[h] \in Reviewers
    BY <2>1 DEF ReviewIInv
  <2>4. w \in Reqs
    BY <2>1, <2>2, <2>3 DEF Reqs, Reviewers
  <2>5. /\ w.status = "PENDING" /\ w.prev = r
        /\ w.seen = w.stamp \/ (w.prev # None /\ req[w.prev].seen = w.seen)
    BY <2>1, <2>2, OldAreRequests
  <2>6. /\ req' \in [Req -> Reqs] /\ \A q \in Req : OneFuture(q)' /\ TrueStamp(q)'
        /\ \A q \in Req \ {s} : Status(q)' = Status(q)
    BY <2>1, <2>2, <2>4, <2>5, FilingKeeps
  <2>7. \A q \in Req : MovedOnce(q)'
    BY <2>1, <2>6, MovesKept
  <2>8. reviewer' \in [Reviewer -> Reviewers] /\ \A g \in Reviewer : HasRead(g)'
    BY <2>1, EndKeeps
  <2>9. DeskIInv'
    BY <2>1, ReviewLeavesDesk DEF deskVars, DeskIInv, DeskTypeOK
  <2> QED
    BY <2>1, <2>6, <2>7, <2>8, <2>9 DEF ReviewIInv
<1>7. ASSUME NEW h \in Reviewer, GiveUp(h)
      PROVE  IInv'
  <2>1. reviewer' \in [Reviewer -> Reviewers] /\ \A g \in Reviewer : HasRead(g)'
    BY <1>7, EndKeeps DEF GiveUp
  <2>2. DeskIInv'
    BY <1>7, ReviewLeavesDesk DEF GiveUp, deskVars, DeskIInv, DeskTypeOK
  <2> QED
    BY <1>7, <2>1, <2>2 DEF GiveUp, ReviewIInv, MovedOnce, OneFuture, TrueStamp, Status
<1> QED
  BY <1>1, <1>2, <1>3, <1>4, <1>5, <1>6, <1>7 DEF ReviewNext

\* Desk and reviews together: every step keeps the invariant.
THEOREM Invariance == Spec => []IInv
<1>1. Init => IInv
  BY DeskInitIInv, ReviewInitIInv DEF Init, IInv
<1>2. IInv /\ [Next]_vars => IInv'
  <2>1. ASSUME IInv, DeskNext, UNCHANGED <<req, moves, reviewer>> PROVE IInv'
    BY <2>1, DeskStep DEF IInv, ReviewIInv, HasRead, MovedOnce, OneFuture, TrueStamp, Status
  <2>2. ASSUME IInv, UNCHANGED vars PROVE IInv'
    <3>1. DeskIInv'
      BY <2>2, ReviewLeavesDesk DEF vars, deskVars, IInv, DeskIInv, DeskTypeOK
    <3> QED
      BY <2>2, <3>1 DEF vars, IInv, ReviewIInv, HasRead, MovedOnce, OneFuture, TrueStamp, Status
  <2> QED
    BY <2>1, <2>2, ReviewStep DEF Next
<1> QED
  BY <1>1, <1>2, PTL DEF Spec

-----------------------------------------------------------------------------
(* What the invariant gives. *)

\* Nothing moves the stock twice: not two reviewers approving one request, nor copies
\* of a keyed call, nor calls with one photo (markApprovedIfPending, checkIdempotency,
\* markEvidenceConsumedIfUnconsumed).
THEOREM StockMovesOnce == Spec => []NothingMovesTwice
<1>1. IInv => NothingMovesTwice
  <2> SUFFICES ASSUME IInv PROVE NothingMovesTwice
    OBVIOUS
  <2>1. \A c \in Moved : c \in Call /\ AtWork(c) /\ Proven(c) /\ Claims(c)
    BY DEF IInv, DeskIInv, Moved, AtWork, Proven
  <2>2. KeyMovesOnce
    BY <2>1 DEF KeyMovesOnce, Claims
  <2>3. ProofProvesOnce
    BY <2>1 DEF ProofProvesOnce, Claims
  <2> QED
    BY <2>2, <2>3 DEF IInv, ReviewIInv, MovedOnce, NothingMovesTwice
<1> QED
  BY <1>1, Invariance, PTL

\* A request has one future: a corrected row stays returned and has one follow-up,
\* whoever corrects or cancels it at that moment (correct, cancel, the row's lock).
THEOREM LineagesSettle == Spec => []LineageSettlesOnce
<1>1. IInv => LineageSettlesOnce
  BY DEF IInv, DeskIInv, ReviewIInv, TypeOK, OneFuture, LineageSettlesOnce
<1> QED
  BY <1>1, Invariance, PTL

\* What was approved or cancelled stays so, and a count is approved onto the stock it
\* was taken of, or carries a corrected row's figure (approveAndApply).
THEOREM SettledStays == Spec => SettledForGood
<1>1. ASSUME IInv, [Next]_vars
      PROVE  [\A r \in Req :
                /\ Status(r) \in {"APPROVED", "CANCELLED"} => Status(r)' = Status(r)
                /\ req[r].count /\ Status(r) # "APPROVED" /\ Status(r)' = "APPROVED" =>
                     \/ req[r].seen = version
                     \/ req[r].prev # None /\ req[req[r].prev].seen = req[r].seen]_vars
  <2> SUFFICES ASSUME NEW r \in Req, Next
               PROVE  /\ Status(r) \in {"APPROVED", "CANCELLED"} => Status(r)' = Status(r)
                      /\ req[r].count /\ Status(r) # "APPROVED" /\ Status(r)' = "APPROVED" =>
                           \/ req[r].seen = version
                           \/ req[r].prev # None /\ req[req[r].prev].seen = req[r].seen
    BY <1>1
  <2>1. req[r] \in Reqs /\ TrueStamp(r)
    BY <1>1 DEF IInv, ReviewIInv
  <2>2. ASSUME NEW h \in Reviewer, Approve(h)
        PROVE  \/ Status(r)' = Status(r)
               \/ /\ Status(r) = "PENDING"
                  /\ req[r].count => req[r].stamp = version
    <3>1. CASE reviewer[h].row = r
      BY <2>2, <3>1 DEF Approve, StillPending, Current
    <3>2. CASE reviewer[h].row # r
      BY <1>1, <2>2, <3>2 DEF Approve, IInv, ReviewIInv, Status
    <3> QED
      BY <3>1, <3>2
  <2>3. ASSUME \/ SubmitCount(r) \/ Cancel(r)
               \/ \E h \in Reviewer : Return(h) /\ reviewer[h].row = r
               \/ \E h \in Reviewer : Correct(h, r)
        PROVE  Status(r) \notin {"APPROVED", "CANCELLED"} /\ Status(r)' # "APPROVED"
    <3>1. CASE SubmitCount(r) \/ Cancel(r)
      BY <1>1, <2>1, <3>1 DEF SubmitCount, Cancel, Status, IInv, ReviewIInv, Reqs
    <3>2. CASE \E h \in Reviewer : Return(h) /\ reviewer[h].row = r
      BY <1>1, <2>1, <3>2 DEF Return, StillPending, Status, IInv, ReviewIInv, Reqs
    <3>3. CASE \E h \in Reviewer : Correct(h, r)
      BY <1>1, <2>1, <3>3 DEF Correct, Status, IInv, ReviewIInv, Reqs
    <3> QED
      BY <2>3, <3>1, <3>2, <3>3
  <2>4. \/ Status(r)' = Status(r)
        \/ \E h \in Reviewer : Approve(h)
        \/ SubmitCount(r) \/ Cancel(r)
        \/ \E h \in Reviewer : Return(h) /\ reviewer[h].row = r
        \/ \E h \in Reviewer : Correct(h, r)
    <3>1. ASSUME NEW q \in Req \ {r}, SubmitCount(q) \/ Cancel(q) PROVE Status(r)' = Status(r)
      BY <1>1, <3>1 DEF SubmitCount, Cancel, Status, IInv, ReviewIInv
    <3>2. ASSUME NEW h \in Reviewer, Return(h), reviewer[h].row # r PROVE Status(r)' = Status(r)
      BY <1>1, <3>2 DEF Return, Status, IInv, ReviewIInv
    <3>3. ASSUME NEW h \in Reviewer, NEW s \in Req \ {r}, Correct(h, s) PROVE Status(r)' = Status(r)
      BY <1>1, <3>3 DEF Correct, Status, IInv, ReviewIInv
    <3>4. ASSUME req' = req PROVE Status(r)' = Status(r)
      BY <3>4 DEF Status
    <3> QED
      BY <3>1, <3>2, <3>3, <3>4 DEF Next, ReviewNext, Opens, GiveUp
  <2> QED
    BY <2>1, <2>2, <2>3, <2>4 DEF TrueStamp
<1> QED
  BY <1>1, Invariance, PTL DEF Spec, SettledForGood
-----------------------------------------------------------------------------
(* The catalog. *)

\* A handler at rest has asked for nothing, and one at work is at work on a product
\* that exists: what it turns on, it does not turn off, and only what locks its
\* product turns anything on; a replacement is of the source by the copy at Home.
Coherent(t) ==
  /\ t.at = "idle" => t = NoTask
  /\ t.at # "idle" => t.op # "none" /\ Exists(t.of)
  /\ t.on \cap t.off = {}
  /\ t.off # {} => t.op = "enable"
  /\ t.on # {} => t.op \in {"publish", "enable", "replace", "restore"}
  /\ t.op = "restore" /\ t.at # "staged" => t.on = {}
  /\ t.op = "replace" => t.of = "copy" /\ t.on = {Home} /\ t.off = {}
  /\ t.op \in {"remove", "pause"} => t.to # "active"

\* What was checked before the statements still holds when they commit: the branches
\* are in scope, no recipe component or slot is gone, a restore does not touch a standing
\* replacement, and the marker was decided on no less than is committed.
Checked(t) ==
  /\ t.on \subseteq InScope(t.of)
  /\ t.op \in {"publish", "replace"} => "recipe" \notin product[t.of].lacks
  /\ t.op = "restore" /\ t.of = "source" /\ Home \in t.on => ~replaced
  /\ t.at = "staged" /\ t.of \notin crossed /\ SeesLive(t) => t.mark

HoldsItsLocks(h) == \A p \in LocksOf(task[h]) : lock[p] = h

\* What the shelves show.
SoldExist == \A p \in Product : OnAt(p) # {} => Exists(p)
Replacement == replaced => row["source"][Home] = "off" /\ row["copy"][Home] = "on"
OnInScope == \A p \in Product : OnAt(p) \subseteq InScope(p)
Shelves == Home \in scope /\ SoldExist /\ Replacement /\ OnInScope /\ LiveIsMarked

CatalogInv ==
  /\ CatalogTypeOK
  /\ Shelves
  /\ \A h \in Handler : Coherent(task[h]) /\ Checked(task[h]) /\ HoldsItsLocks(h)

-----------------------------------------------------------------------------

\* What a step that leaves the catalog alone leaves true of any task.
LEMMA TasksUndisturbed ==
  ASSUME UNCHANGED <<product, row, scope, replaced, crossed>>, NEW t
  PROVE  /\ Coherent(t) => Coherent(t)'
         /\ Checked(t) => Checked(t)'
BY DEF Coherent, Checked, Exists, InScope, SeesLive, OnAt

\* The same for what the shelves show.
LEMMA ShelvesUndisturbed ==
  ASSUME Shelves, UNCHANGED <<product, row, scope, replaced, crossed>>
  PROVE  Shelves'
BY DEF Shelves, SoldExist, Replacement, OnInScope, LiveIsMarked, Exists, InScope, OnAt

\* Nothing is put on a shelf or taken off by a handler that only goes on with a task,
\* under the locks it has and those it took.
LEMMA GoingOn ==
  ASSUME CatalogInv, NEW h \in Handler, NEW t \in Tasks,
         task' = [task EXCEPT ![h] = t], Coherent(t), Checked(t),
         lock' \in [Product -> Handler \cup {Nobody}],
         \A p \in Product : lock[p] \in Handler \ {h} => lock'[p] = lock[p],
         \A p \in LocksOf(t) : lock'[p] = h,
         UNCHANGED <<product, row, scope, replaced, crossed>>,
         requests' \in 0..MaxRequests
  PROVE  CatalogInv'
<1>1. CatalogTypeOK'
  BY DEF CatalogInv, CatalogTypeOK
<1>2. Shelves'
  BY ShelvesUndisturbed DEF CatalogInv
<1>3. ASSUME NEW g \in Handler
      PROVE  Coherent(task[g])' /\ Checked(task[g])' /\ HoldsItsLocks(g)'
  <2>1. CASE g = h
    <3>1. task'[g] = t
      BY <2>1 DEF CatalogInv, CatalogTypeOK
    <3>2. Coherent(t)' /\ Checked(t)'
      BY TasksUndisturbed
    <3>3. Coherent(task[g])' /\ Checked(task[g])'
      BY <3>1, <3>2 DEF Coherent, Checked, Exists, InScope, SeesLive, OnAt
    <3>4. HoldsItsLocks(g)'
      BY <2>1, <3>1 DEF HoldsItsLocks, LocksOf
    <3> QED BY <3>3, <3>4
  <2>2. CASE g # h
    <3>1. task'[g] = task[g]
      BY <2>2 DEF CatalogInv, CatalogTypeOK
    <3>2. Coherent(task[g])' /\ Checked(task[g])'
      BY <3>1, TasksUndisturbed DEF CatalogInv, Coherent, Checked, Exists, InScope, SeesLive, OnAt
    <3>3. \A p \in LocksOf(task[g]) : p \in Product /\ lock[p] = g
      BY DEF CatalogInv, CatalogTypeOK, HoldsItsLocks, LocksOf, Tasks
    <3>4. \A p \in LocksOf(task[g]) : lock'[p] = g
      BY <2>2, <3>3
    <3>5. HoldsItsLocks(g)'
      BY <3>1, <3>4 DEF HoldsItsLocks, LocksOf
    <3> QED BY <3>2, <3>5
  <2> QED BY <2>1, <2>2
<1> QED BY <1>1, <1>2, <1>3 DEF CatalogInv

\* A handler takes up a task with the locks the task is done under.
LEMMA TakingUp ==
  ASSUME CatalogInv, NEW h \in Handler, NEW t \in Tasks, Take(h, t),
         Coherent(t), Checked(t),
         UNCHANGED <<product, row, scope, replaced, crossed>>,
         requests' \in 0..MaxRequests
  PROVE  CatalogInv'
<1>1. LocksOf(t) \subseteq Product
  BY DEF LocksOf, Tasks
<1>2. /\ task' = [task EXCEPT ![h] = t]
      /\ lock' \in [Product -> Handler \cup {Nobody}]
      /\ \A p \in Product : lock[p] \in Handler \ {h} => lock'[p] = lock[p]
      /\ \A p \in LocksOf(t) : lock'[p] = h
  BY <1>1, NobodyIsFresh DEF Take, CatalogInv, CatalogTypeOK
<1> QED BY <1>2, GoingOn

\* A handler's own locks come back with it, and no one else's.
LEMMA OthersKeepTheirs ==
  ASSUME CatalogInv, NEW h \in Handler, Leave(h)
  PROVE  /\ lock' \in [Product -> Handler \cup {Nobody}]
         /\ task' \in [Handler -> Tasks]
         /\ task'[h] = NoTask
         /\ \A g \in Handler \ {h} : task'[g] = task[g]
         /\ \A g \in Handler : HoldsItsLocks(g)'
<1>1. NoTask \in Tasks
  BY DEF NoTask, Tasks, Product, Statuses, Transitions
<1>2. /\ lock' \in [Product -> Handler \cup {Nobody}]
      /\ task' \in [Handler -> Tasks]
      /\ task'[h] = NoTask
      /\ \A g \in Handler \ {h} : task'[g] = task[g]
  BY <1>1 DEF Leave, CatalogInv, CatalogTypeOK
<1>3. ASSUME NEW g \in Handler
      PROVE  HoldsItsLocks(g)'
  <2>1. CASE g = h
    BY <1>2, <2>1 DEF HoldsItsLocks, LocksOf, NoTask
  <2>2. CASE g # h
    <3>1. \A p \in LocksOf(task[g]) : p \in Product /\ lock[p] = g
      BY DEF CatalogInv, CatalogTypeOK, HoldsItsLocks, LocksOf, Tasks
    <3>2. \A p \in LocksOf(task[g]) : lock'[p] = g
      BY <2>2, <3>1 DEF Leave
    <3> QED BY <1>2, <2>2, <3>2 DEF HoldsItsLocks, LocksOf
  <2> QED BY <2>1, <2>2
<1> QED BY <1>2, <1>3
\* A publication is judged under the lock it is committed under.
LEMMA Publishing ==
  ASSUME CatalogInv, NEW h \in Handler, NEW p \in Product, NEW B \in SUBSET Branch,
         BeginPublish(h, p, B)
  PROVE  CatalogInv'
<1> DEFINE t == [NoTask EXCEPT !.op = "publish", !.at = "checked", !.of = p, !.on = B]
<1>1. t \in Tasks /\ t.op = "publish" /\ t.at = "checked" /\ t.of = p /\ t.on = B /\ t.off = {}
  BY DEF NoTask, Tasks, Product, Statuses, Transitions
<1>2. Coherent(t) /\ Checked(t)
  BY <1>1 DEF Coherent, Checked, BeginPublish, MayEnable, Ready, Exists
<1>3. requests' \in 0..MaxRequests
  BY RequestsAreCounted DEF BeginPublish, Asked, CatalogInv, CatalogTypeOK
<1> QED BY <1>1, <1>2, <1>3, TakingUp DEF BeginPublish

\* So is a toggle, or a bulk update, that turns rows on.
LEMMA Enabling ==
  ASSUME CatalogInv, NEW h \in Handler, NEW p \in Product,
         NEW B \in SUBSET Branch, NEW Off \in SUBSET Branch, BeginEnable(h, p, B, Off)
  PROVE  CatalogInv'
<1> DEFINE t == [NoTask EXCEPT !.op = "enable", !.at = "checked", !.of = p, !.on = B, !.off = Off]
<1>1. t \in Tasks /\ t.op = "enable" /\ t.at = "checked" /\ t.of = p /\ t.on = B /\ t.off = Off
  BY DEF NoTask, Tasks, Product, Statuses, Transitions
<1>2. Coherent(t) /\ Checked(t)
  BY <1>1 DEF Coherent, Checked, BeginEnable, MayEnable, Exists
<1>3. requests' \in 0..MaxRequests
  BY RequestsAreCounted DEF BeginEnable, Asked, CatalogInv, CatalogTypeOK
<1> QED BY <1>1, <1>2, <1>3, TakingUp DEF BeginEnable

\* And a replacement, whose branch its product's type covers from the start.
LEMMA Replacing ==
  ASSUME CatalogInv, NEW h \in Handler, BeginReplace(h)
  PROVE  CatalogInv'
<1> DEFINE t == [NoTask EXCEPT !.op = "replace", !.at = "checked", !.of = "copy", !.on = {Home}]
<1>1. t \in Tasks /\ t.op = "replace" /\ t.at = "checked" /\ t.of = "copy" /\ t.on = {Home} /\ t.off = {}
  BY HomeIsABranch DEF NoTask, Tasks, Product, Statuses, Transitions
<1>2. Coherent(t)
  BY <1>1 DEF Coherent, BeginReplace
<1>3. Checked(t)
  BY <1>1, HomeIsABranch DEF Checked, BeginReplace, Ready, InScope, CatalogInv, Shelves
<1>4. requests' \in 0..MaxRequests
  BY RequestsAreCounted DEF BeginReplace, Asked, CatalogInv, CatalogTypeOK
<1> QED BY <1>1, <1>2, <1>3, <1>4, TakingUp DEF BeginReplace

\* Asking for a change of status takes no lock, which is to take none of them.
LEMMA Asking ==
  ASSUME CatalogInv, NEW h \in Handler, NEW p \in Product, NEW s \in Statuses,
         AskStatus(h, p, s)
  PROVE  CatalogInv'
<1>1. PICK op \in {"restore", "activate", "pause", "remove"} :
        /\ op \in {"pause", "remove"} => s # "active"
        /\ task' = [task EXCEPT ![h] = [NoTask EXCEPT !.op = op, !.of = p, !.to = s,
                             !.at = IF op = "activate" THEN "checked" ELSE "asked"]]
  <2> DEFINE way == CASE s = "active" -> IF product[p].status = "archived" THEN "restore" ELSE "activate"
                      [] s = "temporarily_unavailable" -> "pause"
                      [] OTHER -> "remove"
  <2>1. task' = [task EXCEPT ![h] = [NoTask EXCEPT !.op = way, !.of = p, !.to = s,
                             !.at = IF way = "activate" THEN "checked" ELSE "asked"]]
    BY DEF AskStatus
  <2>2. CASE s = "active" /\ product[p].status = "archived"
    <3>1. way = "restore"
      BY <2>2
    <3> QED BY <2>1, <3>1
  <2>3. CASE s = "active" /\ product[p].status # "archived"
    <3>1. way = "activate"
      BY <2>3
    <3> QED BY <2>1, <3>1
  <2>4. CASE s = "temporarily_unavailable"
    <3>1. way = "pause"
      BY <2>4
    <3> QED BY <2>1, <2>4, <3>1
  <2>5. CASE s # "active" /\ s # "temporarily_unavailable"
    <3>1. way = "remove"
      BY <2>5
    <3> QED BY <2>1, <2>5, <3>1
  <2> QED BY <2>2, <2>3, <2>4, <2>5
<1> DEFINE t == [NoTask EXCEPT !.op = op, !.of = p, !.to = s,
                   !.at = IF op = "activate" THEN "checked" ELSE "asked"]
<1>2. /\ t \in Tasks /\ t.op = op /\ t.of = p /\ t.to = s /\ t.on = {} /\ t.off = {}
      /\ t.at \in {"checked", "asked"} /\ (t.at = "checked" => op = "activate")
  BY DEF NoTask, Tasks, Product, Statuses, Transitions
<1>3. Coherent(t) /\ Checked(t)
  BY <1>1, <1>2 DEF Coherent, Checked, AskStatus
<1>4. LocksOf(t) = {}
  BY <1>2 DEF LocksOf
<1>5. Take(h, t)
  BY <1>1, <1>4 DEF Take, AskStatus, CatalogInv, CatalogTypeOK
<1>6. requests' \in 0..MaxRequests
  BY RequestsAreCounted DEF AskStatus, Asked, CatalogInv, CatalogTypeOK
<1> QED BY <1>2, <1>3, <1>5, <1>6, TakingUp DEF AskStatus

\* A restore comes to its lock with nothing decided yet.
LEMMA Restoring ==
  ASSUME CatalogInv, NEW h \in Handler, LockRestore(h)
  PROVE  CatalogInv'
<1> DEFINE t == [task[h] EXCEPT !.at = "checked"]
<1>1. task[h] \in Tasks
  BY DEF CatalogInv, CatalogTypeOK
<1>2. /\ t \in Tasks /\ t.op = "restore" /\ t.at = "checked"
      /\ t.of = task[h].of /\ t.on = task[h].on /\ t.off = task[h].off /\ t.to = task[h].to
  BY <1>1 DEF Tasks, LockRestore
<1>3. Coherent(t) /\ Checked(t)
  BY <1>2 DEF Coherent, Checked, LockRestore, CatalogInv
<1>4. requests' \in 0..MaxRequests
  BY DEF LockRestore, CatalogInv, CatalogTypeOK
<1> QED BY <1>2, <1>3, <1>4, TakingUp DEF LockRestore

\* What is rolled back leaves nothing behind but the locks it frees.
LEMMA GivingUp ==
  ASSUME CatalogInv, NEW h \in Handler, Abort(h)
  PROVE  CatalogInv'
<1>1. CatalogTypeOK'
  BY OthersKeepTheirs DEF Abort, CatalogInv, CatalogTypeOK
<1>2. Shelves'
  BY ShelvesUndisturbed DEF Abort, CatalogInv
<1>3. ASSUME NEW g \in Handler
      PROVE  Coherent(task[g])' /\ Checked(task[g])'
  <2>1. CASE g = h
    BY <2>1, OthersKeepTheirs DEF Abort, Coherent, Checked, NoTask
  <2>2. CASE g # h
    BY <2>2, OthersKeepTheirs DEF Abort, CatalogInv, Coherent, Checked, Exists, InScope, SeesLive, OnAt
  <2> QED BY <2>1, <2>2
<1> QED BY <1>1, <1>2, <1>3, OthersKeepTheirs DEF Abort, CatalogInv
\* A transaction's statements: its restore finds its rows, its marker is decided.
LEMMA Staging ==
  ASSUME CatalogInv, NEW h \in Handler, Stage(h)
  PROVE  CatalogInv'
<1> DEFINE found == IF task[h].op = "restore" THEN Restored(task[h].of) ELSE task[h].on
           s == [task[h] EXCEPT !.at = "staged", !.on = found]
           t == [s EXCEPT !.mark = SeesLive(s)]
<1>1. task[h] \in Tasks
  BY DEF CatalogInv, CatalogTypeOK
<1>2. found \in SUBSET Branch
  BY <1>1 DEF Restored, InScope, Tasks, CatalogInv, CatalogTypeOK
<1>3. /\ s.op = task[h].op /\ s.at = "staged" /\ s.of = task[h].of /\ s.on = found
      /\ s.off = task[h].off /\ s.to = task[h].to
  BY <1>1 DEF Tasks
<1>4. /\ t \in Tasks /\ t.op = task[h].op /\ t.at = "staged" /\ t.of = task[h].of /\ t.on = found
      /\ t.off = task[h].off /\ t.to = task[h].to /\ t.mark = SeesLive(s)
  BY <1>1, <1>2 DEF Tasks, SeesLive
<1>5. SeesLive(t) = SeesLive(s)
  BY <1>3, <1>4 DEF SeesLive
<1>6. Coherent(task[h]) /\ Checked(task[h]) /\ HoldsItsLocks(h) /\ task[h].at = "checked"
  BY DEF CatalogInv, Stage
<1>7. found \cap task[h].off = {}
  BY <1>6 DEF Coherent
<1>8. Coherent(t)
  BY <1>4, <1>6, <1>7 DEF Coherent
<1>9. found \subseteq InScope(t.of)
  BY <1>4, <1>6 DEF Restored, Checked
<1>10. ASSUME t.op = "restore", t.of = "source", Home \in found
       PROVE  ~replaced
  <2>1. OnAt("copy") = {}
    BY <1>4, <1>10 DEF Restored
  <2> QED BY <2>1, HomeIsABranch DEF CatalogInv, Shelves, Replacement, OnAt
<1>11. Checked(t)
  BY <1>4, <1>5, <1>6, <1>9, <1>10 DEF Checked
<1>12. task' = [task EXCEPT ![h] = t]
  BY DEF Stage
<1>13. \A p \in LocksOf(t) : lock'[p] = h
  BY <1>4, <1>6 DEF LocksOf, HoldsItsLocks, Stage
<1>14. /\ lock' \in [Product -> Handler \cup {Nobody}] /\ requests' \in 0..MaxRequests
       /\ \A p \in Product : lock[p] \in Handler \ {h} => lock'[p] = lock[p]
       /\ UNCHANGED <<product, row, scope, replaced, crossed>>
  BY DEF Stage, CatalogInv, CatalogTypeOK
<1> HIDE DEF t, s, found
<1> QED BY <1>4, <1>8, <1>11, <1>12, <1>13, <1>14, GoingOn
\* What a commit changes: a product's rows as the task said, its status and its
\* marker; of another product it turns off at most.
LEMMA CommitEffect ==
  ASSUME CatalogInv, NEW h \in Handler, Commit(h)
  PROVE  /\ CatalogTypeOK'
         /\ \A q \in Product :
              /\ product'[q].typed = product[q].typed /\ product'[q].lacks = product[q].lacks
              /\ Exists(q)' = Exists(q)
              /\ InScope(q)' = InScope(q)
              /\ q # task[h].of => product'[q] = product[q] /\ OnAt(q)' \subseteq OnAt(q)
              /\ q = task[h].of => OnAt(q)' = (OnAt(q) \cup task[h].on) \ task[h].off
<1> DEFINE t == task[h]
           p == t.of
<1>1. t \in Tasks /\ Coherent(t) /\ t.at = "staged"
  BY DEF CatalogInv, CatalogTypeOK, Commit
<1>2. p \in Product /\ t.on \subseteq Branch /\ t.off \subseteq Branch /\ t.mark \in BOOLEAN
  BY <1>1 DEF Tasks
<1>3. /\ \A q \in Product : q # p => product'[q] = product[q]
      /\ product'[p] = [product[p] EXCEPT
           !.status = IF t.op \in {"activate", "restore"} THEN "active" ELSE @,
           !.marked = @ \/ t.mark]
  BY <1>2 DEF Commit, CatalogInv, CatalogTypeOK
<1>4. /\ product' \in [Product -> [status : Statuses \cup {"none"}, typed : BOOLEAN,
                              lacks : SUBSET Part, marked : BOOLEAN]]
  <2>1. product[p] \in [status : Statuses \cup {"none"}, typed : BOOLEAN,
                              lacks : SUBSET Part, marked : BOOLEAN]
    BY <1>2 DEF CatalogInv, CatalogTypeOK
  <2>2. "active" \in Statuses
    BY DEF Statuses, Transitions
  <2>3. product'[p] \in [status : Statuses \cup {"none"}, typed : BOOLEAN,
                              lacks : SUBSET Part, marked : BOOLEAN]
    BY <1>2, <1>3, <2>1, <2>2
  <2> QED BY <1>2, <1>3, <2>3 DEF Commit, CatalogInv, CatalogTypeOK
<1>5. row' = [q \in Product |-> RowsAfter(t, q)]
  BY DEF Commit
<1>6. \A q \in Product : RowsAfter(t, q) \in [Branch -> {"none", "off", "on"}]
  BY <1>1 DEF RowsAfter, Coherent, CatalogInv, CatalogTypeOK
<1>7. row' \in [Product -> [Branch -> {"none", "off", "on"}]]
  BY <1>5, <1>6
<1>8. replaced' \in BOOLEAN /\ crossed' \in SUBSET Product
  BY <1>2 DEF Commit, Stands, CatalogInv, CatalogTypeOK
<1>9. CatalogTypeOK'
  BY <1>4, <1>7, <1>8, OthersKeepTheirs DEF Commit, CatalogInv, CatalogTypeOK
<1>10. ASSUME NEW q \in Product
       PROVE  /\ product'[q].typed = product[q].typed /\ product'[q].lacks = product[q].lacks
              /\ Exists(q)' = Exists(q)
  <2>1. product[q] \in [status : Statuses \cup {"none"}, typed : BOOLEAN,
                              lacks : SUBSET Part, marked : BOOLEAN]
    BY DEF CatalogInv, CatalogTypeOK
  <2>2. CASE q # p
    BY <1>3, <2>2 DEF Exists
  <2>3. CASE q = p
    <3>1. /\ product'[q].typed = product[q].typed /\ product'[q].lacks = product[q].lacks
          /\ product'[q].status = IF t.op \in {"activate", "restore"} THEN "active" ELSE product[q].status
      BY <1>3, <2>1, <2>3
    <3>2. product[q].status # "none"
      BY <1>1, <2>3 DEF Coherent, Exists
    <3> QED BY <3>1, <3>2 DEF Exists
  <2> QED BY <2>2, <2>3
<1>11. \A q \in Product : InScope(q)' = InScope(q)
  BY <1>10 DEF InScope, Commit
<1>12. ASSUME NEW q \in Product, q # p
       PROVE  OnAt(q)' \subseteq OnAt(q)
  BY <1>5, <1>12 DEF OnAt, RowsAfter
<1>13. ASSUME NEW q \in Product, q = p
       PROVE  OnAt(q)' = (OnAt(q) \cup t.on) \ t.off
  <2>1. \A b \in Branch : row'[q][b] = "on" <=> (row[q][b] = "on" \/ b \in t.on) /\ b \notin t.off
    BY <1>1, <1>2, <1>5, <1>13 DEF RowsAfter, Coherent
  <2> QED BY <1>2, <2>1 DEF OnAt
<1> QED BY <1>3, <1>9, <1>10, <1>11, <1>12, <1>13

\* A commit keeps what its checks found: nobody else has turned on, retyped or
\* replaced what it holds the lock of, and whoever overlapped it is on record.
LEMMA Committing ==
  ASSUME CatalogInv, NEW h \in Handler, Commit(h)
  PROVE  CatalogInv'
<1> DEFINE t == task[h]
           p == t.of
<1>1. /\ t \in Tasks /\ p \in Product
      /\ Coherent(t) /\ Checked(t) /\ HoldsItsLocks(h) /\ t.at = "staged"
  BY DEF CatalogInv, CatalogTypeOK, Commit, Tasks
<1>2. Home \in scope'
  BY DEF Commit, CatalogInv, Shelves
<1>3. SoldExist'
  <2>1. ASSUME NEW q \in Product, OnAt(q)' # {}
        PROVE  Exists(q)'
    <3>1. CASE q = p
      BY <1>1, <3>1, CommitEffect DEF Coherent
    <3>2. CASE q # p
      BY <2>1, <3>2, CommitEffect DEF CatalogInv, Shelves, SoldExist
    <3> QED BY <3>1, <3>2
  <2> QED BY <2>1 DEF SoldExist
<1>4. OnInScope'
  <2>1. ASSUME NEW q \in Product
        PROVE  OnAt(q)' \subseteq InScope(q)'
    <3>1. CASE q = p
      <4>1. OnAt(q)' = (OnAt(q) \cup t.on) \ t.off /\ InScope(q)' = InScope(q)
        BY <3>1, CommitEffect
      <4>2. OnAt(q) \subseteq InScope(q) /\ t.on \subseteq InScope(q)
        BY <1>1, <3>1 DEF Checked, CatalogInv, Shelves, OnInScope
      <4> QED BY <4>1, <4>2
    <3>2. CASE q # p
      BY <3>2, CommitEffect DEF CatalogInv, Shelves, OnInScope
    <3> QED BY <3>1, <3>2
  <2> QED BY <2>1 DEF OnInScope
<1>5. Replacement'
  <2>1. SUFFICES ASSUME Stands(t)
                 PROVE  row'["source"][Home] = "off" /\ row'["copy"][Home] = "on"
    BY DEF Replacement, Commit
  <2>2. row'["copy"][Home] = "on" /\ row'["source"] = RowsAfter(t, "source")
    BY <2>1 DEF Stands, Commit, Product
  <2>3. CASE t.op = "replace"
    BY <1>1, <2>2, <2>3, HomeIsABranch DEF RowsAfter, Coherent
  <2>4. CASE t.op # "replace"
    <3>1. replaced /\ row["source"][Home] = "off"
      BY <2>1, <2>4 DEF Stands, CatalogInv, Shelves, Replacement
    <3>2. ~(p = "source" /\ Home \in t.on)
      BY <1>1, <2>1, <2>4, <3>1 DEF Stands, Coherent, Checked
    <3> QED BY <2>2, <2>4, <3>1, <3>2, HomeIsABranch DEF RowsAfter
  <2> QED BY <2>3, <2>4
<1>6. LiveIsMarked'
  <2>1. crossed \subseteq crossed'
    BY DEF Commit
  <2>2. ASSUME NEW q \in Product, q \notin crossed', product'[q].status = "active", OnAt(q)' # {}
        PROVE  product'[q].marked
    <3>1. CASE q = p
      <4>1. product[p] \in [status : Statuses \cup {"none"}, typed : BOOLEAN,
                              lacks : SUBSET Part, marked : BOOLEAN]
        BY <1>1 DEF CatalogInv, CatalogTypeOK
      <4>2. /\ product'[p].status = IF t.op \in {"activate", "restore"} THEN "active" ELSE product[p].status
            /\ product'[p].marked = (product[p].marked \/ t.mark)
        BY <1>1, <4>1 DEF Commit, CatalogInv, CatalogTypeOK
      <4>3. SeesLive(t)
        <5>1. (OnAt(q) \cup t.on) \ t.off # {}
          BY <2>2, <3>1, CommitEffect
        <5>2. t.op \in {"activate", "restore"} \/ product[p].status = "active"
          BY <2>2, <3>1, <4>2
        <5> QED BY <3>1, <5>1, <5>2 DEF SeesLive
      <4>4. t.mark
        BY <1>1, <2>1, <2>2, <3>1, <4>3 DEF Checked
      <4> QED BY <3>1, <4>2, <4>4
    <3>2. CASE q # p
      BY <2>1, <2>2, <3>2, CommitEffect DEF CatalogInv, Shelves, LiveIsMarked
    <3> QED BY <3>1, <3>2
  <2> QED BY <2>2 DEF LiveIsMarked
<1>7. ASSUME NEW g \in Handler
      PROVE  Coherent(task[g])' /\ Checked(task[g])'
  <2>1. CASE g = h
    <3>1. task'[g] = NoTask
      BY <2>1, OthersKeepTheirs DEF Commit
    <3> QED BY <3>1 DEF Coherent, Checked, NoTask
  <2>2. CASE g # h
    <3> DEFINE u == task[g]
    <3>1. /\ u \in Tasks /\ u.of \in Product /\ task'[g] = u
          /\ Coherent(u) /\ Checked(u) /\ HoldsItsLocks(g)
      BY <2>2, OthersKeepTheirs DEF CatalogInv, CatalogTypeOK, Tasks, Commit
    <3>2. Coherent(task[g])'
      BY <3>1, CommitEffect DEF Coherent
    <3>3. u.on \subseteq InScope(u.of)' /\ (u.op \in {"publish", "replace"} => "recipe" \notin product'[u.of].lacks)
      BY <3>1, CommitEffect DEF Checked
    <3>4. ASSUME u.op = "restore", u.of = "source", Home \in u.on
          PROVE  ~replaced'
      <4>1. ~replaced /\ u.at = "staged"
        BY <3>1, <3>4 DEF Checked, Coherent
      <4>2. lock["source"] = g
        BY <3>1, <3>4, <4>1 DEF HoldsItsLocks, LocksOf
      <4>3. t.op # "replace"
        BY <1>1, <2>2, <4>2 DEF HoldsItsLocks, LocksOf, Product
      <4> QED BY <4>1, <4>3 DEF Commit, Stands
    <3>5. ASSUME u.at = "staged", u.of \notin crossed', SeesLive(u)'
          PROVE  u.mark
      <4>1. u.of # p /\ u.of \notin crossed
        BY <2>2, <3>5 DEF Commit
      <4>2. SeesLive(u)
        BY <3>1, <3>5, <4>1, CommitEffect DEF SeesLive
      <4> QED BY <3>1, <3>5, <4>1, <4>2 DEF Checked
    <3>6. Checked(task[g])'
      BY <3>1, <3>3, <3>4, <3>5 DEF Checked, SeesLive
    <3> QED BY <3>2, <3>6
  <2> QED BY <2>1, <2>2
<1> QED BY <1>2, <1>3, <1>4, <1>5, <1>6, <1>7, CommitEffect, OthersKeepTheirs DEF Commit, CatalogInv, Shelves
\* What someone else's change of the catalog could do to a task in flight: take a
\* branch it turns on out of scope, or break a recipe it relies on.
Disturbs(t) ==
  \/ ~(t.on \subseteq InScope(t.of)')
  \/ t.op \in {"publish", "replace"} /\ "recipe" \in product'[t.of].lacks

\* A task that is not disturbed, while nothing goes on sale or live, stands.
LEMMA TasksStand ==
  ASSUME NEW t \in Tasks, Coherent(t), Checked(t), ~Disturbs(t),
         crossed' = crossed, replaced' => replaced,
         \A q \in Product : /\ Exists(q) => Exists(q)'
                            /\ product'[q].status = "active" => product[q].status = "active"
                            /\ OnAt(q)' \subseteq OnAt(q)
  PROVE  Coherent(t)' /\ Checked(t)'
<1>1. t.of \in Product
  BY DEF Tasks
<1>2. SeesLive(t)' => SeesLive(t)
  BY <1>1 DEF SeesLive
<1> QED BY <1>1, <1>2 DEF Coherent, Checked, Disturbs

\* The same for the shelves, which a change by someone else may only empty.
LEMMA ShelvesStand ==
  ASSUME CatalogInv, crossed' = crossed, Home \in scope',
         Replacement',
         \A q \in Product : /\ Exists(q) => Exists(q)'
                            /\ product'[q].status = "active" => product[q].status = "active"
                            /\ product'[q].marked = product[q].marked \/ OnAt(q)' = {}
                            /\ OnAt(q)' \subseteq OnAt(q)
                            /\ OnAt(q)' \subseteq InScope(q)'
  PROVE  Shelves'
BY DEF CatalogInv, Shelves, SoldExist, OnInScope, LiveIsMarked

\* The two of them, when no handler and no lock moves.
LEMMA ChangingTheCatalog ==
  ASSUME CatalogInv, CatalogTypeOK', Replacement', Home \in scope',
         UNCHANGED <<lock, task, crossed>>, replaced' => replaced,
         \A h \in Handler : ~Disturbs(task[h]),
         \A q \in Product : /\ Exists(q) => Exists(q)'
                            /\ product'[q].status = "active" => product[q].status = "active"
                            /\ product'[q].marked = product[q].marked \/ OnAt(q)' = {}
                            /\ OnAt(q)' \subseteq OnAt(q)
                            /\ OnAt(q)' \subseteq InScope(q)'
  PROVE  CatalogInv'
<1>1. ASSUME NEW h \in Handler
      PROVE  Coherent(task[h])' /\ Checked(task[h])' /\ HoldsItsLocks(h)'
  <2>1. PICK t \in Tasks : t = task[h]
    BY DEF CatalogInv, CatalogTypeOK
  <2>2. Coherent(t) /\ Checked(t) /\ ~Disturbs(t)
    BY <2>1 DEF CatalogInv
  <2>3. Coherent(t)' /\ Checked(t)'
    BY <2>2, TasksStand
  <2>4. task'[h] = t
    BY <2>1
  <2>5. Coherent(task[h])' /\ Checked(task[h])'
    BY <2>3, <2>4 DEF Coherent, Checked, Exists, InScope, SeesLive, OnAt
  <2> QED BY <2>5 DEF CatalogInv, HoldsItsLocks, LocksOf
<1> QED BY <1>1, ShelvesStand DEF CatalogInv

\* A row turned off.
LEMMA TurningOff ==
  ASSUME CatalogInv, NEW p \in Product, NEW b \in Branch, Disable(p, b)
  PROVE  CatalogInv'
<1>1. CatalogTypeOK'
  BY DEF Disable, CatalogInv, CatalogTypeOK
<1>2. \A q \in Product, c \in Branch : row'[q][c] = IF q = p /\ c = b THEN "off" ELSE row[q][c]
  BY DEF Disable, CatalogInv, CatalogTypeOK
<1>3. Replacement'
  BY <1>2, HomeIsABranch DEF Disable, CatalogInv, Shelves, Replacement, Product
<1>4. ASSUME NEW q \in Product
      PROVE  OnAt(q)' \subseteq OnAt(q) /\ Exists(q)' = Exists(q) /\ InScope(q)' = InScope(q)
  BY <1>2 DEF OnAt, Exists, InScope, Disable
<1>5. ASSUME NEW q \in Product
      PROVE  OnAt(q)' \subseteq InScope(q)'
  BY <1>4 DEF CatalogInv, Shelves, OnInScope
<1>6. ASSUME NEW h \in Handler
      PROVE  ~Disturbs(task[h])
  BY DEF CatalogInv, Checked, Disturbs, InScope, Disable
<1> QED BY <1>1, <1>3, <1>4, <1>5, <1>6, ChangingTheCatalog DEF Disable, CatalogInv, Shelves
\* A transaction that turns rows on, or that was judged on the recipe, has its
\* product's lock.
LEMMA EnablersHoldTheLock ==
  ASSUME CatalogInv, NEW h \in Handler,
         task[h].on # {} \/ task[h].op \in {"publish", "replace"}
  PROVE  task[h].of \in Product /\ lock[task[h].of] = h /\ lock[task[h].of] # Nobody
<1>1. task[h] \in Tasks /\ Coherent(task[h]) /\ HoldsItsLocks(h)
  BY DEF CatalogInv, CatalogTypeOK
<1>2. task[h].of \in LocksOf(task[h])
  BY <1>1 DEF LocksOf, Coherent, Tasks
<1> QED BY <1>1, <1>2, NobodyIsFresh DEF HoldsItsLocks, Tasks

\* The recipe is taken from only while no one has the lock; everything else that a
\* product lacks is no concern of a task in flight.
LEMMA Configuring ==
  ASSUME CatalogInv, NEW p \in Product,
         Configure(p) \/ AddComponent(p) \/ \E part \in Part : EditFreely(p, part)
  PROVE  CatalogInv'
<1>1. PICK lacks \in SUBSET Part :
        /\ product' = [product EXCEPT ![p].lacks = lacks]
        /\ "recipe" \notin product[p].lacks => "recipe" \notin lacks \/ lock[p] = Nobody
  <2>1. product[p].lacks \in SUBSET Part /\ "recipe" \in Part
    BY DEF CatalogInv, CatalogTypeOK, Part
  <2>2. \A part \in Part : Edited(p, part) = [product EXCEPT ![p].lacks =
          IF part \in product[p].lacks THEN product[p].lacks \ {part} ELSE product[p].lacks \cup {part}]
    BY DEF Edited, CatalogInv, CatalogTypeOK
  <2>3. CASE Configure(p)
    BY <2>1, <2>2, <2>3 DEF Configure, Editable
  <2>4. CASE AddComponent(p)
    BY <2>1, <2>2, <2>4 DEF AddComponent
  <2>5. ASSUME NEW part \in Part, EditFreely(p, part)
        PROVE  \E lacks \in SUBSET Part :
                 /\ product' = [product EXCEPT ![p].lacks = lacks]
                 /\ "recipe" \notin product[p].lacks => "recipe" \notin lacks
    BY <2>1, <2>2, <2>5 DEF EditFreely
  <2> QED BY <2>3, <2>4, <2>5
<1>2. UNCHANGED <<row, scope, lock, task, replaced, crossed>> /\ requests' \in 0..MaxRequests
  BY RequestsAreCounted DEF Configure, AddComponent, EditFreely, Asked, CatalogInv, CatalogTypeOK
<1>3. \A q \in Product : product[q] \in [status : Statuses \cup {"none"}, typed : BOOLEAN,
                                         lacks : SUBSET Part, marked : BOOLEAN]
  BY DEF CatalogInv, CatalogTypeOK
<1>4. /\ \A q \in Product : q # p => product'[q] = product[q]
      /\ product'[p] \in [status : Statuses \cup {"none"}, typed : BOOLEAN,
                          lacks : SUBSET Part, marked : BOOLEAN]
      /\ product'[p].status = product[p].status /\ product'[p].typed = product[p].typed
      /\ product'[p].marked = product[p].marked
  BY <1>1, <1>3 DEF CatalogInv, CatalogTypeOK
<1>5. CatalogTypeOK'
  BY <1>1, <1>2, <1>3, <1>4 DEF CatalogInv, CatalogTypeOK
<1>6. ASSUME NEW q \in Product
      PROVE  /\ Exists(q)' = Exists(q) /\ product'[q].status = product[q].status
             /\ product'[q].marked = product[q].marked
             /\ OnAt(q)' = OnAt(q) /\ InScope(q)' = InScope(q)
  BY <1>1, <1>2, <1>4 DEF Exists, OnAt, InScope
<1>7. ASSUME NEW h \in Handler
      PROVE  ~Disturbs(task[h])
  <2>1. task[h].of \in Product /\ Checked(task[h])
    BY DEF CatalogInv, CatalogTypeOK, Tasks
  <2>2. task[h].on \subseteq InScope(task[h].of)'
    BY <1>2, <1>6, <2>1 DEF Checked
  <2>3. ASSUME task[h].op \in {"publish", "replace"}
        PROVE  "recipe" \notin product'[task[h].of].lacks
    BY <1>1, <2>1, <2>3, EnablersHoldTheLock DEF Checked
  <2> QED BY <2>2, <2>3 DEF Disturbs
<1>8. \A q \in Product : OnAt(q)' \subseteq InScope(q)'
  BY <1>6 DEF CatalogInv, Shelves, OnInScope
<1>9. Replacement' /\ Home \in scope'
  BY <1>2 DEF CatalogInv, Shelves, Replacement
<1> QED BY <1>2, <1>5, <1>6, <1>7, <1>8, <1>9, ChangingTheCatalog

\* A type is given to a product only while no one has its lock, and only if it covers
\* the branches the product has rows at; one is taken away, or grows, at any time.
LEMMA Typing ==
  ASSUME CatalogInv, NEW p \in Product, AssignType(p) \/ ClearType(p)
  PROVE  CatalogInv'
<1>1. PICK typed \in BOOLEAN : /\ product' = [product EXCEPT ![p].typed = typed]
                               /\ typed => lock[p] = Nobody /\ RowsOf(p) \subseteq scope
  BY DEF AssignType, ClearType, Editable
<1>2. UNCHANGED <<row, scope, lock, task, replaced, crossed>> /\ requests' \in 0..MaxRequests
  BY RequestsAreCounted DEF AssignType, ClearType, Asked, CatalogInv, CatalogTypeOK
<1>3. \A q \in Product : product[q] \in [status : Statuses \cup {"none"}, typed : BOOLEAN,
                                         lacks : SUBSET Part, marked : BOOLEAN]
  BY DEF CatalogInv, CatalogTypeOK
<1>4. /\ \A q \in Product : q # p => product'[q] = product[q]
      /\ product'[p] = [product[p] EXCEPT !.typed = typed]
      /\ product'[p] \in [status : Statuses \cup {"none"}, typed : BOOLEAN,
                          lacks : SUBSET Part, marked : BOOLEAN]
      /\ product'[p].typed = typed
  BY <1>1, <1>3 DEF CatalogInv, CatalogTypeOK
<1>5. CatalogTypeOK'
  BY <1>1, <1>2, <1>3, <1>4 DEF CatalogInv, CatalogTypeOK
<1>6. ASSUME NEW q \in Product
      PROVE  /\ Exists(q)' = Exists(q) /\ product'[q].status = product[q].status
             /\ product'[q].marked = product[q].marked /\ product'[q].lacks = product[q].lacks
             /\ OnAt(q)' = OnAt(q)
             /\ InScope(q) \subseteq InScope(q)' \/ (q = p /\ lock[p] = Nobody /\ RowsOf(p) \subseteq InScope(q)')
  <2>1. /\ Exists(q)' = Exists(q) /\ product'[q].status = product[q].status
        /\ product'[q].marked = product[q].marked /\ product'[q].lacks = product[q].lacks
        /\ OnAt(q)' = OnAt(q)
    BY <1>2, <1>3, <1>4 DEF Exists, OnAt
  <2>2. scope \subseteq Branch
    BY DEF CatalogInv, CatalogTypeOK
  <2>3. CASE q = p /\ typed
    <3>1. product'[q].typed = TRUE
      BY <1>4, <2>3
    <3>2. InScope(q)' = scope
      BY <1>2, <3>1 DEF InScope
    <3> QED BY <1>1, <2>1, <2>3, <3>2
  <2>4. CASE q = p /\ ~typed
    <3>1. product'[q].typed = FALSE
      BY <1>4, <2>4
    <3>2. InScope(q)' = Branch
      BY <3>1 DEF InScope
    <3>3. InScope(q) \subseteq Branch
      BY <2>2 DEF InScope
    <3> QED BY <2>1, <3>2, <3>3
  <2>5. CASE q # p
    <3>1. InScope(q)' = InScope(q)
      BY <1>2, <1>4, <2>5 DEF InScope
    <3> QED BY <2>1, <3>1
  <2> QED BY <2>1, <2>3, <2>4, <2>5
<1>7. ASSUME NEW h \in Handler
      PROVE  ~Disturbs(task[h])
  <2>1. task[h].of \in Product /\ Checked(task[h])
    BY DEF CatalogInv, CatalogTypeOK, Tasks
  <2>2. task[h].on \subseteq InScope(task[h].of)'
    <3>1. CASE task[h].on = {}
      BY <3>1
    <3>2. CASE task[h].on # {}
      BY <1>2, <1>6, <2>1, <3>2, EnablersHoldTheLock DEF Checked
    <3> QED BY <3>1, <3>2
  <2> QED BY <1>2, <1>6, <2>1, <2>2 DEF Disturbs, Checked
<1>8. ASSUME NEW q \in Product
      PROVE  OnAt(q)' \subseteq InScope(q)'
  <2>1. OnAt(q) \subseteq InScope(q) /\ OnAt(q) \subseteq RowsOf(q)
    BY DEF CatalogInv, Shelves, OnInScope, OnAt, RowsOf
  <2> QED BY <1>6, <2>1
<1>9. Replacement' /\ Home \in scope'
  BY <1>2 DEF CatalogInv, Shelves, Replacement
<1> QED BY <1>2, <1>5, <1>6, <1>7, <1>8, <1>9, ChangingTheCatalog
\* A type that grows covers what it covered.
LEMMA Widening ==
  ASSUME CatalogInv, NEW b \in Branch, WidenType(b)
  PROVE  CatalogInv'
<1>1. CatalogTypeOK'
  BY RequestsAreCounted DEF WidenType, Asked, CatalogInv, CatalogTypeOK
<1>2. ASSUME NEW q \in Product
      PROVE  /\ Exists(q)' = Exists(q) /\ OnAt(q)' = OnAt(q)
             /\ InScope(q) \subseteq InScope(q)'
  BY DEF WidenType, Exists, OnAt, InScope
<1>3. ASSUME NEW h \in Handler
      PROVE  ~Disturbs(task[h])
  <2>1. task[h].of \in Product /\ Checked(task[h])
    BY DEF CatalogInv, CatalogTypeOK, Tasks
  <2>2. task[h].on \subseteq InScope(task[h].of)'
    BY <1>2, <2>1 DEF Checked, WidenType
  <2> QED BY <2>1, <2>2 DEF Disturbs, Checked, WidenType
<1>4. \A q \in Product : OnAt(q)' \subseteq InScope(q)'
  BY <1>2 DEF CatalogInv, Shelves, OnInScope
<1>5. Replacement' /\ Home \in scope'
  BY DEF WidenType, CatalogInv, Shelves, Replacement
<1> QED BY <1>1, <1>2, <1>3, <1>4, <1>5, ChangingTheCatalog DEF WidenType

\* The copy is born a draft and off, and no one was at work on it before.
LEMMA Forking ==
  ASSUME CatalogInv, NEW typed \in BOOLEAN, NEW lacks \in SUBSET Part, Fork(typed, lacks)
  PROVE  CatalogInv'
<1>1. OnAt("copy") = {} /\ row["copy"][Home] # "on" /\ ~replaced
  BY HomeIsABranch DEF Fork, CatalogInv, Shelves, SoldExist, Replacement, Product, OnAt
<1>2. /\ product'["source"] = product["source"] /\ row'["source"] = row["source"]
      /\ product'["copy"] = [status |-> "draft", typed |-> typed,
                             lacks |-> lacks, marked |-> FALSE]
      /\ \A b \in Branch : row'["copy"][b] = IF b = Home THEN "off" ELSE row["copy"][b]
  BY DEF Fork, CatalogInv, CatalogTypeOK, Product
<1>3. CatalogTypeOK'
  <2>1. "draft" \in Statuses
    BY DEF Statuses, Transitions
  <2>2. product' \in [Product -> [status : Statuses \cup {"none"}, typed : BOOLEAN,
                                  lacks : SUBSET Part, marked : BOOLEAN]]
    BY <2>1 DEF Fork, CatalogInv, CatalogTypeOK
  <2>3. row' \in [Product -> [Branch -> {"none", "off", "on"}]]
    BY DEF Fork, CatalogInv, CatalogTypeOK
  <2> QED BY <2>2, <2>3 DEF Fork, CatalogInv, CatalogTypeOK
<1>4. OnAt("copy")' = {}
  BY <1>1, <1>2 DEF OnAt
<1>5. /\ OnAt("source")' = OnAt("source") /\ InScope("source")' = InScope("source")
      /\ Exists("source")' = Exists("source")
  BY <1>2 DEF OnAt, InScope, Exists, Fork
<1>6. ASSUME NEW q \in Product
      PROVE  /\ Exists(q) => Exists(q)'
             /\ product'[q].status = "active" => product[q].status = "active"
             /\ product'[q].marked = product[q].marked \/ OnAt(q)' = {}
             /\ OnAt(q)' \subseteq OnAt(q)
             /\ OnAt(q)' \subseteq InScope(q)'
  <2>1. CASE q = "copy"
    <3>1. Exists(q)' /\ product'[q].status # "active"
      BY <1>2, <2>1 DEF Exists
    <3> QED BY <1>4, <2>1, <3>1
  <2>2. CASE q = "source"
    BY <1>2, <1>5, <2>2 DEF CatalogInv, Shelves, OnInScope
  <2> QED BY <2>1, <2>2 DEF Product
<1>7. ASSUME NEW h \in Handler
      PROVE  ~Disturbs(task[h])
  <2>1. task[h].of = "source" /\ Checked(task[h])
    BY DEF CatalogInv, CatalogTypeOK, Tasks, Coherent, NoTask, Fork, Product
  <2> QED BY <1>2, <1>5, <2>1 DEF Disturbs, Checked, Fork
<1>8. Replacement' /\ Home \in scope'
  BY <1>1 DEF Fork, Replacement, CatalogInv, Shelves
<1> QED BY <1>1, <1>3, <1>6, <1>7, <1>8, ChangingTheCatalog DEF Fork

\* A withdrawal or a pause, and the withdrawal's second step.
LEMMA Withdrawing ==
  ASSUME CatalogInv, NEW h \in Handler, WriteStatus(h)
  PROVE  CatalogInv'
<1> DEFINE t == task[h]
           after == IF t.op = "pause" THEN NoTask ELSE [t EXCEPT !.at = "cascade"]
<1>1. /\ t \in Tasks /\ t.of \in Product /\ Coherent(t) /\ Checked(t)
      /\ t.to \in Statuses \ {"active", "none"}
      /\ t.on = {} /\ t.off = {} /\ t.at = "asked" /\ t.op \in {"remove", "pause"}
  BY DEF CatalogInv, CatalogTypeOK, Tasks, WriteStatus, Coherent, Statuses, Transitions
<1>2. /\ \A q \in Product : q # t.of => product'[q] = product[q]
      /\ product'[t.of] = [product[t.of] EXCEPT !.status = t.to]
  BY <1>1 DEF WriteStatus, CatalogInv, CatalogTypeOK
<1>3. \A q \in Product : product[q] \in [status : Statuses \cup {"none"}, typed : BOOLEAN,
                                         lacks : SUBSET Part, marked : BOOLEAN]
  BY DEF CatalogInv, CatalogTypeOK
<1>4. product' \in [Product -> [status : Statuses \cup {"none"}, typed : BOOLEAN,
                                lacks : SUBSET Part, marked : BOOLEAN]]
  <2>1. product'[t.of] \in [status : Statuses \cup {"none"}, typed : BOOLEAN,
                            lacks : SUBSET Part, marked : BOOLEAN]
    BY <1>1, <1>2, <1>3
  <2>2. product' = [q \in Product |-> product'[q]]
    BY DEF WriteStatus, CatalogInv, CatalogTypeOK
  <2> QED BY <1>2, <1>3, <2>1, <2>2
<1>5. ASSUME NEW q \in Product
      PROVE  /\ Exists(q) => Exists(q)'
             /\ product'[q].status = "active" => product[q].status = "active"
             /\ product'[q].marked = product[q].marked /\ product'[q].lacks = product[q].lacks
             /\ OnAt(q)' = OnAt(q) /\ InScope(q)' = InScope(q)
  <2>1. product'[q].typed = product[q].typed
    BY <1>2, <1>3
  <2>2. OnAt(q)' = OnAt(q) /\ InScope(q)' = InScope(q)
    BY <2>1 DEF WriteStatus, OnAt, InScope
  <2> QED BY <1>1, <1>2, <1>3, <2>2 DEF Exists
<1>6. after \in Tasks /\ LocksOf(after) = {} /\ after.on = {} /\ after.off = {}
  BY <1>1 DEF NoTask, Tasks, Product, Statuses, Transitions, LocksOf
<1>7. task' = [task EXCEPT ![h] = after]
  BY DEF WriteStatus
<1>8. CatalogTypeOK'
  BY <1>4, <1>6, <1>7 DEF WriteStatus, CatalogInv, CatalogTypeOK
<1>9. \A q \in Product : OnAt(q)' \subseteq InScope(q)'
  BY <1>5 DEF CatalogInv, Shelves, OnInScope
<1>10. Shelves'
  <2>1. Replacement' /\ Home \in scope'
    BY DEF WriteStatus, CatalogInv, Shelves, Replacement
  <2> QED BY <1>5, <1>9, <2>1, ShelvesStand DEF WriteStatus
<1>11. ASSUME NEW g \in Handler
       PROVE  Coherent(task[g])' /\ Checked(task[g])' /\ HoldsItsLocks(g)'
  <2>1. CASE g = h
    <3>1. task'[g] = after
      BY <1>7, <2>1 DEF CatalogInv, CatalogTypeOK
    <3>2. LocksOf(task[g])' = {}
      BY <1>6, <3>1 DEF LocksOf
    <3>3. CASE t.op = "pause"
      <4>1. task'[g] = NoTask
        BY <3>1, <3>3
      <4> QED BY <3>2, <4>1 DEF Coherent, Checked, HoldsItsLocks, NoTask
    <3>4. CASE t.op = "remove"
      <4>1. /\ task'[g].op = "remove" /\ task'[g].at = "cascade" /\ task'[g].of = t.of
            /\ task'[g].to = t.to /\ task'[g].on = {} /\ task'[g].off = {}
        BY <1>1, <3>1, <3>4 DEF Tasks
      <4>2. \A q \in Product : q = t.of => Exists(q)'
        BY <1>1, <1>5 DEF Coherent
      <4>3. Exists(task[g].of)'
        BY <1>1, <4>1, <4>2 DEF Exists
      <4>4. Coherent(task[g])'
        BY <1>1, <4>1, <4>3 DEF Coherent
      <4>5. Checked(task[g])'
        BY <4>1 DEF Checked
      <4> QED BY <3>2, <4>4, <4>5 DEF HoldsItsLocks
    <3> QED BY <1>1, <3>3, <3>4
  <2>2. CASE g # h
    <3>1. PICK u \in Tasks : u = task[g] /\ task'[g] = u
      BY <2>2 DEF WriteStatus, CatalogInv, CatalogTypeOK
    <3>2. Coherent(u) /\ Checked(u) /\ u.of \in Product
      BY <3>1 DEF CatalogInv, Tasks
    <3>3. ~Disturbs(u)
      BY <1>5, <3>2 DEF Disturbs, Checked
    <3>4. Coherent(u)' /\ Checked(u)'
      BY <1>5, <3>2, <3>3, TasksStand DEF WriteStatus
    <3>5. Coherent(task[g])' /\ Checked(task[g])'
      BY <3>1, <3>4 DEF Coherent, Checked, Exists, InScope, SeesLive, OnAt
    <3> QED BY <3>1, <3>5 DEF CatalogInv, HoldsItsLocks, LocksOf, WriteStatus
  <2> QED BY <2>1, <2>2
<1> QED BY <1>8, <1>10, <1>11 DEF CatalogInv
\* The second step of a withdrawal turns off every row of its product.
LEMMA Cascading ==
  ASSUME CatalogInv, NEW h \in Handler, CascadeOff(h)
  PROVE  CatalogInv'
<1>1. PICK p \in Product : p = task[h].of
  BY DEF CatalogInv, CatalogTypeOK, Tasks
<1>2. \A q \in Product, b \in Branch :
        row'[q][b] = IF q = p /\ row[q][b] = "on" THEN "off" ELSE row[q][b]
  BY <1>1 DEF CascadeOff, CatalogInv, CatalogTypeOK
<1>3. CatalogTypeOK'
  <2>1. row' \in [Product -> [Branch -> {"none", "off", "on"}]]
    BY <1>1 DEF CascadeOff, CatalogInv, CatalogTypeOK
  <2> QED BY <2>1, OthersKeepTheirs DEF CascadeOff, CatalogInv, CatalogTypeOK
<1>4. ASSUME NEW q \in Product
      PROVE  /\ OnAt(q)' \subseteq OnAt(q) /\ InScope(q)' = InScope(q)
             /\ Exists(q)' = Exists(q) /\ product'[q] = product[q]
  BY <1>2 DEF CascadeOff, OnAt, InScope, Exists
<1>5. \A q \in Product : OnAt(q)' \subseteq InScope(q)'
  BY <1>4 DEF CatalogInv, Shelves, OnInScope
<1>6. Shelves'
  <2>1. Replacement'
    BY <1>1, <1>2, HomeIsABranch DEF CascadeOff, CatalogInv, Shelves, Replacement, Product
  <2> QED BY <1>4, <1>5, <2>1, ShelvesStand DEF CascadeOff, CatalogInv, Shelves
<1>7. ASSUME NEW g \in Handler
      PROVE  Coherent(task[g])' /\ Checked(task[g])'
  <2>1. CASE g = h
    BY <2>1, OthersKeepTheirs DEF CascadeOff, Coherent, Checked, NoTask
  <2>2. CASE g # h
    <3>1. PICK u \in Tasks : u = task[g] /\ task'[g] = u
      BY <2>2, OthersKeepTheirs DEF CascadeOff, CatalogInv, CatalogTypeOK
    <3>2. Coherent(u) /\ Checked(u) /\ u.of \in Product
      BY <3>1 DEF CatalogInv, Tasks
    <3>3. ~Disturbs(u)
      BY <1>4, <3>2 DEF Disturbs, Checked
    <3>4. Coherent(u)' /\ Checked(u)'
      BY <1>4, <3>2, <3>3, TasksStand DEF CascadeOff
    <3> QED BY <3>1, <3>4 DEF Coherent, Checked, Exists, InScope, SeesLive, OnAt
  <2> QED BY <2>1, <2>2
<1> QED BY <1>3, <1>6, <1>7, OthersKeepTheirs DEF CascadeOff, CatalogInv

-----------------------------------------------------------------------------

\* Nothing is on sale at first.
LEMMA CatalogStarts == CatalogInit => CatalogInv
<1> SUFFICES ASSUME CatalogInit PROVE CatalogInv
  OBVIOUS
<1>1. \A p \in Product : OnAt(p) = {}
  BY DEF CatalogInit, OnAt
<1>2. NoTask \in Tasks /\ LocksOf(NoTask) = {} /\ Coherent(NoTask) /\ Checked(NoTask)
  BY DEF NoTask, Tasks, Product, Statuses, Transitions, LocksOf, Coherent, Checked
<1>3. CatalogTypeOK
  <2>1. PICK s \in {"draft", "active"} :
          product = [p \in Product |-> IF p = "copy" THEN Unborn
                                       ELSE [Unborn EXCEPT !.status = s, !.lacks = {}]]
    BY DEF CatalogInit
  <2>2. product \in [Product -> [status : Statuses \cup {"none"}, typed : BOOLEAN,
                                 lacks : SUBSET Part, marked : BOOLEAN]]
    BY <2>1 DEF Unborn, Statuses, Transitions
  <2>3. row \in [Product -> [Branch -> {"none", "off", "on"}]]
    BY DEF CatalogInit
  <2>4. lock \in [Product -> Handler \cup {Nobody}] /\ task \in [Handler -> Tasks]
    BY <1>2 DEF CatalogInit
  <2>5. scope \in SUBSET Branch /\ requests \in 0..MaxRequests
    BY HomeIsABranch, RequestsAreCounted DEF CatalogInit
  <2> QED BY <2>2, <2>3, <2>4, <2>5 DEF CatalogInit, CatalogTypeOK
<1>4. Shelves
  BY <1>1 DEF CatalogInit, Shelves, SoldExist, Replacement, OnInScope, LiveIsMarked
<1> QED BY <1>2, <1>3, <1>4 DEF CatalogInit, CatalogInv, HoldsItsLocks

\* The invariant is inductive: one lemma for each step above.
LEMMA CatalogSteps == CatalogInv /\ [CatalogNext]_catalogVars => CatalogInv'
<1> SUFFICES ASSUME CatalogInv, [CatalogNext]_catalogVars
             PROVE  CatalogInv'
  OBVIOUS
<1>1. ASSUME NEW h \in Handler, Handle(h)
      PROVE  CatalogInv'
  BY <1>1, Publishing, Enabling, Replacing, Asking, Restoring, Staging, Committing,
     Withdrawing, Cascading, GivingUp DEF Handle
<1>2. ASSUME NEW p \in Product, NEW b \in Branch, Disable(p, b) \/ RunOut(p, b)
      PROVE  CatalogInv'
  BY <1>2, TurningOff DEF RunOut
<1>3. CASE UNCHANGED catalogVars
  BY <1>3 DEF catalogVars, CatalogInv, CatalogTypeOK, Shelves, SoldExist, Replacement, OnInScope,
     LiveIsMarked, Coherent, Checked, HoldsItsLocks, LocksOf, Exists, InScope, OnAt, SeesLive
<1> QED BY <1>1, <1>2, <1>3, Configuring, Typing, Widening, Forking DEF CatalogNext

\* In every catalog the handlers can reach, their checks still hold when they commit.
THEOREM CatalogInvariance == CatalogSpec => []CatalogInv
BY CatalogStarts, CatalogSteps, PTL DEF CatalogSpec

\* A typed product is on sale only where its type allows: the type is assigned, and
\* rows are turned on, under the one catalog lock (assertProductTypeAssignable).
THEOREM SoldWhereItMayBe == CatalogSpec => []SellsInScope
<1>1. CatalogInv => SellsInScope
  BY DEF CatalogInv, Shelves, OnInScope, SellsInScope
<1> QED BY <1>1, CatalogInvariance, PTL

\* The source a copy replaced stays off at its branch: a restore takes the source's
\* lock, which the replacement takes too (cascadeBranchAvailabilityOn).
THEOREM ReplacementsStand == CatalogSpec => []ReplacedStaysOff
<1>1. CatalogInv => ReplacedStaysOff
  BY DEF CatalogInv, Shelves, Replacement, ReplacedStaysOff
<1> QED BY <1>1, CatalogInvariance, PTL

\* A live product is marked as once published, but for those two transactions raced
\* on without seeing each other's writes (markEverPublishedIfLive).
THEOREM LiveMeansMarked == CatalogSpec => []LiveIsMarked
<1>1. CatalogInv => LiveIsMarked
  BY DEF CatalogInv, Shelves
<1> QED BY <1>1, CatalogInvariance, PTL

\* What is published, or replaces another, has lost no recipe component or slot since
\* it was judged ready, as both need the lock (productCatalogLockId).
THEOREM RecipesStandAtCommit == CatalogSpec => PublishedWithRecipe
<1>1. ASSUME CatalogInv, NEW h \in Handler, task[h].op \in {"publish", "replace"}, Commit(h)
      PROVE  "recipe" \notin product[task[h].of].lacks
  BY <1>1 DEF CatalogInv, Checked
<1>2. CatalogInv /\ [CatalogNext]_catalogVars =>
        [\A h \in Handler : task[h].op \in {"publish", "replace"} /\ Commit(h)
                              => "recipe" \notin product[task[h].of].lacks]_catalogVars
  BY <1>1
<1> QED BY <1>2, CatalogInvariance, PTL DEF CatalogSpec, PublishedWithRecipe
=============================================================================
