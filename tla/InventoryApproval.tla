-------------------------- MODULE InventoryApproval --------------------------
(***************************************************************************)
(* Pending review.  A physical count (or, from the time branch accounts    *)
(* could submit, a receiving, adjustment or waste) waits as a request row  *)
(* until a reviewer approves it, which applies it to the stock, returns it *)
(* for correction, which lets one follow-up row be filed, or cancels it.   *)
(* Reviewers act at the same time: each reads the row first and decides on *)
(* that, then writes conditionally or under the row's advisory lock.       *)
(*                                                                         *)
(* The same stock row is meanwhile moved by the desk (StockWrites), which  *)
(* is what makes a waiting count stale.                                    *)
(***************************************************************************)
EXTENDS StockWrites

CONSTANTS Req,       \* request rows
          Old,       \* rows branch accounts submitted: a change, not a count
          Reviewer   \* approve, return and correct handlers in flight

ASSUME OldAreRequests == Old \subseteq Req /\ None \notin Req

VARIABLES req,       \* inventory_approval_requests
          moves,     \* how often each request has written a stock movement
          reviewer   \* what each handler has read

vars == <<deskVars, req, moves, reviewer>>

\* stamp is stockVersionAtSubmission; seen is the version the stock had when the
\* row's figure was counted.
Reqs == [status : {"none", "PENDING", "RETURNED", "APPROVED", "CANCELLED"},
         count : BOOLEAN, prev : Req \cup {None},
         stamp : 0..MaxVersion, seen : 0..MaxVersion]
Reviewers == [does : {"nothing", "approve", "return", "correct"}, row : Req \cup {None},
              stamp : 0..MaxVersion, recounted : BOOLEAN]

TypeOK ==
  /\ DeskTypeOK
  /\ req \in [Req -> Reqs]
  /\ moves \in [Req -> Nat]
  /\ reviewer \in [Reviewer -> Reviewers]

Idle == [does |-> "nothing", row |-> None, stamp |-> 0, recounted |-> FALSE]

Init ==
  /\ DeskInit
  /\ req = [r \in Req |-> [status |-> IF r \in Old THEN "PENDING" ELSE "none", count |-> r \notin Old,
                           prev |-> None, stamp |-> 0, seen |-> 0]]
  /\ moves = [r \in Req |-> 0]
  /\ reviewer = [h \in Reviewer |-> Idle]

Status(r) == req[r].status
Corrected(r) == \E s \in Req : req[s].prev = r
Ends(h) == reviewer' = [reviewer EXCEPT ![h] = Idle]

\* submitPhysicalCount: the figure, and a snapshot of the stock's version.
SubmitCount(r) ==
  /\ Status(r) = "none"
  /\ req' = [req EXCEPT ![r] = [status |-> "PENDING", count |-> TRUE, prev |-> None,
                                stamp |-> version, seen |-> version]]
  /\ UNCHANGED <<deskVars, moves, reviewer>>

-----------------------------------------------------------------------------
(* Plausible mistakes. *)

\* Trusting the status the handler read first.
StillPendingWhenRead(r) == TRUE
UncorrectedWhenRead(r) == TRUE

-----------------------------------------------------------------------------
(* Reviewing and correcting. *)

\* Each handler turns away at once a row that is not in its state; correct also
\* takes the new snapshot of a count, whether or not a new figure came with it.
Opens(h, does, r, recounted) ==
  /\ reviewer[h] = Idle
  /\ Status(r) = IF does = "correct" THEN "RETURNED" ELSE "PENDING"
  /\ recounted => does = "correct" /\ req[r].count
  /\ reviewer' = [reviewer EXCEPT ![h] =
       [does |-> does, row |-> r, stamp |-> IF does = "correct" THEN version ELSE 0,
        recounted |-> recounted]]
  /\ UNCHANGED <<deskVars, req, moves>>

StillPending(r) == Status(r) = "PENDING"
Current(r) == req[r].count => req[r].stamp = version

\* approveAndApply: markApprovedIfPending, applyApprovedRequest and
\* setAppliedMovementId commit together.  A count that finds no variance bumps the
\* version and writes no movement.
Approve(h) ==
  LET r == reviewer[h].row IN
  /\ reviewer[h].does = "approve"
  /\ StillPending(r) /\ Current(r)
  /\ StockMoves
  /\ req' = [req EXCEPT ![r].status = "APPROVED"]
  /\ \E variance \in {0, 1} :
       /\ req[r].count \/ variance = 1
       /\ moves' = [moves EXCEPT ![r] = @ + variance]
  /\ Ends(h)
  /\ UNCHANGED <<attempt, proof, sweeping, call>>

\* returnForCorrection: markReturnedIfPending.
Return(h) ==
  LET r == reviewer[h].row IN
  /\ reviewer[h].does = "return"
  /\ StillPending(r)
  /\ req' = [req EXCEPT ![r].status = "RETURNED"]
  /\ Ends(h)
  /\ UNCHANGED <<deskVars, moves>>

StillReturned(r) == Status(r) = "RETURNED"
Uncorrected(r) == ~Corrected(r)

\* correct, under inventoryApprovalRowLockId: the old figure is carried over unless
\* a new one was sent, the snapshot is always the new one.
Correct(h, s) ==
  LET r == reviewer[h].row IN
  /\ reviewer[h].does = "correct"
  /\ StillReturned(r) /\ Uncorrected(r)
  /\ Status(s) = "none"
  /\ req' = [req EXCEPT ![s] =
       [status |-> "PENDING", count |-> req[r].count, prev |-> r, stamp |-> reviewer[h].stamp,
        seen |-> IF reviewer[h].recounted THEN reviewer[h].stamp ELSE req[r].seen]]
  /\ Ends(h)
  /\ UNCHANGED <<deskVars, moves>>

\* Every refusal and every failed transaction leaves the rows as they were.
GiveUp(h) ==
  /\ reviewer[h] # Idle
  /\ Ends(h)
  /\ UNCHANGED <<deskVars, req, moves>>

\* cancel reads and writes under the same lock, in one transaction.
Cancel(r) ==
  /\ Status(r) \in {"PENDING", "RETURNED"}
  /\ Uncorrected(r)
  /\ req' = [req EXCEPT ![r].status = "CANCELLED"]
  /\ UNCHANGED <<deskVars, moves, reviewer>>

ReviewNext ==
  \/ \E r \in Req : SubmitCount(r) \/ Cancel(r)
  \/ \E h \in Reviewer :
       \/ \E does \in {"approve", "return", "correct"}, r \in Req, recounted \in BOOLEAN :
            Opens(h, does, r, recounted)
       \/ Approve(h) \/ Return(h) \/ GiveUp(h)
       \/ \E s \in Req : Correct(h, s)

Next == (DeskNext /\ UNCHANGED <<req, moves, reviewer>>) \/ ReviewNext

Spec == Init /\ [][Next]_vars

-----------------------------------------------------------------------------
(* Properties. *)

\* Nothing moves the stock twice: not two reviewers approving one request, nor two
\* copies of a keyed call, nor two calls with one photo.
NothingMovesTwice ==
  /\ \A r \in Req : moves[r] = 0 \/ (moves[r] = 1 /\ Status(r) = "APPROVED")
  /\ KeyMovesOnce
  /\ ProofProvesOnce

\* A request has one future: a corrected row stays returned, whoever cancels or
\* corrects it at that moment, and has exactly one follow-up.  So of a whole
\* lineage only the latest row can still be approved.  (With the type invariant.)
LineageSettlesOnce ==
  /\ TypeOK
  /\ \A r, s \in Req :
       req[s].prev = r =>
         /\ Status(r) = "RETURNED"
         /\ \A t \in Req : req[t].prev = r => t = s

\* What a reviewer approved or cancelled stays so, whatever another has read.  And a
\* count is approved onto the very stock it was taken of, although the desk moves it
\* meanwhile, unless a correction without a recount carried its figure over.
SettledForGood ==
  [][\A r \in Req :
       /\ Status(r) \in {"APPROVED", "CANCELLED"} => Status(r)' = Status(r)
       /\ req[r].count /\ Status(r) # "APPROVED" /\ Status(r)' = "APPROVED" =>
            \/ req[r].seen = version
            \/ req[r].prev # None /\ req[req[r].prev].seen = req[r].seen]_vars

=============================================================================
