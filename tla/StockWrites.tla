----------------------------- MODULE StockWrites -----------------------------
(***************************************************************************)
(* Receiving, adjusting and wasting stock from the supervisor's desk: an   *)
(* HTTP call may carry an Idempotency-Key, must name an uploaded proof     *)
(* photo, and writes one stock movement.  The key is claimed by inserting  *)
(* its row, the proof is consumed by a conditional update, the stock is    *)
(* written in a transaction, and the result is recorded under the key:     *)
(* four database steps with nothing around them, so calls interleave       *)
(* between any two and a call may be lost after any of them.               *)
(*                                                                         *)
(* Of the stock row only its version is kept: quantities, and the races of *)
(* a locked read with checkout, are SaleStock's.  That a quantity does not *)
(* suffice, and every other refusal inside a step, is a loss of the call.  *)
(***************************************************************************)
EXTENDS Integers, FiniteSets

CONSTANTS Key,        \* Idempotency-Keys, one actor's
          Proof,      \* InventoryEvidenceUpload rows
          Call,       \* calls of /receive, /adjust or /waste
          None,
          MaxVersion  \* bound: how far a stock row's version counts

ASSUME NoneIsNew == None \notin Key \cup Proof
ASSUME VersionsAreCounts == MaxVersion \in Nat

VARIABLES version,   \* inventory_stocks.version of the one row written here
          attempt,   \* inventory_operation_attempts, per key
          proof,     \* inventory_evidence_uploads, per proof
          sweeping,  \* the rows a running sweep has read
          call       \* how far each call is

deskVars == <<version, attempt, proof, sweeping, call>>

Attempts == {"none", "claimed", "done"}
Proofs == [row : {"kept", "consumed", "gone"}, expired : BOOLEAN]
Calls == [at : {"unsent", "claimed", "checked", "proven", "moved", "ended", "told"},
          key : Key \cup {None}, proof : Proof \cup {None}]

DeskTypeOK ==
  /\ version \in 0..MaxVersion
  /\ attempt \in [Key -> Attempts]
  /\ proof \in [Proof -> Proofs]
  /\ sweeping \subseteq Proof
  /\ call \in [Call -> Calls]

Unsent == [at |-> "unsent", key |-> None, proof |-> None]
Over == [Unsent EXCEPT !.at = "ended"]   \* without having moved stock

DeskInit ==
  /\ version = 0
  /\ attempt = [k \in Key |-> "none"]
  /\ proof = [p \in Proof |-> [row |-> "kept", expired |-> FALSE]]
  /\ sweeping = {}
  /\ call = [c \in Call |-> Unsent]

Goes(c, step) == call' = [call EXCEPT ![c] = IF step = "ended" THEN Over ELSE [@ EXCEPT !.at = step]]

\* A transaction that writes the stock row bumps its version.
StockMoves == version < MaxVersion /\ version' = version + 1

-----------------------------------------------------------------------------
(* Plausible mistakes. *)

\* find-then-create: a key counts as free until its result is recorded.
UnclaimedUntilRecorded(k) == k = None \/ attempt[k] # "done"

-----------------------------------------------------------------------------
(* One call. *)

Unclaimed(k) == k = None \/ attempt[k] = "none"

\* checkIdempotency: the insert wins the key, or the call is over, replayed from
\* the recorded result, told it is in progress, or refused for a changed body: a
\* repeat's photo may be a new one, the payloadHash does not cover it.
Post(c, k, p) ==
  /\ call[c].at = "unsent"
  /\ call' = [call EXCEPT ![c] = IF Unclaimed(k)
                                 THEN [at |-> "claimed", key |-> k, proof |-> p]
                                 ELSE Over]
  /\ attempt' = IF k # None /\ Unclaimed(k) THEN [attempt EXCEPT ![k] = "claimed"] ELSE attempt
  /\ UNCHANGED <<version, proof, sweeping>>

\* consumeInventoryEvidence reads the row and turns the call away unless it is
\* there, unconsumed and within its half hour.
ReadProof(c) ==
  LET p == call[c].proof IN
  /\ call[c].at = "claimed"
  /\ Goes(c, IF proof[p] = [row |-> "kept", expired |-> FALSE] THEN "checked" ELSE "ended")
  /\ UNCHANGED <<version, attempt, proof, sweeping>>

Consumable(p) == proof[p].row = "kept"

\* markEvidenceConsumedIfUnconsumed.
ConsumeProof(c) ==
  LET p == call[c].proof IN
  /\ call[c].at = "checked"
  /\ Goes(c, IF Consumable(p) THEN "proven" ELSE "ended")
  /\ proof' = IF Consumable(p) THEN [proof EXCEPT ![p].row = "consumed"] ELSE proof
  /\ UNCHANGED <<version, attempt, sweeping>>

\* receiveStock, adjustStock or wasteStock: the movement and the new quantity.
WriteStock(c) ==
  /\ call[c].at = "proven"
  /\ StockMoves
  /\ Goes(c, "moved")
  /\ UNCHANGED <<attempt, proof, sweeping>>

\* recordIdempotencyResult.
RecordResult(c) ==
  /\ call[c].at = "moved"
  /\ Goes(c, "told")
  /\ attempt' = IF call[c].key = None THEN attempt ELSE [attempt EXCEPT ![call[c].key] = "done"]
  /\ UNCHANGED <<version, proof, sweeping>>

\* The stock transaction refuses, or the process dies: nothing gives back the key
\* or the proof.  After the movement, the audit row or the result's own update
\* (whose error is swallowed) fails: the call moved stock and its key never says so.
Lose(c) ==
  /\ call[c].at \in {"claimed", "checked", "proven", "moved"}
  /\ Goes(c, IF call[c].at = "moved" THEN "told" ELSE "ended")
  /\ UNCHANGED <<version, attempt, proof, sweeping>>

-----------------------------------------------------------------------------
(* Proofs grow old, and sweepExpiredInventoryEvidence clears them. *)

Expire(p) ==
  /\ ~proof[p].expired
  /\ proof' = [proof EXCEPT ![p].expired = TRUE]
  /\ UNCHANGED <<version, attempt, sweeping, call>>

\* findExpiredUnconsumedEvidence; the photos are then removed from storage.
SweepReads ==
  /\ sweeping = {}
  /\ sweeping' = {p \in Proof : proof[p] = [row |-> "kept", expired |-> TRUE]}
  /\ UNCHANGED <<version, attempt, proof, call>>

\* deleteEvidenceRows: by id alone.
SweepDeletes ==
  /\ sweeping # {}
  /\ sweeping' = {}
  /\ proof' = [p \in Proof |-> IF p \in sweeping THEN [proof[p] EXCEPT !.row = "gone"] ELSE proof[p]]
  /\ UNCHANGED <<version, attempt, call>>

DeskNext ==
  \/ \E c \in Call :
       \/ \E k \in Key \cup {None}, p \in Proof : Post(c, k, p)
       \/ ReadProof(c) \/ ConsumeProof(c) \/ WriteStock(c) \/ RecordResult(c) \/ Lose(c)
  \/ \E p \in Proof : Expire(p)
  \/ SweepReads \/ SweepDeletes

-----------------------------------------------------------------------------
(* Properties. *)

Moved == {c \in Call : call[c].at \in {"moved", "told"}}

\* However often a call is repeated, and wherever the copies race or die, one key
\* moves stock at most once.
KeyMovesOnce ==
  \A c, d \in Moved : call[c].key = call[d].key /\ call[c].key # None => c = d

\* A photo proves one movement, with or without a key.
ProofProvesOnce == \A c, d \in Moved : call[c].proof = call[d].proof => c = d
=============================================================================
