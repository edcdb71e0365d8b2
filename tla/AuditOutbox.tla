----------------------------- MODULE AuditOutbox -----------------------------
(***************************************************************************)
(* The audit outbox (modules/audit-outbox): events committed with the      *)
(* change they describe, claimed in groups by a worker per API instance    *)
(* and appended to the hash chain of audit_logs under auditChainLockId,    *)
(* next to recordAuditLog, which appends to the same chain without it.     *)
(*                                                                         *)
(* A hash is known by the entry it was computed for, so an entry's         *)
(* previousHash is the id of the entry it is chained to.  A time is a      *)
(* number; an instance's clock is any time the code lets it write.         *)
(***************************************************************************)
EXTENDS Naturals, FiniteSetsExt

CONSTANTS Group,        \* groups, numbered as occurred_at and groupId sort them
          Size,         \* Size[g]: events in group g
          Worker,       \* one outbox worker per API instance
          Writer,       \* recordAuditLog calls, one entry each
          Batch,        \* rows one cycle selects
          MaxAttempts,  \* AUDIT_OUTBOX_MAX_ATTEMPTS
          MaxSlips,     \* bound: failures, crashes and stalls together
          MaxRequeues,  \* bound: manual recoveries
          MaxGap,       \* bound: how far a clock runs ahead of the newest entry
          Nobody

ASSUME GroupsAreOrdered == Group \subseteq Nat /\ IsFiniteSet(Group)
ASSUME SizesArePositive == Size \in [Group -> Nat \ {0}]
ASSUME BoundsAreCounts == /\ Batch \in Nat \ {0} /\ MaxAttempts \in Nat \ {0}
                          /\ MaxSlips \in Nat /\ MaxRequeues \in Nat /\ MaxGap \in Nat
ASSUME NamesAreFresh == /\ Nobody \notin Worker \cup Writer \cup Group
                        /\ Writer \cap Group = {}

VARIABLES box,       \* the audit_outbox rows, a group at a time
          work,      \* where each worker is in its cycle
          log,       \* the audit_logs rows
          writer,    \* where each recordAuditLog call is
          slips, requeues

auditVars == <<box, work, log, writer, slips, requeues>>

Statuses == {"absent", "pending", "processing", "delivered", "stuck"}

Boxes == [status : Statuses, attempts : 0..MaxAttempts,
          owner : Worker \cup {Nobody},  \* claimToken: fresh per cycle, so the worker's current cycle
          due : BOOLEAN,               \* next_attempt_at has passed, or there is none
          stale : BOOLEAN]             \* locked_at is older than staleLockMs

Genesis == <<Nobody, 0>>
Ids == (UNION {{<<g, i>> : i \in 1..Size[g]} : g \in Group}) \cup {<<x, 0>> : x \in Writer}
Tips == [id : Ids \cup {Genesis}, at : Nat]
Root == [id |-> Genesis, at |-> 0]

\* The newest entry: created_at DESC, a tie broken either way.
Tails == IF log = {} THEN {Root}
         ELSE {[id |-> e.id, at |-> e.at] : e \in {f \in log : \A h \in log : h.at <= f.at}}

Works == [at : {"idle", "stamp", "deliver", "append", "record"}, todo : SUBSET Group, tail : Tips]

Idle == [at |-> "idle", todo |-> {}, tail |-> Root]

\* Each group's rows are in one state: a statement changes a group as a whole.
AuditTypeOK ==
  /\ box \in [Group -> Boxes]
  /\ \A g \in Group : (box[g].owner # Nobody) <=> (box[g].status = "processing")
  /\ work \in [Worker -> Works]
  /\ \A w \in Worker : work[w].at \in {"deliver", "append", "record"} => work[w].todo # {}
  /\ \A v, w \in Worker : work[v].at = "append" /\ work[w].at = "append" => v = w
  /\ \A e \in log : e.id \in Ids /\ e.prev \in Ids \cup {Genesis} /\ e.at \in Nat
  /\ writer \in [Writer -> [at : {"start", "read", "done"}, tail : Ids \cup {Genesis}]]
  /\ slips \in 0..MaxSlips /\ requeues \in 0..MaxRequeues

AuditInit ==
  /\ box = [g \in Group |-> [status |-> "absent", attempts |-> 0, owner |-> Nobody,
                             due |-> TRUE, stale |-> FALSE]]
  /\ work = [w \in Worker |-> Idle]
  /\ log = {}
  /\ writer = [x \in Writer |-> [at |-> "start", tail |-> Genesis]]
  /\ slips = 0 /\ requeues = 0

Slip == slips < MaxSlips /\ slips' = slips + 1
-----------------------------------------------------------------------------
\* enqueue: the group commits with the operation it belongs to.
Enqueue(g) ==
  /\ box[g].status = "absent"
  /\ box' = [box EXCEPT ![g].status = "pending"]
  /\ UNCHANGED <<work, log, writer, slips, requeues>>

\* claimableWhere
\* Mutant: a claim left by a crashed worker is never taken over.
EligiblePendingOnly(g) == box[g].status = "pending" /\ box[g].due

Eligible(g) == \/ box[g].status = "pending" /\ box[g].due
               \/ box[g].status = "processing" /\ box[g].stale

\* Rows the select lists before g's.
RowsBefore(g) == SumFunctionOnSet(Size, {h \in Group : h < g /\ Eligible(h)})

Candidates == {g \in Group : Eligible(g) /\ RowsBefore(g) < Batch}

\* claimBatch, its first statement: the candidates.
Look(w) ==
  /\ work[w].at = "idle"
  /\ Candidates # {}
  /\ work' = [work EXCEPT ![w] = [at |-> "stamp", todo |-> Candidates, tail |-> Root]]
  /\ UNCHANGED <<box, log, writer, slips, requeues>>

\* The group of the batch whose turn it is: the oldest.
Turn(w) == Min(work[w].todo)

\* A group whose rows another worker's delivery has locked until it commits.
Locked(g) == \E v \in Worker : work[v].at = "append" /\ Turn(v) = g

\* claimBatch, its update and re-read: still eligible, so claimed by this cycle.
Stamp(w) ==
  /\ work[w].at = "stamp"
  /\ \A g \in work[w].todo : ~Locked(g)
  /\ LET won == {g \in work[w].todo : Eligible(g)} IN
       /\ box' = [g \in Group |-> IF g \notin won THEN box[g]
                    ELSE [box[g] EXCEPT !.status = "processing", !.owner = w, !.stale = FALSE]]
       /\ work' = [work EXCEPT ![w] = IF won = {} THEN Idle
                    ELSE [at |-> "deliver", todo |-> won, tail |-> Root]]
  /\ UNCHANGED <<log, writer, slips, requeues>>

\* The next group of the batch, or the end of the cycle.
Advanced(w) ==
  LET left == work[w].todo \ {Turn(w)} IN
  IF left = {} THEN Idle ELSE [at |-> "deliver", todo |-> left, tail |-> Root]

Owns(w, g) == box[g].status = "processing" /\ box[g].owner = w

\* deliverGroup, its guard when the claim was taken over meanwhile.
Skip(w) ==
  /\ work[w].at = "deliver"
  /\ ~Owns(w, Turn(w))
  /\ ~Locked(Turn(w))
  /\ work' = [work EXCEPT ![w] = Advanced(w)]
  /\ UNCHANGED <<box, log, writer, slips, requeues>>

\* auditChainLockId: held by the delivery in progress until it commits.
ChainIsFree == \A v \in Worker : work[v].at # "append"

\* deliverGroup up to its read of the tail: the guard locks the group's rows.
Open(w) ==
  /\ work[w].at = "deliver"
  /\ Owns(w, Turn(w))
  /\ ChainIsFree
  /\ \E t \in Tails : work' = [work EXCEPT ![w].at = "append", ![w].tail = t]
  /\ UNCHANGED <<box, log, writer, slips, requeues>>

\* Mutant: the entries are stamped with this instance's clock alone.
StampsByClock(t) == 1..(t.at + 1 + MaxGap)

\* The first entry's created_at: this instance's clock, but after the tail.
Stamps(t) == (t.at + 1)..(t.at + 1 + MaxGap)

\* The group's entries, each chained to the one before, a millisecond apart.
Block(g, t, first) ==
  {[id |-> <<g, i>>, prev |-> IF i = 1 THEN t.id ELSE <<g, i - 1>>, at |-> first + i - 1] : i \in 1..Size[g]}

Acknowledged(g) == [box EXCEPT ![g].status = "delivered", ![g].owner = Nobody, ![g].stale = FALSE]

\* deliverGroup, from the insert to COMMIT; the answer may be lost.
AppendGroup(w) ==
  LET g == Turn(w) IN
  /\ work[w].at = "append"
  /\ \E first \in Stamps(work[w].tail) : log' = log \cup Block(g, work[w].tail, first)
  /\ box' = Acknowledged(g)
  /\ \/ work' = [work EXCEPT ![w] = Advanced(w)] /\ UNCHANGED slips
     \/ work' = [work EXCEPT ![w].at = "record", ![w].tail = Root] /\ Slip
  /\ UNCHANGED <<writer, requeues>>

\* deliverGroup throws and its transaction rolls back.
Fail(w) ==
  /\ work[w].at \in {"deliver", "append"}
  /\ Slip
  /\ work' = [work EXCEPT ![w].at = "record", ![w].tail = Root]
  /\ UNCHANGED <<box, log, writer, requeues>>

Outcome(n) == IF n >= MaxAttempts THEN "stuck" ELSE "pending"

\* Mutant: a failure is recorded on whoever holds the group now.
FailureMatchesAnyone(w, g) == TRUE

FailureMatches(w, g) == Owns(w, g)

\* deliver's catch: recordFailure, then the next group.  It changes nothing when
\* the claim was taken over or the delivery did commit.
Record(w) ==
  LET g == Turn(w)
      n == box[g].attempts + 1 IN
  /\ work[w].at = "record"
  /\ ~Locked(g)
  /\ box' = IF ~FailureMatches(w, g) THEN box
            ELSE [box EXCEPT ![g] = [status |-> Outcome(n), attempts |-> n,
                                     owner |-> Nobody, due |-> n >= MaxAttempts, stale |-> FALSE]]
  /\ work' = [work EXCEPT ![w] = Advanced(w)]
  /\ UNCHANGED <<log, writer, slips, requeues>>

\* The cycle throws (a statement of claimBatch, or recordFailure), or the instance
\* dies: an open transaction rolls back and the claims stay behind.
Abandon(w) ==
  /\ work[w].at # "idle"
  /\ Slip
  /\ work' = [work EXCEPT ![w] = Idle]
  /\ UNCHANGED <<box, log, writer, requeues>>

BackoffEnds(g) ==
  /\ box[g].status = "pending" /\ ~box[g].due
  /\ box' = [box EXCEPT ![g].due = TRUE]
  /\ UNCHANGED <<work, log, writer, slips, requeues>>

\* Some cycle still has g ahead of it under the claim g carries.
InHand(g) == box[g].owner # Nobody /\ g \in work[box[g].owner].todo

\* locked_at grows older than staleLockMs: a slip if the claim is merely slow.
ClaimGoesStale(g) ==
  /\ box[g].status = "processing" /\ ~box[g].stale
  /\ IF InHand(g) THEN Slip ELSE UNCHANGED slips
  /\ box' = [box EXCEPT ![g].stale = TRUE]
  /\ UNCHANGED <<work, log, writer, requeues>>

\* requeueStuck, on one group.
RequeueGroup(g) ==
  /\ box[g].status = "stuck"
  /\ requeues < MaxRequeues
  /\ requeues' = requeues + 1
  /\ box' = [box EXCEPT ![g].status = "pending", ![g].attempts = 0, ![g].due = TRUE]
  /\ UNCHANGED <<work, log, writer, slips>>
-----------------------------------------------------------------------------
\* appendAuditLog reads the newest entry...
WriterReads(x) ==
  /\ writer[x].at = "start"
  /\ \E t \in Tails : writer' = [writer EXCEPT ![x] = [at |-> "read", tail |-> t.id]]
  /\ UNCHANGED <<box, work, log, slips, requeues>>

\* ...and writes its own, dated by the database, whatever was appended meanwhile.
WriterWrites(x) ==
  /\ writer[x].at = "read"
  /\ \E t \in Tails : \E at \in 1..(t.at + 1) :
       log' = log \cup {[id |-> <<x, 0>>, prev |-> writer[x].tail, at |-> at]}
  /\ writer' = [writer EXCEPT ![x].at = "done"]
  /\ UNCHANGED <<box, work, slips, requeues>>

\* recordAuditLog swallows a failure: the entry is never written.
WriterFails(x) ==
  /\ writer[x].at # "done"
  /\ Slip
  /\ writer' = [writer EXCEPT ![x].at = "done"]
  /\ UNCHANGED <<box, work, log, requeues>>
-----------------------------------------------------------------------------
Cycle(w) == Look(w) \/ Stamp(w) \/ Skip(w) \/ Open(w) \/ AppendGroup(w) \/ Record(w)

AuditNext ==
  \/ \E w \in Worker : Cycle(w) \/ Fail(w) \/ Abandon(w)
  \/ \E g \in Group : Enqueue(g) \/ BackoffEnds(g) \/ ClaimGoesStale(g) \/ RequeueGroup(g)
  \/ \E x \in Writer : WriterReads(x) \/ WriterWrites(x) \/ WriterFails(x)

\* Every instance polls for ever, and time passes; nobody has to enqueue, fail,
\* requeue or call recordAuditLog.
AuditFairness ==
  /\ \A w \in Worker : WF_auditVars(Cycle(w))
  /\ \A g \in Group : WF_auditVars(BackoffEnds(g)) /\ WF_auditVars(~InHand(g) /\ ClaimGoesStale(g))

AuditSpec == AuditInit /\ [][AuditNext]_auditVars /\ AuditFairness
-----------------------------------------------------------------------------
FromOutbox == {e \in log : e.id[1] \in Group}

\* No two of the outbox's entries continue the same entry, and each continues one
\* that the trail lists earlier: only a recordAuditLog call, which takes no lock,
\* can fork the chain.  (deliverGroup's lock, tail read and strictly later stamps.)
OutboxNeverForks ==
  /\ AuditTypeOK
  /\ \A e \in FromOutbox :
    /\ \A f \in FromOutbox : e.prev = f.prev => e = f
    /\ e.prev = Genesis \/ \E f \in log : f.id = e.prev /\ f.at < e.at

\* Where the trail, ordered by created_at, lists one of the outbox's entries.
Place(e) == Cardinality({f \in FromOutbox : f.at <= e.at})

\* AuditTrail's variables: groups owed, groups acknowledged, the outbox's entries listed.
Owed == {g \in Group : box[g].status \notin {"absent", "delivered"}}
Acked == {g \in Group : box[g].status = "delivered"}
Trail == [n \in 1..Cardinality(FromOutbox) |-> (CHOOSE e \in FromOutbox : Place(e) = n).id]

\* The outbox delivers what AuditTrail promises: owed groups enter the trail once,
\* whole and in order, in the same step that acknowledges them.
Promise == INSTANCE AuditTrail WITH owed <- Owed, acked <- Acked, trail <- Trail

KeepsTheTrail == Promise!Spec

\* A committed event reaches the trail or an operator: no claim, crash, lost answer
\* or backoff leaves a group where nobody looks for it (stale-claim recovery).
EveryGroupSettles ==
  \A g \in Group : box[g].status # "absent" ~> box[g].status \in {"delivered", "stuck"}
=============================================================================
