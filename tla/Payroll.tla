------------------------------- MODULE Payroll -------------------------------
(***************************************************************************)
(* A branch's payroll runs over one employee's attendance                  *)
(* (payroll.service.ts).  Every payroll write holds the branch's advisory  *)
(* lock, payrollBranchLockId; attendance does not take it, so records      *)
(* change while a finalization reads them.  A preview's fingerprint is the *)
(* calculation itself.  One reviewer's latest preview is kept.             *)
(***************************************************************************)
EXTENDS Attendance

CONSTANT Run          \* payroll_runs rows

ASSUME NoneIsNoRun == None \notin Run

VARIABLES run,      \* the rows, with their lines
          claim,    \* active payroll_attendance_claims, as <<record, run>>
          policy,   \* the current policy's kind
          preview,  \* the draft the reviewer looked at and the calculation shown
          fin,      \* the finalization that holds the branch's lock
          written   \* row -> the runs already finalized at its updated_at

vars == <<rec, task, now, run, claim, policy, preview, fin, written>>

Kinds == {"semi", "monthly", "shifted"}

\* Semi-monthly and monthly cut the same business dates differently; "shifted" is the
\* semi-monthly policy in a timezone where the second instant is still the first date.
DayOf(kind, at) == IF kind = "shifted" /\ at > 1 THEN at - 1 ELSE at
Periods(kind) == IF kind = "monthly" THEN {Time} ELSE {{d} : d \in Time}

Line(r) == [rec |-> r, in |-> rec[r].in, out |-> rec[r].out]
Lines == [rec : Rec, in : Time, out : Time \cup {None}]
Calcs == [policy : Kinds, lines : SUBSET Lines, overlap : SUBSET Lines, unended : SUBSET Lines]

NoRun == [status |-> "none", period |-> {}, of |-> None, paid |-> FALSE, lines |-> {}, kind |-> "semi", raced |-> {}]

Runs == [status : {"none", "draft", "finalized", "superseded", "discarded"},
         period : SUBSET Time, of : Run \cup {None}, paid : BOOLEAN,
         lines : SUBSET Lines, kind : Kinds, raced : SUBSET Rec]

TypeOK ==
  /\ AttendanceTypeOK
  /\ run \in [Run -> Runs]
  /\ claim \subseteq Rec \X Run
  /\ policy \in Kinds
  /\ preview \in [run : Run \cup {None}, calc : Calcs \cup {None}]
  /\ fin \in [run : Run \cup {None}, lines : SUBSET Lines, raced : SUBSET Rec]
  /\ written \in [Rec -> SUBSET Run]

NoPreview == [run |-> None, calc |-> None]
NoFin == [run |-> None, lines |-> {}, raced |-> {}]

Init ==
  /\ AttendanceInit
  /\ run = [n \in Run |-> NoRun] /\ claim = {}
  /\ policy = "semi"
  /\ preview = NoPreview /\ fin = NoFin
  /\ written = [r \in Rec |-> {}]
-----------------------------------------------------------------------------
Finalized == {n \in Run : run[n].status = "finalized"}
LinesOf(n) == {l.rec : l \in run[n].lines}
Unlocked == fin.run = None

\* findBranchRecords: the live records that clocked in on a date of the period.
BranchRecords(kind, period) == {r \in Live : DayOf(kind, rec[r].in) \in period}

Overlap(l, r) ==
  /\ l.rec # r
  /\ l.out = None \/ rec[r].in < l.out
  /\ rec[r].out = None \/ l.in < rec[r].out

\* calculatePayroll: records read earlier, the employee's other records as they are now.
\* The breaks come with the records; those of a closed shift do not change any more.
Calculate(n, lines) ==
  [policy |-> policy, lines |-> lines,
   overlap |-> {l \in lines : \E r \in Live : Overlap(l, r)},
   unended |-> {l \in lines : l.out # None /\ rec[l.rec].onBreak}]

\* The blocking exceptions of the attendance itself: OVERLAPPING_ATTENDANCE, OPEN_BREAK and
\* OPEN_ATTENDANCE.  A missing rate or an ill-placed break refuses as FinalizeRefused does.
Blocked(calc, period) ==
  \/ calc.overlap # {} \/ calc.unended # {}
  \/ \E l \in calc.lines : l.out = None
  \/ calc.lines = {}
  \/ period \notin Periods(calc.policy)

\* findOverlappingFinalized
Overlapping(period) == {m \in Finalized : run[m].period \cap period # {}}

\* Mutant: no unique index on active claims.
ClaimableAlways(records, held) == TRUE

\* payroll_attendance_claims_one_active_per_record
Claimable(records, held) == \A c \in held : c[1] \notin records

\* releaseClaims
Released(m) == {c \in claim : c[2] # m}
-----------------------------------------------------------------------------
\* savePolicy: a new version of the policy.  A fingerprint names the version it was
\* calculated with, so no earlier preview can be finalized any more.
SavePolicy(kind) ==
  /\ Unlocked
  /\ policy' = kind /\ preview' = NoPreview
  /\ UNCHANGED <<rec, task, now, run, claim, fin, written>>

CreateRun(n, period) ==
  /\ Unlocked /\ run[n].status = "none"
  /\ period \in Periods(policy) /\ Overlapping(period) = {}
  /\ \A m \in Run : ~(run[m].status = "draft" /\ run[m].period = period)
  /\ run' = [run EXCEPT ![n] = [NoRun EXCEPT !.status = "draft", !.period = period]]
  /\ UNCHANGED <<rec, task, now, claim, policy, preview, fin, written>>

\* getRun on a draft: the reviewer sees a live calculation and its fingerprint.
Preview(n) ==
  /\ run[n].status = "draft"
  /\ LET lines == {Line(r) : r \in BranchRecords(policy, run[n].period)}
     IN preview' = [run |-> n, calc |-> Calculate(n, lines)]
  /\ UNCHANGED <<rec, task, now, run, claim, policy, fin, written>>

\* Only a draft's fingerprint is of any use.
PreviewWithout(n) == IF preview.run = n THEN NoPreview ELSE preview

\* finalize takes the lock and reads the period's records.
FinalizeReads(n) ==
  /\ Unlocked /\ run[n].status = "draft" /\ preview.run = n
  /\ fin' = [run |-> n, raced |-> {},
             lines |-> {Line(r) : r \in BranchRecords(policy, run[n].period)}]
  /\ UNCHANGED <<rec, task, now, run, claim, policy, preview, written>>

\* expected_fingerprint
AsReviewed(calc) == preview = [run |-> fin.run, calc |-> calc]

\* ... then the employee's other records; checks; writes lines, claims and the status.
FinalizeCommits ==
  LET n == fin.run
      calc == Calculate(n, fin.lines)
      records == {l.rec : l \in fin.lines}
      held == IF run[n].of = None THEN claim ELSE Released(run[n].of)
  IN /\ n # None
     /\ AsReviewed(calc) /\ ~Blocked(calc, run[n].period)
     /\ Overlapping(run[n].period) \subseteq {run[n].of}
     /\ run[n].of # None => run[n].of \in Finalized
     /\ Claimable(records, held)
     /\ run' = [m \in Run |->
                  CASE m = n -> [run[n] EXCEPT !.status = "finalized", !.lines = fin.lines,
                                               !.kind = policy, !.raced = fin.raced]
                    [] m = run[n].of -> [run[m] EXCEPT !.status = "superseded"]
                    [] OTHER -> run[m]]
     /\ claim' = held \cup (records \X {n})
     /\ fin' = NoFin /\ preview' = NoPreview
     /\ UNCHANGED <<rec, task, now, policy, written>>

\* A check refuses, or the transaction fails: everything rolls back.
FinalizeRefused ==
  /\ fin.run # None
  /\ fin' = NoFin
  /\ UNCHANGED <<rec, task, now, run, claim, policy, preview, written>>

\* Mutant: the update does not ask for the status.
DiscardableAny(n) == run[n].status \in {"draft", "finalized"}

\* discardRun's condition
Discardable(n) == run[n].status = "draft"

Discard(n) ==
  /\ Unlocked /\ Discardable(n)
  /\ run' = [run EXCEPT ![n] = [NoRun EXCEPT !.status = "discarded"]]
  /\ preview' = PreviewWithout(n)
  /\ UNCHANGED <<rec, task, now, claim, policy, fin, written>>

\* revise: one draft per period and one open revision per run (unique indexes).
Revise(n, m) ==
  /\ Unlocked /\ m \in Finalized /\ run[n].status = "none"
  /\ \A k \in Run : ~(run[k].status = "draft" /\ (run[k].of = m \/ run[k].period = run[m].period))
  /\ run' = [run EXCEPT ![n] = [NoRun EXCEPT !.status = "draft", !.period = run[m].period, !.of = m]]
  /\ UNCHANGED <<rec, task, now, claim, policy, preview, fin, written>>

MarkPaid(n) ==
  /\ Unlocked /\ n \in Finalized /\ ~run[n].paid
  /\ run' = [run EXCEPT ![n].paid = TRUE]
  /\ UNCHANGED <<rec, task, now, claim, policy, preview, fin, written>>

\* Rows an attendance step writes: a break is a row of its own and no write of its record.
Touched == {r \in Rec : [rec'[r] EXCEPT !.onBreak = rec[r].onBreak] # rec[r]}

AttendanceStep ==
  /\ AttendanceNext
  /\ written' = [r \in Rec |-> IF r \in Touched THEN Finalized ELSE written[r]]
  /\ fin' = IF Unlocked THEN fin ELSE [fin EXCEPT !.raced = @ \cup Touched]
  /\ UNCHANGED <<run, claim, policy, preview>>

Next ==
  \/ AttendanceStep
  \/ \E kind \in Kinds : SavePolicy(kind)
  \/ \E n \in Run :
       \/ \E period \in Periods(policy) : CreateRun(n, period)
       \/ Preview(n)
       \/ FinalizeReads(n) \/ Discard(n) \/ MarkPaid(n)
       \/ \E m \in Run : Revise(n, m)
  \/ FinalizeCommits \/ FinalizeRefused

Spec == Init /\ [][Next]_vars
-----------------------------------------------------------------------------
\* Mutant: an unclaimed row is never a change.
FlaggedOnlyClaimed(n) == {r \in LinesOf(n) : rec[r].status = "deleted" \/ n \in written[r]}

\* sourceChanges: attendance the finalized run's page reports as changed afterwards.
Flagged(n) ==
  {r \in LinesOf(n) : rec[r].status = "deleted" \/ n \in written[r]}
    \cup {r \in BranchRecords(run[n].kind, run[n].period) \ LinesOf(n) : n \in written[r]}

\* finalize, the unique indexes and revise together: no business date is in two finalized
\* payrolls and no record in the lines of two, whatever the policy became in between; the
\* active claims are exactly those lines, a superseded run holds none; and the lines are
\* closed shifts that do not overlap, although attendance changes between two reads.
PaidOnce ==
  /\ TypeOK
  /\ \A n, m \in Finalized : n # m => /\ run[n].period \cap run[m].period = {}
                                      /\ LinesOf(n) \cap LinesOf(m) = {}
  /\ claim = UNION {LinesOf(n) \X {n} : n \in Finalized}
  /\ \A n \in Finalized : \A k, l \in run[n].lines :
       /\ l.out # None
       /\ k # l => k.out <= l.in \/ l.out <= k.in

\* sourceChanges 494-521: attendance of a finalized period that differs from what was paid
\* is reported, unless it was written while the finalization was reading.
ChangesAreFlagged ==
  \A n \in Finalized :
    LET paid == {l \in run[n].lines : l.rec \in Live /\ Line(l.rec) = l}
        due == BranchRecords(run[n].kind, run[n].period)
    IN (due \cup LinesOf(n)) \ {l.rec : l \in paid} \subseteq Flagged(n) \cup run[n].raced

\* A finalized run is never rewritten, and its dates stay in a finalized payroll: it is
\* superseded only by the revision that takes its place in the same transaction.
FinalizedStays ==
  [][\A n \in Finalized :
       /\ run'[n].lines = run[n].lines
       /\ run[n].paid => run'[n].paid
       /\ \E m \in Run : run'[m].status = "finalized" /\ run'[m].period = run[n].period]_vars
=============================================================================
