---------------------------- MODULE Payroll_proofs ----------------------------
(***************************************************************************)
(* For any number of attendance records, corrections, instants and runs:   *)
(* an employee is clocked in once, a shift is paid once, a change of what  *)
(* was paid is reported, and a finalized payroll stays.                    *)
(***************************************************************************)
EXTENDS Payroll, TLAPS

\* A correction in flight knows the record it corrects.
Correcting == \A h \in Handler : task[h].op # "none" => task[h].rec \in Rec

\* What is finalized under the lock is a draft, and a revision is of a run that was
\* finalized, for the same dates.
InOrder ==
  /\ fin.run # None => run[fin.run].status = "draft"
  /\ \A n \in Run : run[n].of # None =>
       /\ run[run[n].of].status \in {"finalized", "superseded"}
       /\ run[run[n].of].period = run[n].period

\* Two lines of which neither is open do not overlap.
Disjoint(k, l) == k.out # None /\ l.out # None => k.out <= l.in \/ l.out <= k.in

\* A calculation without a conflict, when it was made, has lines that do not overlap.
Reviewed ==
  preview.run # None /\ preview.calc.overlap = {} =>
    \A k, l \in preview.calc.lines : k # l => Disjoint(k, l)

\* The lines still are the records, and the records of the period are the lines,
\* except where known says otherwise.
Tracks(lines, period, kind, known) ==
  /\ \A l \in lines : l.rec \in known \/ (l.rec \in Live /\ Line(l.rec) \in lines)
  /\ \A r \in BranchRecords(kind, period) : r \in known \/ \E l \in lines : l.rec = r

\* What differs from a finalized run was written after it, deleted, or raced with it.
Noted(n) == run[n].raced \cup {r \in Rec : rec[r].status = "deleted" \/ n \in written[r]}

\* ... and what differs from the lines being finalized was written since they were read.
Followed ==
  /\ \A n \in Finalized : Tracks(run[n].lines, run[n].period, run[n].kind, Noted(n))
  /\ fin.run # None => Tracks(fin.lines, run[fin.run].period, policy, fin.raced)

IInv ==
  /\ PaidOnce
  /\ OneShiftAtATime
  /\ Correcting
  /\ InOrder
  /\ Reviewed
  /\ Followed

-----------------------------------------------------------------------------
(* Attendance. *)

\* A row is written whole or in its break and clock-out alone.
LEMMA RowType ==
  ASSUME AttendanceTypeOK, NEW r, NEW row \in Recs, rec' = [rec EXCEPT ![r] = row]
  PROVE  rec' \in [Rec -> Recs]
BY DEF AttendanceTypeOK

\* A correction in flight is one task of its handler.
LEMMA TaskType ==
  ASSUME AttendanceTypeOK, NEW h, NEW work \in Tasks, task' = [task EXCEPT ![h] = work]
  PROVE  task' \in [Handler -> Tasks]
BY DEF AttendanceTypeOK

\* A handler with nothing to do.
LEMMA IdleType == Idle \in Tasks
BY TimeIsPositive DEF Idle, Tasks, Time

\* A clock-in starts a shift of its own: it finds no other open.
LEMMA ClockInStep ==
  ASSUME AttendanceTypeOK, OneShiftAtATime, Correcting, NEW r \in Rec, NEW at \in Time, ClockIn(r, at)
  PROVE  AttendanceTypeOK' /\ OneShiftAtATime' /\ Correcting'
<1> DEFINE row == [NoRec EXCEPT !.status = "live", !.in = at]
<1>1. row \in Recs /\ row.out = None /\ row.status = "live"
  BY DEF Recs, NoRec
<1>2. rec' = [rec EXCEPT ![r] = row] /\ Open = {} /\ task' = task /\ now' = now
  BY DEF ClockIn, NobodyClockedIn
<1> HIDE DEF row
<1>3. rec' \in [Rec -> Recs] /\ rec'[r] = row /\ \A s \in Rec \ {r} : rec'[s] = rec[s]
  BY <1>1, <1>2, RowType DEF AttendanceTypeOK
<1>4. AttendanceTypeOK' /\ Correcting'
  BY <1>2, <1>3 DEF AttendanceTypeOK, Correcting
<1>5. \A s \in Open' : s = r
  BY <1>2, <1>3 DEF Open, Live
<1>6. \A s \in Rec : rec'[s].out # None => ~rec'[s].onBreak
  BY <1>1, <1>3 DEF OneShiftAtATime
<1>7. QED
  BY <1>4, <1>5, <1>6 DEF OneShiftAtATime

\* A clock-out or a break changes the open shift, and ends or keeps it.
LEMMA OpenShiftStep ==
  ASSUME AttendanceTypeOK, OneShiftAtATime, Correcting, NEW r \in Rec,
         ClockOut(r) \/ StartBreak(r) \/ EndBreak(r)
  PROVE  AttendanceTypeOK' /\ OneShiftAtATime' /\ Correcting'
<1>1. rec[r] \in Recs /\ now \in Time /\ r \in Open
  BY DEF AttendanceTypeOK, ClockOut, StartBreak, EndBreak, Active
<1>2. PICK row \in Recs :
        /\ rec' = [rec EXCEPT ![r] = row]
        /\ row.orig = rec[r].orig
        /\ row.out # None => ~row.onBreak
  <2>1. CASE ClockOut(r)
    <3> DEFINE w == [rec[r] EXCEPT !.out = now, !.onBreak = FALSE]
    <3>1. w \in Recs /\ w.orig = rec[r].orig /\ ~w.onBreak
      BY <1>1 DEF Recs
    <3>2. rec' = [rec EXCEPT ![r] = w]
      BY <1>1, <2>1 DEF ClockOut, AfterClockOut, AttendanceTypeOK, Recs
    <3>3. QED
      BY <3>1, <3>2
  <2>2. CASE StartBreak(r)
    <3> DEFINE w == [rec[r] EXCEPT !.onBreak = TRUE]
    <3>1. w \in Recs /\ w.orig = rec[r].orig /\ w.out = None
      BY <1>1 DEF Recs, Open
    <3>2. rec' = [rec EXCEPT ![r] = w]
      BY <2>2 DEF StartBreak
    <3>3. QED
      BY <3>1, <3>2
  <2>3. CASE EndBreak(r)
    <3> DEFINE w == [rec[r] EXCEPT !.onBreak = FALSE]
    <3>1. w \in Recs /\ w.orig = rec[r].orig /\ ~w.onBreak
      BY <1>1 DEF Recs
    <3>2. rec' = [rec EXCEPT ![r] = w]
      BY <2>3 DEF EndBreak
    <3>3. QED
      BY <3>1, <3>2
  <2>4. QED
    BY <2>1, <2>2, <2>3
<1>3. task' = task /\ now' = now
  BY DEF ClockOut, StartBreak, EndBreak
<1>4. rec' \in [Rec -> Recs] /\ rec'[r] = row /\ \A s \in Rec \ {r} : rec'[s] = rec[s]
  BY <1>2, RowType DEF AttendanceTypeOK
<1>5. AttendanceTypeOK' /\ Correcting'
  BY <1>3, <1>4 DEF AttendanceTypeOK, Correcting
<1>6. Open' \subseteq Open
  BY <1>1, <1>4 DEF Open, Live
<1>7. \A s \in Rec : rec'[s].orig = rec[s].orig
  BY <1>2, <1>4
<1>8. \A s \in Rec : rec'[s].out # None => ~rec'[s].onBreak
  BY <1>2, <1>4 DEF OneShiftAtATime
<1>9. QED
  BY <1>5, <1>6, <1>7, <1>8 DEF OneShiftAtATime, Open, Live

\* A correction's copy may be open beside another shift: it says what it corrects.
LEMMA CorrectInsertsStep ==
  ASSUME AttendanceTypeOK, OneShiftAtATime, Correcting, NEW h \in Handler, NEW r \in Rec,
         CorrectInserts(h, r)
  PROVE  AttendanceTypeOK' /\ OneShiftAtATime' /\ Correcting'
<1> DEFINE row == [status |-> "live", in |-> task[h].in, out |-> task[h].out,
                   onBreak |-> FALSE, orig |-> task[h].rec]
<1>1. task[h] \in Tasks /\ task[h].op = "insert" /\ task[h].rec \in Rec
  BY DEF AttendanceTypeOK, CorrectInserts, Correcting
<1>2. row \in Recs /\ row.orig \in Rec /\ row.onBreak = FALSE
  BY <1>1 DEF Recs, Tasks
<1>3. rec' = [rec EXCEPT ![r] = row] /\ task' = [task EXCEPT ![h].op = "delete"] /\ now' = now
  BY DEF CorrectInserts
<1> HIDE DEF row
<1>4. rec' \in [Rec -> Recs] /\ rec'[r] = row /\ \A s \in Rec \ {r} : rec'[s] = rec[s]
  BY <1>2, <1>3, RowType DEF AttendanceTypeOK
<1>5. task' \in [Handler -> Tasks] /\ \A g \in Handler : task'[g].rec = task[g].rec /\ (g # h => task'[g] = task[g])
  <2>1. [task[h] EXCEPT !.op = "delete"] \in Tasks
    BY <1>1 DEF Tasks
  <2>2. QED
    BY <1>1, <1>3, <2>1 DEF AttendanceTypeOK, Tasks
<1>6. AttendanceTypeOK' /\ Correcting'
  BY <1>1, <1>3, <1>4, <1>5 DEF AttendanceTypeOK, Correcting
<1>7. Open' \subseteq Open \cup {r} /\ rec'[r].orig # None
  BY <1>2, <1>4, NoneIsFresh DEF Open, Live
<1>8. \A s \in Rec : rec'[s].out # None => ~rec'[s].onBreak
  BY <1>2, <1>4 DEF OneShiftAtATime
<1>9. \A s, z \in Open' : s # z => rec'[s].orig # None \/ rec'[z].orig # None
  <2>1. \A s \in Open' \ {r} : s \in Open /\ rec'[s] = rec[s]
    BY <1>4, <1>7 DEF Open, Live
  <2>2. QED
    BY <1>7, <2>1 DEF OneShiftAtATime
<1>10. QED
  BY <1>6, <1>8, <1>9 DEF OneShiftAtATime

\* The other steps of a correction open no shift.
LEMMA CorrectStep ==
  ASSUME AttendanceTypeOK, OneShiftAtATime, Correcting, NEW h \in Handler,
         (\E r \in Rec : CorrectReads(h, r)) \/ CorrectDeletes(h) \/ CorrectFails(h)
  PROVE  AttendanceTypeOK' /\ OneShiftAtATime' /\ Correcting'
<1>1. PICK work \in Tasks :
        task' = [task EXCEPT ![h] = work] /\ now' = now /\ (work.op # "none" => work.rec \in Rec)
  <2>1. ASSUME NEW r \in Rec, CorrectReads(h, r)
        PROVE  \E work \in Tasks :
                 task' = [task EXCEPT ![h] = work] /\ now' = now /\ (work.op # "none" => work.rec \in Rec)
    <3>1. PICK in \in 1..now, out \in (1..now) \cup {None} :
            task' = [task EXCEPT ![h] = [op |-> "insert", rec |-> r, in |-> in, out |-> out]]
      BY <2>1 DEF CorrectReads
    <3>2. 1..now \subseteq Time
      BY TimeIsPositive DEF AttendanceTypeOK, Time
    <3> DEFINE w == [op |-> "insert", rec |-> r, in |-> in, out |-> out]
    <3>3. w \in Tasks /\ w.rec \in Rec
      BY <3>2 DEF Tasks
    <3>4. QED
      BY <2>1, <3>1, <3>3 DEF CorrectReads
  <2>2. CASE CorrectDeletes(h) \/ CorrectFails(h)
    <3>1. Idle \in Tasks /\ Idle.op = "none"
      BY IdleType DEF Idle
    <3>2. QED
      BY <2>2, <3>1 DEF CorrectDeletes, CorrectFails
  <2>3. QED
    BY <2>1, <2>2
<1>2. task' \in [Handler -> Tasks] /\ Correcting'
  BY <1>1, TaskType DEF AttendanceTypeOK, Correcting
<1>3. CASE rec' = rec
  BY <1>1, <1>2, <1>3 DEF AttendanceTypeOK, OneShiftAtATime, Open, Live
<1>4. CASE CorrectDeletes(h)
  <2>1. PICK r \in Rec : r = task[h].rec
    BY <1>4 DEF CorrectDeletes, Correcting
  <2>2. rec[r] \in Recs
    BY DEF AttendanceTypeOK
  <2>3. [rec[r] EXCEPT !.status = "deleted"] \in Recs
    BY <2>2 DEF Recs
  <2>4. rec' = [rec EXCEPT ![r] = [rec[r] EXCEPT !.status = "deleted"]]
    BY <1>4, <2>1 DEF CorrectDeletes
  <2>5. rec' \in [Rec -> Recs]
    BY <2>3, <2>4, RowType
  <2>6. /\ rec'[r].status = "deleted" /\ rec'[r].out = rec[r].out /\ rec'[r].onBreak = rec[r].onBreak
        /\ \A s \in Rec \ {r} : rec'[s] = rec[s]
    BY <2>2, <2>4 DEF AttendanceTypeOK, Recs
  <2>7. Open' \subseteq Open \ {r}
    BY <2>6 DEF Open, Live
  <2>8. \A s \in Open' : s \in Open /\ rec'[s] = rec[s]
    BY <2>6, <2>7 DEF Open, Live
  <2>9. \A s \in Rec : rec'[s].out # None => ~rec'[s].onBreak
    BY <2>6 DEF OneShiftAtATime
  <2>10. OneShiftAtATime'
    BY <2>8, <2>9 DEF OneShiftAtATime
  <2>11. QED
    BY <1>1, <1>2, <2>5, <2>10 DEF AttendanceTypeOK
<1>5. QED
  BY <1>3, <1>4 DEF CorrectReads, CorrectFails

\* Every attendance step.
LEMMA AttendanceSteps ==
  ASSUME AttendanceTypeOK, OneShiftAtATime, Correcting, AttendanceNext
  PROVE  AttendanceTypeOK' /\ OneShiftAtATime' /\ Correcting'
<1>1. CASE Tick
  <2>1. now' \in Time /\ rec' = rec /\ task' = task
    BY <1>1, TimeIsPositive DEF Tick, Time, AttendanceTypeOK
  <2>2. QED
    BY <2>1 DEF AttendanceTypeOK, OneShiftAtATime, Open, Live, Correcting
<1>2. QED
  BY <1>1, ClockInStep, OpenShiftStep, CorrectInsertsStep, CorrectStep DEF AttendanceNext

-----------------------------------------------------------------------------
(* Payroll. *)

\* The part of PaidOnce that is about the runs and the claims.
Claims ==
  /\ \A n, m \in Finalized : n # m => /\ run[n].period \cap run[m].period = {}
                                      /\ LinesOf(n) \cap LinesOf(m) = {}
  /\ claim = UNION {LinesOf(n) \X {n} : n \in Finalized}
  /\ \A n \in Finalized : \A k, l \in run[n].lines :
       /\ l.out # None
       /\ k # l => k.out <= l.in \/ l.out <= k.in

\* A record that an attendance step does not touch is as it was, break apart.
LEMMA Untouched ==
  ASSUME AttendanceTypeOK, AttendanceTypeOK', NEW r \in Rec, r \notin Touched
  PROVE  /\ rec'[r].status = rec[r].status
         /\ rec'[r].in = rec[r].in /\ rec'[r].out = rec[r].out
<1>1. rec[r] \in Recs /\ rec'[r] \in Recs
  BY DEF AttendanceTypeOK
<1>2. [rec'[r] EXCEPT !.onBreak = rec[r].onBreak] = rec[r]
  BY DEF Touched
<1>3. PICK u, v : u = rec'[r] /\ v = rec[r]
  OBVIOUS
<1>4. [u EXCEPT !.onBreak = v.onBreak].status = u.status
  BY <1>1, <1>3 DEF Recs
<1>5. [u EXCEPT !.onBreak = v.onBreak].in = u.in /\ [u EXCEPT !.onBreak = v.onBreak].out = u.out
  BY <1>1, <1>3 DEF Recs
<1>6. QED
  BY <1>2, <1>3, <1>4, <1>5

\* Attendance goes on: whatever it writes is noted beside the runs that have it.
LEMMA AttendanceInv ==
  ASSUME IInv, AttendanceStep
  PROVE  IInv'
<1>1. TypeOK /\ Claims
  BY DEF IInv, PaidOnce, Claims
<1>2. AttendanceTypeOK' /\ OneShiftAtATime' /\ Correcting'
  BY <1>1, AttendanceSteps DEF IInv, AttendanceStep, TypeOK
<1>3. /\ run' = run /\ claim' = claim /\ policy' = policy /\ preview' = preview
      /\ written' = [r \in Rec |-> IF r \in Touched THEN Finalized ELSE written[r]]
      /\ fin' = IF Unlocked THEN fin ELSE [fin EXCEPT !.raced = @ \cup Touched]
  BY DEF AttendanceStep
<1>4. Touched \subseteq Rec /\ Finalized \subseteq Run /\ Finalized' = Finalized
  BY <1>3 DEF Touched, Finalized
<1>5. /\ fin' \in [run : Run \cup {None}, lines : SUBSET Lines, raced : SUBSET Rec]
      /\ fin'.run = fin.run /\ fin'.lines = fin.lines
      /\ fin.run # None => fin'.raced = fin.raced \cup Touched
  BY <1>1, <1>3, <1>4 DEF TypeOK, Unlocked
<1>6. written' \in [Rec -> SUBSET Run]
  BY <1>1, <1>3, <1>4 DEF TypeOK
<1>7. TypeOK'
  BY <1>1, <1>2, <1>3, <1>5, <1>6 DEF TypeOK
<1>8. Claims'
  BY <1>1, <1>3, <1>4 DEF Claims, LinesOf
<1>9. InOrder' /\ Reviewed'
  BY <1>3, <1>5 DEF IInv, InOrder, Reviewed
<1>10. \A r \in Rec \ Touched :
         rec'[r].status = rec[r].status /\ rec'[r].in = rec[r].in /\ rec'[r].out = rec[r].out
  BY <1>1, <1>2, Untouched DEF TypeOK
<1>11. \A r \in Rec \ Touched : (r \in Live' <=> r \in Live) /\ Line(r)' = Line(r)
  BY <1>10 DEF Live, Line
<1>12. ASSUME NEW n \in Finalized
       PROVE  Tracks(run[n].lines, run[n].period, run[n].kind, Noted(n))'
  <2>1. Tracks(run[n].lines, run[n].period, run[n].kind, Noted(n))
    BY DEF IInv, Followed
  <2>2. Noted(n) \cup Touched \subseteq Noted(n)'
    BY <1>3, <1>4, <1>10 DEF Noted
  <2>3. run[n].lines \subseteq Lines
    BY <1>1, <1>4 DEF TypeOK, Runs
  <2>4. ASSUME NEW l \in run[n].lines
        PROVE  l.rec \in Noted(n)' \/ (l.rec \in Live' /\ Line(l.rec)' \in run[n].lines)
    BY <1>11, <2>1, <2>2, <2>3 DEF Tracks, Lines
  <2>5. ASSUME NEW r \in BranchRecords(run[n].kind, run[n].period)'
        PROVE  r \in Noted(n)' \/ \E l \in run[n].lines : l.rec = r
    BY <1>3, <1>4, <1>10, <2>1, <2>2 DEF Tracks, BranchRecords, Live
  <2>6. QED
    BY <1>3, <2>4, <2>5 DEF Tracks
<1>13. ASSUME fin.run # None
       PROVE  Tracks(fin.lines, run[fin.run].period, policy, fin.raced)'
  <2>1. Tracks(fin.lines, run[fin.run].period, policy, fin.raced)
    BY <1>13 DEF IInv, Followed
  <2>2. fin.lines \subseteq Lines
    BY <1>1 DEF TypeOK
  <2>3. ASSUME NEW l \in fin.lines
        PROVE  l.rec \in fin'.raced \/ (l.rec \in Live' /\ Line(l.rec)' \in fin.lines)
    BY <1>5, <1>11, <1>13, <2>1, <2>2 DEF Tracks, Lines
  <2>4. ASSUME NEW r \in BranchRecords(policy, run[fin.run].period)'
        PROVE  r \in fin'.raced \/ \E l \in fin.lines : l.rec = r
    BY <1>3, <1>5, <1>10, <1>13, <2>1 DEF Tracks, BranchRecords, Live
  <2>5. QED
    BY <1>3, <1>5, <2>3, <2>4 DEF Tracks
<1>14. Followed'
  BY <1>4, <1>5, <1>12, <1>13 DEF Followed
<1>15. QED
  BY <1>2, <1>7, <1>8, <1>9, <1>14 DEF IInv, PaidOnce, Claims

\* The runs stay and nothing is attended to: a step about previews and locks.
LEMMA RunsStay ==
  ASSUME IInv, TypeOK', Reviewed',
         UNCHANGED <<rec, task, now, run, claim, written>>,
         fin'.run # None =>
           run[fin'.run].status = "draft" /\ Tracks(fin.lines, run[fin.run].period, policy, fin.raced)'
  PROVE  IInv'
<1>1. Claims
  BY DEF IInv, PaidOnce, Claims
<1>2. Finalized' = Finalized
  BY DEF Finalized
<1>3. Claims'
  BY <1>1, <1>2 DEF Claims, LinesOf
<1>4. OneShiftAtATime' /\ Correcting' /\ InOrder'
  BY DEF IInv, OneShiftAtATime, Open, Live, Correcting, InOrder
<1>5. \A n \in Finalized : Tracks(run[n].lines, run[n].period, run[n].kind, Noted(n))'
  BY DEF IInv, Followed, Tracks, Noted, BranchRecords, Live, Line
<1>6. Followed'
  BY <1>2, <1>5 DEF Followed
<1>7. QED
  BY <1>3, <1>4, <1>6 DEF IInv, PaidOnce, Claims

\* savePolicy, getRun, the beginning of finalize and its refusals.
LEMMA PreviewSteps ==
  ASSUME IInv, \/ \E kind \in Kinds : SavePolicy(kind)
               \/ \E n \in Run : Preview(n) \/ FinalizeReads(n)
               \/ FinalizeRefused
  PROVE  IInv'
<1>1. TypeOK
  BY DEF IInv, PaidOnce
<1>2. UNCHANGED <<rec, task, now, run, claim, written>>
  BY DEF SavePolicy, Preview, FinalizeReads, FinalizeRefused
<1>3. AttendanceTypeOK'
  BY <1>1, <1>2 DEF TypeOK, AttendanceTypeOK
<1>4. \A kind, period : {Line(r) : r \in BranchRecords(kind, period)} \subseteq Lines
  BY <1>1 DEF TypeOK, AttendanceTypeOK, BranchRecords, Live, Line, Lines, Recs
<1>5. ASSUME NEW kind \in Kinds, SavePolicy(kind)
      PROVE  IInv'
  <2>1. policy' = kind /\ preview' = NoPreview /\ fin' = fin /\ fin.run = None
    BY <1>5 DEF SavePolicy, Unlocked
  <2>2. TypeOK'
    BY <1>1, <1>2, <1>3, <2>1 DEF TypeOK, NoPreview
  <2>3. Reviewed'
    BY <2>1 DEF Reviewed, NoPreview
  <2>4. QED
    BY <1>2, <2>1, <2>2, <2>3, RunsStay
<1>6. ASSUME NEW n \in Run, Preview(n)
      PROVE  IInv'
  <2> DEFINE lines == {Line(r) : r \in BranchRecords(policy, run[n].period)}
             calc == Calculate(n, lines)
  <2>1. preview' = [run |-> n, calc |-> calc] /\ fin' = fin /\ policy' = policy
    BY <1>6 DEF Preview
  <2>2. calc.lines = lines /\ calc.overlap = {l \in lines : \E r \in Live : Overlap(l, r)}
    BY DEF Calculate
  <2>3. calc \in Calcs
    BY <1>1, <1>4 DEF Calculate, Calcs, TypeOK
  <2>4. ASSUME calc.overlap = {}, NEW k \in lines, NEW l \in lines, k # l
        PROVE  Disjoint(k, l)
    <3>1. PICK q \in Live : k = Line(q)
      BY DEF BranchRecords
    <3>2. PICK r \in Live : l = Line(r)
      BY DEF BranchRecords
    <3>3. ~Overlap(l, q)
      BY <2>2, <2>4, <3>1
    <3>4. /\ l.rec = r /\ l.in = rec[r].in /\ l.out = rec[r].out
          /\ k.in = rec[q].in /\ k.out = rec[q].out /\ q # r
      BY <2>4, <3>1, <3>2 DEF Line
    <3>5. rec[q] \in Recs /\ rec[r] \in Recs
      BY <1>1 DEF TypeOK, AttendanceTypeOK, Live
    <3>6. QED
      BY <3>3, <3>4, <3>5, TimeIsPositive DEF Overlap, Disjoint, Recs, Time
  <2> HIDE DEF lines, calc
  <2>5. Reviewed'
    BY <2>1, <2>2, <2>4 DEF Reviewed, Disjoint
  <2>6. TypeOK'
    BY <1>1, <1>2, <1>3, <2>1, <2>3 DEF TypeOK
  <2>7. fin.run # None =>
          /\ run[fin.run].status = "draft"
          /\ Tracks(fin.lines, run[fin.run].period, policy, fin.raced)'
    BY <1>2, <2>1 DEF IInv, InOrder, Followed, Tracks, BranchRecords, Live, Line
  <2>8. QED
    BY <1>2, <2>1, <2>5, <2>6, <2>7, RunsStay
<1>7. ASSUME NEW n \in Run, FinalizeReads(n)
      PROVE  IInv'
  <2> DEFINE lines == {Line(r) : r \in BranchRecords(policy, run[n].period)}
  <2>1. /\ fin' = [run |-> n, raced |-> {}, lines |-> lines]
        /\ preview' = preview /\ policy' = policy /\ run[n].status = "draft"
    BY <1>7 DEF FinalizeReads
  <2>2. \A l \in lines : l.rec \in Live /\ Line(l.rec) \in lines
    BY DEF Line, BranchRecords
  <2>3. \A r \in BranchRecords(policy, run[n].period) : \E l \in lines : l.rec = r
    <3> TAKE r \in BranchRecords(policy, run[n].period)
    <3>1. Line(r) \in lines
      OBVIOUS
    <3>2. Line(r).rec = r
      BY DEF Line
    <3>3. QED
      BY <3>1, <3>2
  <2>4. lines \subseteq Lines
    BY <1>4
  <2> HIDE DEF lines
  <2>5. TypeOK'
    BY <1>1, <1>2, <1>3, <2>1, <2>4 DEF TypeOK
  <2>6. Reviewed'
    BY <2>1 DEF IInv, Reviewed
  <2>7. Tracks(fin.lines, run[fin.run].period, policy, fin.raced)'
    <3>1. \A l \in lines : l.rec \in Live' /\ Line(l.rec)' \in lines
      BY <1>2, <2>2 DEF Live, Line
    <3>2. \A r \in BranchRecords(policy, run[n].period)' : \E l \in lines : l.rec = r
      BY <1>2, <2>1, <2>3 DEF BranchRecords, Live
    <3>3. fin'.run = n /\ fin'.lines = lines
      BY <2>1
    <3>4. QED
      BY <3>1, <3>2, <3>3 DEF Tracks
  <2>8. QED
    BY <1>2, <2>1, <2>5, <2>6, <2>7, RunsStay
<1>8. CASE FinalizeRefused
  <2>1. fin' = NoFin /\ policy' = policy /\ preview' = preview
    BY <1>8 DEF FinalizeRefused
  <2>2. TypeOK'
    BY <1>1, <1>2, <1>3, <2>1 DEF TypeOK, NoFin
  <2>3. Reviewed'
    BY <2>1 DEF IInv, Reviewed
  <2>4. QED
    BY <1>2, <2>1, <2>2, <2>3, RunsStay DEF NoFin
<1>9. QED
  BY <1>5, <1>6, <1>7, <1>8

\* One row that is not finalized changes under the lock; the finalized ones stay.
LEMMA DraftChanges ==
  ASSUME IInv, Unlocked, NEW n \in Run, run[n].status \in {"none", "draft"},
         NEW row \in Runs, run' = [run EXCEPT ![n] = row],
         row.status \in {"draft", "discarded"},
         row.of # None =>
           row.of \in Finalized /\ row.of # n /\ run[row.of].period = row.period,
         preview' \in {preview, NoPreview},
         UNCHANGED <<rec, task, now, claim, policy, fin, written>>
  PROVE  IInv'
<1>1. TypeOK /\ Claims
  BY DEF IInv, PaidOnce, Claims
<1>2. run' \in [Run -> Runs] /\ run'[n] = row /\ \A m \in Run \ {n} : run'[m] = run[m]
  BY <1>1 DEF TypeOK
<1>3. TypeOK'
  BY <1>1, <1>2 DEF TypeOK, AttendanceTypeOK, NoPreview
<1>4. Finalized' = Finalized /\ n \notin Finalized /\ fin'.run = None
  BY <1>2 DEF Finalized, Unlocked
<1>5. \A m \in Finalized : run'[m] = run[m]
  BY <1>2, <1>4 DEF Finalized
<1>6. Claims'
  <2>1. \A m \in Finalized : LinesOf(m)' = LinesOf(m)
    BY <1>5 DEF LinesOf
  <2>2. claim' = UNION {LinesOf(m)' \X {m} : m \in Finalized}
    BY <1>1, <2>1 DEF Claims
  <2> QED
    BY <1>1, <1>4, <1>5, <2>1, <2>2 DEF Claims
<1>7. InOrder'
  <2>1. ASSUME NEW m \in Run, run'[m].of # None
        PROVE  /\ run'[run'[m].of].status \in {"finalized", "superseded"}
               /\ run'[run'[m].of].period = run'[m].period
    <3>1. CASE m = n
      BY <1>2, <1>5, <2>1, <3>1 DEF Finalized
    <3>2. CASE m # n
      <4>1. /\ run'[m] = run[m] /\ run[run[m].of].status \in {"finalized", "superseded"}
            /\ run[run[m].of].period = run[m].period
        BY <1>2, <2>1, <3>2 DEF IInv, InOrder
      <4>2. run[m].of \in Run \ {n}
        BY <1>1, <2>1, <4>1 DEF TypeOK, Runs
      <4>3. QED
        BY <1>2, <4>1, <4>2
    <3>3. QED
      BY <3>1, <3>2
  <2>2. QED
    BY <1>4, <2>1 DEF InOrder
<1>8. Reviewed'
  BY DEF IInv, Reviewed, NoPreview
<1>9. ASSUME NEW m \in Finalized
      PROVE  Tracks(run[m].lines, run[m].period, run[m].kind, Noted(m))'
  <2>1. Tracks(run[m].lines, run[m].period, run[m].kind, Noted(m))
    BY DEF IInv, Followed
  <2>2. run'[m] = run[m] /\ Noted(m)' = Noted(m)
    BY <1>5 DEF Noted
  <2> QED
    BY <2>1, <2>2 DEF Tracks, BranchRecords, Live, Line
<1>10. Followed'
  BY <1>4, <1>9 DEF Followed
<1>11. OneShiftAtATime' /\ Correcting'
  BY DEF IInv, OneShiftAtATime, Open, Live, Correcting
<1>12. QED
  BY <1>3, <1>6, <1>7, <1>8, <1>10, <1>11 DEF IInv, PaidOnce, Claims

\* createRun, revise, discardRun.
LEMMA DraftSteps ==
  ASSUME IInv, NEW n \in Run,
         \/ \E period \in Periods(policy) : CreateRun(n, period)
         \/ Discard(n)
         \/ \E m \in Run : Revise(n, m)
  PROVE  IInv'
<1>1. TypeOK
  BY DEF IInv, PaidOnce
<1>2. NoRun \in Runs /\ NoRun.of = None
  BY DEF NoRun, Runs, Kinds
<1>3. ASSUME NEW period \in Periods(policy), CreateRun(n, period)
      PROVE  IInv'
  <2> DEFINE row == [NoRun EXCEPT !.status = "draft", !.period = period]
  <2>1. period \in SUBSET Time
    BY DEF Periods
  <2>2. row \in Runs /\ row.status = "draft" /\ row.of = None
    BY <1>2, <2>1 DEF Runs, NoRun
  <2>3. /\ run' = [run EXCEPT ![n] = row] /\ run[n].status = "none" /\ Unlocked
        /\ UNCHANGED <<rec, task, now, claim, policy, preview, fin, written>>
    BY <1>3 DEF CreateRun
  <2> HIDE DEF row
  <2>4. QED
    BY <2>2, <2>3, DraftChanges
<1>4. CASE Discard(n)
  <2> DEFINE row == [NoRun EXCEPT !.status = "discarded"]
  <2>1. row \in Runs /\ row.status = "discarded" /\ row.of = None
    BY <1>2 DEF Runs, NoRun
  <2>2. /\ run' = [run EXCEPT ![n] = row] /\ run[n].status = "draft" /\ Unlocked
        /\ UNCHANGED <<rec, task, now, claim, policy, fin, written>>
        /\ preview' \in {preview, NoPreview}
    BY <1>4 DEF Discard, Discardable, PreviewWithout
  <2> HIDE DEF row
  <2>3. QED
    BY <2>1, <2>2, DraftChanges
<1>5. ASSUME NEW m \in Run, Revise(n, m)
      PROVE  IInv'
  <2> DEFINE row == [NoRun EXCEPT !.status = "draft", !.period = run[m].period, !.of = m]
  <2>1. run[m].period \in SUBSET Time
    BY <1>1 DEF TypeOK, Runs
  <2>2. row \in Runs /\ row.status = "draft" /\ row.of = m /\ row.period = run[m].period
    BY <1>2, <2>1 DEF Runs, NoRun
  <2>3. /\ run' = [run EXCEPT ![n] = row] /\ run[n].status = "none" /\ Unlocked
        /\ m \in Finalized /\ m # n
        /\ UNCHANGED <<rec, task, now, claim, policy, preview, fin, written>>
    BY <1>5 DEF Revise, Finalized
  <2> HIDE DEF row
  <2>4. QED
    BY <2>2, <2>3, DraftChanges
<1>6. QED
  BY <1>3, <1>4, <1>5

\* markPaid
LEMMA MarkPaidStep ==
  ASSUME IInv, NEW n \in Run, MarkPaid(n)
  PROVE  IInv'
<1>1. TypeOK /\ Claims
  BY DEF IInv, PaidOnce, Claims
<1>2. /\ run' = [run EXCEPT ![n] = [run[n] EXCEPT !.paid = TRUE]]
      /\ UNCHANGED <<rec, task, now, claim, policy, preview, fin, written>>
      /\ fin.run = None
  BY DEF MarkPaid, Unlocked
<1>3. [run[n] EXCEPT !.paid = TRUE] \in Runs
  <2>1. run[n] \in Runs
    BY <1>1 DEF TypeOK
  <2>2. QED
    BY <2>1 DEF Runs
<1>4. run' \in [Run -> Runs]
  BY <1>1, <1>2, <1>3 DEF TypeOK
<1>5. \A m \in Run :
        /\ run'[m].status = run[m].status /\ run'[m].period = run[m].period
        /\ run'[m].of = run[m].of /\ run'[m].lines = run[m].lines
        /\ run'[m].kind = run[m].kind /\ run'[m].raced = run[m].raced
  BY <1>1, <1>2 DEF TypeOK, Runs
<1>6. TypeOK'
  BY <1>1, <1>2, <1>4 DEF TypeOK, AttendanceTypeOK
<1>7. Finalized' = Finalized /\ Finalized \subseteq Run
  BY <1>5 DEF Finalized
<1>8. \A m \in Run : LinesOf(m)' = LinesOf(m)
  BY <1>5 DEF LinesOf
<1>9. Claims'
  BY <1>1, <1>2, <1>5, <1>7, <1>8 DEF Claims
<1>10. InOrder' /\ Reviewed'
  BY <1>1, <1>2, <1>5, NoneIsNoRun DEF IInv, InOrder, Reviewed, TypeOK, Runs
<1>11. \A m \in Finalized : Tracks(run[m].lines, run[m].period, run[m].kind, Noted(m))'
  BY <1>2, <1>5, <1>7 DEF IInv, Followed, Tracks, Noted, BranchRecords, Live, Line
<1>12. Followed'
  BY <1>2, <1>7, <1>11 DEF Followed
<1>13. OneShiftAtATime' /\ Correcting'
  BY <1>2 DEF IInv, OneShiftAtATime, Open, Live, Correcting
<1>14. QED
  BY <1>6, <1>9, <1>10, <1>12, <1>13 DEF IInv, PaidOnce, Claims

\* What finalize writes, and what it leaves.
LEMMA FinalizeShape ==
  ASSUME IInv, FinalizeCommits, NEW n, n = fin.run
  PROVE  /\ n \in Run /\ run[n].status = "draft" /\ run[n].of # n
         /\ run[n].of # None => run[n].of \in Finalized
         /\ run' \in [Run -> Runs]
         /\ run'[n].status = "finalized" /\ run'[n].lines = fin.lines
         /\ run'[n].kind = policy /\ run'[n].raced = fin.raced
         /\ \A m \in Run :
              /\ run'[m].period = run[m].period /\ run'[m].of = run[m].of
              /\ m # n => /\ run'[m].lines = run[m].lines /\ run'[m].paid = run[m].paid
                          /\ run'[m].kind = run[m].kind /\ run'[m].raced = run[m].raced
                          /\ run'[m].status = IF m = run[n].of THEN "superseded" ELSE run[m].status
         /\ Finalized' = (Finalized \ {run[n].of}) \cup {n}
<1>1. TypeOK
  BY DEF IInv, PaidOnce
<1>2. n \in Run /\ run[n].status = "draft" /\ run[n] \in Runs
  BY <1>1 DEF FinalizeCommits, IInv, InOrder, TypeOK
<1>3. run[n].of # None => run[n].of \in Finalized
  BY DEF FinalizeCommits
<1>4. run[n].of # n
  BY <1>2, <1>3, NoneIsNoRun DEF Finalized
<1>5. run' = [m \in Run |->
                CASE m = n -> [run[n] EXCEPT !.status = "finalized", !.lines = fin.lines,
                                             !.kind = policy, !.raced = fin.raced]
                  [] m = run[n].of -> [run[m] EXCEPT !.status = "superseded"]
                  [] OTHER -> run[m]]
  BY DEF FinalizeCommits
<1> DEFINE row == [run[n] EXCEPT !.status = "finalized", !.lines = fin.lines,
                                 !.kind = policy, !.raced = fin.raced]
<1>6. /\ row \in Runs /\ row.status = "finalized" /\ row.lines = fin.lines
      /\ row.kind = policy /\ row.raced = fin.raced
      /\ row.period = run[n].period /\ row.of = run[n].of
  BY <1>1, <1>2 DEF TypeOK, Runs
<1>7. run' = [m \in Run |-> IF m = n THEN row
                             ELSE IF m = run[n].of THEN [run[m] EXCEPT !.status = "superseded"]
                             ELSE run[m]]
  BY <1>4, <1>5
<1> HIDE DEF row
<1>8. ASSUME NEW m \in Run, m # n
      PROVE  /\ run'[m] \in Runs
             /\ run'[m].period = run[m].period /\ run'[m].of = run[m].of
             /\ run'[m].lines = run[m].lines /\ run'[m].paid = run[m].paid
             /\ run'[m].kind = run[m].kind /\ run'[m].raced = run[m].raced
             /\ run'[m].status = IF m = run[n].of THEN "superseded" ELSE run[m].status
  <2>1. run[m] \in Runs
    BY <1>1 DEF TypeOK
  <2>2. run'[m] = IF m = run[n].of THEN [run[m] EXCEPT !.status = "superseded"] ELSE run[m]
    BY <1>7, <1>8
  <2>3. QED
    BY <2>1, <2>2 DEF Runs
<1>9. run' \in [Run -> Runs] /\ run'[n] = row
  BY <1>2, <1>6, <1>7, <1>8
<1>10. Finalized' = (Finalized \ {run[n].of}) \cup {n}
  BY <1>2, <1>4, <1>6, <1>8, <1>9 DEF Finalized
<1>11. QED
  BY <1>2, <1>3, <1>4, <1>6, <1>8, <1>9, <1>10

\* finalize: the lines the reviewer saw, claimed by nobody else, for dates that no
\* other finalized run has.
LEMMA FinalizeCommitsStep ==
  ASSUME IInv, FinalizeCommits
  PROVE  IInv'
<1>1. TypeOK /\ Claims
  BY DEF IInv, PaidOnce, Claims
<1>2. PICK n \in Run : n = fin.run
  BY <1>1 DEF FinalizeCommits, TypeOK
<1>3. /\ run[n].status = "draft" /\ run[n].of # n
      /\ run[n].of # None => run[n].of \in Finalized
      /\ run' \in [Run -> Runs]
      /\ run'[n].status = "finalized" /\ run'[n].lines = fin.lines
      /\ run'[n].kind = policy /\ run'[n].raced = fin.raced
      /\ \A m \in Run :
           /\ run'[m].period = run[m].period /\ run'[m].of = run[m].of
           /\ m # n => /\ run'[m].lines = run[m].lines
                       /\ run'[m].kind = run[m].kind /\ run'[m].raced = run[m].raced
                       /\ run'[m].status = IF m = run[n].of THEN "superseded" ELSE run[m].status
      /\ Finalized' = (Finalized \ {run[n].of}) \cup {n}
  BY <1>2, FinalizeShape
<1> DEFINE calc == Calculate(n, fin.lines)
           records == {l.rec : l \in fin.lines}
           held == IF run[n].of = None THEN claim ELSE Released(run[n].of)
<1>4. /\ preview = [run |-> n, calc |-> calc]
      /\ calc.overlap = {} /\ \A l \in fin.lines : l.out # None
      /\ Overlapping(run[n].period) \subseteq {run[n].of}
      /\ \A c \in held : c[1] \notin records
      /\ claim' = held \cup (records \X {n})
      /\ fin' = NoFin /\ preview' = NoPreview
      /\ UNCHANGED <<rec, task, now, policy, written>>
  <2>1. calc.lines = fin.lines
    BY DEF Calculate
  <2>2. QED
    BY <1>2, <2>1 DEF FinalizeCommits, AsReviewed, Blocked, Claimable
<1>5. calc.lines = fin.lines
  BY DEF Calculate
<1>6. \A k, l \in fin.lines : k # l => Disjoint(k, l)
  <2>1. n # None
    BY NoneIsNoRun
  <2> HIDE DEF calc
  <2>2. preview.run = n /\ preview.calc = calc
    BY <1>4
  <2>3. QED
    BY <1>4, <1>5, <2>1, <2>2 DEF IInv, Reviewed
<1>7. n \notin Finalized /\ Finalized \subseteq Run
  BY <1>3 DEF Finalized
<1>8. /\ LinesOf(n)' = records
      /\ \A m \in Finalized : LinesOf(m)' = LinesOf(m)
  BY <1>3, <1>7 DEF LinesOf
<1>9. held = UNION {LinesOf(m) \X {m} : m \in Finalized \ {run[n].of}}
  <2>1. claim = UNION {LinesOf(m) \X {m} : m \in Finalized}
    BY <1>1 DEF Claims
  <2>2. CASE run[n].of = None
    <3>1. Finalized \ {run[n].of} = Finalized
      BY <1>7, <2>2, NoneIsNoRun
    <3>2. QED
      BY <2>1, <2>2, <3>1
  <2>3. CASE run[n].of # None
    <3>1. held = {c \in claim : c[2] # run[n].of}
      BY <2>3 DEF Released
    <3>2. QED
      BY <2>1, <3>1
  <2>4. QED
    BY <2>2, <2>3
<1> HIDE DEF calc, held
<1>10. \A m \in Finalized \ {run[n].of} : LinesOf(m) \cap records = {}
  <2> TAKE m \in Finalized \ {run[n].of}
  <2>1. \A r \in LinesOf(m) : <<r, m>> \in held
    BY <1>9
  <2>2. QED
    BY <1>4, <2>1
<1> HIDE DEF records
<1>11. claim' = UNION {LinesOf(m)' \X {m} : m \in Finalized'}
  BY <1>3, <1>4, <1>7, <1>8, <1>9
<1>12. ASSUME NEW m \in Finalized', NEW k \in Finalized', m # k
       PROVE  run'[m].period \cap run'[k].period = {} /\ LinesOf(m)' \cap LinesOf(k)' = {}
  <2>1. \A q \in Finalized \ {run[n].of} : run[q].period \cap run[n].period = {}
    BY <1>4 DEF Overlapping
  <2>2. \A q \in Finalized' : run'[q].period = run[q].period
    BY <1>3, <1>7
  <2>3. CASE m # n /\ k # n
    BY <1>1, <1>3, <1>8, <1>12, <2>2, <2>3 DEF Claims
  <2>4. CASE m = n /\ k # n
    BY <1>3, <1>8, <1>10, <1>12, <2>1, <2>2, <2>4
  <2>5. CASE m # n /\ k = n
    BY <1>3, <1>8, <1>10, <1>12, <2>1, <2>2, <2>5
  <2>6. QED
    BY <1>12, <2>3, <2>4, <2>5
<1>13. ASSUME NEW m \in Finalized', NEW k \in run'[m].lines, NEW l \in run'[m].lines
       PROVE  l.out # None /\ (k # l => k.out <= l.in \/ l.out <= k.in)
  <2>1. CASE m = n
    BY <1>3, <1>4, <1>6, <1>13, <2>1 DEF Disjoint
  <2>2. CASE m # n
    BY <1>1, <1>3, <1>7, <1>13, <2>2 DEF Claims
  <2>3. QED
    BY <2>1, <2>2
<1>14. Claims'
  BY <1>11, <1>12, <1>13 DEF Claims
<1>15. TypeOK'
  <2>1. records \subseteq Rec
    BY <1>1 DEF TypeOK, Lines, records
  <2>2. held \subseteq Rec \X Run
    BY <1>1 DEF TypeOK, held, Released
  <2>3. claim' \subseteq Rec \X Run
    BY <1>4, <2>1, <2>2
  <2>4. QED
    BY <1>1, <1>3, <1>4, <2>3 DEF TypeOK, AttendanceTypeOK, NoFin, NoPreview
<1>16. InOrder'
  <2>1. ASSUME NEW m \in Run, run'[m].of # None
        PROVE  /\ run'[run'[m].of].status \in {"finalized", "superseded"}
               /\ run'[run'[m].of].period = run'[m].period
    <3>1. /\ run'[m].of = run[m].of /\ run[run[m].of].status \in {"finalized", "superseded"}
          /\ run[run[m].of].period = run[m].period
      BY <1>3, <2>1 DEF IInv, InOrder
    <3>2. run[m].of \in Run
      BY <1>1, <2>1, <3>1 DEF TypeOK, Runs
    <3>3. QED
      BY <1>3, <3>1, <3>2
  <2>2. QED
    BY <1>4, <2>1 DEF InOrder, NoFin
<1>17. Reviewed'
  BY <1>4 DEF Reviewed, NoPreview
<1>18. ASSUME NEW m \in Finalized'
       PROVE  Tracks(run[m].lines, run[m].period, run[m].kind, Noted(m))'
  <2>1. CASE m = n
    <3>1. Tracks(fin.lines, run[n].period, policy, fin.raced)
      BY <1>2, NoneIsNoRun DEF IInv, Followed
    <3>2. fin.raced \subseteq Noted(m)'
      BY <1>3, <2>1 DEF Noted
    <3>3. run'[m].lines = fin.lines /\ run'[m].period = run[n].period /\ run'[m].kind = policy
      BY <1>3, <2>1
    <3>4. /\ Live' = Live /\ \A r \in Rec : Line(r)' = Line(r)
          /\ BranchRecords(run[m].kind, run[m].period)' = BranchRecords(policy, run[n].period)
      BY <1>4, <3>3 DEF BranchRecords, Live, Line
    <3>5. QED
      BY <3>1, <3>2, <3>3, <3>4 DEF Tracks, Live
  <2>2. CASE m # n
    <3>1. m \in Finalized /\ m \in Run
      BY <1>3, <1>7, <1>18, <2>2
    <3>2. /\ run'[m].lines = run[m].lines /\ run'[m].period = run[m].period
          /\ run'[m].kind = run[m].kind /\ run'[m].raced = run[m].raced
      BY <1>3, <2>2, <3>1
    <3>3. Tracks(run[m].lines, run[m].period, run[m].kind, Noted(m)) /\ Noted(m)' = Noted(m)
      BY <1>4, <3>1, <3>2 DEF IInv, Followed, Noted
    <3>4. QED
      BY <1>4, <3>2, <3>3 DEF Tracks, BranchRecords, Live, Line
  <2>3. QED
    BY <2>1, <2>2
<1>19. Followed'
  BY <1>4, <1>18 DEF Followed, NoFin
<1>20. OneShiftAtATime' /\ Correcting'
  BY <1>4 DEF IInv, OneShiftAtATime, Open, Live, Correcting
<1>21. QED
  BY <1>14, <1>15, <1>16, <1>17, <1>19, <1>20 DEF IInv, PaidOnce, Claims

-----------------------------------------------------------------------------
(* The theorems. *)

\* Nobody has worked and nothing is paid at first.
LEMMA Initially == Init => IInv
<1> SUFFICES ASSUME Init PROVE IInv
  OBVIOUS
<1>1. TypeOK
  <2>1. AttendanceTypeOK
    BY TimeIsPositive, IdleType DEF Init, AttendanceInit, AttendanceTypeOK, NoRec, Recs, Time
  <2>2. run \in [Run -> Runs]
    BY DEF Init, NoRun, Runs, Kinds
  <2>3. QED
    BY <2>1, <2>2 DEF Init, TypeOK, NoPreview, NoFin, Kinds
<1>2. Finalized = {} /\ claim = {}
  BY DEF Init, Finalized, NoRun
<1>3. PaidOnce
  BY <1>1, <1>2 DEF PaidOnce
<1>4. OneShiftAtATime /\ Correcting
  BY DEF Init, AttendanceInit, OneShiftAtATime, Open, Live, NoRec, Correcting, Idle
<1>5. InOrder /\ Reviewed /\ Followed
  BY <1>2 DEF Init, InOrder, Reviewed, Followed, NoRun, NoFin, NoPreview
<1>6. QED
  BY <1>3, <1>4, <1>5 DEF IInv

\* Every step keeps the invariant.
LEMMA Inductive == IInv /\ [Next]_vars => IInv'
<1> SUFFICES ASSUME IInv, [Next]_vars PROVE IInv'
  OBVIOUS
<1>1. CASE UNCHANGED vars
  <2>1. UNCHANGED <<rec, task, now, run, claim, written, policy, preview, fin>>
    BY <1>1 DEF vars
  <2>2. TypeOK' /\ Reviewed'
    BY <2>1 DEF IInv, PaidOnce, TypeOK, AttendanceTypeOK, Reviewed
  <2>3. fin.run # None =>
          /\ run[fin.run].status = "draft"
          /\ Tracks(fin.lines, run[fin.run].period, policy, fin.raced)'
    BY <2>1 DEF IInv, InOrder, Followed, Tracks, BranchRecords, Live, Line
  <2>4. QED
    BY <2>1, <2>2, <2>3, RunsStay
<1>2. QED
  BY <1>1, AttendanceInv, PreviewSteps, DraftSteps, MarkPaidStep, FinalizeCommitsStep DEF Next

\* What attendance and payroll rely on holds in every state.
THEOREM Invariance == Spec => []IInv
BY Initially, Inductive, PTL DEF Spec

\* clockIn and clockOut: whatever corrections are in flight, an employee is clocked in once,
\* corrections' copies apart, and no record with a clock-out has an unended break.
THEOREM ClockedInOnce == Spec => []OneShiftAtATime
<1>1. IInv => OneShiftAtATime
  BY DEF IInv
<1>2. QED
  BY Invariance, <1>1, PTL

\* finalize, revise and the unique indexes: however attendance and the policy change
\* between the reads, no date and no shift is paid by two finalized runs.
THEOREM ShiftsArePaidOnce == Spec => []PaidOnce
<1>1. IInv => PaidOnce
  BY DEF IInv
<1>2. QED
  BY Invariance, <1>1, PTL

\* sourceChanges: no later change of paid attendance goes unreported.
THEOREM NoChangeIsMissed == Spec => []ChangesAreFlagged
<1>1. IInv => ChangesAreFlagged
  <2> SUFFICES ASSUME IInv, NEW n \in Finalized,
                      NEW r \in BranchRecords(run[n].kind, run[n].period) \cup LinesOf(n),
                      ~(\E l \in run[n].lines : l.rec \in Live /\ Line(l.rec) = l /\ l.rec = r)
               PROVE  r \in Flagged(n) \cup run[n].raced
    BY DEF ChangesAreFlagged
  <2>1. Tracks(run[n].lines, run[n].period, run[n].kind, Noted(n))
    BY DEF IInv, Followed
  <2>2. r \in LinesOf(n) => \E l \in run[n].lines : l.rec = r
    BY DEF LinesOf
  <2>3. r \in Live /\ Line(r) \in run[n].lines => FALSE
    <3>1. Line(r).rec = r
      BY DEF Line
    <3>2. QED
      BY <3>1
  <2>4. r \in Noted(n)
    BY <2>1, <2>2, <2>3 DEF Tracks
  <2>5. r \in BranchRecords(run[n].kind, run[n].period) => rec[r].status # "deleted"
    BY DEF BranchRecords, Live
  <2>6. QED
    BY <2>4, <2>5 DEF Noted, Flagged
<1>2. QED
  BY Invariance, <1>1, PTL

\* A finalized payroll is never rewritten, and gives way only to its own revision, for
\* the same dates and in the same transaction.
THEOREM FinalizedRunsStay == Spec => FinalizedStays
<1> DEFINE Stays(n) ==
      /\ run'[n].lines = run[n].lines
      /\ run[n].paid => run'[n].paid
      /\ \E m \in Run : run'[m].status = "finalized" /\ run'[m].period = run[n].period
<1>1. ASSUME IInv, [Next]_vars, NEW n \in Finalized
      PROVE  Stays(n)
  <2>1. TypeOK /\ n \in Run /\ run[n].status = "finalized"
    BY <1>1 DEF IInv, PaidOnce, Finalized
  <2>2. CASE run'[n] = run[n]
    BY <2>1, <2>2
  <2>3. ASSUME NEW k \in Run, \/ \E period \in Periods(policy) : CreateRun(k, period)
                              \/ Discard(k)
                              \/ \E m \in Run : Revise(k, m)
        PROVE  run'[n] = run[n]
    BY <2>1, <2>3 DEF CreateRun, Discard, Discardable, Revise, TypeOK
  <2>4. ASSUME NEW k \in Run, MarkPaid(k)
        PROVE  Stays(n)
    <3>1. /\ run'[n].lines = run[n].lines /\ run'[n].status = "finalized"
          /\ run'[n].period = run[n].period /\ (run[n].paid => run'[n].paid)
      BY <2>1, <2>4 DEF MarkPaid, TypeOK, Runs
    <3>2. QED
      BY <2>1, <3>1
  <2>5. CASE FinalizeCommits
    <3>1. PICK k : k = fin.run
      OBVIOUS
    <3>2. /\ k \in Run /\ run[k].status = "draft" /\ run'[k].status = "finalized"
          /\ \A m \in Run :
               /\ run'[m].period = run[m].period
               /\ m # k => /\ run'[m].lines = run[m].lines /\ run'[m].paid = run[m].paid
                           /\ run'[m].status = IF m = run[k].of THEN "superseded" ELSE run[m].status
      BY <1>1, <2>5, <3>1, FinalizeShape
    <3>3. n # k /\ run'[n].lines = run[n].lines /\ (run[n].paid => run'[n].paid)
      BY <2>1, <3>2
    <3>4. CASE n = run[k].of
      <4>1. run[n].period = run[k].period
        BY <1>1, <2>1, <3>2, <3>4, NoneIsNoRun DEF IInv, InOrder
      <4>2. QED
        BY <3>2, <3>3, <4>1
    <3>5. CASE n # run[k].of
      BY <2>1, <3>2, <3>3, <3>5
    <3>6. QED
      BY <3>4, <3>5
  <2>6. CASE run' = run
    BY <2>2, <2>6
  <2>7. QED
    BY <1>1, <2>2, <2>3, <2>4, <2>5, <2>6
       DEF Next, AttendanceStep, SavePolicy, Preview, FinalizeReads, FinalizeRefused, vars
<1>2. IInv /\ [Next]_vars => [\A n \in Finalized : Stays(n)]_vars
  BY <1>1
<1>3. QED
  BY <1>2, Invariance, PTL DEF Spec, FinalizedStays
=============================================================================
