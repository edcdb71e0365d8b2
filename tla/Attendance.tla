----------------------------- MODULE Attendance ------------------------------
(***************************************************************************)
(* One employee's attendance records at one branch (attendance.service.ts).*)
(* Clock-in, clock-out, Start Break and Resume Work each read and write    *)
(* under the employee's advisory lock, attendanceOpenSessionLockId, in a   *)
(* transaction of their own.  A manual correction takes no lock and is     *)
(* three statements apart: it reads the record, inserts a corrected copy,  *)
(* and deletes the original softly.                                        *)
(***************************************************************************)
EXTENDS Naturals

CONSTANTS Rec,      \* attendance_records rows
          Handler,  \* corrections in flight at the same time
          MaxTime,  \* bound: instants that matter
          None

ASSUME NoneIsFresh == None \notin Rec \cup Handler \cup Nat
ASSUME TimeIsPositive == MaxTime \in Nat \ {0}

VARIABLES rec,   \* the rows, with their breaks
          task,  \* what each correction in flight has read or written
          now

attendanceVars == <<rec, task, now>>

Time == 1..MaxTime

Recs == [status : {"none", "live", "deleted"},
         in : Time, out : Time \cup {None},      \* clock_in/out_server_time
         onBreak : BOOLEAN,                      \* its latest break has no end
         orig : Rec \cup {None}]                 \* original_record_id

NoRec == [status |-> "none", in |-> 1, out |-> None, onBreak |-> FALSE, orig |-> None]

Tasks == [op : {"none", "insert", "delete"}, rec : Rec \cup {None}, in : Time, out : Time \cup {None}]
Idle == [op |-> "none", rec |-> None, in |-> 1, out |-> None]

Live == {r \in Rec : rec[r].status = "live"}
Open == {r \in Live : rec[r].out = None}

\* findActiveRecord: the newest clock-in of the open records.
Active(r) == r \in Open /\ \A s \in Open : rec[s].in <= rec[r].in

AttendanceTypeOK ==
  /\ rec \in [Rec -> Recs]
  /\ task \in [Handler -> Tasks]
  /\ now \in Time

AttendanceInit ==
  /\ rec = [r \in Rec |-> NoRec]
  /\ task = [h \in Handler |-> Idle]
  /\ now = 1
-----------------------------------------------------------------------------
\* Mutant: the check is not repeated under the lock.
NobodyClockedInUnlocked == TRUE

NobodyClockedIn == Open = {}

\* clockIn: the time is taken before the transaction, the check that counts in it.
ClockIn(r, at) ==
  /\ rec[r].status = "none"
  /\ at <= now /\ NobodyClockedIn
  /\ rec' = [rec EXCEPT ![r] = [NoRec EXCEPT !.status = "live", !.in = at]]
  /\ UNCHANGED <<task, now>>

AfterClockOut(onBreak) == FALSE

\* clockOut's transaction: the open break ends with the shift.
ClockOut(r) ==
  /\ Active(r) /\ rec[r].in <= now
  /\ rec' = [rec EXCEPT ![r].out = now, ![r].onBreak = AfterClockOut(@)]
  /\ UNCHANGED <<task, now>>

StartBreak(r) ==
  /\ Active(r) /\ ~rec[r].onBreak
  /\ rec' = [rec EXCEPT ![r].onBreak = TRUE]
  /\ UNCHANGED <<task, now>>

EndBreak(r) ==
  /\ Active(r) /\ rec[r].onBreak
  /\ rec' = [rec EXCEPT ![r].onBreak = FALSE]
  /\ UNCHANGED <<task, now>>

\* manualOverride reads the record and settles on the corrected times.
CorrectReads(h, r) ==
  /\ task[h].op = "none"
  /\ r \in Live /\ ~(r \in Open /\ rec[r].onBreak)
  /\ \E in \in 1..now, out \in (1..now) \cup {None} :
       /\ out # None => in <= out
       /\ <<in, out>> # <<rec[r].in, rec[r].out>>
       /\ task' = [task EXCEPT ![h] = [op |-> "insert", rec |-> r, in |-> in, out |-> out]]
  /\ UNCHANGED <<rec, now>>

\* createOverride: the corrected copy, whatever became of the original meanwhile.
CorrectInserts(h, r) ==
  /\ task[h].op = "insert" /\ rec[r].status = "none"
  /\ rec' = [rec EXCEPT ![r] = [status |-> "live", in |-> task[h].in, out |-> task[h].out,
                                onBreak |-> FALSE, orig |-> task[h].rec]]
  /\ task' = [task EXCEPT ![h].op = "delete"]
  /\ UNCHANGED now

\* softDelete
CorrectDeletes(h) ==
  /\ task[h].op = "delete"
  /\ rec' = [rec EXCEPT ![task[h].rec].status = "deleted"]
  /\ task' = [task EXCEPT ![h] = Idle]
  /\ UNCHANGED now

\* The request dies between two statements.
CorrectFails(h) ==
  /\ task[h].op # "none"
  /\ task' = [task EXCEPT ![h] = Idle]
  /\ UNCHANGED <<rec, now>>

Tick == now < MaxTime /\ now' = now + 1 /\ UNCHANGED <<rec, task>>

AttendanceNext ==
  \/ \E r \in Rec : \/ \E at \in Time : ClockIn(r, at)
                    \/ ClockOut(r) \/ StartBreak(r) \/ EndBreak(r)
                    \/ \E h \in Handler : CorrectReads(h, r) \/ CorrectInserts(h, r)
  \/ \E h \in Handler : CorrectDeletes(h) \/ CorrectFails(h)
  \/ Tick

AttendanceSpec == AttendanceInit /\ [][AttendanceNext]_attendanceVars
-----------------------------------------------------------------------------
\* Clock-ins that race each other, a clock-out or a break never leave one employee clocked
\* in twice: two records are open at once only through a correction.  And no record with a
\* clock-out has an unended break, whatever breaks and corrections it raced with: a payroll
\* would refuse the shift (OPEN_BREAK), and endBreak, which asks for an open one, could not
\* help it any more.  A record replaced while still open may keep such a break, if it began
\* after manualOverride looked for one (attendance.service.ts:533-541).
\* (clockIn 261-275, clockOut 337-356.)
OneShiftAtATime ==
  /\ \A r, s \in Open : r # s => rec[r].orig # None \/ rec[s].orig # None
  /\ \A r \in Rec : rec[r].out # None => ~rec[r].onBreak
=============================================================================

