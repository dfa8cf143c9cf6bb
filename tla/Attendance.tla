----------------------------- MODULE Attendance -----------------------------
(***************************************************************************)
(* Clocking in and out: AttendanceService on the tables attendances and    *)
(* attendance_log, with the periods it depends on and the dashboard it     *)
(* feeds.                                                                  *)
(*                                                                         *)
(* One action is one SQL statement with the code up to the next await.     *)
(* A call whose location is turned down or that falls outside every period *)
(* changes nothing and is not started here.  The program makes no record   *)
(* without a check-in, so clockIn never finds one to fill in.  Employees   *)
(* are not hired or dismissed here.                                        *)
(***************************************************************************)
EXTENDS AttendancePeriods, Dashboard, Mishaps

CONSTANTS
  Employee,        \* active rows of employees
  TicksPerMinute,  \* ticks of a minute
  DefaultTolerance,\* the tolerance of a period that has none: 15 minutes
  StartPeriod,     \* the period there is in the beginning
  MaxRecords       \* BOUND on the ids attendances hands out

RecordId == 1 .. MaxRecords

Never == -1  \* checkOut is NULL

MinuteOf(t) == (t % DayLength) \div TicksPerMinute

ASSUME AttendanceAssumption ==
  /\ {DayLength, TicksPerMinute, MaxRetries, MaxPeriods} \subseteq Nat \ {0}
  /\ {DefaultTolerance, MaxTime, MaxEdits, MaxQueue, MaxRecords, MaxMishaps} \subseteq Nat
  /\ IsFiniteSet(Call)
  /\ FreeDay \subseteq Nat
  /\ NewPeriod \subseteq PeriodRow
  /\ StartPeriod \in PeriodRow /\ StartPeriod.from < StartPeriod.to
  /\ \A ed \in PeriodEdit :
       /\ DOMAIN ed \subseteq DOMAIN StartPeriod
       /\ \A k \in DOMAIN ed :
            ed[k] \in IF k \in {"active", "weekend"} THEN BOOLEAN ELSE Nat
  /\ HasUrl \in BOOLEAN

\* A row of attendances.
Record == [emp : Employee, period : PeriodId, date : Day, in : Time,
           out : Time \cup {Never}, status : {"PRESENT", "LATE"}]

\* A row of attendance_log.
Log == [record : RecordId, action : {"CLOCK_IN", "CLOCK_OUT"}, at : Time]

\* getDashboardToday: the rows of the day in the period and who of them is
\* late, the active employees without one, and the tolerance that was applied.
Snapshot == [day : Day, period : PeriodId, tolerance : Nat, rows : SUBSET Record,
             late : SUBSET Employee, absent : SUBSET Employee]

VARIABLES
  records,    \* the table attendances
  recordSeq,  \* the last id handed out by attendances.id
  logs        \* the table attendance_log

sheetVars == <<records, recordSeq, logs, mishaps>>

vars == <<periodVars, dashboardVars, sheetVars>>

ClockCall ==
       [pc : {"readPeriod"}, act : {"in", "out"}, emp : Employee, today : Day]
  \cup [pc : {"checkWorkingDay", "readRecord"}, act : {"in", "out"}, emp : Employee,
        today : Day, period : PeriodId, tolerance : Nat]
  \cup [pc : {"insertRecord"}, row : Record]
  \cup [pc : {"logIn", "logOut", "writeOut"}, id : RecordId, at : Time]
  \cup [pc : {"readDashboardPeriod"}]
  \cup [pc : {"readDashboard"}, period : PeriodId, tolerance : Nat]
  \cup [pc : {"emitDashboard"}, snapshot : Snapshot]

TypeOK ==
  /\ PeriodsTypeOK
  /\ IsTable(calls, Call, PeriodCall \cup ClockCall)
  /\ link \in {Off, Up, Down} \cup 1 .. MaxRetries
  /\ Len(queue) <= MaxQueue
  /\ \A i \in DOMAIN queue : queue[i] \in Snapshot
  /\ room \subseteq Client
  /\ IsTable(screen, Client, Snapshot)
  /\ recordSeq \in 0 .. MaxRecords
  /\ IsTable(records, 1 .. recordSeq, Record)
  /\ \A i \in DOMAIN records : records[i].period \in DOMAIN periods
  /\ \A l \in logs : l \in Log /\ l.record \in DOMAIN records
  /\ mishaps \in 0 .. MaxMishaps

Init ==
  /\ DashboardInit
  /\ now = 0
  /\ periods = Put(<< >>, 1, StartPeriod)
  /\ periodSeq = 1
  /\ holidays = {}
  /\ edits = 0
  /\ calls = << >>
  /\ records = << >>
  /\ recordSeq = 0
  /\ logs = {}
  /\ mishaps = 0

SheetStays == UNCHANGED <<dashboardVars, sheetVars>>

\* transformPeriod, through which getActivePeriod answers: lateToleranceMinutes,
\* or the default for 0 and for NULL.
ToleranceOf(i) ==
  IF periods[i].tolerance = 0 THEN DefaultTolerance ELSE periods[i].tolerance

-----------------------------------------------------------------------------
(* Clocking in and out.                                                    *)

\* The snapshots that calls in flight may still add to the queue.
Clocking ==
  {c \in DOMAIN calls :
     calls[c].pc \in {"readPeriod", "checkWorkingDay", "readRecord", "insertRecord",
                      "logIn", "logOut", "writeOut", "readDashboardPeriod",
                      "readDashboard", "emitDashboard"}}

StartClock(c, act) ==
  /\ Free(c) /\ Listening
  /\ Len(queue) + Cardinality(Clocking) < MaxQueue
  /\ act = "in" => recordSeq + Cardinality(Clocking) < MaxRecords
  /\ \E e \in Employee :
       Goto(c, [pc |-> "readPeriod", act |-> act, emp |-> e, today |-> DayOf(now)])
  /\ PeriodsStay /\ SheetStays

\* POST attendance/clock-in
ClockIn(c) == StartClock(c, "in")

\* POST attendance/clock-out
ClockOut(c) == StartClock(c, "out")

\* getActivePeriod; "No active attendance period found" ends the call.
ReadPeriod(c) ==
  /\ At(c, "readPeriod")
  /\ LET call == calls[c]
     IN  IF ActivePeriods(now) = {}
           THEN Return(c)
           ELSE \E i \in ActivePeriods(now) :
                  Goto(c, [pc |-> "checkWorkingDay", act |-> call.act, emp |-> call.emp,
                           today |-> call.today, period |-> i,
                           tolerance |-> ToleranceOf(i)])
  /\ PeriodsStay /\ SheetStays

\* isWorkingDay, which throws when the period is gone.
CheckWorkingDay(c) ==
  /\ At(c, "checkWorkingDay")
  /\ LET call == calls[c]
     IN  IF call.period \in DOMAIN periods /\ WorkingDay(call.period, call.today)
           THEN Goto(c, [call EXCEPT !.pc = "readRecord"])
           ELSE Return(c)
  /\ PeriodsStay /\ SheetStays

\* Whether findTodayAttendance takes the row for one of that day.
IsOfDay(row, day) == row.date = day \/ DayOf(row.in) = day

RecordsOf(emp, day) ==
  {i \in DOMAIN records : records[i].emp = emp /\ IsOfDay(records[i], day)}

\* ORDER BY "checkIn" DESC LIMIT 1
Newest(ids) == {i \in ids : \A j \in ids : records[j].in <= records[i].in}

\* determineAttendanceStatus, which takes the minute of the check-in.
StatusAt(t, tolerance) == IF MinuteOf(t) > tolerance THEN "LATE" ELSE "PRESENT"

\* Mutant: it is only looked whether the employee is clocked in now.
ReadOpenRecordIn(c) ==
  /\ At(c, "readRecord") /\ calls[c].act = "in"
  /\ LET call == calls[c]
     IN  IF \E i \in RecordsOf(call.emp, call.today) : records[i].out = Never
           THEN Return(c)
           ELSE Goto(c, [pc |-> "insertRecord",
                         row |-> [emp |-> call.emp, period |-> call.period,
                                  date |-> call.today, in |-> now, out |-> Never,
                                  status |-> StatusAt(now, call.tolerance)]])
  /\ PeriodsStay /\ SheetStays

\* "Already clocked in today"; the check-in is the time of this reading.
ReadRecordIn(c) ==
  /\ At(c, "readRecord") /\ calls[c].act = "in"
  /\ LET call == calls[c]
     IN  IF RecordsOf(call.emp, call.today) # {}
           THEN Return(c)
           ELSE Goto(c, [pc |-> "insertRecord",
                         row |-> [emp |-> call.emp, period |-> call.period,
                                  date |-> call.today, in |-> now, out |-> Never,
                                  status |-> StatusAt(now, call.tolerance)]])
  /\ PeriodsStay /\ SheetStays

\* "Must clock in before clocking out"; clocking out again is allowed.
ReadRecordOut(c) ==
  /\ At(c, "readRecord") /\ calls[c].act = "out"
  /\ LET mine == RecordsOf(calls[c].emp, calls[c].today)
     IN  IF mine = {}
           THEN Return(c)
           ELSE \E i \in Newest(mine) :
                  Goto(c, [pc |-> "logOut", id |-> i, at |-> now])
  /\ PeriodsStay /\ SheetStays

\* createAttendance; its period may be gone by now.
InsertRecord(c) ==
  /\ At(c, "insertRecord")
  /\ IF calls[c].row.period \in DOMAIN periods
       THEN /\ recordSeq' = recordSeq + 1
            /\ records' = Put(records, recordSeq', calls[c].row)
            /\ Goto(c, [pc |-> "logIn", id |-> recordSeq', at |-> calls[c].row.in])
       ELSE Return(c) /\ UNCHANGED <<records, recordSeq>>
  /\ UNCHANGED <<logs, mishaps>>
  /\ PeriodsStay /\ UNCHANGED dashboardVars

\* createAttendanceLog, with a foreign key to the record.
WriteLog(c, action, after) ==
  /\ IF calls[c].id \in DOMAIN records
       THEN /\ logs' = logs \cup {[record |-> calls[c].id, action |-> action,
                                   at |-> calls[c].at]}
            /\ Goto(c, after)
       ELSE Return(c) /\ UNCHANGED logs
  /\ UNCHANGED <<records, recordSeq, mishaps>>
  /\ PeriodsStay /\ UNCHANGED dashboardVars

\* Mutant: the log of a check-in is left out.
SkipLogIn(c) ==
  /\ At(c, "logIn")
  /\ Goto(c, [pc |-> "readDashboardPeriod"])
  /\ PeriodsStay /\ SheetStays

LogIn(c) ==
  /\ At(c, "logIn")
  /\ WriteLog(c, "CLOCK_IN", [pc |-> "readDashboardPeriod"])

LogOut(c) ==
  /\ At(c, "logOut")
  /\ WriteLog(c, "CLOCK_OUT", [calls[c] EXCEPT !.pc = "writeOut"])

\* "Always update to latest clock-out time".  For a row that is gone the
\* UPDATE returns nothing, which is looked at only after the dashboard.
WriteOut(c) ==
  /\ At(c, "writeOut")
  /\ records' = IF calls[c].id \in DOMAIN records
                  THEN [records EXCEPT ![calls[c].id].out = calls[c].at]
                  ELSE records
  /\ Goto(c, [pc |-> "readDashboardPeriod"])
  /\ UNCHANGED <<recordSeq, logs, mishaps>>
  /\ PeriodsStay /\ UNCHANGED dashboardVars

-----------------------------------------------------------------------------
(* sendDashboardUpdate.                                                    *)

\* Mutant: the dashboard takes the column lateToleranceMinutes as it is.
ReadRawDashboardPeriod(c) ==
  /\ At(c, "readDashboardPeriod")
  /\ IF ActivePeriods(now) = {}
       THEN Return(c)
       ELSE \E i \in ActivePeriods(now) :
              Goto(c, [pc |-> "readDashboard", period |-> i,
                       tolerance |-> periods[i].tolerance])
  /\ PeriodsStay /\ SheetStays

\* getActivePeriod; what it throws is swallowed and no snapshot is sent.
ReadDashboardPeriod(c) ==
  /\ At(c, "readDashboardPeriod")
  /\ IF ActivePeriods(now) = {}
       THEN Return(c)
       ELSE \E i \in ActivePeriods(now) :
              Goto(c, [pc |-> "readDashboard", period |-> i,
                       tolerance |-> ToleranceOf(i)])
  /\ PeriodsStay /\ SheetStays

TodaysRows(period) ==
  {records[i] : i \in {j \in DOMAIN records : /\ IsOfDay(records[j], DayOf(now))
                                              /\ records[j].period = period}}

\* checkInTime > lateThreshold, to the tick.
ShowsLate(row, tolerance) ==
  row.in > DayOf(now) * DayLength + tolerance * TicksPerMinute

Dashboards(period, tolerance) ==
  LET rows == TodaysRows(period)
  IN  [day |-> DayOf(now), period |-> period, tolerance |-> tolerance, rows |-> rows,
       late |-> {r.emp : r \in {row \in rows : ShowsLate(row, tolerance)}},
       absent |-> Employee \ {r.emp : r \in rows}]

\* getDashboardData, its employees and its attendances.
ReadDashboard(c) ==
  /\ At(c, "readDashboard")
  /\ Goto(c, [pc |-> "emitDashboard",
              snapshot |-> Dashboards(calls[c].period, calls[c].tolerance)])
  /\ PeriodsStay /\ SheetStays

\* Its last query, of the period, and the event.
EmitDashboard(c) ==
  /\ At(c, "emitDashboard")
  /\ Emit(calls[c].snapshot)
  /\ Return(c)
  /\ PeriodsStay /\ UNCHANGED sheetVars

-----------------------------------------------------------------------------
(* Mishaps.                                                                *)

\* What getDashboardData answers when one of its queries fails.
EmptyDashboard(call) ==
  [day |-> DayOf(now), period |-> call.period, tolerance |-> call.tolerance,
   rows |-> {}, late |-> {}, absent |-> {}]

\* A statement fails: the call ends.  What fails after a dashboard was read is
\* as in FailDashboard and left to it.
Fail(c) ==
  /\ c \in DOMAIN calls /\ ~At(c, "readDashboard") /\ ~At(c, "emitDashboard")
  /\ Mishap
  /\ Return(c)
  /\ PeriodsStay /\ UNCHANGED <<dashboardVars, records, recordSeq, logs>>

\* The error of getDashboardData becomes an empty dashboard, which is sent.
FailDashboard(c) ==
  /\ At(c, "readDashboard")
  /\ Mishap
  /\ Emit(EmptyDashboard(calls[c]))
  /\ Return(c)
  /\ PeriodsStay /\ UNCHANGED <<records, recordSeq, logs>>

Crash ==
  /\ Mishap
  /\ Reboot
  /\ calls' = << >>
  /\ PeriodsStay /\ UNCHANGED <<records, recordSeq, logs>>

-----------------------------------------------------------------------------
\* ON DELETE CASCADE takes the records and the logs of a period away with it.
CascadePeriod(c) ==
  /\ DeletePeriod(c)
  /\ LET kept == {i \in DOMAIN records : records[i].period # calls[c].id}
     IN  /\ records' = [i \in kept |-> records[i]]
         /\ logs' = {l \in logs : l.record \in kept}
  /\ UNCHANGED <<dashboardVars, recordSeq, mishaps>>

ClockStep(c) ==
  \/ ReadPeriod(c) \/ CheckWorkingDay(c) \/ ReadRecordIn(c) \/ ReadRecordOut(c)
  \/ InsertRecord(c) \/ LogIn(c) \/ LogOut(c) \/ WriteOut(c)
  \/ ReadDashboardPeriod(c) \/ ReadDashboard(c) \/ EmitDashboard(c)

Administration ==
  /\ Listening
  /\ (\E c \in Call : NewPeriodCall(c)) \/ CreateHoliday \/ UpdateHoliday
       \/ DeleteHoliday
  /\ SheetStays

HandlerStep(c) ==
  ClockStep(c) \/ (PeriodStep(c) /\ SheetStays) \/ CascadePeriod(c)

Delivery ==
  /\ Connect \/ ConnectFails \/ HandleDashboardUpdate
       \/ \E c \in Client : JoinTenant(c) \/ LeaveTenant(c)
  /\ UNCHANGED <<periodVars, sheetVars>>

Next ==
  \/ \E c \in Call : ClockIn(c) \/ ClockOut(c) \/ HandlerStep(c)
                      \/ Fail(c) \/ FailDashboard(c)
  \/ Administration
  \/ Delivery
  \/ Tick /\ SheetStays
  \/ Crash

Spec == Init /\ [][Next]_vars
=============================================================================
