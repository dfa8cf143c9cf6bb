-------------------------- MODULE AttendanceAudit --------------------------
(***************************************************************************)
(* What clocking in and out achieves when a call has the tables to itself, *)
(* and what can become of it when calls overlap, fail half way, or run     *)
(* past a change of the periods.                                           *)
(***************************************************************************)
EXTENDS Attendance, Overlaps

VARIABLES
  doubtful,    \* of each queued snapshot: made by such a call or after an error
  turnedBack,  \* the check-ins whose check-out went back, by employee and time
  retuned      \* the periods whose tolerance was changed

auditVars == <<vars, overlapped, doubtful, turnedBack, retuned>>

AuditInit ==
  Init /\ overlapped = {} /\ doubtful = << >> /\ turnedBack = {} /\ retuned = {}

AuditNext ==
  /\ Next
  /\ overlapped' = IF Cardinality(InFlight') > 1 \/ holidays' # holidays
                     THEN InFlight'
                     ELSE overlapped \cap InFlight'
  /\ doubtful' =
       IF Len(queue') > Len(queue)
         THEN Append(doubtful, ~ \E c \in InFlight : /\ At(c, "emitDashboard")
                                                     /\ Free(c)' /\ Alone(c))
         ELSE IF Len(queue') < Len(queue) THEN Tail(doubtful) ELSE doubtful
  /\ turnedBack' =
       turnedBack \cup
         {<<records[i].emp, records[i].in>> :
            i \in {j \in DOMAIN records \cap DOMAIN records' :
                    records'[j].out < records[j].out}}
  /\ retuned' =
       retuned \cup {i \in DOMAIN periods \cap DOMAIN periods' :
                      ToleranceOf(i)' # ToleranceOf(i)}

AuditSpec == AuditInit /\ [][AuditNext]_auditVars

-----------------------------------------------------------------------------
DaysOf(row) == {row.date, DayOf(row.in)}

\* The pairs of records of one employee that stand for the same day.
DoubleRecords ==
  {pair \in (DOMAIN records) \X (DOMAIN records) :
     /\ pair[1] < pair[2]
     /\ records[pair[1]].emp = records[pair[2]].emp
     /\ DaysOf(records[pair[1]]) \cap DaysOf(records[pair[2]]) # {}}

\* "Already clocked in today": attendances has no unique key and clockIn looks
\* before it inserts, so a second record of an employee for a day, midnight
\* between the two readings of the clock included, needs a call that met
\* another one.
DoubleRecordNeedsARace ==
  DoubleRecords' \ DoubleRecords # {} =>
    \E c \in InFlight : At(c, "insertRecord") /\ ~Alone(c)

\* clockIn writes the record before the log, clockOut the log before the
\* record.  A record without its CLOCK_IN, with no handler about to write it,
\* is the work of a failure.
Unlogged ==
  {i \in DOMAIN records :
     /\ ~ \E l \in logs : l.record = i /\ l.action = "CLOCK_IN"
     /\ ~ \E c \in InFlight : At(c, "logIn") /\ calls[c].id = i}

UnloggedAreCounted == Cardinality(Unlogged) <= mishaps * Cardinality(Call)

\* "Always update to latest clock-out time": the check-out of a record goes
\* back to an earlier time, or behind its newest log with no handler about to
\* catch up, only by a call that met another one or by a failure.
LastOut(i) == {l.at : l \in {x \in logs : x.record = i /\ x.action = "CLOCK_OUT"}}

CaughtUp(i) ==
  \/ \A t \in LastOut(i) : t <= records[i].out
  \/ \E c \in InFlight : At(c, "writeOut") /\ calls[c].id = i

LatestClockOutStands ==
  \A i \in DOMAIN records \cap DOMAIN records' :
    \/ records'[i].out >= records[i].out /\ (CaughtUp(i) => CaughtUp(i)')
    \/ \E c \in InFlight : At(c, "writeOut") /\ ~Alone(c)
    \/ mishaps' > mishaps

\* The checks of isWorkingDay and of getActivePeriod hold for the record made
\* after them: a record for a holiday or a free day needs a call that met an
\* administrator.
RecordsAreForWorkingDays ==
  \A i \in DOMAIN records' \ DOMAIN records :
    WorkingDay(records'[i].period, records'[i].date)
      \/ \E c \in InFlight : At(c, "insertRecord") /\ ~Alone(c)

\* What clockIn and clockOut have looked at still holds when they write, for a
\* call that is alone from its first statement to its last: no second record
\* of a day, none of a day off, no check-out that is not the latest.
ClockingHoldsAlone ==
  [][/\ DoubleRecordNeedsARace
     /\ RecordsAreForWorkingDays
     /\ LatestClockOutStands]_auditVars

\* "Attendance period overlaps with existing period", "Start date must be
\* before end date": checks and writes are separate statements, and a PATCH
\* of one date checks it against the other as it was read.
BadPeriods ==
  {pair \in (DOMAIN periods) \X (DOMAIN periods) :
     IF pair[1] = pair[2]
       THEN periods[pair[1]].from >= periods[pair[1]].to
       ELSE Overlap(periods[pair[1]], periods[pair[2]])}

BadPeriodsNeedARace ==
  BadPeriods' \ BadPeriods # {} =>
    \E c \in InFlight :
      (At(c, "insertPeriod") \/ At(c, "updatePeriod")) /\ ~Alone(c)

\* The scheduler leaves exactly the periods active that cover the moment it
\* looked at, when nobody else was at work: an administrator who switched a
\* current period off finds it on again.
SchedulerSettles ==
  \A c \in InFlight :
    (At(c, "activate") /\ Alone(c) /\ Free(c)' /\ mishaps' = mishaps) =>
      \A i \in DOMAIN periods' :
        periods'[i].active <=> Covers(periods'[i], calls[c].at)

\* Without a race periods neither overlap nor end before they start, and the
\* flag isActive follows the dates whenever the check has run.
PeriodsStayInOrder == [][BadPeriodsNeedARace /\ SchedulerSettles]_auditVars

-----------------------------------------------------------------------------
\* Lateness is decided twice: determineAttendanceStatus stores it when the
\* check-in is made, which it rounds down to the minute, and getDashboardToday
\* works it out again to the tick, each with the tolerance of a period it has
\* read itself.  A snapshot agrees with the table all the same, a check-in in
\* the very minute of the threshold excepted, unless somebody has changed the
\* tolerance of its period.
RecordAndScreenAgreeOnLateness ==
  \A i \in DOMAIN queue :
    queue[i].period \notin retuned =>
      /\ \A row \in queue[i].rows : row.status = "LATE" => row.emp \in queue[i].late
      /\ \A e \in queue[i].late : \E row \in queue[i].rows :
           /\ row.emp = e
           /\ row.status = "LATE" \/ MinuteOf(row.in) = queue[i].tolerance

\* The new snapshot lacks something of a record that the old one had, and not
\* because the table itself has lost it.
FallsBehind(old, new) ==
  \E r \in old.rows :
    /\ <<r.emp, r.in>> \notin turnedBack
    /\ ~ \E q \in new.rows : q.emp = r.emp /\ q.in = r.in /\ q.out >= r.out

\* Snapshots carry no version and the screen takes the last one that arrives.
\* On one day of one period a screen falls behind what it showed before only
\* by a snapshot of a call that met another one, which read the table before
\* the other and sent after it, or by the empty one that an error is turned
\* into; or because a check-out went back in the table itself, by a call that
\* wrote an earlier one after a later and then sent nothing.
ScreensFallBehindForACause ==
  [][\A c \in DOMAIN screen :
       (/\ screen'[c] # screen[c]
        /\ screen'[c].day = screen[c].day /\ screen'[c].period = screen[c].period
        /\ FallsBehind(screen[c], screen'[c]))
       => Head(doubtful)]_auditVars
=============================================================================
