------------------------- MODULE AttendancePeriods -------------------------
(***************************************************************************)
(* The attendance periods and holidays of one tenant, their                *)
(* administration, and the check of AttendancePeriodScheduler that         *)
(* switches periods on and off.                                            *)
(*                                                                         *)
(* Time is counted in ticks, of which several make a minute.  The clock    *)
(* and the table of calls in flight are shared with module Attendance,     *)
(* whose handlers read the periods.                                        *)
(***************************************************************************)
EXTENDS Handlers

CONSTANTS
  DayLength,   \* ticks of a day
  MaxTime,     \* BOUND on the clock
  FreeDay,     \* the days that fall on a weekend
  NewPeriod,   \* the bodies of POST attendance-periods
  PeriodEdit,  \* the bodies of PATCH attendance-periods/:id
  MaxPeriods,  \* BOUND on the ids attendance_period hands out
  MaxEdits     \* BOUND on the calls that change periods or holidays

Time == 0 .. MaxTime

DayOf(t) == t \div DayLength

Day == 0 .. DayOf(MaxTime)

PeriodId == 1 .. MaxPeriods

\* startDate, endDate, isActive, allowSaturdayWork/allowSundayWork and
\* lateToleranceMinutes; the day begins at workingStartTime.
PeriodRow ==
  [from : Nat, to : Nat, active : BOOLEAN, weekend : BOOLEAN, tolerance : Nat]

VARIABLES
  now,        \* the clock of the application and of the database
  periods,    \* the table attendance_period
  periodSeq,  \* the last id handed out by attendance_period.id
  holidays,   \* the table holiday: days off, national or of the period
  edits       \* how many calls have changed periods or holidays

periodVars == <<now, periods, periodSeq, holidays, edits, calls>>

PeriodCall ==
       [pc : {"checkNewPeriod", "insertPeriod"}, row : PeriodRow]
  \cup [pc : {"checkDates", "updatePeriod"}, id : PeriodId, edit : PeriodEdit,
        from : Nat, to : Nat]
  \cup [pc : {"deletePeriod"}, id : PeriodId]
  \cup [pc : {"deactivate", "activate"}, at : Time]

PeriodsTypeOK ==
  /\ now \in Time
  /\ periodSeq \in 0 .. MaxPeriods
  /\ IsTable(periods, 1 .. periodSeq, PeriodRow)
  /\ holidays \subseteq Day
  /\ edits \in 0 .. MaxEdits

-----------------------------------------------------------------------------
(* Helpers.                                                                *)

PeriodsStay == UNCHANGED <<now, periods, periodSeq, holidays, edits>>

Covers(p, t) == p.from <= t /\ t <= p.to

Overlap(p, q) == p.from <= q.to /\ q.from <= p.to

\* getActivePeriod: the answers of a LIMIT 1 without an ORDER BY.
ActivePeriods(t) ==
  {i \in DOMAIN periods : periods[i].active /\ Covers(periods[i], t)}

\* isWorkingDay, its two reads in one.
WorkingDay(i, day) ==
  /\ day \in FreeDay => periods[i].weekend
  /\ day \notin holidays

CountEdit == edits < MaxEdits /\ edits' = edits + 1

-----------------------------------------------------------------------------
(* Administration.                                                         *)

\* The calls that may still insert a period, for the bound on ids.
Creating == {c \in DOMAIN calls : calls[c].pc \in {"checkNewPeriod", "insertPeriod"}}

\* POST attendance-periods, "Start date must be before end date".
CreatePeriod(c) ==
  /\ Free(c)
  /\ periodSeq + Cardinality(Creating) < MaxPeriods
  /\ CountEdit
  /\ \E row \in NewPeriod :
       row.from < row.to /\ Goto(c, [pc |-> "checkNewPeriod", row |-> row])
  /\ UNCHANGED <<now, periods, periodSeq, holidays>>

\* "Attendance period overlaps with existing period"
CheckNewPeriod(c) ==
  /\ At(c, "checkNewPeriod")
  /\ IF \E i \in DOMAIN periods : Overlap(periods[i], calls[c].row)
       THEN Return(c)
       ELSE Goto(c, [calls[c] EXCEPT !.pc = "insertPeriod"])
  /\ PeriodsStay

InsertPeriod(c) ==
  /\ At(c, "insertPeriod")
  /\ periodSeq' = periodSeq + 1
  /\ periods' = Put(periods, periodSeq', calls[c].row)
  /\ Return(c)
  /\ UNCHANGED <<now, holidays, edits>>

SetsDates(edit) == DOMAIN edit \cap {"from", "to"} # {}

\* Mutant: PATCH checks only the start date it is given.
EditUnchecked(c) ==
  /\ Free(c)
  /\ CountEdit
  /\ \E i \in DOMAIN periods, ed \in PeriodEdit :
       Goto(c, [pc |-> "updatePeriod", id |-> i, edit |-> ed,
                from |-> Setting(ed, "from", periods[i].from),
                to |-> Setting(ed, "to", periods[i].to)])
  /\ UNCHANGED <<now, periods, periodSeq, holidays>>

\* PATCH attendance-periods/:id; the date that is not given is the one read.
EditPeriod(c) ==
  /\ Free(c)
  /\ CountEdit
  /\ \E i \in DOMAIN periods, ed \in PeriodEdit :
       LET from == Setting(ed, "from", periods[i].from)
           to   == Setting(ed, "to", periods[i].to)
       IN  /\ SetsDates(ed) => from < to
           /\ Goto(c, [pc |-> IF SetsDates(ed) THEN "checkDates" ELSE "updatePeriod",
                       id |-> i, edit |-> ed, from |-> from, to |-> to])
  /\ UNCHANGED <<now, periods, periodSeq, holidays>>

\* "Updated attendance period would overlap with existing period"
CheckDates(c) ==
  /\ At(c, "checkDates")
  /\ IF \E i \in DOMAIN periods \ {calls[c].id} : Overlap(periods[i], calls[c])
       THEN Return(c)
       ELSE Goto(c, [calls[c] EXCEPT !.pc = "updatePeriod"])
  /\ PeriodsStay

\* Only the columns of the body are written.
UpdatePeriod(c) ==
  /\ At(c, "updatePeriod")
  /\ LET ed == calls[c].edit
         i  == calls[c].id
     IN  periods' = IF i \notin DOMAIN periods
                      THEN periods
                      ELSE [periods EXCEPT
                              ![i] = [k \in DOMAIN @ |-> Setting(ed, k, @[k])]]
  /\ Return(c)
  /\ UNCHANGED <<now, periodSeq, holidays, edits>>

\* DELETE attendance-periods/:id, its lookup.
RemovePeriod(c) ==
  /\ Free(c)
  /\ CountEdit
  /\ \E i \in DOMAIN periods : Goto(c, [pc |-> "deletePeriod", id |-> i])
  /\ UNCHANGED <<now, periods, periodSeq, holidays>>

\* The DELETE; the records of the period go with it, see module Attendance.
DeletePeriod(c) ==
  /\ At(c, "deletePeriod")
  /\ periods' = [i \in DOMAIN periods \ {calls[c].id} |-> periods[i]]
  /\ Return(c)
  /\ UNCHANGED <<now, periodSeq, holidays, edits>>

\* POST attendance-periods/holidays
CreateHoliday ==
  /\ CountEdit
  /\ \E d \in Day \ holidays : holidays' = holidays \cup {d}
  /\ UNCHANGED <<now, periods, periodSeq, calls>>

\* PATCH attendance-periods/holidays/:id with another date
UpdateHoliday ==
  /\ CountEdit
  /\ \E d \in holidays, moved \in Day \ holidays :
       holidays' = (holidays \ {d}) \cup {moved}
  /\ UNCHANGED <<now, periods, periodSeq, calls>>

\* DELETE attendance-periods/holidays/:id
DeleteHoliday ==
  /\ CountEdit
  /\ \E d \in holidays : holidays' = holidays \ {d}
  /\ UNCHANGED <<now, periods, periodSeq, calls>>

-----------------------------------------------------------------------------
(* AttendancePeriodScheduler.                                              *)

\* POST attendance-periods/scheduler/run-check; one `now' for both UPDATEs.
RunPeriodsCheck(c) ==
  /\ Free(c)
  /\ CountEdit
  /\ Goto(c, [pc |-> "deactivate", at |-> now])
  /\ UNCHANGED <<now, periods, periodSeq, holidays>>

SetActive(ids, value) ==
  periods' = [i \in DOMAIN periods |->
                IF i \in ids THEN [periods[i] EXCEPT !.active = value] ELSE periods[i]]

\* Find and deactivate periods that should not be active.
Deactivate(c) ==
  /\ At(c, "deactivate")
  /\ SetActive({i \in DOMAIN periods : ~Covers(periods[i], calls[c].at)}, FALSE)
  /\ Goto(c, [calls[c] EXCEPT !.pc = "activate"])
  /\ UNCHANGED <<now, periodSeq, holidays, edits>>

\* Find and activate periods that should be active.
Activate(c) ==
  /\ At(c, "activate")
  /\ SetActive({i \in DOMAIN periods : Covers(periods[i], calls[c].at)}, TRUE)
  /\ Return(c)
  /\ UNCHANGED <<now, periodSeq, holidays, edits>>

Tick ==
  /\ now < MaxTime
  /\ now' = now + 1
  /\ UNCHANGED <<periods, periodSeq, holidays, edits, calls>>

NewPeriodCall(c) ==
  CreatePeriod(c) \/ EditPeriod(c) \/ RemovePeriod(c) \/ RunPeriodsCheck(c)

PeriodStep(c) ==
  \/ CheckNewPeriod(c) \/ InsertPeriod(c) \/ CheckDates(c) \/ UpdatePeriod(c)
  \/ Deactivate(c) \/ Activate(c)
=============================================================================
