------------------------ MODULE AttendanceAudit_proofs ------------------------
(***************************************************************************)
(* Proofs about Attendance and AttendanceAudit, for any number of          *)
(* employees, browsers, periods, records and calls, every length of the    *)
(* day and of the minute, and every body an administrator can send.        *)
(***************************************************************************)
EXTENDS AttendanceAudit, Tables_proofs, FiniteSetTheorems, TLAPS

-----------------------------------------------------------------------------
(* Days.                                                                   *)

LEMMA Lengths ==
  /\ DayLength \in Nat /\ DayLength > 0 /\ TicksPerMinute \in Nat /\ TicksPerMinute > 0
  /\ MaxRetries \in Nat /\ MaxRetries > 0 /\ MaxPeriods \in Nat /\ MaxPeriods > 0
  /\ DefaultTolerance \in Nat /\ MaxTime \in Nat /\ MaxEdits \in Nat /\ MaxQueue \in Nat
  /\ MaxRecords \in Nat /\ MaxMishaps \in Nat
BY AttendanceAssumption

LEMMA QuotientOf ==
  ASSUME NEW t \in Nat, NEW n \in Nat, n > 0
  PROVE  /\ t \div n \in Nat /\ t % n \in Nat /\ t % n < n
         /\ t = n * (t \div n) + (t % n)
OBVIOUS

LEMMA QuotientsOrdered ==
  ASSUME NEW s \in Nat, NEW t \in Nat, s <= t, NEW n \in Nat, n > 0
  PROVE  s \div n <= t \div n
<1>1. PICK a \in Nat, b \in Nat, x \in Nat, y \in Nat :
        /\ a = s \div n /\ b = t \div n /\ x < n /\ y < n
        /\ s = n * a + x /\ t = n * b + y
  BY QuotientOf
<1>2. SUFFICES ASSUME a >= b + 1 PROVE FALSE
  BY <1>1
<1>3. PICK k \in Nat : a = b + 1 + k
  <2>1. a - (b + 1) \in Nat /\ a = b + 1 + (a - (b + 1))
    BY <1>2
  <2> QED  BY <2>1
<1>4. n * a = n * b + n + n * k /\ n * k \in Nat /\ n * b \in Nat
  BY <1>3
<1> QED  BY <1>1, <1>4

LEMMA DaysOfTime ==
  ASSUME NEW t \in Time
  PROVE  t \in Nat /\ DayOf(t) \in Day /\ DayOf(t) \in Nat
<1>1. t \in Nat /\ t <= MaxTime
  BY Lengths DEF Time
<1>2. DayOf(t) \in Nat /\ DayOf(MaxTime) \in Nat
  BY <1>1, Lengths, QuotientOf DEF DayOf
<1>3. DayOf(t) <= DayOf(MaxTime)
  BY <1>1, Lengths, QuotientsOrdered DEF DayOf
<1> QED  BY <1>1, <1>2, <1>3 DEF Day

-----------------------------------------------------------------------------
(* The records of calls.                                                   *)

CallRecord == PeriodCall \cup ClockCall

ReadLabels == {"checkWorkingDay", "readRecord"}

WriteLabels == {"logIn", "logOut", "writeOut"}

LEMMA PeriodCallByLabel ==
  ASSUME NEW call \in CallRecord
  PROVE  /\ call.pc \in {"checkNewPeriod", "insertPeriod"} =>
              call \in [pc : {"checkNewPeriod", "insertPeriod"}, row : PeriodRow]
         /\ call.pc \in {"checkDates", "updatePeriod"} =>
              call \in [pc : {"checkDates", "updatePeriod"}, id : PeriodId,
                        edit : PeriodEdit, from : Nat, to : Nat]
         /\ call.pc = "deletePeriod" => call \in [pc : {"deletePeriod"}, id : PeriodId]
         /\ call.pc \in {"deactivate", "activate"} =>
              call \in [pc : {"deactivate", "activate"}, at : Time]
BY DEF CallRecord, PeriodCall, ClockCall

LEMMA ClockCallByLabel ==
  ASSUME NEW call \in CallRecord
  PROVE  /\ call.pc = "readPeriod" =>
              call \in [pc : {"readPeriod"}, act : {"in", "out"}, emp : Employee, today : Day]
         /\ call.pc \in ReadLabels =>
              call \in [pc : ReadLabels, act : {"in", "out"}, emp : Employee,
                        today : Day, period : PeriodId, tolerance : Nat]
         /\ call.pc = "insertRecord" => call \in [pc : {"insertRecord"}, row : Record]
         /\ call.pc \in WriteLabels => call \in [pc : WriteLabels, id : RecordId, at : Time]
         /\ call.pc = "readDashboard" =>
              call \in [pc : {"readDashboard"}, period : PeriodId, tolerance : Nat]
         /\ call.pc = "emitDashboard" =>
              call \in [pc : {"emitDashboard"}, snapshot : Snapshot]
BY DEF CallRecord, PeriodCall, ClockCall, ReadLabels, WriteLabels

LEMMA PeriodCallRecords ==
  /\ \A row \in PeriodRow, pc \in {"checkNewPeriod", "insertPeriod"} :
       [pc |-> pc, row |-> row] \in CallRecord
  /\ \A i \in PeriodId, ed \in PeriodEdit, f \in Nat, t \in Nat,
        pc \in {"checkDates", "updatePeriod"} :
       [pc |-> pc, id |-> i, edit |-> ed, from |-> f, to |-> t] \in CallRecord
  /\ \A i \in PeriodId : [pc |-> "deletePeriod", id |-> i] \in CallRecord
  /\ \A t \in Time, pc \in {"deactivate", "activate"} :
       [pc |-> pc, at |-> t] \in CallRecord
BY DEF CallRecord, PeriodCall

LEMMA ClockCallRecords ==
  /\ \A act \in {"in", "out"}, e \in Employee, d \in Day :
       [pc |-> "readPeriod", act |-> act, emp |-> e, today |-> d] \in CallRecord
  /\ \A act \in {"in", "out"}, e \in Employee, d \in Day, i \in PeriodId, n \in Nat,
        pc \in ReadLabels :
       [pc |-> pc, act |-> act, emp |-> e, today |-> d, period |-> i, tolerance |-> n]
         \in CallRecord
  /\ \A row \in Record : [pc |-> "insertRecord", row |-> row] \in CallRecord
  /\ \A i \in RecordId, t \in Time, pc \in WriteLabels :
       [pc |-> pc, id |-> i, at |-> t] \in CallRecord
  /\ [pc |-> "readDashboardPeriod"] \in CallRecord
  /\ \A i \in PeriodId, n \in Nat :
       [pc |-> "readDashboard", period |-> i, tolerance |-> n] \in CallRecord
  /\ \A s \in Snapshot : [pc |-> "emitDashboard", snapshot |-> s] \in CallRecord
BY DEF CallRecord, ClockCall, ReadLabels, WriteLabels

-----------------------------------------------------------------------------
(* What a step does to the calls.                                          *)

Starts(c) == ClockIn(c) \/ ClockOut(c) \/ (NewPeriodCall(c) /\ SheetStays)

Moves(c) == HandlerStep(c) \/ Fail(c) \/ FailDashboard(c)

HolidayChange == (CreateHoliday \/ UpdateHoliday \/ DeleteHoliday) /\ SheetStays

Elsewhere == HolidayChange \/ Delivery \/ (Tick /\ SheetStays) \/ UNCHANGED vars

LEMMA StepOfAttendance ==
  ASSUME [Next]_vars
  PROVE  (\E c \in Call : Starts(c) \/ Moves(c)) \/ Crash \/ Elsewhere
<1>1. CASE \E c \in Call : ClockIn(c) \/ ClockOut(c) \/ HandlerStep(c)
                             \/ Fail(c) \/ FailDashboard(c)
  BY <1>1 DEF Starts, Moves
<1>2. CASE Administration
  <2>1. CASE \E c \in Call : NewPeriodCall(c)
    BY <1>2, <2>1 DEF Administration, Starts
  <2>2. CASE CreateHoliday \/ UpdateHoliday \/ DeleteHoliday
    BY <1>2, <2>2 DEF Administration, Elsewhere, HolidayChange
  <2> QED  BY <1>2, <2>1, <2>2 DEF Administration
<1>3. CASE Delivery \/ (Tick /\ SheetStays) \/ UNCHANGED vars
  BY <1>3 DEF Elsewhere
<1> QED  BY <1>1, <1>2, <1>3 DEF Next

\* A handler starts: nothing but its own record is written, and the count of
\* changes if it is an administrator's.
LEMMA StartsFrame ==
  ASSUME NEW c \in Call, Starts(c)
  PROVE  /\ c \notin DOMAIN calls /\ DOMAIN calls' = DOMAIN calls \cup {c}
         /\ OnlyRow(calls, calls', c)
         /\ UNCHANGED <<now, periods, periodSeq, holidays, dashboardVars, sheetVars>>
<1>1. \E rec : calls' = Put(calls, c, rec)
  BY DEF Starts, ClockIn, ClockOut, StartClock, NewPeriodCall, CreatePeriod, EditPeriod,
         RemovePeriod, RunPeriodsCheck, Goto
<1>2. Free(c) /\ UNCHANGED <<now, periods, periodSeq, holidays, dashboardVars, sheetVars>>
  BY DEF Starts, ClockIn, ClockOut, StartClock, NewPeriodCall, CreatePeriod, EditPeriod,
         RemovePeriod, RunPeriodsCheck, PeriodsStay, SheetStays
<1> QED  BY <1>1, <1>2, WritesOneRow DEF Put, Free

\* A handler goes on or ends: no other call is touched.
LEMMA MovesFrame ==
  ASSUME NEW c \in Call, Moves(c)
  PROVE  /\ c \in DOMAIN calls /\ DOMAIN calls' \subseteq DOMAIN calls
         /\ DOMAIN calls \ {c} \subseteq DOMAIN calls'
         /\ OnlyRow(calls, calls', c)
         /\ UNCHANGED <<now, holidays, edits, link, room, screen>>
<1>1. c \in DOMAIN calls /\ (Return(c) \/ \E rec : Goto(c, rec))
  <2>1. CASE ClockStep(c)
    BY <2>1 DEF ClockStep, ReadPeriod, CheckWorkingDay, ReadRecordIn, ReadRecordOut,
                InsertRecord, LogIn, LogOut, WriteLog, WriteOut, ReadDashboardPeriod,
                ReadDashboard, EmitDashboard, At
  <2>2. CASE PeriodStep(c)
    BY <2>2 DEF PeriodStep, CheckNewPeriod, InsertPeriod, CheckDates, UpdatePeriod,
                Deactivate, Activate, At
  <2>3. CASE CascadePeriod(c) \/ Fail(c) \/ FailDashboard(c)
    BY <2>3 DEF CascadePeriod, DeletePeriod, Fail, FailDashboard, At
  <2> QED  BY <2>1, <2>2, <2>3 DEF Moves, HandlerStep
<1>2. UNCHANGED <<now, holidays, edits, link, room, screen>>
  <2>1. CASE ClockStep(c)
    BY <2>1 DEF ClockStep, ReadPeriod, CheckWorkingDay, ReadRecordIn, ReadRecordOut,
                InsertRecord, LogIn, LogOut, WriteLog, WriteOut, ReadDashboardPeriod,
                ReadDashboard, EmitDashboard, PeriodsStay, SheetStays, dashboardVars, Emit
  <2>2. CASE PeriodStep(c) /\ SheetStays
    BY <2>2 DEF PeriodStep, CheckNewPeriod, InsertPeriod, CheckDates, UpdatePeriod,
                Deactivate, Activate, PeriodsStay, SheetStays, dashboardVars
  <2>3. CASE CascadePeriod(c) \/ Fail(c) \/ FailDashboard(c)
    BY <2>3 DEF CascadePeriod, DeletePeriod, Fail, FailDashboard, PeriodsStay,
                dashboardVars, Emit
  <2> QED  BY <2>1, <2>2, <2>3 DEF Moves, HandlerStep
<1>3. CASE Return(c)
  BY <1>1, <1>2, <1>3, WritesOneRow DEF Return, Drop
<1>4. CASE \E rec : Goto(c, rec)
  BY <1>1, <1>2, <1>4, WritesOneRow DEF Goto, Put
<1> QED  BY <1>1, <1>3, <1>4

LEMMA ElsewhereFrame ==
  ASSUME Elsewhere
  PROVE  UNCHANGED <<calls, periods, periodSeq, sheetVars>>
BY DEF Elsewhere, HolidayChange, CreateHoliday, UpdateHoliday, DeleteHoliday, SheetStays,
       Delivery, Tick, vars, periodVars

-----------------------------------------------------------------------------
(* The types, and the bounds on ids and on the queue.                      *)

TypesInv ==
  /\ PeriodsTypeOK
  /\ IsTable(calls, Call, CallRecord)
  /\ link \in {Off, Up, Down} \cup 1 .. MaxRetries
  /\ queue \in Seq(Snapshot)
  /\ room \subseteq Client
  /\ IsTable(screen, Client, Snapshot)
  /\ recordSeq \in Nat
  /\ IsTable(records, 1 .. recordSeq, Record)
  /\ \A i \in DOMAIN records : records[i].period \in DOMAIN periods
  /\ \A l \in logs : l \in Log /\ l.record \in DOMAIN records
  /\ mishaps \in 0 .. MaxMishaps

\* The calls that may still insert a record.
MayInsert(call) ==
  \/ call.pc \in {"readPeriod", "checkWorkingDay", "readRecord"} /\ call.act = "in"
  \/ call.pc = "insertRecord"

Inserting == {c \in DOMAIN calls : MayInsert(calls[c])}

\* Whoever may still insert a row or send a snapshot has room for it.
BoundsInv ==
  /\ Len(queue) + Cardinality(Clocking) <= MaxQueue
  /\ recordSeq + Cardinality(Inserting) <= MaxRecords
  /\ periodSeq + Cardinality(Creating) <= MaxPeriods

SheetInv == TypesInv /\ BoundsInv

LEMMA CallsAreFinite ==
  ASSUME TypesInv
  PROVE  /\ IsFiniteSet(Call) /\ IsFiniteSet(DOMAIN calls) /\ Cardinality(DOMAIN calls) \in Nat
         /\ Cardinality(Call) \in Nat /\ Cardinality(DOMAIN calls) <= Cardinality(Call)
         /\ DOMAIN calls # {} => Cardinality(Call) >= 1
         /\ IsFiniteSet(Clocking) /\ Cardinality(Clocking) \in Nat
         /\ IsFiniteSet(Inserting) /\ Cardinality(Inserting) \in Nat
         /\ IsFiniteSet(Creating) /\ Cardinality(Creating) \in Nat
<1>1. IsFiniteSet(Call) /\ DOMAIN calls \in SUBSET Call /\ Cardinality(Call) \in Nat
  BY AttendanceAssumption, FS_CardinalityType DEF TypesInv, IsTable
<1>2. /\ IsFiniteSet(DOMAIN calls) /\ Cardinality(DOMAIN calls) <= Cardinality(Call)
      /\ Cardinality(DOMAIN calls) \in Nat
  BY <1>1, FS_Subset, FS_CardinalityType
<1>3. DOMAIN calls # {} => Cardinality(DOMAIN calls) # 0
  BY <1>2, FS_EmptySet
<1>4. /\ Clocking \subseteq DOMAIN calls /\ Inserting \subseteq DOMAIN calls
      /\ Creating \subseteq DOMAIN calls
  BY DEF Clocking, Inserting, Creating
<1>5. IsFiniteSet(Clocking) /\ IsFiniteSet(Inserting) /\ IsFiniteSet(Creating)
  BY <1>2, <1>4, FS_Subset
<1> QED  BY <1>1, <1>2, <1>3, <1>5, FS_CardinalityType

\* The next id is one there is, for whoever is about to insert.
LEMMA NextIds ==
  ASSUME SheetInv
  PROVE  /\ recordSeq \in Nat /\ recordSeq <= MaxRecords
         /\ periodSeq \in Nat /\ periodSeq <= MaxPeriods
         /\ DOMAIN records \subseteq RecordId /\ DOMAIN periods \subseteq PeriodId
         /\ \A c : At(c, "insertRecord") => recordSeq + 1 \in RecordId
         /\ \A c : At(c, "insertPeriod") => periodSeq + 1 \in PeriodId
<1>1. /\ recordSeq \in Nat /\ periodSeq \in Nat
      /\ Cardinality(Inserting) \in Nat /\ Cardinality(Creating) \in Nat
      /\ IsFiniteSet(Inserting) /\ IsFiniteSet(Creating)
      /\ MaxRecords \in Nat /\ MaxPeriods \in Nat
  BY CallsAreFinite, Lengths DEF SheetInv, TypesInv, PeriodsTypeOK
<1>2. recordSeq <= MaxRecords /\ periodSeq <= MaxPeriods
  BY <1>1 DEF SheetInv, BoundsInv
<1>3. DOMAIN records \subseteq RecordId /\ DOMAIN periods \subseteq PeriodId
  BY <1>1, <1>2 DEF SheetInv, TypesInv, PeriodsTypeOK, IsTable, RecordId, PeriodId
<1>4. ASSUME NEW c, At(c, "insertRecord")
      PROVE  recordSeq + 1 \in RecordId
  <2>1. Inserting # {}
    BY <1>4 DEF At, Inserting, MayInsert
  <2>2. Cardinality(Inserting) # 0
    BY <1>1, <2>1, FS_EmptySet
  <2> QED  BY <1>1, <2>2 DEF SheetInv, BoundsInv, RecordId
<1>5. ASSUME NEW c, At(c, "insertPeriod")
      PROVE  periodSeq + 1 \in PeriodId
  <2>1. Creating # {}
    BY <1>5 DEF At, Creating
  <2>2. Cardinality(Creating) # 0
    BY <1>1, <2>1, FS_EmptySet
  <2> QED  BY <1>1, <2>2 DEF SheetInv, BoundsInv, PeriodId
<1> QED  BY <1>1, <1>2, <1>3, <1>4, <1>5

LEMMA PeriodIsTyped ==
  ASSUME TypesInv, NEW i \in DOMAIN periods
  PROVE  /\ periods[i] \in PeriodRow /\ i \in 1 .. periodSeq
         /\ periods[i].from \in Nat /\ periods[i].to \in Nat /\ periods[i].tolerance \in Nat
         /\ periods[i].active \in BOOLEAN /\ periods[i].weekend \in BOOLEAN
         /\ DOMAIN periods[i] = {"from", "to", "active", "weekend", "tolerance"}
<1>1. periods[i] \in PeriodRow /\ i \in 1 .. periodSeq
  BY RowOfTable DEF TypesInv, PeriodsTypeOK
<1> QED  BY <1>1 DEF PeriodRow

LEMMA ToleranceIsTyped ==
  ASSUME TypesInv, NEW i \in DOMAIN periods
  PROVE  ToleranceOf(i) \in Nat
BY PeriodIsTyped, Lengths DEF ToleranceOf

\* What an administrator may set, and what comes of it.
LEMMA SettingIsTyped ==
  ASSUME NEW ed \in PeriodEdit, NEW p \in PeriodRow
  PROVE  /\ Setting(ed, "from", p.from) \in Nat /\ Setting(ed, "to", p.to) \in Nat
         /\ [k \in DOMAIN p |-> Setting(ed, k, p[k])] \in PeriodRow
<1>1. \A k \in DOMAIN ed : ed[k] \in IF k \in {"active", "weekend"} THEN BOOLEAN ELSE Nat
  BY AttendanceAssumption
<1>2. /\ p.from \in Nat /\ p.to \in Nat /\ p.tolerance \in Nat
      /\ p.active \in BOOLEAN /\ p.weekend \in BOOLEAN
      /\ DOMAIN p = {"from", "to", "active", "weekend", "tolerance"}
  BY DEF PeriodRow
<1>3. /\ Setting(ed, "from", p.from) \in Nat /\ Setting(ed, "to", p.to) \in Nat
      /\ Setting(ed, "tolerance", p.tolerance) \in Nat
      /\ Setting(ed, "active", p.active) \in BOOLEAN
      /\ Setting(ed, "weekend", p.weekend) \in BOOLEAN
  BY <1>1, <1>2 DEF Setting
<1>4. [k \in DOMAIN p |-> Setting(ed, k, p[k])]
        = [from |-> Setting(ed, "from", p.from), to |-> Setting(ed, "to", p.to),
           active |-> Setting(ed, "active", p.active),
           weekend |-> Setting(ed, "weekend", p.weekend),
           tolerance |-> Setting(ed, "tolerance", p.tolerance)]
  BY <1>2
<1> QED  BY <1>3, <1>4 DEF PeriodRow

LEMMA StatusIsTyped ==
  ASSUME NEW t, NEW n
  PROVE  StatusAt(t, n) \in {"PRESENT", "LATE"}
BY DEF StatusAt

\* What the dashboard answers is a snapshot.
LEMMA DashboardIsTyped ==
  ASSUME TypesInv, NEW i \in PeriodId, NEW n \in Nat
  PROVE  Dashboards(i, n) \in Snapshot
<1> DEFINE rows == TodaysRows(i)
<1>1. DayOf(now) \in Day
  BY DaysOfTime DEF TypesInv, PeriodsTypeOK
<1>2. rows \subseteq Record
  BY RowOfTable DEF TypesInv, TodaysRows
<1>3. \A r \in rows : r.emp \in Employee
  BY <1>2 DEF Record
<1>4. {r.emp : r \in {row \in rows : ShowsLate(row, n)}} \subseteq Employee
  BY <1>3
<1>5. Employee \ {r.emp : r \in rows} \subseteq Employee
  OBVIOUS
<1> HIDE DEF rows
<1> QED  BY <1>1, <1>2, <1>4, <1>5 DEF Dashboards, Snapshot, rows

LEMMA EmptyIsTyped ==
  ASSUME TypesInv, NEW c, At(c, "readDashboard")
  PROVE  EmptyDashboard(calls[c]) \in Snapshot
<1>1. DayOf(now) \in Day
  BY DaysOfTime DEF TypesInv, PeriodsTypeOK
<1>2. calls[c].period \in PeriodId /\ calls[c].tolerance \in Nat
  BY RowOfTable, ClockCallByLabel DEF TypesInv, At
<1> QED  BY <1>1, <1>2 DEF EmptyDashboard, Snapshot

LEMMA GoesTyped ==
  ASSUME TypesInv, NEW c \in Call, NEW rec \in CallRecord, Goto(c, rec)
  PROVE  IsTable(calls', Call, CallRecord)
BY PutIsTable DEF Goto, TypesInv

LEMMA ReturnsTyped ==
  ASSUME TypesInv, NEW c, Return(c)
  PROVE  IsTable(calls', Call, CallRecord)
BY DropIsTable DEF Return, TypesInv

LEMMA StartsTyped ==
  ASSUME SheetInv, NEW c \in Call, Starts(c)
  PROVE  IsTable(calls', Call, CallRecord)
<1>1. now \in Time /\ DayOf(now) \in Day /\ DOMAIN periods \subseteq PeriodId
  BY DaysOfTime, NextIds DEF SheetInv, TypesInv, PeriodsTypeOK
<1>2. ASSUME NEW act \in {"in", "out"}, StartClock(c, act)
      PROVE  \E rec \in CallRecord : Goto(c, rec)
  BY <1>1, <1>2, ClockCallRecords DEF StartClock
<1>3. ASSUME CreatePeriod(c)
      PROVE  \E rec \in CallRecord : Goto(c, rec)
  <2>1. PICK row \in NewPeriod : Goto(c, [pc |-> "checkNewPeriod", row |-> row])
    BY <1>3 DEF CreatePeriod
  <2> QED  BY <2>1, PeriodCallRecords, AttendanceAssumption
<1>4. ASSUME EditPeriod(c)
      PROVE  \E rec \in CallRecord : Goto(c, rec)
  <2>1. PICK i \in DOMAIN periods, ed \in PeriodEdit,
             pc \in {"checkDates", "updatePeriod"} :
          Goto(c, [pc |-> pc, id |-> i, edit |-> ed,
                   from |-> Setting(ed, "from", periods[i].from),
                   to |-> Setting(ed, "to", periods[i].to)])
    BY <1>4 DEF EditPeriod
  <2> DEFINE f == Setting(ed, "from", periods[i].from)
             t == Setting(ed, "to", periods[i].to)
  <2>2. f \in Nat /\ t \in Nat
    BY <2>1, PeriodIsTyped, SettingIsTyped DEF SheetInv
  <2>3. [pc |-> pc, id |-> i, edit |-> ed, from |-> f, to |-> t] \in CallRecord
    BY <1>1, <2>1, <2>2, PeriodCallRecords
  <2> QED  BY <2>1, <2>3
<1>5. ASSUME RemovePeriod(c) \/ RunPeriodsCheck(c)
      PROVE  \E rec \in CallRecord : Goto(c, rec)
  BY <1>1, <1>5, PeriodCallRecords DEF RemovePeriod, RunPeriodsCheck
<1>6. \E rec \in CallRecord : Goto(c, rec)
  BY <1>2, <1>3, <1>4, <1>5 DEF Starts, ClockIn, ClockOut, NewPeriodCall
<1> QED  BY <1>6, GoesTyped DEF SheetInv

LEMMA ReadingTyped ==
  ASSUME SheetInv, NEW c \in Call,
         \/ ReadPeriod(c) \/ CheckWorkingDay(c) \/ ReadRecordIn(c) \/ ReadRecordOut(c)
  PROVE  Return(c) \/ \E rec \in CallRecord : Goto(c, rec)
<1>1. /\ calls[c] \in CallRecord /\ now \in Time
      /\ DOMAIN periods \subseteq PeriodId /\ DOMAIN records \subseteq RecordId
  BY RowOfTable, NextIds
     DEF SheetInv, TypesInv, PeriodsTypeOK, ReadPeriod, CheckWorkingDay, ReadRecordIn,
         ReadRecordOut, At
<1>2. CASE ReadPeriod(c)
  <2>1. calls[c].act \in {"in", "out"} /\ calls[c].emp \in Employee /\ calls[c].today \in Day
    BY <1>1, <1>2, ClockCallByLabel DEF ReadPeriod, At
  <2>2. CASE ActivePeriods(now) = {}
    BY <1>2, <2>2 DEF ReadPeriod
  <2>3. CASE ActivePeriods(now) # {}
    <3>1. PICK i \in DOMAIN periods :
            Goto(c, [pc |-> "checkWorkingDay", act |-> calls[c].act, emp |-> calls[c].emp,
                     today |-> calls[c].today, period |-> i,
                     tolerance |-> ToleranceOf(i)])
      BY <1>2, <2>3 DEF ReadPeriod, ActivePeriods
    <3>2. i \in PeriodId /\ ToleranceOf(i) \in Nat /\ "checkWorkingDay" \in ReadLabels
      BY <1>1, ToleranceIsTyped DEF SheetInv, ReadLabels
    <3> QED  BY <2>1, <3>1, <3>2, ClockCallRecords
  <2> QED  BY <2>2, <2>3
<1>3. CASE CheckWorkingDay(c)
  <2>1. calls[c] \in [pc : ReadLabels, act : {"in", "out"}, emp : Employee,
                      today : Day, period : PeriodId, tolerance : Nat]
    BY <1>1, <1>3, ClockCallByLabel DEF CheckWorkingDay, At, ReadLabels
  <2>2. [calls[c] EXCEPT !.pc = "readRecord"] \in CallRecord
    BY <2>1 DEF CallRecord, ClockCall, ReadLabels
  <2> QED  BY <1>3, <2>2 DEF CheckWorkingDay
<1>4. CASE ReadRecordIn(c) \/ ReadRecordOut(c)
  <2>1. /\ calls[c].act \in {"in", "out"} /\ calls[c].emp \in Employee
        /\ calls[c].today \in Day /\ calls[c].period \in PeriodId
    BY <1>1, <1>4, ClockCallByLabel DEF ReadRecordIn, ReadRecordOut, At, ReadLabels
  <2>2. CASE ReadRecordIn(c)
    <3> DEFINE row == [emp |-> calls[c].emp, period |-> calls[c].period,
                       date |-> calls[c].today, in |-> now, out |-> Never,
                       status |-> StatusAt(now, calls[c].tolerance)]
    <3>1. row \in Record
      BY <1>1, <2>1, StatusIsTyped DEF Record
    <3>2. [pc |-> "insertRecord", row |-> row] \in CallRecord
      BY <3>1, ClockCallRecords
    <3> QED  BY <2>2, <3>2 DEF ReadRecordIn
  <2>3. CASE ReadRecordOut(c)
    <3>1. Return(c) \/ \E i \in DOMAIN records : Goto(c, [pc |-> "logOut", id |-> i, at |-> now])
      BY <2>3 DEF ReadRecordOut, Newest, RecordsOf
    <3> QED  BY <1>1, <3>1, ClockCallRecords DEF WriteLabels
  <2> QED  BY <1>4, <2>2, <2>3
<1> QED  BY <1>2, <1>3, <1>4

LEMMA WritingTyped ==
  ASSUME SheetInv, NEW c \in Call,
         InsertRecord(c) \/ LogIn(c) \/ LogOut(c) \/ WriteOut(c)
  PROVE  Return(c) \/ \E rec \in CallRecord : Goto(c, rec)
<1>1. c \in DOMAIN calls /\ calls[c] \in CallRecord
  BY RowOfTable
     DEF SheetInv, TypesInv, InsertRecord, LogIn, LogOut, WriteOut, At
<1>2. CASE InsertRecord(c)
  <2>1. calls[c].row \in Record /\ recordSeq + 1 \in RecordId
    BY <1>1, <1>2, ClockCallByLabel, NextIds DEF InsertRecord, At
  <2>2. calls[c].row.in \in Time
    BY <2>1 DEF Record
  <2>3. [pc |-> "logIn", id |-> recordSeq + 1, at |-> calls[c].row.in] \in CallRecord
    BY <2>1, <2>2, ClockCallRecords DEF WriteLabels
  <2> QED  BY <1>2, <2>3 DEF InsertRecord
<1>3. CASE LogIn(c)
  BY <1>3, ClockCallRecords DEF LogIn, WriteLog
<1>4. CASE LogOut(c)
  <2>1. calls[c] \in [pc : WriteLabels, id : RecordId, at : Time]
    BY <1>1, <1>4, ClockCallByLabel DEF LogOut, At, WriteLabels
  <2>2. [calls[c] EXCEPT !.pc = "writeOut"] \in CallRecord
    BY <2>1 DEF CallRecord, ClockCall, WriteLabels
  <2> QED  BY <1>4, <2>2 DEF LogOut, WriteLog
<1>5. CASE WriteOut(c)
  BY <1>5, ClockCallRecords DEF WriteOut
<1> QED  BY <1>2, <1>3, <1>4, <1>5

LEMMA ShowingTyped ==
  ASSUME SheetInv, NEW c \in Call,
         ReadDashboardPeriod(c) \/ ReadDashboard(c) \/ EmitDashboard(c)
  PROVE  Return(c) \/ \E rec \in CallRecord : Goto(c, rec)
<1>1. c \in DOMAIN calls /\ calls[c] \in CallRecord /\ DOMAIN periods \subseteq PeriodId
  BY RowOfTable, NextIds
     DEF SheetInv, TypesInv, ReadDashboardPeriod, ReadDashboard, EmitDashboard, At
<1>2. CASE ReadDashboardPeriod(c)
  <2>1. CASE ActivePeriods(now) = {}
    BY <1>2, <2>1 DEF ReadDashboardPeriod
  <2>2. CASE ActivePeriods(now) # {}
    <3>1. PICK i \in DOMAIN periods :
            Goto(c, [pc |-> "readDashboard", period |-> i,
                     tolerance |-> ToleranceOf(i)])
      BY <1>2, <2>2 DEF ReadDashboardPeriod, ActivePeriods
    <3>2. i \in PeriodId /\ ToleranceOf(i) \in Nat
      BY <1>1, ToleranceIsTyped DEF SheetInv
    <3> QED  BY <3>1, <3>2, ClockCallRecords
  <2> QED  BY <2>1, <2>2
<1>3. CASE ReadDashboard(c)
  <2>1. calls[c].period \in PeriodId /\ calls[c].tolerance \in Nat
    BY <1>1, <1>3, ClockCallByLabel DEF ReadDashboard, At
  <2>2. Dashboards(calls[c].period, calls[c].tolerance) \in Snapshot
    BY <2>1, DashboardIsTyped DEF SheetInv
  <2> QED  BY <1>3, <2>2, ClockCallRecords DEF ReadDashboard
<1>4. CASE EmitDashboard(c)
  BY <1>4 DEF EmitDashboard
<1> QED  BY <1>2, <1>3, <1>4

LEMMA AdministeringTyped ==
  ASSUME SheetInv, NEW c \in Call, PeriodStep(c) \/ CascadePeriod(c)
  PROVE  Return(c) \/ \E rec \in CallRecord : Goto(c, rec)
<1>1. c \in DOMAIN calls /\ calls[c] \in CallRecord
  BY RowOfTable
     DEF SheetInv, TypesInv, PeriodStep, CheckNewPeriod, InsertPeriod, CheckDates,
         UpdatePeriod, Deactivate, Activate, CascadePeriod, DeletePeriod, At
<1>2. CASE CheckNewPeriod(c)
  <2>1. calls[c] \in [pc : {"checkNewPeriod", "insertPeriod"}, row : PeriodRow]
    BY <1>1, <1>2, PeriodCallByLabel DEF CheckNewPeriod, At
  <2>2. [calls[c] EXCEPT !.pc = "insertPeriod"] \in CallRecord
    BY <2>1 DEF CallRecord, PeriodCall
  <2> QED  BY <1>2, <2>2 DEF CheckNewPeriod
<1>3. CASE CheckDates(c)
  <2>1. calls[c] \in [pc : {"checkDates", "updatePeriod"}, id : PeriodId,
                      edit : PeriodEdit, from : Nat, to : Nat]
    BY <1>1, <1>3, PeriodCallByLabel DEF CheckDates, At
  <2>2. [calls[c] EXCEPT !.pc = "updatePeriod"] \in CallRecord
    BY <2>1 DEF CallRecord, PeriodCall
  <2> QED  BY <1>3, <2>2 DEF CheckDates
<1>4. CASE Deactivate(c)
  <2>1. calls[c] \in [pc : {"deactivate", "activate"}, at : Time]
    BY <1>1, <1>4, PeriodCallByLabel DEF Deactivate, At
  <2>2. [calls[c] EXCEPT !.pc = "activate"] \in CallRecord
    BY <2>1 DEF CallRecord, PeriodCall
  <2> QED  BY <1>4, <2>2 DEF Deactivate
<1>5. CASE InsertPeriod(c) \/ UpdatePeriod(c) \/ Activate(c) \/ CascadePeriod(c)
  BY <1>5 DEF InsertPeriod, UpdatePeriod, Activate, CascadePeriod, DeletePeriod
<1> QED  BY <1>2, <1>3, <1>4, <1>5 DEF PeriodStep

LEMMA MovesTyped ==
  ASSUME SheetInv, NEW c \in Call, Moves(c)
  PROVE  IsTable(calls', Call, CallRecord)
<1>1. Return(c) \/ \E rec \in CallRecord : Goto(c, rec)
  <2>1. CASE ClockStep(c)
    BY <2>1, ReadingTyped, WritingTyped, ShowingTyped DEF ClockStep
  <2>2. CASE PeriodStep(c) \/ CascadePeriod(c)
    BY <2>2, AdministeringTyped
  <2>3. CASE Fail(c) \/ FailDashboard(c)
    BY <2>3 DEF Fail, FailDashboard
  <2> QED  BY <2>1, <2>2, <2>3 DEF Moves, HandlerStep
<1> QED  BY <1>1, GoesTyped, ReturnsTyped DEF SheetInv

\* Who writes which table.
WritesPeriods(c) ==
  InsertPeriod(c) \/ UpdatePeriod(c) \/ Deactivate(c) \/ Activate(c) \/ CascadePeriod(c)

WritesRecords(c) == InsertRecord(c) \/ WriteOut(c) \/ CascadePeriod(c)

WritesLogs(c) == LogIn(c) \/ LogOut(c) \/ CascadePeriod(c)

Sends(c) == EmitDashboard(c) \/ FailDashboard(c)

LEMMA WhoWrites ==
  ASSUME NEW c \in Call, Moves(c)
  PROVE  /\ ~WritesPeriods(c) => UNCHANGED <<periods, periodSeq>>
         /\ ~WritesRecords(c) => UNCHANGED <<records, recordSeq>>
         /\ ~WritesLogs(c) => UNCHANGED logs
         /\ ~Sends(c) => UNCHANGED queue
         /\ ~(Fail(c) \/ FailDashboard(c)) => UNCHANGED mishaps
<1>1. CASE ReadPeriod(c) \/ CheckWorkingDay(c) \/ ReadRecordIn(c) \/ ReadRecordOut(c)
             \/ ReadDashboardPeriod(c) \/ ReadDashboard(c)
  BY <1>1 DEF ReadPeriod, CheckWorkingDay, ReadRecordIn, ReadRecordOut, ReadDashboardPeriod,
              ReadDashboard, PeriodsStay, SheetStays, dashboardVars, sheetVars
<1>2. CASE InsertRecord(c) \/ LogIn(c) \/ LogOut(c) \/ WriteOut(c) \/ EmitDashboard(c)
  BY <1>2 DEF InsertRecord, LogIn, LogOut, WriteLog, WriteOut, EmitDashboard, PeriodsStay,
              dashboardVars, sheetVars, WritesRecords, WritesLogs, Sends
<1>3. CASE PeriodStep(c) /\ SheetStays
  BY <1>3 DEF PeriodStep, CheckNewPeriod, CheckDates, PeriodsStay, SheetStays,
              dashboardVars, sheetVars, WritesPeriods
<1>4. CASE CascadePeriod(c)
  BY <1>4 DEF CascadePeriod, dashboardVars, WritesPeriods, WritesRecords, WritesLogs
<1>5. CASE Fail(c) \/ FailDashboard(c)
  BY <1>5 DEF Fail, FailDashboard, PeriodsStay, dashboardVars, Sends
<1> QED  BY <1>1, <1>2, <1>3, <1>4, <1>5 DEF Moves, HandlerStep, ClockStep

LEMMA PeriodsTyped ==
  ASSUME SheetInv, NEW c \in Call, WritesPeriods(c)
  PROVE  /\ periodSeq' \in 0 .. MaxPeriods
         /\ IsTable(periods', 1 .. periodSeq', PeriodRow)
         /\ ~CascadePeriod(c) => DOMAIN periods \subseteq DOMAIN periods'
<1>1. /\ periodSeq \in Nat /\ periodSeq <= MaxPeriods /\ MaxPeriods \in Nat
      /\ IsTable(periods, 1 .. periodSeq, PeriodRow)
  BY NextIds, Lengths DEF SheetInv, TypesInv, PeriodsTypeOK
<1>2. c \in DOMAIN calls /\ calls[c] \in CallRecord
  BY RowOfTable
     DEF SheetInv, TypesInv, WritesPeriods, InsertPeriod, UpdatePeriod, Deactivate,
         Activate, CascadePeriod, DeletePeriod, At
<1>3. CASE InsertPeriod(c)
  <2>1. calls[c].row \in PeriodRow /\ periodSeq + 1 \in PeriodId
    BY <1>2, <1>3, PeriodCallByLabel, NextIds DEF InsertPeriod, At
  <2>2. periodSeq' = periodSeq + 1 /\ periods' = Put(periods, periodSeq + 1, calls[c].row)
    BY <1>3 DEF InsertPeriod
  <2>3. IsTable(periods, 1 .. periodSeq', PeriodRow) /\ periodSeq' \in 1 .. periodSeq'
    BY <1>1, <2>2 DEF IsTable
  <2>4. IsTable(periods', 1 .. periodSeq', PeriodRow)
    BY <2>1, <2>2, <2>3, PutIsTable
  <2> QED  BY <1>1, <2>1, <2>2, <2>4 DEF PeriodId, Put
<1>4. CASE UpdatePeriod(c)
  <2>1. calls[c].edit \in PeriodEdit
    BY <1>2, <1>4, PeriodCallByLabel DEF UpdatePeriod, At
  <2>2. CASE calls[c].id \notin DOMAIN periods
    BY <1>1, <1>4, <2>2 DEF UpdatePeriod
  <2>3. CASE calls[c].id \in DOMAIN periods
    <3> DEFINE p == periods[calls[c].id]
               row == [k \in DOMAIN p |-> Setting(calls[c].edit, k, p[k])]
    <3>1. row \in PeriodRow
      BY <2>1, <2>3, PeriodIsTyped, SettingIsTyped DEF SheetInv
    <3>2. periods' = [periods EXCEPT ![calls[c].id] = row] /\ periodSeq' = periodSeq
      BY <1>4, <2>3 DEF UpdatePeriod
    <3> HIDE DEF row
    <3>3. IsTable(periods', 1 .. periodSeq, PeriodRow) /\ DOMAIN periods' = DOMAIN periods
      BY <1>1, <2>3, <3>1, <3>2, ExceptIsTable
    <3> QED  BY <1>1, <3>2, <3>3
  <2> QED  BY <2>2, <2>3
<1>5. ASSUME NEW ids, NEW value \in BOOLEAN, SetActive(ids, value), periodSeq' = periodSeq
      PROVE  IsTable(periods', 1 .. periodSeq', PeriodRow) /\ DOMAIN periods' = DOMAIN periods
  <2>1. \A i \in DOMAIN periods : [periods[i] EXCEPT !.active = value] \in PeriodRow
    BY PeriodIsTyped DEF PeriodRow, SheetInv
  <2> QED  BY <1>1, <1>5, <2>1 DEF SetActive, IsTable
<1>6. CASE Deactivate(c) \/ Activate(c)
  <2>1. periodSeq' = periodSeq /\ \E ids : SetActive(ids, TRUE) \/ SetActive(ids, FALSE)
    BY <1>6 DEF Deactivate, Activate
  <2>2. IsTable(periods', 1 .. periodSeq', PeriodRow) /\ DOMAIN periods' = DOMAIN periods
    BY <1>5, <2>1
  <2> QED  BY <1>1, <2>1, <2>2
<1>7. CASE CascadePeriod(c)
  BY <1>1, <1>7 DEF CascadePeriod, DeletePeriod, IsTable
<1> QED  BY <1>3, <1>4, <1>6, <1>7 DEF WritesPeriods

LEMMA RecordsTyped ==
  ASSUME SheetInv, NEW c \in Call, WritesRecords(c)
  PROVE  /\ recordSeq' \in Nat
         /\ IsTable(records', 1 .. recordSeq', Record)
         /\ \A i \in DOMAIN records' : records'[i].period \in DOMAIN periods'
         /\ ~CascadePeriod(c) => DOMAIN records \subseteq DOMAIN records'
<1>1. /\ recordSeq \in Nat /\ IsTable(records, 1 .. recordSeq, Record)
      /\ \A i \in DOMAIN records : records[i].period \in DOMAIN periods
  BY DEF SheetInv, TypesInv
<1>2. c \in DOMAIN calls /\ calls[c] \in CallRecord
  BY RowOfTable
     DEF SheetInv, TypesInv, WritesRecords, InsertRecord, WriteOut, CascadePeriod,
         DeletePeriod, At
<1>3. CASE InsertRecord(c)
  <2>1. UNCHANGED periods
    BY <1>3 DEF InsertRecord, PeriodsStay
  <2>2. CASE calls[c].row.period \notin DOMAIN periods
    BY <1>1, <1>3, <2>1, <2>2 DEF InsertRecord
  <2>3. CASE calls[c].row.period \in DOMAIN periods
    <3>1. recordSeq' = recordSeq + 1 /\ records' = Put(records, recordSeq + 1, calls[c].row)
      BY <1>3, <2>3 DEF InsertRecord
    <3>2. calls[c].row \in Record
      BY <1>2, <1>3, ClockCallByLabel DEF InsertRecord, At
    <3>3. IsTable(records, 1 .. recordSeq', Record) /\ recordSeq' \in 1 .. recordSeq'
      BY <1>1, <3>1 DEF IsTable
    <3>4. IsTable(records', 1 .. recordSeq', Record)
      BY <3>1, <3>2, <3>3, PutIsTable
    <3>5. \A i \in DOMAIN records' : records'[i].period \in DOMAIN periods
      BY <1>1, <2>3, <3>1 DEF Put
    <3>6. DOMAIN records \subseteq DOMAIN records'
      BY <3>1 DEF Put
    <3>7. recordSeq' \in Nat
      BY <1>1, <3>1
    <3> QED  BY <2>1, <3>4, <3>5, <3>6, <3>7
  <2> QED  BY <2>2, <2>3
<1>4. CASE WriteOut(c)
  <2>1. UNCHANGED <<periods, recordSeq>>
    BY <1>4 DEF WriteOut, PeriodsStay
  <2>2. CASE calls[c].id \notin DOMAIN records
    BY <1>1, <1>4, <2>1, <2>2 DEF WriteOut
  <2>3. CASE calls[c].id \in DOMAIN records
    <3> DEFINE row == [records[calls[c].id] EXCEPT !.out = calls[c].at]
    <3>1. calls[c].at \in Time
      BY <1>2, <1>4, ClockCallByLabel DEF WriteOut, At, WriteLabels
    <3>2. row \in Record /\ row.period = records[calls[c].id].period
      <4>1. PICK r \in Record : r = records[calls[c].id]
        BY <1>1, <2>3, RowOfTable
      <4>2. PICK t \in Time : t = calls[c].at
        BY <3>1
      <4>3. [r EXCEPT !.out = t] \in Record /\ [r EXCEPT !.out = t].period = r.period
        BY DEF Record
      <4> QED  BY <4>1, <4>2, <4>3
    <3>3. records' = [records EXCEPT ![calls[c].id] = row]
      BY <1>4, <2>3 DEF WriteOut
    <3> HIDE DEF row
    <3>4. IsTable(records', 1 .. recordSeq, Record)
      BY <1>1, <2>3, <3>2, <3>3, ExceptIsTable
    <3>5. \A i \in DOMAIN records' : records'[i].period = records[i].period
      BY <1>1, <3>2, <3>3 DEF IsTable
    <3> QED  BY <1>1, <2>1, <3>3, <3>4, <3>5
  <2> QED  BY <2>2, <2>3
<1>5. CASE CascadePeriod(c)
  BY <1>1, <1>5 DEF CascadePeriod, DeletePeriod, IsTable
<1> QED  BY <1>3, <1>4, <1>5 DEF WritesRecords

LEMMA LogsTyped ==
  ASSUME SheetInv, NEW c \in Call, WritesLogs(c)
  PROVE  \A l \in logs' : l \in Log /\ l.record \in DOMAIN records'
<1>1. \A l \in logs : l \in Log /\ l.record \in DOMAIN records
  BY DEF SheetInv, TypesInv
<1>2. ASSUME LogIn(c) \/ LogOut(c)
      PROVE  \A l \in logs' : l \in Log /\ l.record \in DOMAIN records'
  <2>1. UNCHANGED records
    BY <1>2 DEF LogIn, LogOut, WriteLog
  <2>2. calls[c].id \in RecordId /\ calls[c].at \in Time
    BY <1>2, RowOfTable, ClockCallByLabel DEF SheetInv, TypesInv, LogIn, LogOut, At, WriteLabels
  <2>3. \/ UNCHANGED logs
        \/ /\ calls[c].id \in DOMAIN records
           /\ \E act \in {"CLOCK_IN", "CLOCK_OUT"} :
                logs' = logs \cup {[record |-> calls[c].id, action |-> act, at |-> calls[c].at]}
    BY <1>2 DEF LogIn, LogOut, WriteLog
  <2>4. \A act \in {"CLOCK_IN", "CLOCK_OUT"} :
          [record |-> calls[c].id, action |-> act, at |-> calls[c].at] \in Log
    BY <2>2 DEF Log
  <2> QED  BY <1>1, <2>1, <2>3, <2>4
<1>3. CASE CascadePeriod(c)
  BY <1>1, <1>3 DEF CascadePeriod
<1> QED  BY <1>2, <1>3 DEF WritesLogs

\* The queue grows by one snapshot, unless there is no connection.
LEMMA SendsOne ==
  ASSUME SheetInv, NEW c \in Call, Sends(c)
  PROVE  /\ c \in Clocking /\ Return(c)
         /\ \/ UNCHANGED queue
            \/ \E s \in Snapshot : queue' = Append(queue, s)
<1>1. calls[c] \in CallRecord /\ c \in DOMAIN calls
  BY RowOfTable DEF SheetInv, TypesInv, Sends, EmitDashboard, FailDashboard, At
<1>2. CASE EmitDashboard(c)
  <2>1. calls[c].snapshot \in Snapshot /\ c \in Clocking
    BY <1>1, <1>2, ClockCallByLabel DEF EmitDashboard, At, Clocking
  <2> QED  BY <1>2, <2>1 DEF EmitDashboard, Emit
<1>3. CASE FailDashboard(c)
  BY <1>1, <1>3, EmptyIsTyped DEF FailDashboard, Emit, SheetInv, At, Clocking
<1> QED  BY <1>2, <1>3 DEF Sends

LEMMA QueueTyped ==
  ASSUME NEW q \in Seq(Snapshot), NEW s \in Snapshot
  PROVE  Append(q, s) \in Seq(Snapshot) /\ Len(Append(q, s)) = Len(q) + 1 /\ Len(q) \in Nat
OBVIOUS

LEMMA MishapsTyped ==
  ASSUME TypesInv, Mishap
  PROVE  mishaps' \in 0 .. MaxMishaps /\ mishaps' = mishaps + 1
BY Lengths DEF TypesInv, Mishap

LEMMA MovesKeepsTypes ==
  ASSUME SheetInv, NEW c \in Call, Moves(c)
  PROVE  TypesInv'
<1>1. IsTable(calls', Call, CallRecord)
  BY MovesTyped
<1>2. UNCHANGED <<now, holidays, edits, link, room, screen>>
  BY MovesFrame
<1>3. PeriodsTypeOK'
  BY <1>2, WhoWrites, PeriodsTyped DEF SheetInv, TypesInv, PeriodsTypeOK
<1>4. /\ recordSeq' \in Nat /\ IsTable(records', 1 .. recordSeq', Record)
      /\ \A i \in DOMAIN records' : records'[i].period \in DOMAIN periods'
  <2>1. CASE WritesRecords(c)
    BY <2>1, RecordsTyped
  <2>2. CASE ~WritesRecords(c)
    <3>1. UNCHANGED <<records, recordSeq>> /\ ~CascadePeriod(c)
      BY <2>2, WhoWrites DEF WritesRecords
    <3>2. DOMAIN periods \subseteq DOMAIN periods'
      BY <3>1, WhoWrites, PeriodsTyped
    <3> QED  BY <3>1, <3>2 DEF SheetInv, TypesInv
  <2> QED  BY <2>1, <2>2
<1>5. \A l \in logs' : l \in Log /\ l.record \in DOMAIN records'
  <2>1. CASE WritesLogs(c)
    BY <2>1, LogsTyped
  <2>2. CASE ~WritesLogs(c)
    <3>1. UNCHANGED logs /\ ~CascadePeriod(c)
      BY <2>2, WhoWrites DEF WritesLogs
    <3>2. DOMAIN records \subseteq DOMAIN records'
      BY <3>1, WhoWrites, RecordsTyped
    <3> QED  BY <3>1, <3>2 DEF SheetInv, TypesInv
  <2> QED  BY <2>1, <2>2
<1>6. queue' \in Seq(Snapshot)
  BY WhoWrites, SendsOne, QueueTyped DEF SheetInv, TypesInv
<1>7. mishaps' \in 0 .. MaxMishaps
  BY WhoWrites, MishapsTyped DEF SheetInv, TypesInv, Fail, FailDashboard
<1> QED  BY <1>1, <1>2, <1>3, <1>4, <1>5, <1>6, <1>7 DEF SheetInv, TypesInv

LEMMA StartsKeepsTypes ==
  ASSUME SheetInv, NEW c \in Call, Starts(c)
  PROVE  TypesInv'
<1>1. IsTable(calls', Call, CallRecord)
  BY StartsTyped
<1>2. UNCHANGED <<now, periods, periodSeq, holidays, link, queue, room, screen, records,
                  recordSeq, logs, mishaps>>
  BY StartsFrame DEF dashboardVars, sheetVars
<1>3. edits' \in 0 .. MaxEdits
  BY Lengths DEF SheetInv, TypesInv, PeriodsTypeOK, Starts, ClockIn, ClockOut, StartClock,
       PeriodsStay, NewPeriodCall, CreatePeriod, EditPeriod, RemovePeriod, RunPeriodsCheck,
       CountEdit
<1> QED  BY <1>1, <1>2, <1>3 DEF SheetInv, TypesInv, PeriodsTypeOK

LEMMA CrashKeepsTypes ==
  ASSUME SheetInv, Crash
  PROVE  TypesInv' /\ calls' = << >> /\ DOMAIN calls' = {}
<1>1. calls' = << >> /\ DOMAIN calls' = {} /\ IsTable(calls', Call, CallRecord)
  BY EmptyTable DEF Crash
<1>2. /\ UNCHANGED <<now, periods, periodSeq, holidays, edits, queue, screen, records,
                     recordSeq, logs>>
      /\ room' = {} /\ link' = Boots /\ Mishap
  BY DEF Crash, Reboot, PeriodsStay
<1>3. link' \in {Off, Up, Down} \cup 1 .. MaxRetries
  BY <1>2, Lengths DEF Boots, Off
<1>4. mishaps' \in 0 .. MaxMishaps
  BY <1>2, MishapsTyped DEF SheetInv
<1> QED  BY <1>1, <1>2, <1>3, <1>4 DEF SheetInv, TypesInv, PeriodsTypeOK

\* A snapshot leaves the queue.
LEMMA TailTyped ==
  ASSUME NEW q \in Seq(Snapshot), q # << >>
  PROVE  /\ Head(q) \in Snapshot /\ Tail(q) \in Seq(Snapshot)
         /\ Len(q) \in Nat /\ Len(Tail(q)) = Len(q) - 1
OBVIOUS

LEMMA DeliveryTyped ==
  ASSUME TypesInv, Delivery
  PROVE  /\ link' \in {Off, Up, Down} \cup 1 .. MaxRetries
         /\ queue' \in Seq(Snapshot) /\ Len(queue') <= Len(queue)
         /\ room' \subseteq Client
         /\ IsTable(screen', Client, Snapshot)
<1>1. /\ link \in {Off, Up, Down} \cup 1 .. MaxRetries
      /\ queue \in Seq(Snapshot) /\ room \subseteq Client
      /\ IsTable(screen, Client, Snapshot) /\ Len(queue) \in Nat
  BY DEF TypesInv
<1>2. CASE Connect \/ ConnectFails
  <2>1. link' \in {Off, Up, Down} \cup 1 .. MaxRetries
    BY <1>1, <1>2, Lengths DEF Connect, ConnectFails, Listening
  <2> QED  BY <1>1, <1>2, <2>1 DEF Connect, ConnectFails
<1>3. CASE HandleDashboardUpdate
  <2>1. /\ Head(queue) \in Snapshot /\ queue' = Tail(queue) /\ queue' \in Seq(Snapshot)
        /\ Len(queue') <= Len(queue)
    BY <1>1, <1>3, TailTyped DEF HandleDashboardUpdate
  <2>2. IsTable(screen', Client, Snapshot)
    BY <1>1, <1>3, <2>1 DEF HandleDashboardUpdate, Shown, IsTable
  <2> QED  BY <1>1, <1>3, <2>1, <2>2 DEF HandleDashboardUpdate
<1>4. CASE \E c \in Client : JoinTenant(c) \/ LeaveTenant(c)
  BY <1>1, <1>4 DEF JoinTenant, LeaveTenant
<1> QED  BY <1>2, <1>3, <1>4 DEF Delivery

LEMMA ElsewhereKeepsTypes ==
  ASSUME SheetInv, Elsewhere
  PROVE  TypesInv' /\ Len(queue') <= Len(queue)
<1>1. UNCHANGED <<calls, periods, periodSeq, records, recordSeq, logs, mishaps>>
  BY ElsewhereFrame DEF sheetVars
<1>2. now' \in Time /\ holidays' \subseteq Day /\ edits' \in 0 .. MaxEdits
  BY Lengths DEF SheetInv, TypesInv, PeriodsTypeOK, Elsewhere, HolidayChange, CreateHoliday,
                 UpdateHoliday, DeleteHoliday, CountEdit, Delivery, Tick, vars, periodVars, Time
<1>3. /\ link' \in {Off, Up, Down} \cup 1 .. MaxRetries
      /\ queue' \in Seq(Snapshot) /\ Len(queue') <= Len(queue)
      /\ room' \subseteq Client
      /\ IsTable(screen', Client, Snapshot)
  <2>1. CASE Delivery
    BY <2>1, DeliveryTyped DEF SheetInv
  <2>2. CASE UNCHANGED dashboardVars
    BY <2>2 DEF SheetInv, TypesInv, dashboardVars
  <2> QED  BY <2>1, <2>2 DEF Elsewhere, HolidayChange, SheetStays, vars
<1> QED  BY <1>1, <1>2, <1>3 DEF SheetInv, TypesInv, PeriodsTypeOK

\* A handler does not come back to what it has left behind.
LEMMA LabelsGoForward ==
  ASSUME SheetInv, NEW c \in Call, Moves(c)
  PROVE  /\ c \in Clocking' => c \in Clocking
         /\ c \in Inserting' => c \in Inserting /\ UNCHANGED recordSeq
         /\ c \in Creating' => c \in Creating /\ UNCHANGED periodSeq
<1>1. c \in DOMAIN calls /\ calls[c] \in CallRecord
  BY MovesFrame, RowOfTable DEF SheetInv, TypesInv
<1>2. CASE Return(c)
  BY <1>2 DEF Return, Drop, Clocking, Inserting, Creating
<1>3. CASE ReadPeriod(c) \/ CheckWorkingDay(c)
  <2>1. calls[c].pc \in {"readPeriod", "checkWorkingDay"}
    BY <1>3 DEF ReadPeriod, CheckWorkingDay, At
  <2>2. calls[c].pc = "checkWorkingDay" =>
          calls[c] \in [pc : ReadLabels, act : {"in", "out"}, emp : Employee,
                        today : Day, period : PeriodId, tolerance : Nat]
    BY <1>1, ClockCallByLabel DEF ReadLabels
  <2>3. c \in DOMAIN calls' => calls'[c].act = calls[c].act
                              /\ calls'[c].pc \in {"checkWorkingDay", "readRecord"}
    <3>1. CASE ReadPeriod(c)
      BY <3>1 DEF ReadPeriod, Goto, Put, Return, Drop
    <3>2. CASE CheckWorkingDay(c)
      BY <2>2, <3>2 DEF CheckWorkingDay, At, Goto, Put, Return, Drop
    <3> QED  BY <1>3, <3>1, <3>2
  <2>4. UNCHANGED <<recordSeq, periodSeq>>
    BY <1>3 DEF ReadPeriod, CheckWorkingDay, PeriodsStay, SheetStays, sheetVars
  <2> QED  BY <1>1, <2>1, <2>3, <2>4 DEF Clocking, Inserting, Creating, MayInsert
<1>4. CASE ReadRecordIn(c) \/ ReadRecordOut(c)
  <2>1. UNCHANGED <<recordSeq, periodSeq>>
    BY <1>4 DEF ReadRecordIn, ReadRecordOut, PeriodsStay, SheetStays, sheetVars
  <2>2. /\ calls[c].pc = "readRecord"
        /\ c \in DOMAIN calls' =>
             \/ calls[c].act = "in" /\ calls'[c].pc = "insertRecord"
             \/ calls'[c].pc = "logOut"
    BY <1>4 DEF ReadRecordIn, ReadRecordOut, At, Goto, Put, Return, Drop
  <2> QED  BY <1>1, <2>1, <2>2 DEF Clocking, Inserting, Creating, MayInsert
<1>5. CASE InsertRecord(c) \/ LogIn(c) \/ LogOut(c) \/ WriteOut(c)
  <2>1. /\ calls[c].pc \in {"insertRecord", "logIn", "logOut", "writeOut"}
        /\ c \in DOMAIN calls' =>
             calls'[c].pc \in {"logIn", "writeOut", "readDashboardPeriod"}
    <3>1. CASE InsertRecord(c)
      BY <3>1 DEF InsertRecord, At, Goto, Put, Return, Drop
    <3>2. CASE LogIn(c)
      BY <3>2 DEF LogIn, WriteLog, At, Goto, Put, Return, Drop
    <3>3. CASE LogOut(c)
      <4>1. calls[c] \in [pc : WriteLabels, id : RecordId, at : Time]
        BY <1>1, <3>3, ClockCallByLabel DEF LogOut, At, WriteLabels
      <4> QED  BY <3>3, <4>1 DEF LogOut, WriteLog, At, Goto, Put, Return, Drop
    <3>4. CASE WriteOut(c)
      BY <3>4 DEF WriteOut, At, Goto, Put
    <3> QED  BY <1>5, <3>1, <3>2, <3>3, <3>4
  <2> QED  BY <1>1, <2>1 DEF Clocking, Inserting, Creating, MayInsert
<1>6. CASE ReadDashboardPeriod(c) \/ ReadDashboard(c)
  <2>1. /\ calls[c].pc \in {"readDashboardPeriod", "readDashboard"}
        /\ c \in DOMAIN calls' => calls'[c].pc \in {"readDashboard", "emitDashboard"}
    BY <1>6 DEF ReadDashboardPeriod, ReadDashboard, At, Goto, Put, Return, Drop
  <2> QED  BY <1>1, <2>1 DEF Clocking, Inserting, Creating, MayInsert
<1>7. CASE CheckNewPeriod(c) \/ CheckDates(c) \/ Deactivate(c)
  <2>1. UNCHANGED periodSeq
    BY <1>7 DEF CheckNewPeriod, CheckDates, Deactivate, PeriodsStay
  <2>2. /\ calls[c].pc \in {"checkNewPeriod", "checkDates", "deactivate"}
        /\ c \in DOMAIN calls' =>
             \/ calls'[c].pc \in {"updatePeriod", "activate"}
             \/ calls'[c].pc = "insertPeriod" /\ calls[c].pc = "checkNewPeriod"
    <3>1. CASE CheckNewPeriod(c)
      <4>1. calls[c] \in [pc : {"checkNewPeriod", "insertPeriod"}, row : PeriodRow]
        BY <1>1, <3>1, PeriodCallByLabel DEF CheckNewPeriod, At
      <4> QED  BY <3>1, <4>1 DEF CheckNewPeriod, At, Goto, Put, Return, Drop
    <3>2. CASE CheckDates(c)
      <4>1. calls[c] \in [pc : {"checkDates", "updatePeriod"}, id : PeriodId,
                          edit : PeriodEdit, from : Nat, to : Nat]
        BY <1>1, <3>2, PeriodCallByLabel DEF CheckDates, At
      <4> QED  BY <3>2, <4>1 DEF CheckDates, At, Goto, Put, Return, Drop
    <3>3. CASE Deactivate(c)
      <4>1. calls[c] \in [pc : {"deactivate", "activate"}, at : Time]
        BY <1>1, <3>3, PeriodCallByLabel DEF Deactivate, At
      <4> QED  BY <3>3, <4>1 DEF Deactivate, At, Goto, Put, Return, Drop
    <3> QED  BY <1>7, <3>1, <3>2, <3>3
  <2> QED  BY <1>1, <2>1, <2>2 DEF Clocking, Inserting, Creating, MayInsert
<1>8. CASE \/ EmitDashboard(c) \/ InsertPeriod(c) \/ UpdatePeriod(c) \/ Activate(c)
           \/ CascadePeriod(c) \/ Fail(c) \/ FailDashboard(c)
  BY <1>2, <1>8 DEF EmitDashboard, InsertPeriod, UpdatePeriod, Activate, CascadePeriod,
                    DeletePeriod, Fail, FailDashboard
<1> QED  BY <1>3, <1>4, <1>5, <1>6, <1>7, <1>8 DEF Moves, HandlerStep, ClockStep, PeriodStep

\* Who takes an id stops to be one that may.
LEMMA IdsTaken ==
  ASSUME SheetInv, NEW c \in Call, Moves(c)
  PROVE  /\ \/ UNCHANGED recordSeq
            \/ recordSeq' = recordSeq + 1 /\ c \in Inserting /\ At(c, "insertRecord")
         /\ \/ UNCHANGED periodSeq
            \/ periodSeq' = periodSeq + 1 /\ c \in Creating
<1>1. CASE InsertRecord(c)
  BY <1>1 DEF InsertRecord, At, Inserting, MayInsert, PeriodsStay
<1>2. CASE InsertPeriod(c) /\ SheetStays
  BY <1>2 DEF InsertPeriod, At, Creating, SheetStays, sheetVars
<1>3. CASE WriteOut(c) \/ CascadePeriod(c)
  BY <1>3 DEF WriteOut, CascadePeriod, DeletePeriod, PeriodsStay
<1>4. CASE (UpdatePeriod(c) \/ Deactivate(c) \/ Activate(c)) /\ SheetStays
  BY <1>4 DEF UpdatePeriod, Deactivate, Activate, SheetStays, sheetVars
<1>5. CASE ReadPeriod(c) \/ CheckWorkingDay(c) \/ ReadRecordIn(c) \/ ReadRecordOut(c)
             \/ ReadDashboardPeriod(c) \/ ReadDashboard(c)
  BY <1>5 DEF ReadPeriod, CheckWorkingDay, ReadRecordIn, ReadRecordOut, ReadDashboardPeriod,
              ReadDashboard, PeriodsStay, SheetStays, sheetVars
<1>6. CASE LogIn(c) \/ LogOut(c) \/ EmitDashboard(c) \/ Fail(c) \/ FailDashboard(c)
  BY <1>6 DEF LogIn, LogOut, WriteLog, EmitDashboard, Fail, FailDashboard, PeriodsStay, sheetVars
<1>7. CASE (CheckNewPeriod(c) \/ CheckDates(c)) /\ SheetStays
  BY <1>7 DEF CheckNewPeriod, CheckDates, PeriodsStay, SheetStays, sheetVars
<1>8. CASE ClockStep(c)
  BY <1>1, <1>3, <1>5, <1>6, <1>8 DEF ClockStep
<1>9. CASE PeriodStep(c) /\ SheetStays
  BY <1>2, <1>4, <1>7, <1>9 DEF PeriodStep
<1> QED  BY <1>3, <1>6, <1>8, <1>9 DEF Moves, HandlerStep

\* Who takes up room gives up the claim to it.
LEMMA RoomIsTakenUp ==
  ASSUME NEW len \in Int, NEW many \in Int, NEW max \in Int, NEW len1 \in Int, NEW many1 \in Int,
         len + many <= max, len1 <= len + 1, many1 + 1 <= many
  PROVE  len1 + many1 <= max
OBVIOUS

\* Room for one more is enough for one more.
LEMMA RoomForOneMore ==
  ASSUME NEW len \in Int, NEW many \in Int, NEW max \in Int, NEW len1 \in Int, NEW many1 \in Int,
         \/ len + many <= max /\ len1 <= len /\ many1 <= many
         \/ len + many < max /\ len1 <= len /\ many1 <= many + 1
  PROVE  len1 + many1 <= max
OBVIOUS

LEMMA OthersKeepLabels ==
  ASSUME NEW c, OnlyRow(calls, calls', c), NEW d, d # c
  PROVE  /\ d \in Clocking' <=> d \in Clocking
         /\ d \in Inserting' <=> d \in Inserting
         /\ d \in Creating' <=> d \in Creating
BY DEF OnlyRow, Clocking, Inserting, Creating, MayInsert

LEMMA MovesKeepsBounds ==
  ASSUME SheetInv, NEW c \in Call, Moves(c)
  PROVE  BoundsInv'
<1>1. /\ IsFiniteSet(Clocking) /\ Cardinality(Clocking) \in Nat
      /\ IsFiniteSet(Inserting) /\ Cardinality(Inserting) \in Nat
      /\ IsFiniteSet(Creating) /\ Cardinality(Creating) \in Nat
      /\ recordSeq \in Nat /\ periodSeq \in Nat /\ Len(queue) \in Nat
      /\ MaxQueue \in Nat /\ MaxRecords \in Nat /\ MaxPeriods \in Nat
  BY CallsAreFinite, Lengths DEF SheetInv, TypesInv, PeriodsTypeOK
<1>a. /\ Len(queue) + Cardinality(Clocking) <= MaxQueue
      /\ recordSeq + Cardinality(Inserting) <= MaxRecords
      /\ periodSeq + Cardinality(Creating) <= MaxPeriods
  BY DEF SheetInv, BoundsInv
<1>2. \A d : d # c =>
        /\ d \in Clocking' <=> d \in Clocking
        /\ d \in Inserting' <=> d \in Inserting
        /\ d \in Creating' <=> d \in Creating
  BY MovesFrame, OthersKeepLabels
<1>3. Len(queue') + Cardinality(Clocking') <= MaxQueue
  <2>1. CASE UNCHANGED queue
    <3>1. Clocking' \subseteq Clocking
      BY <1>2, LabelsGoForward
    <3>2. Cardinality(Clocking') \in Nat /\ Cardinality(Clocking') <= Cardinality(Clocking)
      BY <1>1, <3>1, FS_Subset, FS_CardinalityType
    <3> QED  BY <1>1, <1>a, <2>1, <3>2, RoomForOneMore
  <2>2. CASE Sends(c)
    <3>1. c \in Clocking /\ c \notin Clocking'
      BY <2>2, SendsOne DEF Return, Drop, Clocking
    <3>2. Clocking' \subseteq Clocking \ {c}
      BY <1>2, <3>1
    <3>3. Cardinality(Clocking') \in Nat /\ Cardinality(Clocking') + 1 <= Cardinality(Clocking)
      BY <1>1, <3>1, <3>2, OneLess
    <3>4. Len(queue') <= Len(queue) + 1 /\ Len(queue') \in Nat
      BY <1>1, <2>2, SendsOne, QueueTyped DEF SheetInv, TypesInv
    <3> QED  BY <1>1, <1>a, <3>3, <3>4, RoomIsTakenUp, SMTT(30)
  <2> QED  BY <2>1, <2>2, WhoWrites
<1>4. recordSeq' + Cardinality(Inserting') <= MaxRecords
  <2>1. CASE UNCHANGED recordSeq
    <3>1. Inserting' \subseteq Inserting
      BY <1>2, LabelsGoForward
    <3>2. Cardinality(Inserting') \in Nat /\ Cardinality(Inserting') <= Cardinality(Inserting)
      BY <1>1, <3>1, FS_Subset, FS_CardinalityType
    <3> QED  BY <1>1, <1>a, <2>1, <3>2, RoomForOneMore
  <2>2. CASE recordSeq' = recordSeq + 1 /\ c \in Inserting
    <3>1. Inserting' \subseteq Inserting \ {c}
      BY <1>1, <1>2, <2>2, LabelsGoForward
    <3>2. /\ Cardinality(Inserting') \in Nat
          /\ Cardinality(Inserting') + 1 <= Cardinality(Inserting)
      BY <1>1, <2>2, <3>1, OneLess
    <3> QED  BY <1>1, <1>a, <2>2, <3>2, RoomIsTakenUp, SMTT(30)
  <2> QED  BY <2>1, <2>2, IdsTaken
<1>5. periodSeq' + Cardinality(Creating') <= MaxPeriods
  <2>1. CASE UNCHANGED periodSeq
    <3>1. Creating' \subseteq Creating
      BY <1>2, LabelsGoForward
    <3>2. Cardinality(Creating') \in Nat /\ Cardinality(Creating') <= Cardinality(Creating)
      BY <1>1, <3>1, FS_Subset, FS_CardinalityType
    <3> QED  BY <1>1, <1>a, <2>1, <3>2, RoomForOneMore
  <2>2. CASE periodSeq' = periodSeq + 1 /\ c \in Creating
    <3>1. Creating' \subseteq Creating \ {c}
      BY <1>1, <1>2, <2>2, LabelsGoForward
    <3>2. /\ Cardinality(Creating') \in Nat
          /\ Cardinality(Creating') + 1 <= Cardinality(Creating)
      BY <1>1, <2>2, <3>1, OneLess
    <3> QED  BY <1>1, <1>a, <2>2, <3>2, RoomIsTakenUp, SMTT(30)
  <2> QED  BY <2>1, <2>2, IdsTaken
<1> QED  BY <1>3, <1>4, <1>5 DEF BoundsInv

LEMMA StartsKeepsBounds ==
  ASSUME SheetInv, NEW c \in Call, Starts(c)
  PROVE  BoundsInv'
<1>1. /\ IsFiniteSet(Clocking) /\ Cardinality(Clocking) \in Nat
      /\ IsFiniteSet(Inserting) /\ Cardinality(Inserting) \in Nat
      /\ IsFiniteSet(Creating) /\ Cardinality(Creating) \in Nat
      /\ recordSeq \in Nat /\ periodSeq \in Nat /\ Len(queue) \in Nat
      /\ MaxQueue \in Nat /\ MaxRecords \in Nat /\ MaxPeriods \in Nat
  BY CallsAreFinite, Lengths DEF SheetInv, TypesInv, PeriodsTypeOK
<1>a. /\ Len(queue) + Cardinality(Clocking) <= MaxQueue
      /\ recordSeq + Cardinality(Inserting) <= MaxRecords
      /\ periodSeq + Cardinality(Creating) <= MaxPeriods
  BY DEF SheetInv, BoundsInv
<1>2. /\ c \notin DOMAIN calls /\ UNCHANGED <<queue, recordSeq, periodSeq>>
      /\ \A d : d # c =>
           /\ d \in Clocking' <=> d \in Clocking
           /\ d \in Inserting' <=> d \in Inserting
           /\ d \in Creating' <=> d \in Creating
  BY StartsFrame, OthersKeepLabels DEF dashboardVars, sheetVars
<1>3. /\ c \in Clocking' => Len(queue) + Cardinality(Clocking) < MaxQueue
      /\ c \in Inserting' => recordSeq + Cardinality(Clocking) < MaxRecords
      /\ c \in Creating' => periodSeq + Cardinality(Creating) < MaxPeriods
  BY DEF Starts, ClockIn, ClockOut, StartClock, NewPeriodCall, CreatePeriod, EditPeriod,
         RemovePeriod, RunPeriodsCheck, Goto, Put, Clocking, Inserting, Creating, MayInsert
<1>4. Inserting \subseteq Clocking
  BY DEF Inserting, Clocking, MayInsert
<1>5. Cardinality(Inserting) <= Cardinality(Clocking)
  BY <1>1, <1>4, FS_Subset
<1>6. ASSUME NEW S, NEW T, IsFiniteSet(S), \A d : d # c => (d \in T <=> d \in S), c \notin S
      PROVE  /\ Cardinality(T) \in Nat /\ Cardinality(S) \in Nat
             /\ Cardinality(T) <= Cardinality(S) + 1
             /\ c \notin T => Cardinality(T) = Cardinality(S)
  <2>1. T \subseteq S \cup {c}
    BY <1>6
  <2>2. c \notin T => T = S
    BY <1>6
  <2> QED  BY <1>6, <2>1, <2>2, OneMore
<1>7. c \notin Clocking /\ c \notin Inserting /\ c \notin Creating
  BY <1>2 DEF Clocking, Inserting, Creating
<1>8. /\ Cardinality(Clocking') \in Nat /\ Cardinality(Clocking') <= Cardinality(Clocking) + 1
      /\ c \notin Clocking' => Cardinality(Clocking') = Cardinality(Clocking)
  BY <1>1, <1>2, <1>6, <1>7
<1>9. /\ Cardinality(Inserting') \in Nat
      /\ Cardinality(Inserting') <= Cardinality(Inserting) + 1
      /\ c \notin Inserting' => Cardinality(Inserting') = Cardinality(Inserting)
  BY <1>1, <1>2, <1>6, <1>7
<1>10. /\ Cardinality(Creating') \in Nat /\ Cardinality(Creating') <= Cardinality(Creating) + 1
       /\ c \notin Creating' => Cardinality(Creating') = Cardinality(Creating)
  BY <1>1, <1>2, <1>6, <1>7
<1>11. Len(queue') + Cardinality(Clocking') <= MaxQueue
  <2>1. CASE c \in Clocking'
    <3>1. Len(queue) + Cardinality(Clocking) < MaxQueue
      BY <1>3, <2>1
    <3> QED  BY <1>1, <1>2, <1>8, <3>1, RoomForOneMore
  <2>2. CASE c \notin Clocking'
    BY <1>1, <1>2, <1>8, <1>a, <2>2
  <2> QED  BY <2>1, <2>2
<1>12. recordSeq' + Cardinality(Inserting') <= MaxRecords
  <2>1. CASE c \in Inserting'
    <3>1. recordSeq + Cardinality(Inserting) < MaxRecords
      BY <1>1, <1>3, <1>5, <2>1
    <3> QED  BY <1>1, <1>2, <1>9, <3>1, RoomForOneMore
  <2>2. CASE c \notin Inserting'
    BY <1>1, <1>2, <1>9, <1>a, <2>2
  <2> QED  BY <2>1, <2>2
<1>13. periodSeq' + Cardinality(Creating') <= MaxPeriods
  <2>1. CASE c \in Creating'
    <3>1. periodSeq + Cardinality(Creating) < MaxPeriods
      BY <1>3, <2>1
    <3> QED  BY <1>1, <1>2, <1>10, <3>1, RoomForOneMore
  <2>2. CASE c \notin Creating'
    BY <1>1, <1>2, <1>10, <1>a, <2>2
  <2> QED  BY <2>1, <2>2
<1> QED  BY <1>11, <1>12, <1>13 DEF BoundsInv

\* Without calls nothing is set aside.
LEMMA NobodyCalls ==
  ASSUME DOMAIN calls = {}
  PROVE  Cardinality(Clocking) = 0 /\ Cardinality(Inserting) = 0 /\ Cardinality(Creating) = 0
<1>1. Clocking = {} /\ Inserting = {} /\ Creating = {}
  BY DEF Clocking, Inserting, Creating
<1> QED  BY <1>1, FS_EmptySet

LEMMA CrashKeepsBounds ==
  ASSUME SheetInv, Crash
  PROVE  BoundsInv'
<1>1. DOMAIN calls' = {} /\ UNCHANGED <<queue, recordSeq, periodSeq>>
  BY CrashKeepsTypes DEF Crash, Reboot, PeriodsStay
<1>2. (DOMAIN calls = {} => /\ Cardinality(Clocking) = 0 /\ Cardinality(Inserting) = 0
                            /\ Cardinality(Creating) = 0)'
  BY NobodyCalls, PTL
<1>3. /\ Cardinality(Clocking') = 0 /\ Cardinality(Inserting') = 0
      /\ Cardinality(Creating') = 0
  BY <1>1, <1>2
<1>4. /\ Cardinality(Clocking) \in Nat /\ Cardinality(Inserting) \in Nat
      /\ Cardinality(Creating) \in Nat
      /\ recordSeq \in Nat /\ periodSeq \in Nat /\ Len(queue) \in Nat
      /\ MaxQueue \in Nat /\ MaxRecords \in Nat /\ MaxPeriods \in Nat
  BY CallsAreFinite, Lengths DEF SheetInv, TypesInv, PeriodsTypeOK
<1> QED  BY <1>1, <1>3, <1>4 DEF SheetInv, BoundsInv

LEMMA ElsewhereKeepsBounds ==
  ASSUME SheetInv, Elsewhere
  PROVE  BoundsInv'
<1>1. UNCHANGED <<calls, recordSeq, periodSeq>> /\ Len(queue') <= Len(queue)
  BY ElsewhereFrame, ElsewhereKeepsTypes DEF sheetVars
<1>2. Clocking' = Clocking /\ Inserting' = Inserting /\ Creating' = Creating
  BY <1>1 DEF Clocking, Inserting, Creating, MayInsert
<1>3. Cardinality(Clocking) \in Nat /\ Len(queue) \in Nat /\ MaxQueue \in Nat
  BY CallsAreFinite, Lengths DEF SheetInv, TypesInv
<1>4. Len(queue') \in Nat
  BY ElsewhereKeepsTypes DEF TypesInv
<1> QED  BY <1>1, <1>2, <1>3, <1>4 DEF SheetInv, BoundsInv

LEMMA SheetInvKept ==
  ASSUME SheetInv, [Next]_vars
  PROVE  SheetInv'
<1>1. CASE \E c \in Call : Starts(c) \/ Moves(c)
  BY <1>1, StartsKeepsTypes, StartsKeepsBounds, MovesKeepsTypes, MovesKeepsBounds DEF SheetInv
<1>2. CASE Crash
  BY <1>2, CrashKeepsTypes, CrashKeepsBounds DEF SheetInv
<1>3. CASE Elsewhere
  BY <1>3, ElsewhereKeepsTypes, ElsewhereKeepsBounds DEF SheetInv
<1> QED  BY <1>1, <1>2, <1>3, StepOfAttendance

LEMMA SheetInvInit == Init => SheetInv
<1> SUFFICES ASSUME Init PROVE SheetInv
  OBVIOUS
<1>1. DOMAIN calls = {} /\ IsTable(calls, Call, CallRecord)
  BY EmptyTable DEF Init
<1>2. PeriodsTypeOK
  <2>1. IsTable(<< >>, 1 .. 1, PeriodRow) /\ 1 \in 1 .. 1
    BY EmptyTable
  <2>2. IsTable(Put(<< >>, 1, StartPeriod), 1 .. 1, PeriodRow)
    BY <2>1, PutIsTable, AttendanceAssumption
  <2> QED  BY <2>2, Lengths DEF Init, PeriodsTypeOK, Time
<1>3. /\ link \in {Off, Up, Down} \cup 1 .. MaxRetries
      /\ queue \in Seq(Snapshot) /\ Len(queue) = 0 /\ room \subseteq Client
  BY Lengths DEF Init, DashboardInit, Boots, Off
<1>4. IsTable(screen, Client, Snapshot) /\ IsTable(records, 1 .. recordSeq, Record)
  BY EmptyTable DEF Init, DashboardInit
<1>5. TypesInv
  BY <1>1, <1>2, <1>3, <1>4, Lengths DEF TypesInv, Init
<1>6. BoundsInv
  BY <1>1, <1>3, NobodyCalls, Lengths DEF BoundsInv, Init
<1> QED  BY <1>5, <1>6 DEF SheetInv

LEMMA SheetInvariant == Spec => []SheetInv
BY SheetInvInit, SheetInvKept, PTL DEF Spec

\* Rows and calls have their types, no id is used and no snapshot queued beyond
\* the bounds, and a record has its period and a log its record: the foreign
\* keys hold although ON DELETE CASCADE, the inserts and the handlers that
\* have read a row before interleave in every order.
THEOREM AttendanceTypes == Spec => []TypeOK
<1>1. SheetInv => TypeOK
  <2> SUFFICES ASSUME SheetInv PROVE TypeOK
    OBVIOUS
  <2>1. /\ Len(queue) \in Nat /\ Cardinality(Clocking) \in Nat /\ MaxQueue \in Nat
        /\ \A i \in DOMAIN queue : queue[i] \in Snapshot
    BY CallsAreFinite, Lengths DEF SheetInv, TypesInv
  <2>2. Len(queue) <= MaxQueue
    BY <2>1 DEF SheetInv, BoundsInv
  <2>3. recordSeq \in 0 .. MaxRecords
    BY NextIds, Lengths
  <2> QED  BY <2>1, <2>2, <2>3 DEF SheetInv, TypesInv, TypeOK, CallRecord
<1> QED  BY <1>1, SheetInvariant, PTL

-----------------------------------------------------------------------------
(* Records without a log.                                                  *)

LEMMA UnloggedIsFinite ==
  ASSUME SheetInv
  PROVE  IsFiniteSet(Unlogged) /\ Cardinality(Unlogged) \in Nat
<1>1. Unlogged \subseteq 1 .. recordSeq /\ recordSeq \in Nat
  BY DEF Unlogged, SheetInv, TypesInv, IsTable
<1> QED  BY <1>1, IdsAreFinite, FS_Subset, FS_CardinalityType

\* A record keeps its logs for as long as there is the record.
LEMMA LogsStay ==
  ASSUME NEW c \in Call, Moves(c), NEW l \in logs, l.record \in DOMAIN records'
  PROVE  l \in logs'
<1>1. CASE CascadePeriod(c)
  BY <1>1 DEF CascadePeriod
<1>2. CASE LogIn(c) \/ LogOut(c)
  BY <1>2 DEF LogIn, LogOut, WriteLog
<1> QED  BY <1>1, <1>2, WhoWrites DEF WritesLogs

\* A record gets its log from the handler that has made it, unless that fails.
LEMMA MovesUnlogged ==
  ASSUME SheetInv, NEW c \in Call, Moves(c)
  PROVE  \/ Unlogged' \subseteq Unlogged
         \/ Fail(c) /\ \E x : Unlogged' \subseteq Unlogged \cup {x}
<1>1. \A d : d # c => (d \in DOMAIN calls <=> d \in DOMAIN calls')
  BY MovesFrame DEF OnlyRow
<1>2. \A d \in DOMAIN calls : d # c => calls'[d] = calls[d]
  BY MovesFrame DEF OnlyRow
<1>3. ASSUME NEW i \in Unlogged', i \notin Unlogged
      PROVE  i \notin DOMAIN records \/ (At(c, "logIn") /\ calls[c].id = i)
  <2>1. SUFFICES ASSUME i \in DOMAIN records PROVE At(c, "logIn") /\ calls[c].id = i
    OBVIOUS
  <2>2. i \in DOMAIN records' /\ ~ \E l \in logs' : l.record = i /\ l.action = "CLOCK_IN"
    BY <1>3 DEF Unlogged
  <2>3. ~ \E l \in logs : l.record = i /\ l.action = "CLOCK_IN"
    BY <2>2, LogsStay
  <2>4. PICK d \in DOMAIN calls : At(d, "logIn") /\ calls[d].id = i
    BY <1>3, <2>1, <2>3 DEF Unlogged, InFlight
  <2>5. d = c
    BY <1>1, <1>2, <1>3, <2>4 DEF Unlogged, InFlight, At
  <2> QED  BY <2>4, <2>5
<1>4. CASE InsertRecord(c)
  <2>1. \A i \in DOMAIN records' : i \in DOMAIN records \/ (At(c, "logIn")' /\ calls'[c].id = i)
    BY <1>4 DEF InsertRecord, Put, Goto, At
  <2> QED  BY <1>3, <1>4, <2>1 DEF InsertRecord, At, Unlogged, InFlight
<1>5. CASE ~InsertRecord(c)
  <2>1. DOMAIN records' \subseteq DOMAIN records
    <3>1. CASE WriteOut(c) \/ CascadePeriod(c)
      BY <3>1 DEF WriteOut, CascadePeriod
    <3> QED  BY <1>5, <3>1, WhoWrites DEF WritesRecords
  <2>2. CASE Fail(c)
    BY <1>3, <2>1, <2>2 DEF Unlogged
  <2>3. CASE LogIn(c)
    <3>1. calls[c].id \in DOMAIN records =>
            \E l \in logs' : l.record = calls[c].id /\ l.action = "CLOCK_IN"
      <4>1. PICK l : l = [record |-> calls[c].id, action |-> "CLOCK_IN", at |-> calls[c].at]
        OBVIOUS
      <4>2. l.record = calls[c].id /\ l.action = "CLOCK_IN"
        BY <4>1
      <4>3. calls[c].id \in DOMAIN records => l \in logs'
        BY <2>3, <4>1 DEF LogIn, WriteLog
      <4> QED  BY <4>2, <4>3
    <3> QED  BY <1>3, <2>1, <3>1 DEF Unlogged
  <2>4. CASE ~Fail(c) /\ ~LogIn(c)
    <3>1. ~At(c, "logIn")
      BY <2>4
         DEF Moves, HandlerStep, ClockStep, PeriodStep, ReadPeriod, CheckWorkingDay,
             ReadRecordIn, ReadRecordOut, InsertRecord, LogOut, WriteOut,
             ReadDashboardPeriod, ReadDashboard, EmitDashboard, CheckNewPeriod,
             InsertPeriod, CheckDates, UpdatePeriod, Deactivate, Activate, CascadePeriod,
             DeletePeriod, FailDashboard, At
    <3> QED  BY <1>3, <2>1, <3>1 DEF Unlogged
  <2> QED  BY <2>2, <2>3, <2>4
<1> QED  BY <1>4, <1>5

LEMMA UnloggedKept ==
  ASSUME SheetInv, UnloggedAreCounted, [Next]_vars
  PROVE  UnloggedAreCounted'
<1> DEFINE k == Cardinality(Call)
<1>1. /\ k \in Nat /\ mishaps \in Nat /\ IsFiniteSet(Unlogged) /\ Cardinality(Unlogged) \in Nat
      /\ (mishaps + 1) * k = mishaps * k + k /\ mishaps * k \in Nat
  <2>1. k \in Nat /\ mishaps \in Nat
    BY CallsAreFinite, Lengths DEF SheetInv, TypesInv
  <2> QED  BY <2>1, OneUpsetMore, UnloggedIsFinite
<1>2. ASSUME Unlogged' \subseteq Unlogged, mishaps' \in {mishaps, mishaps + 1}
      PROVE  UnloggedAreCounted'
  <2>1. Cardinality(Unlogged') \in Nat /\ Cardinality(Unlogged') <= Cardinality(Unlogged)
    BY <1>1, <1>2, FS_Subset, FS_CardinalityType
  <2> HIDE DEF k
  <2>2. CASE mishaps' = mishaps
    BY <1>1, <2>1, <2>2 DEF UnloggedAreCounted, k
  <2>3. CASE mishaps' = mishaps + 1
    <3>1. Cardinality(Unlogged) <= mishaps * k
      BY DEF UnloggedAreCounted, k
    <3>2. Cardinality(Unlogged') <= mishaps' * k
      BY <1>1, <2>1, <2>3, <3>1
    <3> QED  BY <3>2 DEF UnloggedAreCounted, k
  <2> QED  BY <1>2, <2>2, <2>3
<1>3. ASSUME NEW S, IsFiniteSet(S), Cardinality(S) <= k, Unlogged' \subseteq Unlogged \cup S,
             mishaps' = mishaps + 1
      PROVE  UnloggedAreCounted'
  <2>1. /\ Cardinality(Unlogged') \in Nat /\ Cardinality(S) \in Nat
        /\ Cardinality(Unlogged') <= Cardinality(Unlogged) + Cardinality(S)
    BY <1>1, <1>3, SomeMore
  <2> HIDE DEF k
  <2>2. Cardinality(Unlogged) <= mishaps * k
    BY DEF UnloggedAreCounted, k
  <2>3. Cardinality(Unlogged') <= mishaps' * k
    BY <1>1, <1>3, <2>1, <2>2
  <2> QED  BY <2>3 DEF UnloggedAreCounted, k
<1> HIDE DEF k
<1>4. CASE \E c \in Call : Starts(c)
  <2>1. PICK c \in Call : Starts(c)
    BY <1>4
  <2>2. /\ UNCHANGED <<records, logs, mishaps>>
        /\ \A d \in DOMAIN calls : d \in DOMAIN calls' /\ calls'[d] = calls[d]
    BY <2>1, StartsFrame DEF sheetVars, OnlyRow
  <2>3. Unlogged' \subseteq Unlogged
    BY <2>2 DEF Unlogged, InFlight, At
  <2> QED  BY <1>2, <2>2, <2>3
<1>5. CASE \E c \in Call : Moves(c)
  <2>1. PICK c \in Call : Moves(c)
    BY <1>5
  <2>2. mishaps' \in {mishaps, mishaps + 1} /\ (Fail(c) => mishaps' = mishaps + 1)
    BY <2>1, WhoWrites DEF Fail, FailDashboard, Mishap
  <2>3. CASE Unlogged' \subseteq Unlogged
    BY <1>2, <2>2, <2>3
  <2>4. CASE Fail(c) /\ \E x : Unlogged' \subseteq Unlogged \cup {x}
    <3>1. PICK x : Unlogged' \subseteq Unlogged \cup {x}
      BY <2>4
    <3>2. IsFiniteSet({x}) /\ Cardinality({x}) = 1
      BY FS_Singleton
    <3>3. 1 <= k
      BY <2>1, MovesFrame, CallsAreFinite DEF SheetInv, k
    <3> QED  BY <1>3, <2>2, <2>4, <3>1, <3>2, <3>3
  <2> QED  BY <2>1, <2>3, <2>4, MovesUnlogged
<1>6. CASE Crash
  <2> DEFINE S == {calls[c].id : c \in {d \in DOMAIN calls : At(d, "logIn")}}
             C == {d \in DOMAIN calls : At(d, "logIn")}
             f == [c \in C |-> calls[c].id]
  <2>1. IsFiniteSet(C) /\ Cardinality(C) <= k /\ Cardinality(C) \in Nat
    <3>1. C \subseteq Call
      BY DEF SheetInv, TypesInv, IsTable
    <3>2. IsFiniteSet(Call)
      BY CallsAreFinite DEF SheetInv
    <3> QED  BY <3>1, <3>2, FS_Subset, FS_CardinalityType DEF k
  <2>2. f \in Surjection(C, S)
    BY DEF Surjection
  <2>3. IsFiniteSet(S) /\ Cardinality(S) <= Cardinality(C)
    <3> HIDE DEF C, S, f
    <3> QED  BY <2>1, <2>2, FS_Surjection
  <2>4. Cardinality(S) <= k
    BY <1>1, <2>1, <2>3, FS_CardinalityType
  <2>5. UNCHANGED <<records, logs>> /\ mishaps' = mishaps + 1
    BY <1>6 DEF Crash, Mishap
  <2>6. Unlogged' \subseteq Unlogged \cup S
    BY <2>5 DEF Unlogged, InFlight
  <2> QED  BY <1>3, <2>3, <2>4, <2>5, <2>6
<1>7. CASE Elsewhere
  <2>1. UNCHANGED <<calls, records, logs, mishaps>>
    BY <1>7, ElsewhereFrame DEF sheetVars
  <2>2. Unlogged' = Unlogged
    BY <2>1 DEF Unlogged, InFlight, At
  <2> QED  BY <1>2, <2>1, <2>2
<1> QED  BY <1>4, <1>5, <1>6, <1>7, StepOfAttendance

\* clockIn writes the record and then its log, in separate statements: at any
\* moment the records without a CLOCK_IN whose handler is gone are no more
\* than what failures and crashes account for, a crash with one for every call
\* there may be.
THEOREM LogsAreMissedForACause == Spec => []UnloggedAreCounted
<1>1. Init => UnloggedAreCounted
  <2> SUFFICES ASSUME Init PROVE UnloggedAreCounted
    OBVIOUS
  <2>1. Unlogged = {} /\ mishaps = 0
    BY DEF Init, Unlogged
  <2>2. Cardinality(Unlogged) = 0 /\ Cardinality(Call) \in Nat
    BY <2>1, FS_EmptySet, AttendanceAssumption, FS_CardinalityType
  <2> QED  BY <2>1, <2>2 DEF UnloggedAreCounted
<1>2. UnloggedAreCounted /\ SheetInv /\ [Next]_vars => UnloggedAreCounted'
  BY UnloggedKept
<1> QED  BY <1>1, <1>2, SheetInvariant, PTL DEF Spec

-----------------------------------------------------------------------------
(* The queue.                                                              *)

\* The queue in a step: it loses its first snapshot, gets one more, or stays.
LEMMA QueueMoves ==
  ASSUME SheetInv, [Next]_vars
  PROVE  \/ UNCHANGED <<queue, screen>>
         \/ \E c \in Call : /\ EmitDashboard(c) /\ UNCHANGED screen
                            /\ queue' = Append(queue, calls[c].snapshot)
         \/ \E c \in Call : /\ FailDashboard(c) /\ UNCHANGED screen
                            /\ queue' = Append(queue, EmptyDashboard(calls[c]))
         \/ /\ HandleDashboardUpdate
            /\ queue # << >> /\ queue' = Tail(queue) /\ screen' = Shown(Head(queue))
            /\ UNCHANGED <<periodVars, sheetVars>>
<1>1. CASE \E c \in Call : Starts(c)
  BY <1>1, StartsFrame DEF dashboardVars
<1>2. CASE \E c \in Call : Moves(c)
  <2>1. PICK c \in Call : Moves(c)
    BY <1>2
  <2>2. UNCHANGED screen /\ (~Sends(c) => UNCHANGED queue)
    BY <2>1, MovesFrame, WhoWrites
  <2>3. CASE EmitDashboard(c)
    BY <2>2, <2>3 DEF EmitDashboard, Emit
  <2>4. CASE FailDashboard(c)
    BY <2>2, <2>4 DEF FailDashboard, Emit
  <2> QED  BY <2>2, <2>3, <2>4 DEF Sends
<1>3. CASE Crash
  BY <1>3 DEF Crash, Reboot
<1>4. CASE Elsewhere
  <2>1. CASE Delivery
    BY <2>1 DEF Delivery, Connect, ConnectFails, HandleDashboardUpdate, JoinTenant, LeaveTenant
  <2>2. CASE UNCHANGED dashboardVars
    BY <2>2 DEF dashboardVars
  <2> QED  BY <1>4, <2>1, <2>2 DEF Elsewhere, HolidayChange, SheetStays, vars
<1> QED  BY <1>1, <1>2, <1>3, <1>4, StepOfAttendance

\* A call comes to its last statement of the dashboard by the one before.
LEMMA WhoEmits ==
  ASSUME SheetInv, [Next]_vars, NEW c, At(c, "emitDashboard")'
  PROVE  \/ At(c, "emitDashboard") /\ calls'[c] = calls[c]
         \/ ReadDashboard(c) /\ c \in Call
<1>1. CASE \E d \in Call : Starts(d)
  <2>1. PICK d \in Call : Starts(d)
    BY <1>1
  <2>2. CASE c = d
    BY <2>1, <2>2
       DEF Starts, ClockIn, ClockOut, StartClock, NewPeriodCall, CreatePeriod, EditPeriod,
           RemovePeriod, RunPeriodsCheck, Goto, Put, At
  <2>3. CASE c # d
    BY <2>1, <2>3, StartsFrame DEF OnlyRow, At
  <2> QED  BY <2>2, <2>3
<1>2. CASE \E d \in Call : Moves(d)
  <2>1. PICK d \in Call : Moves(d)
    BY <1>2
  <2>2. CASE c = d /\ ~ReadDashboard(c)
    <3>1. c \in DOMAIN calls /\ calls[c] \in CallRecord
      BY <2>1, <2>2, MovesFrame, RowOfTable DEF SheetInv, TypesInv
    <3>2. c \in DOMAIN calls'
      BY DEF At
    <3>3. CASE ClockStep(c)
      <4>1. /\ calls[c].pc \in ReadLabels =>
                 calls[c] \in [pc : ReadLabels, act : {"in", "out"}, emp : Employee,
                               today : Day, period : PeriodId, tolerance : Nat]
            /\ calls[c].pc \in WriteLabels =>
                 calls[c] \in [pc : WriteLabels, id : RecordId, at : Time]
        BY <3>1, ClockCallByLabel
      <4>2. calls'[c].pc # "emitDashboard"
        <5>1. CASE ReadPeriod(c) \/ CheckWorkingDay(c) \/ ReadRecordIn(c) \/ ReadRecordOut(c)
          BY <3>2, <4>1, <5>1 DEF ReadPeriod, CheckWorkingDay, ReadRecordIn, ReadRecordOut,
                                  Goto, Put, Return, Drop, At, ReadLabels
        <5>2. CASE InsertRecord(c) \/ LogIn(c) \/ LogOut(c) \/ WriteOut(c)
          BY <3>2, <4>1, <5>2 DEF InsertRecord, LogIn, LogOut, WriteLog, WriteOut,
                                  Goto, Put, Return, Drop, At, WriteLabels
        <5>3. CASE ReadDashboardPeriod(c) \/ EmitDashboard(c)
          BY <3>2, <5>3 DEF ReadDashboardPeriod, EmitDashboard, Goto, Put, Return, Drop
        <5> QED  BY <2>2, <3>3, <5>1, <5>2, <5>3 DEF ClockStep
      <4> QED  BY <4>2 DEF At
    <3>4. CASE ~ClockStep(c)
      <4>1. c \notin Clocking
        <5>1. CASE PeriodStep(c) \/ CascadePeriod(c)
          BY <5>1 DEF PeriodStep, CheckNewPeriod, InsertPeriod, CheckDates, UpdatePeriod,
                      Deactivate, Activate, CascadePeriod, DeletePeriod, At, Clocking
        <5>2. CASE Fail(c) \/ FailDashboard(c)
          BY <3>2, <5>2 DEF Fail, FailDashboard, Return, Drop
        <5> QED  BY <2>1, <2>2, <3>4, <5>1, <5>2 DEF Moves, HandlerStep
      <4>2. c \in Clocking'
        BY DEF At, Clocking
      <4> QED  BY <2>1, <2>2, <4>1, <4>2, LabelsGoForward
    <3> QED  BY <3>3, <3>4
  <2>3. CASE c # d
    BY <2>1, <2>3, MovesFrame DEF OnlyRow, At
  <2> QED  BY <2>1, <2>2, <2>3
<1>3. CASE Crash
  BY <1>3, CrashKeepsTypes DEF At
<1>4. CASE Elsewhere
  BY <1>4, ElsewhereFrame DEF At
<1> QED  BY <1>1, <1>2, <1>3, <1>4, StepOfAttendance

\* The places of the queue after it has grown or shrunk.
LEMMA PlacesOfAppend ==
  ASSUME NEW q \in Seq(Snapshot), NEW s \in Snapshot, NEW i \in DOMAIN Append(q, s)
  PROVE  \/ i \in DOMAIN q /\ Append(q, s)[i] = q[i]
         \/ i = Len(q) + 1 /\ Append(q, s)[i] = s
OBVIOUS

LEMMA PlacesOfTail ==
  ASSUME NEW q \in Seq(Snapshot), q # << >>
  PROVE  /\ 1 \in DOMAIN q /\ Head(q) = q[1]
         /\ \A i \in DOMAIN Tail(q) : i \in Nat /\ i + 1 \in DOMAIN q /\ Tail(q)[i] = q[i + 1]
OBVIOUS

-----------------------------------------------------------------------------
(* Nothing is dated ahead of the clock.                                    *)

\* A row and a call are not ahead of time t.
RowUpTo(row, t) == row.in <= t /\ row.out <= t /\ row.date <= DayOf(t)

CallUpTo(call, t) ==
  /\ call.pc \in WriteLabels => call.at <= t
  /\ call.pc \in {"readPeriod"} \cup ReadLabels => call.today <= DayOf(t)
  /\ call.pc = "insertRecord" =>
       call.row.in <= t /\ call.row.out = Never /\ call.row.date <= DayOf(t)

TimesInv ==
  /\ \A i \in DOMAIN records : RowUpTo(records[i], now)
  /\ \A l \in logs : l.at <= now
  /\ \A c \in DOMAIN calls : CallUpTo(calls[c], now)

LEMMA RecordIsTyped ==
  ASSUME TypesInv, NEW row \in Record
  PROVE  /\ row.in \in Nat /\ row.date \in Nat /\ DayOf(row.in) \in Nat /\ row.out \in Int
         /\ row.in \in Time /\ row.emp \in Employee /\ row.period \in PeriodId
<1>1. /\ row.in \in Time /\ row.date \in Day /\ row.out \in Time \cup {Never}
      /\ row.emp \in Employee /\ row.period \in PeriodId
  BY DEF Record
<1>2. row.in \in Nat /\ DayOf(row.in) \in Nat
  BY <1>1, DaysOfTime
<1>3. row.out \in Int
  <2>1. CASE row.out \in Time
    BY <2>1, DaysOfTime
  <2>2. CASE row.out = Never
    BY <2>2 DEF Never
  <2> QED  BY <1>1, <2>1, <2>2
<1>4. row.date \in Nat
  <2>1. DayOf(MaxTime) \in Nat
    BY Lengths, QuotientOf DEF DayOf
  <2> QED  BY <1>1, <2>1 DEF Day
<1> QED  BY <1>1, <1>2, <1>3, <1>4

LEMMA LogIsTyped ==
  ASSUME NEW l \in Log
  PROVE  l.at \in Nat
<1>1. l.at \in Time
  BY DEF Log
<1> QED  BY <1>1, DaysOfTime

LEMMA NowIsTyped ==
  ASSUME TypesInv
  PROVE  now \in Time /\ now \in Nat /\ DayOf(now) \in Nat
<1>1. now \in Time
  BY DEF TypesInv, PeriodsTypeOK
<1> QED  BY <1>1, DaysOfTime

\* A record and a log as a step leaves them: as they were, or from the call
\* that has written them.
LEMMA RecordsWriter ==
  ASSUME SheetInv, NEW c \in Call, Moves(c), NEW i \in DOMAIN records'
  PROVE  \/ i \in DOMAIN records /\ records'[i] = records[i]
         \/ /\ InsertRecord(c) /\ i = recordSeq + 1 /\ i \notin DOMAIN records
            /\ records'[i] = calls[c].row /\ calls[c].row \in Record
            /\ calls[c].row.period \in DOMAIN periods
         \/ /\ WriteOut(c) /\ i \in DOMAIN records /\ i = calls[c].id
            /\ records[i] \in Record /\ calls[c].at \in Time
            /\ records'[i] = [records[i] EXCEPT !.out = calls[c].at]
<1>1. c \in DOMAIN calls /\ calls[c] \in CallRecord
  BY MovesFrame, RowOfTable DEF SheetInv, TypesInv
<1>2. CASE InsertRecord(c)
  <2>1. calls[c].row \in Record
    BY <1>1, <1>2, ClockCallByLabel DEF InsertRecord, At
  <2>2. recordSeq + 1 \notin DOMAIN records
    BY DEF SheetInv, TypesInv, IsTable
  <2> QED  BY <1>2, <2>1, <2>2 DEF InsertRecord, Put
<1>3. CASE WriteOut(c)
  <2>1. calls[c].at \in Time
    BY <1>1, <1>3, ClockCallByLabel DEF WriteOut, At, WriteLabels
  <2>2. \A j \in DOMAIN records : records[j] \in Record
    BY RowOfTable DEF SheetInv, TypesInv
  <2>3. records' = IF calls[c].id \in DOMAIN records
                     THEN [records EXCEPT ![calls[c].id].out = calls[c].at]
                     ELSE records
    BY <1>3 DEF WriteOut
  <2> QED  BY <1>3, <2>1, <2>2, <2>3
<1>4. CASE CascadePeriod(c)
  BY <1>4 DEF CascadePeriod
<1> QED  BY <1>2, <1>3, <1>4, WhoWrites DEF WritesRecords

LEMMA LogsWriter ==
  ASSUME SheetInv, NEW c \in Call, Moves(c), NEW l \in logs', l \notin logs
  PROVE  /\ LogIn(c) \/ LogOut(c)
         /\ calls[c].id \in DOMAIN records /\ l.record = calls[c].id /\ l.at = calls[c].at
         /\ LogIn(c) => l.action = "CLOCK_IN"
         /\ LogOut(c) => l.action = "CLOCK_OUT"
<1>1. ASSUME NEW act, NEW after, WriteLog(c, act, after)
      PROVE  /\ calls[c].id \in DOMAIN records /\ l.record = calls[c].id /\ l.at = calls[c].at
             /\ l.action = act
  BY <1>1 DEF WriteLog
<1>2. CASE LogIn(c)
  <2>1. ~LogOut(c)
    BY <1>2 DEF LogIn, LogOut, At
  <2> QED  BY <1>1, <1>2, <2>1 DEF LogIn
<1>3. CASE LogOut(c)
  <2>1. ~LogIn(c)
    BY <1>3 DEF LogIn, LogOut, At
  <2> QED  BY <1>1, <1>3, <2>1 DEF LogOut
<1>4. CASE CascadePeriod(c)
  BY <1>4 DEF CascadePeriod
<1> QED  BY <1>2, <1>3, <1>4, WhoWrites DEF WritesLogs

\* What a call does next, and with what.
LEMMA NextOfClock ==
  ASSUME SheetInv, NEW c \in Call, ClockStep(c), c \in DOMAIN calls'
  PROVE  \/ /\ ReadPeriod(c) /\ calls[c].pc = "readPeriod" /\ calls'[c].pc = "checkWorkingDay"
            /\ calls'[c].today = calls[c].today /\ calls'[c].act = calls[c].act
            /\ calls'[c].emp = calls[c].emp /\ calls'[c].period \in ActivePeriods(now)
            /\ calls'[c].tolerance = ToleranceOf(calls'[c].period)
         \/ /\ CheckWorkingDay(c) /\ calls[c].pc = "checkWorkingDay"
            /\ calls'[c] = [calls[c] EXCEPT !.pc = "readRecord"]
            /\ calls'[c].pc = "readRecord"
            /\ calls'[c].today = calls[c].today /\ calls'[c].emp = calls[c].emp
            /\ calls'[c].act = calls[c].act /\ calls'[c].period = calls[c].period
            /\ calls'[c].tolerance = calls[c].tolerance
            /\ calls[c].period \in DOMAIN periods
            /\ WorkingDay(calls[c].period, calls[c].today)
         \/ /\ ReadRecordIn(c) /\ calls[c].pc = "readRecord" /\ calls'[c].pc = "insertRecord"
            /\ RecordsOf(calls[c].emp, calls[c].today) = {}
            /\ calls'[c].row = [emp |-> calls[c].emp, period |-> calls[c].period,
                               date |-> calls[c].today, in |-> now, out |-> Never,
                               status |-> StatusAt(now, calls[c].tolerance)]
         \/ /\ ReadRecordOut(c) /\ calls[c].pc = "readRecord" /\ calls'[c].pc = "logOut"
            /\ calls'[c].at = now /\ calls'[c].id \in DOMAIN records
         \/ /\ InsertRecord(c) /\ calls[c].pc = "insertRecord" /\ calls'[c].pc = "logIn"
            /\ calls'[c].at = calls[c].row.in
         \/ /\ LogOut(c) /\ calls[c].pc = "logOut" /\ calls'[c].pc = "writeOut"
            /\ calls'[c].at = calls[c].at /\ calls'[c].id = calls[c].id
         \/ /\ LogIn(c) \/ WriteOut(c)
            /\ calls[c].pc \in {"logIn", "writeOut"} /\ calls'[c].pc = "readDashboardPeriod"
         \/ /\ ReadDashboardPeriod(c) /\ calls'[c].pc = "readDashboard"
            /\ calls'[c].period \in ActivePeriods(now)
            /\ calls'[c].tolerance = ToleranceOf(calls'[c].period)
         \/ /\ ReadDashboard(c) /\ calls'[c].pc = "emitDashboard"
            /\ calls'[c].snapshot = Dashboards(calls[c].period, calls[c].tolerance)
<1>1. c \in DOMAIN calls /\ calls[c] \in CallRecord
  BY MovesFrame, RowOfTable DEF Moves, HandlerStep, SheetInv, TypesInv
<1>2. ~Return(c)
  BY DEF Return, Drop
<1>3. CASE ReadPeriod(c)
  BY <1>2, <1>3 DEF ReadPeriod, Goto, Put, At
<1>4. CASE CheckWorkingDay(c)
  <2>1. calls[c] \in [pc : ReadLabels, act : {"in", "out"}, emp : Employee,
                      today : Day, period : PeriodId, tolerance : Nat]
    BY <1>1, <1>4, ClockCallByLabel DEF CheckWorkingDay, At, ReadLabels
  <2>2. calls'[c] = [calls[c] EXCEPT !.pc = "readRecord"]
    BY <1>2, <1>4 DEF CheckWorkingDay, Goto, Put
  <2>3. /\ calls'[c].pc = "readRecord"
        /\ calls'[c].today = calls[c].today /\ calls'[c].emp = calls[c].emp
        /\ calls'[c].act = calls[c].act /\ calls'[c].period = calls[c].period
        /\ calls'[c].tolerance = calls[c].tolerance
    BY <2>1, <2>2
  <2> QED  BY <1>2, <1>4, <2>2, <2>3 DEF CheckWorkingDay, At
<1>5. CASE ReadRecordIn(c)
  BY <1>2, <1>5 DEF ReadRecordIn, Goto, Put, At
<1>6. CASE ReadRecordOut(c)
  <2>1. PICK i \in Newest(RecordsOf(calls[c].emp, calls[c].today)) :
          Goto(c, [pc |-> "logOut", id |-> i, at |-> now])
    BY <1>2, <1>6 DEF ReadRecordOut
  <2>2. calls'[c] = [pc |-> "logOut", id |-> i, at |-> now]
    BY <2>1 DEF Goto, Put
  <2>3. i \in DOMAIN records
    BY DEF Newest, RecordsOf
  <2> QED  BY <1>6, <2>2, <2>3 DEF ReadRecordOut, At
<1>7. CASE InsertRecord(c)
  BY <1>2, <1>7 DEF InsertRecord, Goto, Put, At
<1>8. CASE LogOut(c)
  <2>1. calls[c] \in [pc : WriteLabels, id : RecordId, at : Time]
    BY <1>1, <1>8, ClockCallByLabel DEF LogOut, At, WriteLabels
  <2> QED  BY <1>2, <1>8, <2>1 DEF LogOut, WriteLog, Goto, Put, At
<1>9. CASE LogIn(c) \/ WriteOut(c)
  BY <1>2, <1>9 DEF LogIn, WriteLog, WriteOut, Goto, Put, At
<1>10. CASE ReadDashboardPeriod(c)
  BY <1>2, <1>10 DEF ReadDashboardPeriod, Goto, Put, At
<1>11. CASE ReadDashboard(c)
  BY <1>11 DEF ReadDashboard, Goto, Put
<1>12. ~EmitDashboard(c)
  BY <1>2 DEF EmitDashboard
<1> QED
  BY <1>3, <1>4, <1>5, <1>6, <1>7, <1>8, <1>9, <1>10, <1>11, <1>12 DEF ClockStep

LEMMA NextOfPeriods ==
  ASSUME SheetInv, NEW c \in Call, Moves(c), ~ClockStep(c), c \in DOMAIN calls'
  PROVE  \/ /\ CheckNewPeriod(c) /\ calls[c].pc = "checkNewPeriod"
            /\ calls'[c].pc = "insertPeriod" /\ calls'[c].row = calls[c].row
            /\ calls[c].row \in PeriodRow
            /\ ~ \E i \in DOMAIN periods : Overlap(periods[i], calls[c].row)
         \/ /\ CheckDates(c) /\ calls[c].pc = "checkDates" /\ calls'[c].pc = "updatePeriod"
            /\ calls'[c].id = calls[c].id /\ calls'[c].edit = calls[c].edit
            /\ calls'[c].from = calls[c].from /\ calls'[c].to = calls[c].to
            /\ ~ \E i \in DOMAIN periods \ {calls[c].id} : Overlap(periods[i], calls[c])
         \/ /\ Deactivate(c) /\ calls[c].pc = "deactivate" /\ calls'[c].pc = "activate"
            /\ calls'[c].at = calls[c].at
<1>1. c \in DOMAIN calls /\ calls[c] \in CallRecord
  BY MovesFrame, RowOfTable DEF SheetInv, TypesInv
<1>2. ~Return(c)
  BY DEF Return, Drop
<1>3. CASE CheckNewPeriod(c)
  <2>1. calls[c] \in [pc : {"checkNewPeriod", "insertPeriod"}, row : PeriodRow]
    BY <1>1, <1>3, PeriodCallByLabel DEF CheckNewPeriod, At
  <2> QED  BY <1>2, <1>3, <2>1 DEF CheckNewPeriod, At, Goto, Put
<1>4. CASE CheckDates(c)
  <2>1. calls[c] \in [pc : {"checkDates", "updatePeriod"}, id : PeriodId,
                      edit : PeriodEdit, from : Nat, to : Nat]
    BY <1>1, <1>4, PeriodCallByLabel DEF CheckDates, At
  <2> QED  BY <1>2, <1>4, <2>1 DEF CheckDates, At, Goto, Put
<1>5. CASE Deactivate(c)
  <2>1. calls[c] \in [pc : {"deactivate", "activate"}, at : Time]
    BY <1>1, <1>5, PeriodCallByLabel DEF Deactivate, At
  <2> QED  BY <1>5, <2>1 DEF Deactivate, At, Goto, Put
<1>6. ~(InsertPeriod(c) \/ UpdatePeriod(c) \/ Activate(c) \/ CascadePeriod(c)
        \/ Fail(c) \/ FailDashboard(c))
  BY <1>2 DEF InsertPeriod, UpdatePeriod, Activate, CascadePeriod, DeletePeriod, Fail,
              FailDashboard
<1> QED  BY <1>3, <1>4, <1>5, <1>6 DEF Moves, HandlerStep, PeriodStep

LEMMA TimeGoesOn ==
  ASSUME NEW t \in Time, NEW u \in Time, t <= u
  PROVE  /\ TypesInv => \A row \in Record : RowUpTo(row, t) => RowUpTo(row, u)
         /\ TypesInv => \A call \in CallRecord : CallUpTo(call, t) => CallUpTo(call, u)
<1>1. t \in Nat /\ u \in Nat /\ DayOf(t) \in Nat /\ DayOf(u) \in Nat
  BY DaysOfTime
<1>2. DayOf(t) <= DayOf(u)
  BY <1>1, Lengths, QuotientsOrdered DEF DayOf
<1>3. ASSUME TypesInv, NEW row \in Record, RowUpTo(row, t)
      PROVE  RowUpTo(row, u)
  BY <1>1, <1>2, <1>3, RecordIsTyped DEF RowUpTo
<1>4. ASSUME TypesInv, NEW call \in CallRecord, CallUpTo(call, t)
      PROVE  CallUpTo(call, u)
  <2>1. CASE call.pc \in WriteLabels
    <3>1. call.at \in Time
      BY <2>1, ClockCallByLabel
    <3>2. call.at \in Nat
      BY <3>1, DaysOfTime
    <3> QED  BY <1>1, <1>4, <2>1, <3>2 DEF CallUpTo, WriteLabels, ReadLabels
  <2>2. CASE call.pc \in {"readPeriod"} \cup ReadLabels
    <3>1. call.today \in Day
      BY <2>2, ClockCallByLabel
    <3>2. call.today \in Nat
      <4>1. DayOf(MaxTime) \in Nat
        BY Lengths, QuotientOf DEF DayOf
      <4> QED  BY <3>1, <4>1 DEF Day
    <3> QED  BY <1>1, <1>2, <1>4, <2>2, <3>2 DEF CallUpTo, WriteLabels, ReadLabels
  <2>3. CASE call.pc = "insertRecord"
    <3>1. call.row \in Record
      BY <2>3, ClockCallByLabel
    <3>2. call.row.in \in Nat /\ call.row.date \in Nat
      BY <1>4, <3>1, RecordIsTyped
    <3> QED  BY <1>1, <1>2, <1>4, <2>3, <3>2 DEF CallUpTo, WriteLabels, ReadLabels
  <2>4. CASE call.pc \notin WriteLabels \cup {"readPeriod"} \cup ReadLabels \cup {"insertRecord"}
    BY <2>4 DEF CallUpTo
  <2> QED  BY <2>1, <2>2, <2>3, <2>4
<1> QED  BY <1>3, <1>4

LEMMA MovesKeepsTimes ==
  ASSUME SheetInv, TimesInv, NEW c \in Call, Moves(c)
  PROVE  TimesInv'
<1>1. /\ now' = now /\ now \in Nat /\ DayOf(now) \in Nat /\ c \in DOMAIN calls
      /\ calls[c] \in CallRecord
  BY MovesFrame, NowIsTyped, RowOfTable DEF SheetInv, TypesInv
<1>2. ASSUME NEW i \in DOMAIN records'
      PROVE  RowUpTo(records'[i], now)
  <2>1. CASE i \in DOMAIN records /\ records'[i] = records[i]
    BY <2>1 DEF TimesInv
  <2>2. CASE InsertRecord(c) /\ records'[i] = calls[c].row
    <3>1. CallUpTo(calls[c], now) /\ calls[c].pc = "insertRecord"
      BY <1>1, <2>2 DEF TimesInv, InsertRecord, At
    <3> QED  BY <1>1, <2>2, <3>1 DEF RowUpTo, CallUpTo, Never
  <2>3. CASE /\ WriteOut(c) /\ i \in DOMAIN records /\ i = calls[c].id
             /\ records[i] \in Record /\ calls[c].at \in Time
             /\ records'[i] = [records[i] EXCEPT !.out = calls[c].at]
    <3>1. calls[c].at <= now
      BY <1>1, <2>3 DEF TimesInv, CallUpTo, WriteOut, At, WriteLabels
    <3>2. /\ records'[i].in = records[i].in /\ records'[i].date = records[i].date
          /\ records'[i].out = calls[c].at
      BY <2>3 DEF Record
    <3>3. RowUpTo(records[i], now)
      BY <2>3 DEF TimesInv
    <3> QED  BY <3>1, <3>2, <3>3 DEF RowUpTo
  <2> QED  BY <1>2, <2>1, <2>2, <2>3, RecordsWriter
<1>3. ASSUME NEW l \in logs'
      PROVE  l.at <= now
  <2>1. CASE l \in logs
    BY <2>1 DEF TimesInv
  <2>2. CASE l \notin logs
    <3>1. l.at = calls[c].at /\ calls[c].pc \in {"logIn", "logOut"}
      BY <1>3, <2>2, LogsWriter DEF LogIn, LogOut, At
    <3> QED  BY <1>1, <3>1 DEF TimesInv, CallUpTo, WriteLabels
  <2> QED  BY <2>1, <2>2
<1>4. ASSUME NEW d \in DOMAIN calls'
      PROVE  CallUpTo(calls'[d], now)
  <2>1. CASE d # c
    <3>1. d \in DOMAIN calls /\ calls'[d] = calls[d]
      BY <1>4, <2>1, MovesFrame DEF OnlyRow
    <3> QED  BY <3>1 DEF TimesInv
  <2>2. CASE d = c /\ ClockStep(c)
    <3>1. CallUpTo(calls[c], now)
      BY <1>1 DEF TimesInv
    <3>2. CASE ReadRecordIn(c) /\ calls[c].pc = "readRecord" /\ calls'[c].pc = "insertRecord"
               /\ calls'[c].row = [emp |-> calls[c].emp, period |-> calls[c].period,
                                  date |-> calls[c].today, in |-> now, out |-> Never,
                                  status |-> StatusAt(now, calls[c].tolerance)]
      <4>1. calls[c].today <= DayOf(now)
        BY <3>1, <3>2 DEF CallUpTo, ReadLabels
      <4> QED  BY <1>1, <2>2, <3>2, <4>1 DEF CallUpTo, WriteLabels, ReadLabels
    <3>3. CASE calls'[c].pc \in WriteLabels /\ calls'[c].at <= now
      BY <2>2, <3>3 DEF CallUpTo, WriteLabels, ReadLabels
    <3>4. CASE calls'[c].pc \in ReadLabels /\ calls'[c].today <= DayOf(now)
      BY <2>2, <3>4 DEF CallUpTo, WriteLabels, ReadLabels
    <3>5. CASE calls'[c].pc \in {"readDashboardPeriod", "readDashboard", "emitDashboard"}
      BY <2>2, <3>5 DEF CallUpTo, WriteLabels, ReadLabels
    <3>6. c \in DOMAIN calls'
      BY <1>4, <2>2
    <3>7. /\ calls[c].pc = "insertRecord" => calls[c].row.in <= now
          /\ calls[c].pc = "logOut" => calls[c].at <= now
          /\ calls[c].pc \in {"readPeriod", "checkWorkingDay"} => calls[c].today <= DayOf(now)
          /\ now <= now
      BY <1>1, <3>1 DEF CallUpTo, WriteLabels, ReadLabels
    <3> QED
      BY <2>2, <3>2, <3>3, <3>4, <3>5, <3>6, <3>7, NextOfClock DEF WriteLabels, ReadLabels
  <2>3. CASE d = c /\ ~ClockStep(c)
    <3>1. calls'[c].pc \in {"insertPeriod", "updatePeriod", "activate"}
      BY <1>4, <2>3, NextOfPeriods
    <3> QED  BY <2>3, <3>1 DEF CallUpTo, WriteLabels, ReadLabels
  <2> QED  BY <2>1, <2>2, <2>3
<1> QED  BY <1>1, <1>2, <1>3, <1>4 DEF TimesInv

LEMMA StartsKeepsTimes ==
  ASSUME SheetInv, TimesInv, NEW c \in Call, Starts(c)
  PROVE  TimesInv'
<1>1. /\ UNCHANGED <<now, records, logs>> /\ now \in Nat /\ DayOf(now) \in Nat
      /\ DOMAIN calls' = DOMAIN calls \cup {c} /\ OnlyRow(calls, calls', c)
  BY StartsFrame, NowIsTyped DEF SheetInv, sheetVars
<1>2. /\ calls'[c].pc \in {"readPeriod", "checkNewPeriod", "checkDates", "updatePeriod",
                          "deletePeriod", "deactivate"}
      /\ calls'[c].pc = "readPeriod" => calls'[c].today = DayOf(now)
  BY DEF Starts, ClockIn, ClockOut, StartClock, NewPeriodCall, CreatePeriod, EditPeriod,
         RemovePeriod, RunPeriodsCheck, Goto, Put
<1>3. \A d \in DOMAIN calls' : CallUpTo(calls'[d], now)
  <2>1. CallUpTo(calls'[c], now)
    BY <1>1, <1>2 DEF CallUpTo, WriteLabels, ReadLabels
  <2> QED  BY <1>1, <2>1 DEF TimesInv, OnlyRow
<1> QED  BY <1>1, <1>3 DEF TimesInv

LEMMA TimesKept ==
  ASSUME SheetInv, TimesInv, [Next]_vars
  PROVE  TimesInv'
<1>1. CASE \E c \in Call : Starts(c) \/ Moves(c)
  BY <1>1, StartsKeepsTimes, MovesKeepsTimes
<1>2. CASE Crash
  BY <1>2, CrashKeepsTypes DEF Crash, PeriodsStay, TimesInv
<1>3. CASE Elsewhere
  <2>1. UNCHANGED <<calls, records, logs>>
    BY <1>3, ElsewhereFrame DEF sheetVars
  <2>2. now \in Time /\ now' \in Time /\ now <= now'
    <3>1. now \in Time /\ now \in Nat /\ now' \in Time
      BY <1>3, NowIsTyped, ElsewhereKeepsTypes DEF SheetInv, TypesInv, PeriodsTypeOK
    <3>2. now' \in {now, now + 1}
      BY <1>3 DEF Elsewhere, HolidayChange, CreateHoliday, UpdateHoliday, DeleteHoliday,
                  Delivery, Tick, vars, periodVars
    <3> QED  BY <3>1, <3>2
  <2>3. /\ \A row \in Record : RowUpTo(row, now) => RowUpTo(row, now')
        /\ \A call \in CallRecord : CallUpTo(call, now) => CallUpTo(call, now')
    BY <2>2, TimeGoesOn DEF SheetInv
  <2>4. /\ \A i \in DOMAIN records : records[i] \in Record
        /\ \A c \in DOMAIN calls : calls[c] \in CallRecord
    BY RowOfTable DEF SheetInv, TypesInv
  <2>5. \A l \in logs : l.at <= now'
    <3>1. \A l \in logs : l.at \in Nat /\ l.at <= now
      BY LogIsTyped DEF SheetInv, TypesInv, TimesInv
    <3> QED  BY <2>2, <3>1, DaysOfTime
  <2> QED  BY <2>1, <2>3, <2>4, <2>5 DEF TimesInv
<1> QED  BY <1>1, <1>2, <1>3, StepOfAttendance
-----------------------------------------------------------------------------
(* A call that is alone.                                                   *)

\* What a call has looked at, as it still is when nobody has come between.
Holds(call) ==
  /\ call.pc \in {"readPeriod"} \cup ReadLabels =>
       \A i \in DOMAIN records :
         records[i].date <= call.today /\ DayOf(records[i].in) <= call.today
  /\ call.pc = "readRecord" => WorkingDay(call.period, call.today)
  /\ call.pc = "insertRecord" =>
       /\ WorkingDay(call.row.period, call.row.date)
       /\ \A i \in DOMAIN records :
            records[i].emp = call.row.emp => DaysOf(records[i]) \cap DaysOf(call.row) = {}
  /\ call.pc \in {"logOut", "writeOut"} =>
       /\ \A l \in logs : l.record = call.id => l.at <= call.at
       /\ call.id \in DOMAIN records => records[call.id].out <= call.at
  /\ call.pc = "readDashboard" => call.period \in DOMAIN periods
  /\ call.pc \in {"checkNewPeriod", "insertPeriod"} => call.row.from < call.row.to
  /\ call.pc = "insertPeriod" =>
       \A i \in DOMAIN periods : ~Overlap(periods[i], call.row)
  /\ call.pc = "checkDates" => call.from < call.to
  /\ call.pc \in {"checkDates", "updatePeriod"} /\ call.id \in DOMAIN periods =>
       /\ call.from = Setting(call.edit, "from", periods[call.id].from)
       /\ call.to = Setting(call.edit, "to", periods[call.id].to)
  /\ call.pc = "updatePeriod" /\ SetsDates(call.edit) =>
       /\ call.from < call.to
       /\ \A i \in DOMAIN periods \ {call.id} : ~Overlap(periods[i], call)
  /\ call.pc = "activate" =>
       \A i \in DOMAIN periods : periods[i].active => Covers(periods[i], call.at)

AloneInv == \A c \in Call : Alone(c) => InFlight = {c} /\ Holds(calls[c])

AuditInv == SheetInv /\ TimesInv /\ AloneInv

LEMMA ReadingHolds ==
  ASSUME SheetInv, TimesInv, NEW c \in Call, Holds(calls[c]), c \in DOMAIN calls',
         ReadPeriod(c) \/ CheckWorkingDay(c) \/ ReadRecordIn(c) \/ ReadRecordOut(c)
  PROVE  Holds(calls[c])'
<1>1. ClockStep(c) /\ Moves(c)
  BY DEF ClockStep, Moves, HandlerStep
<1>2. UNCHANGED <<records, logs, periods, holidays>>
  BY DEF ReadPeriod, CheckWorkingDay, ReadRecordIn, ReadRecordOut, PeriodsStay, SheetStays,
         sheetVars
<1>3. CASE ReadPeriod(c) /\ calls[c].pc = "readPeriod" /\ calls'[c].pc = "checkWorkingDay"
           /\ calls'[c].today = calls[c].today
  BY <1>2, <1>3 DEF Holds, ReadLabels
<1>4. CASE /\ calls[c].pc = "checkWorkingDay" /\ calls'[c].pc = "readRecord"
           /\ calls'[c].today = calls[c].today /\ calls'[c].period = calls[c].period
           /\ WorkingDay(calls[c].period, calls[c].today)
  BY <1>2, <1>4 DEF Holds, ReadLabels, WorkingDay
<1>5. CASE /\ calls[c].pc = "readRecord" /\ calls'[c].pc = "insertRecord"
           /\ RecordsOf(calls[c].emp, calls[c].today) = {}
           /\ calls'[c].row = [emp |-> calls[c].emp, period |-> calls[c].period,
                              date |-> calls[c].today, in |-> now, out |-> Never,
                              status |-> StatusAt(now, calls[c].tolerance)]
  <2>0. PICK row : row = calls'[c].row
    OBVIOUS
  <2>1. /\ row.emp = calls[c].emp /\ row.period = calls[c].period
        /\ row.date = calls[c].today /\ row.in = now
    BY <1>5, <2>0
  <2>2. WorkingDay(row.period, row.date)'
    BY <1>2, <1>5, <2>1 DEF Holds, WorkingDay
  <2>3. ASSUME NEW i \in DOMAIN records, records[i].emp = row.emp
        PROVE  DaysOf(records[i]) \cap DaysOf(row) = {}
    <3>1. records[i].date # row.date /\ DayOf(records[i].in) # row.date
      BY <1>5, <2>1, <2>3 DEF RecordsOf, IsOfDay
    <3>2. records[i].date <= row.date /\ DayOf(records[i].in) <= row.date
      BY <1>5, <2>1 DEF Holds, ReadLabels
    <3>3. row.date <= DayOf(row.in)
      BY <1>5, <2>1, MovesFrame, <1>1 DEF TimesInv, CallUpTo, ReadLabels
    <3>4. /\ records[i].date \in Nat /\ DayOf(records[i].in) \in Nat
          /\ row.date \in Nat /\ DayOf(row.in) \in Nat
      <4>1. records[i] \in Record
        BY RowOfTable DEF SheetInv, TypesInv
      <4>2. calls[c].today \in Day
        BY <1>1, <1>5, MovesFrame, RowOfTable, ClockCallByLabel
           DEF SheetInv, TypesInv, ReadLabels
      <4>3. DayOf(MaxTime) \in Nat
        BY Lengths, QuotientOf DEF DayOf
      <4> QED  BY <2>1, <4>1, <4>2, <4>3, RecordIsTyped, NowIsTyped DEF SheetInv, Day
    <3>5. /\ records[i].date # DayOf(row.in) /\ DayOf(records[i].in) # DayOf(row.in)
      BY <3>1, <3>2, <3>3, <3>4
    <3> QED  BY <3>1, <3>5 DEF DaysOf
  <2> QED  BY <1>2, <1>5, <2>0, <2>2, <2>3 DEF Holds, ReadLabels
<1>6. CASE /\ calls'[c].pc = "logOut" /\ calls'[c].at = now /\ calls'[c].id \in DOMAIN records
  BY <1>2, <1>6 DEF Holds, ReadLabels, TimesInv, RowUpTo
<1>7. ~(InsertRecord(c) \/ LogOut(c) \/ LogIn(c) \/ WriteOut(c) \/ ReadDashboardPeriod(c)
        \/ ReadDashboard(c))
  BY DEF ReadPeriod, CheckWorkingDay, ReadRecordIn, ReadRecordOut, InsertRecord, LogOut,
         LogIn, WriteOut, ReadDashboardPeriod, ReadDashboard, At
<1> QED  BY <1>1, <1>3, <1>4, <1>5, <1>6, <1>7, NextOfClock

LEMMA WritingHolds ==
  ASSUME SheetInv, NEW c \in Call, Holds(calls[c]), c \in DOMAIN calls', ClockStep(c),
         ~(ReadPeriod(c) \/ CheckWorkingDay(c) \/ ReadRecordIn(c) \/ ReadRecordOut(c))
  PROVE  Holds(calls[c])'
<1>1. Moves(c)
  BY DEF Moves, HandlerStep
<1>2. CASE calls'[c].pc \in {"logIn", "readDashboardPeriod", "emitDashboard"}
  BY <1>2 DEF Holds, ReadLabels
<1>3. CASE /\ LogOut(c) /\ calls[c].pc = "logOut" /\ calls'[c].pc = "writeOut"
           /\ calls'[c].at = calls[c].at /\ calls'[c].id = calls[c].id
  <2>1. UNCHANGED records
    BY <1>3 DEF LogOut, WriteLog
  <2>2. ASSUME NEW l \in logs', l.record = calls[c].id
        PROVE  l.at <= calls[c].at
    <3>1. CASE l \in logs
      BY <1>3, <2>2, <3>1 DEF Holds
    <3>2. CASE l \notin logs
      <4>1. l.at = calls[c].at
        BY <1>1, <3>2, LogsWriter
      <4>2. calls[c].at \in Time
        BY <1>1, <1>3, MovesFrame, RowOfTable, ClockCallByLabel
           DEF SheetInv, TypesInv, WriteLabels
      <4>3. calls[c].at \in Nat
        BY <4>2, DaysOfTime
      <4> QED  BY <4>1, <4>3
    <3> QED  BY <3>1, <3>2
  <2> QED  BY <1>3, <2>1, <2>2 DEF Holds, ReadLabels
<1>4. CASE /\ ReadDashboardPeriod(c) /\ calls'[c].pc = "readDashboard"
           /\ calls'[c].period \in ActivePeriods(now)
  BY <1>4 DEF Holds, ReadLabels, ReadDashboardPeriod, PeriodsStay, ActivePeriods
<1> QED  BY <1>2, <1>3, <1>4, NextOfClock

LEMMA PeriodsHold ==
  ASSUME SheetInv, NEW c \in Call, Holds(calls[c]), c \in DOMAIN calls', Moves(c),
         ~ClockStep(c)
  PROVE  Holds(calls[c])'
<1>1. CASE /\ CheckNewPeriod(c) /\ calls[c].pc = "checkNewPeriod"
           /\ calls'[c].pc = "insertPeriod" /\ calls'[c].row = calls[c].row
           /\ ~ \E i \in DOMAIN periods : Overlap(periods[i], calls[c].row)
  BY <1>1 DEF Holds, ReadLabels, CheckNewPeriod, PeriodsStay
<1>2. CASE /\ CheckDates(c) /\ calls[c].pc = "checkDates" /\ calls'[c].pc = "updatePeriod"
           /\ calls'[c].id = calls[c].id /\ calls'[c].edit = calls[c].edit
           /\ calls'[c].from = calls[c].from /\ calls'[c].to = calls[c].to
           /\ ~ \E i \in DOMAIN periods \ {calls[c].id} : Overlap(periods[i], calls[c])
  <2>1. UNCHANGED periods
    BY <1>2 DEF CheckDates, PeriodsStay
  <2>2. \A i : Overlap(periods[i], calls[c]) <=> Overlap(periods[i], calls'[c])
    BY <1>2 DEF Overlap
  <2> QED  BY <1>2, <2>1, <2>2 DEF Holds, ReadLabels
<1>3. CASE /\ Deactivate(c) /\ calls[c].pc = "deactivate" /\ calls'[c].pc = "activate"
           /\ calls'[c].at = calls[c].at
  <2>1. ASSUME NEW i \in DOMAIN periods', periods'[i].active
        PROVE  Covers(periods'[i], calls[c].at)
    <3>1. i \in DOMAIN periods /\ periods[i] \in PeriodRow
      BY <1>3, RowOfTable DEF Deactivate, SetActive, SheetInv, TypesInv, PeriodsTypeOK
    <3>2. periods'[i] = IF Covers(periods[i], calls[c].at)
                          THEN periods[i] ELSE [periods[i] EXCEPT !.active = FALSE]
      BY <1>3, <3>1 DEF Deactivate, SetActive
    <3> QED  BY <2>1, <3>1, <3>2 DEF PeriodRow
  <2> QED  BY <1>3, <2>1 DEF Holds, ReadLabels
<1> QED  BY <1>1, <1>2, <1>3, NextOfPeriods

LEMMA StartsHold ==
  ASSUME SheetInv, TimesInv, NEW c \in Call, Starts(c)
  PROVE  Holds(calls[c])'
<1>1. UNCHANGED <<periods, records, logs, now>>
  BY StartsFrame DEF sheetVars
<1>2. CASE ClockIn(c) \/ ClockOut(c)
  <2>1. calls'[c].pc = "readPeriod" /\ calls'[c].today = DayOf(now)
    BY <1>2 DEF ClockIn, ClockOut, StartClock, Goto, Put
  <2>2. ASSUME NEW i \in DOMAIN records
        PROVE  records[i].date <= DayOf(now) /\ DayOf(records[i].in) <= DayOf(now)
    <3>1. records[i].in <= now /\ records[i].date <= DayOf(now)
      BY DEF TimesInv, RowUpTo
    <3>2. records[i].in \in Nat /\ now \in Nat
      BY RowOfTable, RecordIsTyped, NowIsTyped DEF SheetInv, TypesInv
    <3> QED  BY <3>1, <3>2, Lengths, QuotientsOrdered DEF DayOf
  <2> QED  BY <1>1, <2>1, <2>2 DEF Holds, ReadLabels
<1>3. CASE CreatePeriod(c)
  <2>1. calls'[c].pc = "checkNewPeriod" /\ calls'[c].row.from < calls'[c].row.to
    BY <1>3 DEF CreatePeriod, Goto, Put
  <2> QED  BY <2>1 DEF Holds, ReadLabels
<1>4. CASE EditPeriod(c)
  <2>1. PICK i, ed, from, to, pc :
          /\ i \in DOMAIN periods
          /\ from = Setting(ed, "from", periods[i].from)
          /\ to = Setting(ed, "to", periods[i].to)
          /\ SetsDates(ed) => from < to
          /\ pc = IF SetsDates(ed) THEN "checkDates" ELSE "updatePeriod"
          /\ Goto(c, [pc |-> pc, id |-> i, edit |-> ed, from |-> from, to |-> to])
    BY <1>4 DEF EditPeriod
  <2>2. calls'[c] = [pc |-> pc, id |-> i, edit |-> ed, from |-> from, to |-> to]
    BY <2>1 DEF Goto, Put
  <2> QED  BY <1>1, <2>1, <2>2 DEF Holds, ReadLabels
<1>5. CASE RemovePeriod(c) \/ RunPeriodsCheck(c)
  <2>1. calls'[c].pc \in {"deletePeriod", "deactivate"}
    BY <1>5 DEF RemovePeriod, RunPeriodsCheck, Goto, Put
  <2> QED  BY <2>1 DEF Holds, ReadLabels
<1> QED  BY <1>2, <1>3, <1>4, <1>5 DEF Starts, NewPeriodCall

\* A call that is alone after a step has taken that step itself, or was alone
\* before one that takes nothing from under it.
LEMMA WhoIsAlone ==
  ASSUME SheetInv, AloneInv, AuditNext, NEW d \in Call, Alone(d)'
  PROVE  /\ InFlight' = {d} /\ holidays' = holidays
         /\ \/ InFlight = {} /\ Starts(d)
            \/ /\ Alone(d) /\ InFlight = {d} /\ Holds(calls[d])
               /\ Moves(d) \/ Elsewhere
<1>1. d \in InFlight' /\ d \notin overlapped'
  BY DEF Alone
<1>2. ~(Cardinality(InFlight') > 1) /\ holidays' = holidays
      /\ (d \in InFlight => d \notin overlapped)
  BY <1>1 DEF AuditNext
<1>3. SheetInv'
  BY SheetInvKept DEF AuditNext
<1>4. InFlight' = {d}
  <2>1. InFlight' \subseteq Call
    BY <1>3 DEF SheetInv, TypesInv, IsTable, InFlight
  <2>2. IsFiniteSet(InFlight')
    BY <2>1, AttendanceAssumption, FS_Subset
  <2>3. Cardinality(InFlight') \in Nat /\ Cardinality(InFlight') # 0
    BY <1>1, <2>2, FS_CardinalityType, FS_EmptySet
  <2>4. Cardinality(InFlight') = 1
    BY <1>2, <2>3
  <2>5. PICK x : InFlight' = {x}
    BY <2>2, <2>4, FS_Singleton
  <2> QED  BY <1>1, <2>5
<1>5. d \in InFlight => Alone(d) /\ InFlight = {d} /\ Holds(calls[d])
  BY <1>2 DEF AloneInv, Alone
<1>6. CASE \E c \in Call : Starts(c)
  <2>1. PICK c \in Call : Starts(c)
    BY <1>6
  <2>2. InFlight' = InFlight \cup {c} /\ c \notin InFlight
    BY <2>1, StartsFrame DEF InFlight
  <2>3. d = c /\ InFlight = {}
    BY <1>4, <2>2
  <2> QED  BY <1>2, <1>4, <2>1, <2>3
<1>7. CASE \E c \in Call : Moves(c)
  <2>1. PICK c \in Call : Moves(c)
    BY <1>7
  <2>2. c \in InFlight /\ InFlight' \subseteq InFlight
    BY <2>1, MovesFrame DEF InFlight
  <2>3. c = d
    BY <1>1, <1>5, <2>2
  <2> QED  BY <1>2, <1>4, <1>5, <2>1, <2>2, <2>3
<1>8. CASE Crash
  BY <1>1, <1>8, CrashKeepsTypes DEF InFlight, Crash
<1>9. CASE Elsewhere
  <2>1. InFlight' = InFlight
    BY <1>9, ElsewhereFrame DEF InFlight
  <2> QED  BY <1>1, <1>2, <1>4, <1>5, <1>9, <2>1
<1> QED  BY <1>6, <1>7, <1>8, <1>9, StepOfAttendance DEF AuditNext

LEMMA HoldsElsewhere ==
  ASSUME NEW c, Holds(calls[c]), UNCHANGED <<calls, periods, records, logs, holidays>>
  PROVE  Holds(calls[c])'
BY DEF Holds, WorkingDay

LEMMA AloneKept ==
  ASSUME SheetInv, TimesInv, AloneInv, AuditNext
  PROVE  AloneInv'
<1> SUFFICES ASSUME NEW d \in Call, Alone(d)'
             PROVE  InFlight' = {d} /\ Holds(calls[d])'
  BY DEF AloneInv
<1>1. CASE Starts(d)
  BY <1>1, WhoIsAlone, StartsHold
<1>2. CASE Holds(calls[d]) /\ Moves(d)
  <2>1. d \in DOMAIN calls'
    BY DEF Alone, InFlight
  <2> QED  BY <1>2, <2>1, WhoIsAlone, ReadingHolds, WritingHolds, PeriodsHold
<1>3. CASE Holds(calls[d]) /\ Elsewhere
  BY <1>3, WhoIsAlone, ElsewhereFrame, HoldsElsewhere DEF sheetVars
<1> QED  BY <1>1, <1>2, <1>3, WhoIsAlone

LEMMA AuditInvInit == AuditInit => AuditInv
<1> SUFFICES ASSUME AuditInit PROVE AuditInv
  OBVIOUS
<1>1. SheetInv /\ DOMAIN calls = {} /\ DOMAIN records = {} /\ logs = {}
  BY SheetInvInit, NobodyCalls DEF AuditInit, Init
<1> QED  BY <1>1 DEF AuditInv, TimesInv, AloneInv, Alone, InFlight

LEMMA AuditInvKept ==
  ASSUME AuditInv, [AuditNext]_auditVars
  PROVE  AuditInv'
<1>1. CASE AuditNext
  BY <1>1, SheetInvKept, TimesKept, AloneKept DEF AuditInv, AuditNext
<1>2. CASE UNCHANGED auditVars
  <2>1. [Next]_vars /\ UNCHANGED <<calls, periods, records, logs, holidays, overlapped>>
    BY <1>2 DEF auditVars, vars, periodVars, sheetVars
  <2>2. SheetInv' /\ TimesInv'
    BY <2>1, SheetInvKept, TimesKept DEF AuditInv
  <2>3. \A c : Holds(calls[c]) => Holds(calls[c])'
    BY <2>1, HoldsElsewhere
  <2> QED  BY <2>1, <2>2, <2>3 DEF AuditInv, AloneInv, Alone, InFlight
<1> QED  BY <1>1, <1>2

LEMMA AuditInvariant == AuditSpec => []AuditInv
BY AuditInvInit, AuditInvKept, PTL DEF AuditSpec

-----------------------------------------------------------------------------
(* What a call achieves that is alone.                                     *)

LEMMA TablesFrame ==
  ASSUME SheetInv, Next
  PROVE  \/ \E c \in Call : Moves(c)
         \/ /\ UNCHANGED <<records, logs, periods>>
            /\ \/ mishaps' > mishaps
               \/ \A c \in DOMAIN calls : c \in DOMAIN calls' /\ calls'[c] = calls[c]
<1>1. CASE \E c \in Call : Starts(c)
  <2>1. PICK c \in Call : Starts(c)
    BY <1>1
  <2> QED  BY <2>1, StartsFrame DEF OnlyRow, sheetVars
<1>2. CASE Crash
  <2>1. mishaps \in Nat
    BY Lengths DEF SheetInv, TypesInv
  <2> QED  BY <1>2, <2>1 DEF Crash, Mishap, PeriodsStay
<1>3. CASE Elsewhere
  BY <1>3, ElsewhereFrame DEF sheetVars
<1> QED  BY <1>1, <1>2, <1>3, StepOfAttendance

LEMMA OneRecordADay ==
  ASSUME AuditInv, AuditNext
  PROVE  DoubleRecordNeedsARace
<1> SUFFICES ASSUME NEW i \in DOMAIN records', NEW j \in DOMAIN records', i < j,
                    records'[i].emp = records'[j].emp,
                    DaysOf(records'[i]) \cap DaysOf(records'[j]) # {},
                    <<i, j>> \notin DoubleRecords,
                    \A c \in InFlight : At(c, "insertRecord") => Alone(c)
             PROVE  FALSE
  BY DEF DoubleRecordNeedsARace, DoubleRecords, DaysOf
<1>1. CASE i \in DOMAIN records /\ j \in DOMAIN records
           /\ records'[i].emp = records[i].emp /\ DaysOf(records'[i]) = DaysOf(records[i])
           /\ records'[j].emp = records[j].emp /\ DaysOf(records'[j]) = DaysOf(records[j])
  BY <1>1 DEF DoubleRecords
<1>2. CASE UNCHANGED records
  BY <1>1, <1>2
<1>3. ASSUME NEW c \in Call, Moves(c)
      PROVE  FALSE
  <2>1. ASSUME NEW k \in DOMAIN records'
        PROVE  \/ k \in DOMAIN records /\ records'[k].emp = records[k].emp
                    /\ DaysOf(records'[k]) = DaysOf(records[k])
               \/ InsertRecord(c) /\ k = recordSeq + 1 /\ records'[k] = calls[c].row
    <3>1. CASE k \in DOMAIN records /\ records'[k] = records[k]
      BY <3>1
    <3>2. CASE /\ k \in DOMAIN records /\ records[k] \in Record
               /\ records'[k] = [records[k] EXCEPT !.out = calls[c].at]
      <4>1. /\ records'[k].emp = records[k].emp /\ records'[k].in = records[k].in
            /\ records'[k].date = records[k].date
        BY <3>2 DEF Record
      <4> QED  BY <3>2, <4>1 DEF DaysOf
    <3> QED  BY <1>3, <2>1, <3>1, <3>2, RecordsWriter DEF AuditInv
  <2>2. CASE InsertRecord(c)
    <3>1. Holds(calls[c]) /\ calls[c].pc = "insertRecord"
      BY <2>2 DEF InsertRecord, At, AuditInv, AloneInv, InFlight
    <3>2. ~(i = recordSeq + 1 /\ j = recordSeq + 1)
      BY DEF AuditInv, SheetInv, TypesInv
    <3>3. \A k \in DOMAIN records :
            records[k].emp = calls[c].row.emp => DaysOf(records[k]) \cap DaysOf(calls[c].row) = {}
      BY <3>1 DEF Holds
    <3> QED  BY <1>1, <2>1, <3>2, <3>3
  <2>3. CASE ~InsertRecord(c)
    BY <1>1, <2>1, <2>3
  <2> QED  BY <2>2, <2>3
<1> QED  BY <1>2, <1>3, TablesFrame DEF AuditInv, AuditNext

LEMMA OnWorkingDays ==
  ASSUME AuditInv, AuditNext
  PROVE  RecordsAreForWorkingDays
<1> SUFFICES ASSUME NEW i \in DOMAIN records' \ DOMAIN records,
                    \A c \in InFlight : At(c, "insertRecord") => Alone(c)
             PROVE  WorkingDay(records'[i].period, records'[i].date)
  BY DEF RecordsAreForWorkingDays
<1>1. PICK c \in Call : Moves(c)
  BY TablesFrame DEF AuditInv, AuditNext
<1>2. InsertRecord(c) /\ records'[i] = calls[c].row
  BY <1>1, RecordsWriter DEF AuditInv
<1>3. Holds(calls[c]) /\ calls[c].pc = "insertRecord"
  BY <1>2 DEF InsertRecord, At, AuditInv, AloneInv, InFlight
<1> QED  BY <1>2, <1>3 DEF Holds

LEMMA OutsGoForward ==
  ASSUME AuditInv, AuditNext
  PROVE  LatestClockOutStands
<1> SUFFICES ASSUME NEW i \in DOMAIN records \cap DOMAIN records',
                    \A c \in InFlight : At(c, "writeOut") => Alone(c),
                    ~(mishaps' > mishaps)
             PROVE  records'[i].out >= records[i].out /\ (CaughtUp(i) => CaughtUp(i)')
  BY DEF LatestClockOutStands
<1>1. records[i] \in Record /\ records[i].out \in Int
  BY RowOfTable, RecordIsTyped DEF AuditInv, SheetInv, TypesInv
<1>2. CASE UNCHANGED <<records, logs>> /\ \A c \in DOMAIN calls :
             c \in DOMAIN calls' /\ calls'[c] = calls[c]
  <2>1. CaughtUp(i) => CaughtUp(i)'
    BY <1>2 DEF CaughtUp, LastOut, At, InFlight
  <2> QED  BY <1>1, <1>2, <2>1
<1>3. ASSUME NEW c \in Call, Moves(c)
      PROVE  records'[i].out >= records[i].out /\ (CaughtUp(i) => CaughtUp(i)')
  <2>0. OnlyRow(calls, calls', c) /\ DOMAIN calls \ {c} \subseteq DOMAIN calls'
    BY <1>3, MovesFrame
  <2>1. CASE WriteOut(c) /\ calls[c].id = i
    <3>1. records'[i].out = calls[c].at /\ logs' = logs
      BY <1>1, <2>1 DEF WriteOut, Record
    <3>2. calls[c].pc = "writeOut" /\ Holds(calls[c])
      BY <2>1 DEF WriteOut, At, AuditInv, AloneInv, InFlight
    <3>3. \A t \in LastOut(i)' : t <= calls[c].at
      BY <2>1, <3>1, <3>2 DEF Holds, LastOut
    <3>4. records[i].out <= calls[c].at /\ calls[c].at \in Nat
      <4>1. calls[c].at \in Time
        BY <1>3, <3>2, MovesFrame, RowOfTable, ClockCallByLabel
           DEF AuditInv, SheetInv, TypesInv, WriteLabels
      <4> QED  BY <2>1, <3>2, <4>1, DaysOfTime DEF Holds
    <3> QED  BY <1>1, <3>1, <3>3, <3>4 DEF CaughtUp
  <2>2. CASE LogOut(c) /\ calls[c].id = i
    <3>1. UNCHANGED records
      BY <2>2 DEF LogOut, WriteLog
    <3>2. At(c, "writeOut")' /\ calls'[c].id = i /\ c \in InFlight'
      <4>1. c \in DOMAIN calls'
        BY <2>2 DEF LogOut, WriteLog, Goto, Put
      <4>2. ClockStep(c)
        BY <2>2 DEF ClockStep
      <4> QED  BY <2>2, <4>1, <4>2, NextOfClock
               DEF AuditInv, At, InFlight, LogOut, InsertRecord, LogIn, WriteOut,
                   ReadPeriod, CheckWorkingDay, ReadRecordIn, ReadRecordOut,
                   ReadDashboardPeriod, ReadDashboard
    <3> QED  BY <1>1, <3>1, <3>2 DEF CaughtUp
  <2>3. CASE ~((WriteOut(c) \/ LogOut(c)) /\ calls[c].id = i)
    <3>1. records'[i] = records[i]
      BY <1>3, <2>3, RecordsWriter DEF AuditInv
    <3>2. LastOut(i)' \subseteq LastOut(i)
      BY <1>3, <2>3, LogsWriter DEF AuditInv, LastOut
    <3>3. ASSUME NEW d \in InFlight, At(d, "writeOut"), calls[d].id = i
          PROVE  d \in InFlight' /\ At(d, "writeOut")' /\ calls'[d].id = i
      <4>1. d # c
        <5>1. SUFFICES ASSUME d = c PROVE FALSE
          OBVIOUS
        <5>2. Fail(c)
          BY <1>3, <2>3, <3>3, <5>1
             DEF Moves, HandlerStep, ClockStep, PeriodStep, ReadPeriod, CheckWorkingDay,
                 ReadRecordIn, ReadRecordOut, InsertRecord, LogIn, LogOut,
                 ReadDashboardPeriod, ReadDashboard, EmitDashboard, CheckNewPeriod,
                 InsertPeriod, CheckDates, UpdatePeriod, Deactivate, Activate,
                 CascadePeriod, DeletePeriod, FailDashboard, At
        <5>3. mishaps \in Nat
          BY Lengths DEF AuditInv, SheetInv, TypesInv
        <5> QED  BY <5>2, <5>3 DEF Fail, Mishap
      <4> QED  BY <2>0, <3>3, <4>1 DEF OnlyRow, InFlight, At
    <3> QED  BY <1>1, <3>1, <3>2, <3>3 DEF CaughtUp
  <2> QED  BY <2>1, <2>2, <2>3
<1> QED  BY <1>2, <1>3, TablesFrame DEF AuditInv, AuditNext

\* What clockIn and clockOut have looked at still holds when they write, for a
\* call that is alone from its first statement to its last: there is one record
\* of an employee for a day, for a working day of its period, and the latest
\* check-out stands, midnight and any number of ticks between two statements
\* of the call included.
THEOREM RecordsOfALoneCall == AuditSpec => ClockingHoldsAlone
<1>1. AuditInv /\ [AuditNext]_auditVars
        => [/\ DoubleRecordNeedsARace
            /\ RecordsAreForWorkingDays
            /\ LatestClockOutStands]_auditVars
  BY OneRecordADay, OnWorkingDays, OutsGoForward
<1> QED  BY <1>1, AuditInvariant, PTL DEF AuditSpec, ClockingHoldsAlone

-----------------------------------------------------------------------------
(* Periods.                                                                *)

SameDates(p, q) == p.from = q.from /\ p.to = q.to

LEMMA PeriodsWriter ==
  ASSUME SheetInv, NEW c \in Call, Moves(c), NEW i \in DOMAIN periods'
  PROVE  \/ i \in DOMAIN periods /\ SameDates(periods'[i], periods[i])
         \/ /\ InsertPeriod(c) /\ i = periodSeq + 1 /\ i \notin DOMAIN periods
            /\ periods'[i] = calls[c].row
         \/ /\ UpdatePeriod(c) /\ i = calls[c].id /\ i \in DOMAIN periods
            /\ periods'[i].from = Setting(calls[c].edit, "from", periods[i].from)
            /\ periods'[i].to = Setting(calls[c].edit, "to", periods[i].to)
<1>1. \A k \in DOMAIN periods : periods[k] \in PeriodRow
  BY RowOfTable DEF SheetInv, TypesInv, PeriodsTypeOK
<1>2. CASE InsertPeriod(c)
  <2>1. periodSeq + 1 \notin DOMAIN periods
    BY DEF SheetInv, TypesInv, PeriodsTypeOK, IsTable
  <2> QED  BY <1>2, <2>1 DEF InsertPeriod, Put, SameDates
<1>3. CASE UpdatePeriod(c)
  <2> DEFINE ed == calls[c].edit
             n == calls[c].id
  <2>1. CASE n \notin DOMAIN periods
    BY <1>3, <2>1 DEF UpdatePeriod, SameDates
  <2>2. CASE n \in DOMAIN periods
    <3>1. PICK row : row = [k \in DOMAIN periods[n] |-> Setting(ed, k, periods[n][k])]
      OBVIOUS
    <3>2. periods' = [periods EXCEPT ![n] = row]
      BY <1>3, <2>2, <3>1 DEF UpdatePeriod
    <3>3. /\ row.from = Setting(ed, "from", periods[n].from)
          /\ row.to = Setting(ed, "to", periods[n].to)
      <4>1. periods[n] \in PeriodRow
        BY <1>1, <2>2
      <4>2. "from" \in DOMAIN periods[n] /\ "to" \in DOMAIN periods[n]
        BY <4>1 DEF PeriodRow
      <4> QED  BY <3>1, <4>2
    <3> QED  BY <1>3, <2>2, <3>2, <3>3 DEF SameDates
  <2> QED  BY <2>1, <2>2
<1>4. ASSUME NEW ids, NEW value, SetActive(ids, value)
      PROVE  i \in DOMAIN periods /\ SameDates(periods'[i], periods[i])
  BY <1>1, <1>4 DEF SetActive, SameDates, PeriodRow
<1>5. CASE Deactivate(c) \/ Activate(c)
  BY <1>4, <1>5 DEF Deactivate, Activate
<1>6. CASE CascadePeriod(c)
  BY <1>6 DEF CascadePeriod, DeletePeriod, SameDates
<1>7. CASE UNCHANGED periods
  BY <1>7 DEF SameDates
<1> QED  BY <1>2, <1>3, <1>5, <1>6, <1>7, WhoWrites DEF WritesPeriods

LEMMA OverlapOfDates ==
  ASSUME NEW p, NEW q, NEW r, NEW s
  PROVE  /\ Overlap(p, q) <=> Overlap(q, p)
         /\ SameDates(p, r) /\ SameDates(q, s) => (Overlap(p, q) <=> Overlap(r, s))
BY DEF Overlap, SameDates

LEMMA PeriodsInOrder ==
  ASSUME AuditInv, AuditNext
  PROVE  BadPeriodsNeedARace
<1> SUFFICES ASSUME NEW i \in DOMAIN periods', NEW j \in DOMAIN periods',
                    IF i = j THEN periods'[i].from >= periods'[i].to
                             ELSE Overlap(periods'[i], periods'[j]),
                    <<i, j>> \notin BadPeriods,
                    \A c \in InFlight :
                      At(c, "insertPeriod") \/ At(c, "updatePeriod") => Alone(c)
             PROVE  FALSE
  BY DEF BadPeriodsNeedARace, BadPeriods
<1>1. CASE /\ i \in DOMAIN periods /\ SameDates(periods'[i], periods[i])
           /\ j \in DOMAIN periods /\ SameDates(periods'[j], periods[j])
  <2>1. CASE i = j
    BY <1>1, <2>1 DEF BadPeriods, SameDates
  <2>2. CASE i # j
    BY <1>1, <2>2, OverlapOfDates DEF BadPeriods
  <2> QED  BY <2>1, <2>2
<1>2. CASE UNCHANGED periods
  BY <1>1, <1>2 DEF SameDates
<1>3. ASSUME NEW c \in Call, Moves(c)
      PROVE  FALSE
  <2>0. c \in DOMAIN calls /\ calls[c] \in CallRecord
    BY <1>3, MovesFrame, RowOfTable DEF AuditInv, SheetInv, TypesInv
  <2>1. CASE InsertPeriod(c)
    <3>1. Holds(calls[c]) /\ calls[c].pc = "insertPeriod"
      BY <2>1 DEF InsertPeriod, At, AuditInv, AloneInv, InFlight
    <3>2. PICK row : row = calls[c].row
      OBVIOUS
    <3>3. row.from \in Nat /\ row.to \in Nat /\ row.from < row.to
      BY <2>0, <3>1, <3>2, PeriodCallByLabel DEF Holds, PeriodRow
    <3>4. \A k \in DOMAIN periods : ~Overlap(periods[k], row) /\ ~Overlap(row, periods[k])
      BY <3>1, <3>2, OverlapOfDates DEF Holds
    <3>5. ASSUME NEW k \in DOMAIN periods'
          PROVE  \/ k \in DOMAIN periods /\ SameDates(periods'[k], periods[k])
                 \/ k = periodSeq + 1 /\ periods'[k] = row
      BY <1>3, <2>1, <3>2, <3>5, PeriodsWriter DEF AuditInv, InsertPeriod, UpdatePeriod, At
    <3>6. CASE i = periodSeq + 1 /\ periods'[i] = row /\ i = j
      BY <3>3, <3>6
    <3>7. CASE i # j /\ periods'[i] = row /\ j \in DOMAIN periods
               /\ SameDates(periods'[j], periods[j])
      BY <3>4, <3>7 DEF Overlap, SameDates
    <3>8. CASE i # j /\ periods'[j] = row /\ i \in DOMAIN periods
               /\ SameDates(periods'[i], periods[i])
      BY <3>4, <3>8 DEF Overlap, SameDates
    <3> QED  BY <1>1, <3>5, <3>6, <3>7, <3>8
  <2>2. CASE UpdatePeriod(c)
    <3>1. Holds(calls[c]) /\ calls[c].pc = "updatePeriod"
      BY <2>2 DEF UpdatePeriod, At, AuditInv, AloneInv, InFlight
    <3>2. PICK n, from, to : n = calls[c].id /\ from = calls[c].from /\ to = calls[c].to
      OBVIOUS
    <3>3. from \in Nat /\ to \in Nat
      BY <2>0, <3>1, <3>2, PeriodCallByLabel
    <3>4. ASSUME NEW k \in DOMAIN periods'
          PROVE  \/ k \in DOMAIN periods /\ SameDates(periods'[k], periods[k])
                 \/ /\ k = n /\ k \in DOMAIN periods
                    /\ periods'[k].from = from /\ periods'[k].to = to
                    /\ SetsDates(calls[c].edit)
      <4>1. CASE k = n /\ k \in DOMAIN periods
                 /\ periods'[k].from = Setting(calls[c].edit, "from", periods[k].from)
                 /\ periods'[k].to = Setting(calls[c].edit, "to", periods[k].to)
        <5>1. periods'[k].from = from /\ periods'[k].to = to
          BY <3>1, <3>2, <4>1 DEF Holds
        <5>2. ~SetsDates(calls[c].edit) => SameDates(periods'[k], periods[k])
          BY <4>1 DEF SetsDates, Setting, SameDates
        <5> QED  BY <4>1, <5>1, <5>2
      <4> QED
        BY <1>3, <2>2, <3>2, <3>4, <4>1, PeriodsWriter DEF AuditInv, InsertPeriod, UpdatePeriod, At
    <3>5. SetsDates(calls[c].edit) =>
            /\ from < to
            /\ \A k \in DOMAIN periods \ {n} :
                 ~(periods[k].from <= to /\ from <= periods[k].to)
      BY <3>1, <3>2 DEF Holds, Overlap
    <3>6. CASE i = j /\ periods'[i].from = from /\ periods'[i].to = to
               /\ SetsDates(calls[c].edit)
      BY <3>3, <3>5, <3>6
    <3>7. CASE i # j /\ SetsDates(calls[c].edit)
               /\ i = n /\ periods'[i].from = from /\ periods'[i].to = to
               /\ j \in DOMAIN periods /\ SameDates(periods'[j], periods[j])
      BY <3>5, <3>7 DEF Overlap, SameDates
    <3>8. CASE i # j /\ SetsDates(calls[c].edit)
               /\ j = n /\ periods'[j].from = from /\ periods'[j].to = to
               /\ i \in DOMAIN periods /\ SameDates(periods'[i], periods[i])
      BY <3>5, <3>8 DEF Overlap, SameDates
    <3> QED  BY <1>1, <3>4, <3>6, <3>7, <3>8
  <2>3. CASE ~(InsertPeriod(c) \/ UpdatePeriod(c))
    BY <1>1, <1>3, <2>3, PeriodsWriter DEF AuditInv
  <2> QED  BY <2>1, <2>2, <2>3
<1> QED  BY <1>2, <1>3, TablesFrame DEF AuditInv, AuditNext

LEMMA CheckSettles ==
  ASSUME AuditInv, AuditNext
  PROVE  SchedulerSettles
<1> SUFFICES ASSUME NEW c \in InFlight, At(c, "activate"), Alone(c), Free(c)',
                    mishaps' = mishaps, NEW i \in DOMAIN periods'
             PROVE  periods'[i].active <=> Covers(periods'[i], calls[c].at)
  BY DEF SchedulerSettles
<1>1. c \in Call
  BY DEF AuditInv, SheetInv, TypesInv, IsTable, InFlight
<1>2. mishaps' # mishaps + 1 /\ ~(mishaps' > mishaps)
  BY Lengths DEF AuditInv, SheetInv, TypesInv
<1>3. PICK d \in Call : Moves(d)
  BY <1>2, TablesFrame DEF AuditInv, AuditNext, InFlight, Free
<1>4. d = c
  BY <1>3, MovesFrame DEF InFlight, Free
<1>5. Activate(c)
  BY <1>2, <1>3, <1>4
     DEF Moves, HandlerStep, ClockStep, PeriodStep, ReadPeriod, CheckWorkingDay,
         ReadRecordIn, ReadRecordOut, InsertRecord, LogIn, LogOut, WriteOut,
         ReadDashboardPeriod, ReadDashboard, EmitDashboard, CheckNewPeriod,
         InsertPeriod, CheckDates, UpdatePeriod, Deactivate,
         CascadePeriod, DeletePeriod, Fail, FailDashboard, Mishap, At
<1>6. i \in DOMAIN periods /\ periods[i] \in PeriodRow
  BY <1>5, RowOfTable DEF Activate, SetActive, AuditInv, SheetInv, TypesInv, PeriodsTypeOK
<1>7. periods'[i] = IF Covers(periods[i], calls[c].at)
                      THEN [periods[i] EXCEPT !.active = TRUE] ELSE periods[i]
  BY <1>5, <1>6 DEF Activate, SetActive
<1>8. periods[i].active => Covers(periods[i], calls[c].at)
  BY <1>1, <1>6 DEF Holds, AuditInv, AloneInv, At
<1>9. CASE Covers(periods[i], calls[c].at)
  <2>1. periods'[i].active = TRUE /\ SameDates(periods'[i], periods[i])
    BY <1>6, <1>7, <1>9 DEF PeriodRow, SameDates
  <2> QED  BY <1>9, <2>1 DEF Covers, SameDates
<1>10. CASE ~Covers(periods[i], calls[c].at)
  BY <1>7, <1>8, <1>10
<1> QED  BY <1>9, <1>10

\* Without a race periods neither overlap nor end before they start, whatever
\* dates a body leaves out, and the check of the scheduler leaves exactly the
\* periods active that cover the moment it has looked at.
THEOREM PeriodsOfALoneCall == AuditSpec => PeriodsStayInOrder
<1>1. AuditInv /\ [AuditNext]_auditVars
        => [BadPeriodsNeedARace /\ SchedulerSettles]_auditVars
  BY PeriodsInOrder, CheckSettles
<1> QED  BY <1>1, AuditInvariant, PTL DEF AuditSpec, PeriodsStayInOrder

-----------------------------------------------------------------------------
(* What the screens show.                                                  *)

\* The table has what a snapshot has, as long as its period is there.
StillHas(s) ==
  \A r \in s.rows :
    /\ s.period \in 1 .. periodSeq
    /\ s.period \in DOMAIN periods /\ <<r.emp, r.in>> \notin turnedBack =>
         \E i \in DOMAIN records :
           /\ records[i].emp = r.emp /\ records[i].in = r.in /\ records[i].out >= r.out
           /\ records[i].period = s.period /\ IsOfDay(records[i], s.day)

KeepsUp(new, old) ==
  new.day = old.day /\ new.period = old.period => ~FallsBehind(old, new)

AllAreHad ==
  /\ \A x \in DOMAIN screen : StillHas(screen[x])
  /\ \A j \in DOMAIN queue : StillHas(queue[j])
  /\ \A c \in DOMAIN calls : At(c, "emitDashboard") => StillHas(calls[c].snapshot)

AloneAreAhead ==
  \A c \in Call : Alone(c) /\ At(c, "emitDashboard") =>
    /\ \A x \in DOMAIN screen : KeepsUp(calls[c].snapshot, screen[x])
    /\ \A j \in DOMAIN queue : KeepsUp(calls[c].snapshot, queue[j])

DoubtlessAreAhead ==
  \A j \in DOMAIN queue : ~doubtful[j] =>
    /\ \A x \in DOMAIN screen : KeepsUp(queue[j], screen[x])
    /\ \A k \in DOMAIN queue : k < j => KeepsUp(queue[j], queue[k])

\* A snapshot on its way that no doubt is attached to, the one of a call that
\* is alone included, keeps up with all that was sent before it.
ScreensInv ==
  /\ doubtful \in Seq(BOOLEAN) /\ Len(doubtful) = Len(queue)
  /\ AllAreHad /\ AloneAreAhead /\ DoubtlessAreAhead

\* A period's id is not given out twice.
LEMMA PeriodsGoOn ==
  ASSUME SheetInv, Next, NEW p \in 1 .. periodSeq
  PROVE  p \in 1 .. periodSeq' /\ (p \in DOMAIN periods' => p \in DOMAIN periods)
<1>1. periodSeq \in Nat /\ (periodSeq' = periodSeq \/ periodSeq' = periodSeq + 1)
      /\ \A k \in DOMAIN periods' : k \in DOMAIN periods \/ k = periodSeq + 1
  <2>1. periodSeq \in Nat
    BY DEF SheetInv, TypesInv, PeriodsTypeOK
  <2>2. CASE \E c \in Call : Moves(c)
    <3>1. PICK c \in Call : Moves(c)
      BY <2>2
    <3>2. periodSeq' = periodSeq \/ periodSeq' = periodSeq + 1
      BY <3>1, WhoWrites DEF WritesPeriods, InsertPeriod, UpdatePeriod, Deactivate, Activate,
                             CascadePeriod, DeletePeriod
    <3> QED  BY <2>1, <3>1, <3>2, PeriodsWriter
  <2>3. CASE (\E c \in Call : Starts(c)) \/ Crash \/ Elsewhere
    BY <2>1, <2>3, StartsFrame, ElsewhereFrame DEF Crash, PeriodsStay
  <2> QED  BY <2>2, <2>3, StepOfAttendance
<1> QED  BY <1>1

\* A record stays, but for its check-out, unless its period goes.
LEMMA RecordsGoOn ==
  ASSUME SheetInv, Next, NEW i \in DOMAIN records, records[i].period \in DOMAIN periods'
  PROVE  /\ i \in DOMAIN records' /\ records[i].out \in Int /\ records'[i].out \in Int
         /\ records'[i].emp = records[i].emp /\ records'[i].in = records[i].in
         /\ records'[i].date = records[i].date /\ records'[i].period = records[i].period
<1>1. /\ records[i] \in Record /\ records[i].out \in Int
  BY RowOfTable, RecordIsTyped DEF SheetInv, TypesInv
<1>2. CASE UNCHANGED records
  BY <1>1, <1>2
<1>3. ASSUME NEW c \in Call, Moves(c)
      PROVE  /\ i \in DOMAIN records' /\ records'[i].out \in Int
             /\ records'[i].emp = records[i].emp /\ records'[i].in = records[i].in
             /\ records'[i].date = records[i].date /\ records'[i].period = records[i].period
  <2>1. i \in DOMAIN records'
    <3>1. CASE CascadePeriod(c)
      BY <3>1 DEF CascadePeriod, DeletePeriod
    <3> QED  BY <1>3, <3>1, RecordsTyped, WhoWrites DEF WritesRecords
  <2>2. CASE records'[i] = records[i]
    BY <1>1, <2>1, <2>2
  <2>3. CASE calls[c].at \in Time /\ records'[i] = [records[i] EXCEPT !.out = calls[c].at]
    <3>1. calls[c].at \in Int
      BY <2>3, DaysOfTime
    <3> QED  BY <1>1, <2>1, <2>3, <3>1 DEF Record
  <2>4. recordSeq + 1 \notin DOMAIN records
    BY DEF SheetInv, TypesInv, IsTable
  <2> QED  BY <1>3, <2>1, <2>2, <2>3, <2>4, RecordsWriter
<1> QED  BY <1>1, <1>2, <1>3, TablesFrame

LEMMA StillHasKept ==
  ASSUME SheetInv, AuditNext, NEW s \in Snapshot, StillHas(s)
  PROVE  StillHas(s)'
<1> SUFFICES ASSUME NEW r \in s.rows
             PROVE  /\ s.period \in 1 .. periodSeq'
                    /\ s.period \in DOMAIN periods' /\ <<r.emp, r.in>> \notin turnedBack' =>
                         \E i \in DOMAIN records' :
                           /\ records'[i].emp = r.emp /\ records'[i].in = r.in
                           /\ records'[i].out >= r.out
                           /\ records'[i].period = s.period /\ IsOfDay(records'[i], s.day)
  BY DEF StillHas, IsOfDay
<1>1. Next /\ s.period \in 1 .. periodSeq /\ turnedBack \subseteq turnedBack'
  BY DEF StillHas, AuditNext
<1>2. ASSUME s.period \in DOMAIN periods', <<r.emp, r.in>> \notin turnedBack'
      PROVE  \E i \in DOMAIN records' :
               /\ records'[i].emp = r.emp /\ records'[i].in = r.in
               /\ records'[i].out >= r.out
               /\ records'[i].period = s.period /\ IsOfDay(records'[i], s.day)
  <2>1. PICK i \in DOMAIN records :
          /\ records[i].emp = r.emp /\ records[i].in = r.in /\ records[i].out >= r.out
          /\ records[i].period = s.period /\ IsOfDay(records[i], s.day)
    BY <1>1, <1>2, PeriodsGoOn DEF StillHas
  <2>2. /\ i \in DOMAIN records' /\ records[i].out \in Int /\ records'[i].out \in Int
        /\ records'[i].emp = records[i].emp /\ records'[i].in = records[i].in
        /\ records'[i].date = records[i].date /\ records'[i].period = records[i].period
    BY <1>1, <1>2, <2>1, RecordsGoOn
  <2>3. ~(records'[i].out < records[i].out)
    <3>1. SUFFICES ASSUME records'[i].out < records[i].out
                   PROVE  <<r.emp, r.in>> \in turnedBack'
      BY <1>2
    <3> QED  BY <2>1, <2>2, <3>1 DEF AuditNext
  <2>4. r.out \in Int
    <3>1. r \in Record
      BY DEF Snapshot
    <3> QED  BY <3>1, RecordIsTyped DEF SheetInv
  <2>5. records'[i].out >= r.out
    BY <2>1, <2>2, <2>3, <2>4
  <2> QED  BY <2>1, <2>2, <2>5 DEF IsOfDay
<1> QED  BY <1>1, <1>2, PeriodsGoOn

\* What getDashboardData reads, the table has; and it has all that the table
\* has of what was read before it.
LEMMA DashboardHas ==
  ASSUME SheetInv, NEW p, NEW n
  PROVE  /\ StillHas(Dashboards(p, n))
         /\ \A old : StillHas(old) /\ p \in DOMAIN periods => KeepsUp(Dashboards(p, n), old)
<1>1. PICK s : s = Dashboards(p, n)
  OBVIOUS
<1>2. s.day = DayOf(now) /\ s.period = p /\ s.rows = TodaysRows(p)
  BY <1>1 DEF Dashboards
<1>3. StillHas(s)
  <2> SUFFICES ASSUME NEW r \in s.rows
               PROVE  /\ s.period \in 1 .. periodSeq
                      /\ \E i \in DOMAIN records :
                           /\ records[i].emp = r.emp /\ records[i].in = r.in
                           /\ records[i].out >= r.out
                           /\ records[i].period = s.period /\ IsOfDay(records[i], s.day)
    BY DEF StillHas
  <2>1. PICK i \in DOMAIN records :
          r = records[i] /\ IsOfDay(records[i], DayOf(now)) /\ records[i].period = p
    BY <1>2 DEF TodaysRows
  <2>2. records[i].out \in Int
    BY RowOfTable, RecordIsTyped DEF SheetInv, TypesInv
  <2>3. p \in 1 .. periodSeq
    BY <2>1 DEF SheetInv, TypesInv, PeriodsTypeOK, IsTable
  <2> QED  BY <1>2, <2>1, <2>2, <2>3
<1>4. ASSUME NEW old, StillHas(old), p \in DOMAIN periods
      PROVE  KeepsUp(s, old)
  <2> SUFFICES ASSUME s.day = old.day, s.period = old.period, NEW r \in old.rows,
                      <<r.emp, r.in>> \notin turnedBack
               PROVE  \E q \in s.rows : q.emp = r.emp /\ q.in = r.in /\ q.out >= r.out
    BY DEF KeepsUp, FallsBehind
  <2>1. PICK i \in DOMAIN records :
          /\ records[i].emp = r.emp /\ records[i].in = r.in /\ records[i].out >= r.out
          /\ records[i].period = old.period /\ IsOfDay(records[i], old.day)
    BY <1>2, <1>4 DEF StillHas
  <2>2. records[i] \in s.rows
    BY <1>2, <2>1 DEF TodaysRows
  <2> QED  BY <2>1, <2>2
<1> QED  BY <1>1, <1>3, <1>4

LEMMA EmptyHas ==
  ASSUME NEW call
  PROVE  StillHas(EmptyDashboard(call))
BY DEF StillHas, EmptyDashboard

LEMMA KeepsUpStays ==
  ASSUME NEW new, NEW old, KeepsUp(new, old), AuditNext
  PROVE  KeepsUp(new, old)'
<1>1. turnedBack \subseteq turnedBack'
  BY DEF AuditNext
<1> QED  BY <1>1 DEF KeepsUp, FallsBehind

LEMMA Snaps ==
  ASSUME SheetInv
  PROVE  /\ queue \in Seq(Snapshot) /\ \A j \in DOMAIN queue : queue[j] \in Snapshot
         /\ \A x \in DOMAIN screen : screen[x] \in Snapshot
         /\ \A c \in DOMAIN calls : At(c, "emitDashboard") => calls[c].snapshot \in Snapshot
<1>1. \A c \in DOMAIN calls : At(c, "emitDashboard") => calls[c].snapshot \in Snapshot
  BY RowOfTable, ClockCallByLabel DEF SheetInv, TypesInv, At
<1> QED  BY <1>1, RowOfTable DEF SheetInv, TypesInv

\* The queue with its doubts in a step.
LEMMA DoubtsMove ==
  ASSUME AuditInv, ScreensInv, AuditNext
  PROVE  \/ UNCHANGED <<queue, screen, doubtful>>
         \/ \E s \in Snapshot, doubt \in BOOLEAN :
              /\ queue' = Append(queue, s) /\ doubtful' = Append(doubtful, doubt)
              /\ UNCHANGED screen /\ StillHas(s)
              /\ \E c \in DOMAIN calls :
                   /\ c \notin DOMAIN calls'
                   /\ ~doubt => /\ Alone(c) /\ At(c, "emitDashboard")
                                /\ s = calls[c].snapshot
         \/ /\ queue # << >> /\ queue' = Tail(queue) /\ doubtful' = Tail(doubtful)
            /\ screen' = Shown(Head(queue))
<1>1. queue \in Seq(Snapshot) /\ Len(queue) \in Nat
  BY Snaps DEF AuditInv
<1>2. CASE UNCHANGED <<queue, screen>>
  BY <1>1, <1>2 DEF AuditNext
<1>3. ASSUME NEW d \in Call, NEW s \in Snapshot, At(d, "emitDashboard") \/ At(d, "readDashboard"),
             Return(d), UNCHANGED screen, queue' = Append(queue, s), StillHas(s),
             At(d, "emitDashboard") => s = calls[d].snapshot
      PROVE  \E t \in Snapshot, doubt \in BOOLEAN :
               /\ queue' = Append(queue, t) /\ doubtful' = Append(doubtful, doubt)
               /\ UNCHANGED screen /\ StillHas(t)
               /\ \E c \in DOMAIN calls :
                    /\ c \notin DOMAIN calls'
                    /\ ~doubt => /\ Alone(c) /\ At(c, "emitDashboard")
                                 /\ t = calls[c].snapshot
  <2>1. Len(queue') > Len(queue)
    BY <1>1, <1>3
  <2>2. PICK doubt \in BOOLEAN :
          doubt <=> ~ \E c \in InFlight : At(c, "emitDashboard") /\ Free(c)' /\ Alone(c)
    <3>1. CASE \E c \in InFlight : At(c, "emitDashboard") /\ Free(c)' /\ Alone(c)
      BY <3>1, Zenon
    <3>2. CASE ~ \E c \in InFlight : At(c, "emitDashboard") /\ Free(c)' /\ Alone(c)
      BY <3>2, Zenon
    <3> QED  BY <3>1, <3>2
  <2>3. doubtful' = Append(doubtful, doubt)
    <3>1. doubt = ~ \E c \in InFlight : At(c, "emitDashboard") /\ Free(c)' /\ Alone(c)
      BY <2>2, Zenon
    <3>2. doubtful' = Append(doubtful, ~ \E c \in InFlight : /\ At(c, "emitDashboard")
                                                            /\ Free(c)' /\ Alone(c))
      BY <2>1, Zenon DEF AuditNext
    <3> QED  BY <3>1, <3>2, Zenon
  <2>4. d \in DOMAIN calls /\ d \notin DOMAIN calls'
    BY <1>3 DEF At, Return, Drop
  <2>5. ASSUME ~doubt
        PROVE  Alone(d) /\ At(d, "emitDashboard") /\ s = calls[d].snapshot
    <3>1. PICK c \in InFlight : At(c, "emitDashboard") /\ Alone(c)
      BY <2>2, <2>5
    <3>2. c \in Call
      BY <3>1 DEF AuditInv, SheetInv, TypesInv, IsTable, InFlight
    <3>3. InFlight = {c}
      BY <3>1, <3>2 DEF AuditInv, AloneInv
    <3>4. d = c
      BY <2>4, <3>3 DEF InFlight
    <3> QED  BY <1>3, <3>1, <3>4
  <2> QED  BY <1>3, <2>3, <2>4, <2>5
<1>4. CASE \E d \in Call : /\ EmitDashboard(d) /\ UNCHANGED screen
                           /\ queue' = Append(queue, calls[d].snapshot)
  <2>1. PICK d \in Call : /\ EmitDashboard(d) /\ UNCHANGED screen
                          /\ queue' = Append(queue, calls[d].snapshot)
    BY <1>4
  <2>2. At(d, "emitDashboard") /\ Return(d) /\ d \in DOMAIN calls
    BY <2>1 DEF EmitDashboard, At
  <2>3. calls[d].snapshot \in Snapshot /\ StillHas(calls[d].snapshot)
    BY <2>2, Snaps DEF AuditInv, ScreensInv, AllAreHad
  <2> QED  BY <1>3, <2>1, <2>2, <2>3
<1>5. CASE \E d \in Call : /\ FailDashboard(d) /\ UNCHANGED screen
                           /\ queue' = Append(queue, EmptyDashboard(calls[d]))
  <2>1. PICK d \in Call : /\ FailDashboard(d) /\ UNCHANGED screen
                          /\ queue' = Append(queue, EmptyDashboard(calls[d]))
    BY <1>5
  <2>2. At(d, "readDashboard") /\ Return(d) /\ ~At(d, "emitDashboard")
    BY <2>1 DEF FailDashboard, At
  <2>3. EmptyDashboard(calls[d]) \in Snapshot /\ StillHas(EmptyDashboard(calls[d]))
    BY <2>1, EmptyIsTyped, EmptyHas DEF FailDashboard, AuditInv, SheetInv
  <2> QED  BY <1>3, <2>1, <2>2, <2>3
<1>6. CASE queue # << >> /\ queue' = Tail(queue) /\ screen' = Shown(Head(queue))
  <2>1. Len(queue') < Len(queue) /\ ~(Len(queue') > Len(queue))
    BY <1>1, <1>6
  <2> QED  BY <1>6, <2>1 DEF AuditNext
<1> QED  BY <1>2, <1>4, <1>5, <1>6, QueueMoves DEF AuditInv, AuditNext

LEMMA ShownOnes ==
  ASSUME SheetInv, queue # << >>, screen' = Shown(Head(queue)), NEW x \in DOMAIN screen'
  PROVE  \/ screen'[x] = queue[1] /\ 1 \in DOMAIN queue
         \/ x \in DOMAIN screen /\ screen'[x] = screen[x]
<1>1. Head(queue) = queue[1] /\ 1 \in DOMAIN queue
  BY Snaps, PlacesOfTail
<1> QED  BY <1>1 DEF Shown

\* Whatever was sent or shown, the table still has.
LEMMA AllStillHad ==
  ASSUME AuditInv, ScreensInv, AuditNext
  PROVE  /\ \A x \in DOMAIN screen' : StillHas(screen[x])'
         /\ \A j \in DOMAIN queue' : StillHas(queue[j])'
         /\ \A c \in DOMAIN calls' : At(c, "emitDashboard")' => StillHas(calls[c].snapshot)'
<1>0. SheetInv /\ Next /\ queue \in Seq(Snapshot)
  BY Snaps DEF AuditInv, AuditNext
<1>1. ASSUME NEW s \in Snapshot, StillHas(s)
      PROVE  StillHas(s)'
  BY <1>0, <1>1, StillHasKept
<1>2. /\ \A x \in DOMAIN screen : StillHas(screen[x]) /\ screen[x] \in Snapshot
      /\ \A j \in DOMAIN queue : StillHas(queue[j]) /\ queue[j] \in Snapshot
  BY <1>0, Snaps DEF ScreensInv, AllAreHad
<1>3. ASSUME NEW x \in DOMAIN screen'
      PROVE  \E s \in Snapshot : screen'[x] = s /\ StillHas(s)
  <2>1. CASE UNCHANGED screen
    BY <1>2, <1>3, <2>1
  <2>2. CASE queue # << >> /\ screen' = Shown(Head(queue))
    BY <1>0, <1>2, <1>3, <2>2, ShownOnes
  <2> QED  BY <2>1, <2>2, DoubtsMove
<1>4. ASSUME NEW j \in DOMAIN queue'
      PROVE  \E s \in Snapshot : queue'[j] = s /\ StillHas(s)
  <2>1. CASE UNCHANGED queue
    BY <1>2, <1>4, <2>1
  <2>2. CASE \E s \in Snapshot : queue' = Append(queue, s) /\ StillHas(s)
    BY <1>0, <1>2, <1>4, <2>2, PlacesOfAppend
  <2>3. CASE queue # << >> /\ queue' = Tail(queue)
    BY <1>0, <1>2, <1>4, <2>3, PlacesOfTail
  <2> QED  BY <2>1, <2>2, <2>3, DoubtsMove
<1>5. ASSUME NEW c \in DOMAIN calls', At(c, "emitDashboard")'
      PROVE  \E s \in Snapshot : calls'[c].snapshot = s /\ StillHas(s)
  <2>1. CASE At(c, "emitDashboard") /\ calls'[c] = calls[c]
    BY <1>0, <2>1, Snaps DEF ScreensInv, AllAreHad, At
  <2>2. CASE ReadDashboard(c)
    <3>1. calls'[c].snapshot = Dashboards(calls[c].period, calls[c].tolerance)
      BY <2>2 DEF ReadDashboard, Goto, Put
    <3>2. Dashboards(calls[c].period, calls[c].tolerance) \in Snapshot
      <4>1. calls[c].period \in PeriodId /\ calls[c].tolerance \in Nat
        BY <1>0, <2>2, RowOfTable, ClockCallByLabel DEF ReadDashboard, At, SheetInv, TypesInv
      <4> QED  BY <1>0, <4>1, DashboardIsTyped DEF SheetInv
    <3> QED  BY <1>0, <3>1, <3>2, DashboardHas
  <2> QED  BY <1>0, <1>5, <2>1, <2>2, WhoEmits
<1> QED
  <2>1. ASSUME NEW x \in DOMAIN screen'
        PROVE  StillHas(screen[x])'
    <3>1. PICK s \in Snapshot : screen'[x] = s /\ StillHas(s)
      BY <1>3
    <3>2. StillHas(s)'
      BY <1>1, <3>1
    <3> QED  BY <3>1, <3>2 DEF StillHas
  <2>2. ASSUME NEW j \in DOMAIN queue'
        PROVE  StillHas(queue[j])'
    <3>1. PICK s \in Snapshot : queue'[j] = s /\ StillHas(s)
      BY <1>4
    <3>2. StillHas(s)'
      BY <1>1, <3>1
    <3> QED  BY <3>1, <3>2 DEF StillHas
  <2>3. ASSUME NEW c \in DOMAIN calls', At(c, "emitDashboard")'
        PROVE  StillHas(calls[c].snapshot)'
    <3>1. PICK s \in Snapshot : calls'[c].snapshot = s /\ StillHas(s)
      BY <1>5, <2>3
    <3>2. StillHas(s)'
      BY <1>1, <3>1
    <3> QED  BY <3>1, <3>2 DEF StillHas
  <2> QED  BY <2>1, <2>2, <2>3

\* Everything that was sent or shown before.
Sent == {screen[x] : x \in DOMAIN screen} \cup {queue[j] : j \in DOMAIN queue}

LEMMA SentStays ==
  ASSUME SheetInv,
         \/ UNCHANGED screen /\ UNCHANGED queue
         \/ queue # << >> /\ queue' = Tail(queue) /\ screen' = Shown(Head(queue))
  PROVE  Sent' \subseteq Sent
<1>1. CASE UNCHANGED screen /\ UNCHANGED queue
  BY <1>1 DEF Sent
<1>2. CASE queue # << >> /\ queue' = Tail(queue) /\ screen' = Shown(Head(queue))
  <2>1. \A x \in DOMAIN screen' : screen'[x] \in Sent
    BY <1>2, ShownOnes DEF Sent
  <2>2. \A j \in DOMAIN queue' : queue'[j] \in Sent
    BY <1>2, Snaps, PlacesOfTail DEF Sent
  <2> QED  BY <2>1, <2>2 DEF Sent
<1> QED  BY <1>1, <1>2

LEMMA AloneKeepsUp ==
  ASSUME AuditInv, ScreensInv, AuditNext, NEW c \in Call, Alone(c)', At(c, "emitDashboard")',
         NEW new, new = calls'[c].snapshot, NEW old \in Sent'
  PROVE  KeepsUp(new, old)'
<1>0. SheetInv /\ Next /\ c \in DOMAIN calls'
  BY DEF AuditInv, AuditNext, At
<1>1. CASE At(c, "emitDashboard") /\ calls'[c] = calls[c]
  <2>1. c \in DOMAIN calls
    BY <1>1 DEF At
  <2>2. Alone(c) /\ InFlight = {c}
    BY <2>1, WhoIsAlone, StartsFrame DEF AuditInv
  <2>3. \/ UNCHANGED screen /\ UNCHANGED queue
        \/ queue # << >> /\ queue' = Tail(queue) /\ screen' = Shown(Head(queue))
    BY <1>0, <2>2, DoubtsMove DEF InFlight
  <2>4. old \in Sent
    BY <1>0, <2>3, SentStays
  <2>5. KeepsUp(new, old)
    BY <1>1, <2>2, <2>4 DEF ScreensInv, AloneAreAhead, Sent
  <2> QED  BY <1>1, <2>5, KeepsUpStays
<1>2. CASE ReadDashboard(c)
  <2>1. /\ calls'[c].snapshot = Dashboards(calls[c].period, calls[c].tolerance)
        /\ c \in DOMAIN calls /\ calls[c].pc = "readDashboard"
        /\ UNCHANGED <<screen, queue>>
    BY <1>2 DEF ReadDashboard, Goto, Put, At, SheetStays, dashboardVars
  <2>2. Holds(calls[c])
    BY <2>1, WhoIsAlone, StartsFrame DEF AuditInv
  <2>3. calls[c].period \in DOMAIN periods
    BY <2>1, <2>2 DEF Holds
  <2>4. StillHas(old)
    BY <2>1 DEF Sent, ScreensInv, AllAreHad
  <2>5. KeepsUp(new, old)
    BY <1>0, <2>1, <2>3, <2>4, DashboardHas
  <2> QED  BY <2>5, KeepsUpStays
<1> QED  BY <1>0, <1>1, <1>2, WhoEmits

LEMMA DoubtlessKeepUp ==
  ASSUME AuditInv, ScreensInv, AuditNext, NEW j \in DOMAIN queue', ~doubtful'[j]
  PROVE  /\ \A x \in DOMAIN screen' : KeepsUp(queue'[j], screen'[x])
         /\ \A k \in DOMAIN queue' : k < j => KeepsUp(queue'[j], queue'[k])
<1>0. /\ SheetInv /\ queue \in Seq(Snapshot) /\ Len(queue) \in Nat
      /\ doubtful \in Seq(BOOLEAN) /\ Len(doubtful) = Len(queue)
  BY Snaps DEF AuditInv, ScreensInv
<1>1. CASE UNCHANGED <<queue, screen, doubtful>>
  BY <1>1 DEF ScreensInv, DoubtlessAreAhead
<1>2. ASSUME NEW s \in Snapshot, NEW doubt \in BOOLEAN, UNCHANGED screen,
             queue' = Append(queue, s), doubtful' = Append(doubtful, doubt),
             ~doubt => \E c \in DOMAIN calls :
                         Alone(c) /\ At(c, "emitDashboard") /\ s = calls[c].snapshot
      PROVE  /\ \A x \in DOMAIN screen' : KeepsUp(queue'[j], screen'[x])
             /\ \A k \in DOMAIN queue' : k < j => KeepsUp(queue'[j], queue'[k])
  <2>1. \A k \in DOMAIN queue' :
          /\ k \in DOMAIN queue \/ k = Len(queue) + 1
          /\ k \in DOMAIN queue => /\ k \in Nat /\ k <= Len(queue) /\ queue'[k] = queue[k]
                                   /\ doubtful'[k] = doubtful[k]
    BY <1>0, <1>2
  <2>2. queue'[Len(queue) + 1] = s /\ doubtful'[Len(queue) + 1] = doubt
    BY <1>0, <1>2
  <2>3. CASE j \in DOMAIN queue
    <3>1. \A k \in DOMAIN queue' : k < j => k \in DOMAIN queue
      BY <1>0, <2>1, <2>3
    <3> QED  BY <1>2, <2>1, <2>3, <3>1 DEF ScreensInv, DoubtlessAreAhead
  <2>4. CASE j = Len(queue) + 1
    <3>1. PICK c \in DOMAIN calls : Alone(c) /\ At(c, "emitDashboard") /\ s = calls[c].snapshot
      BY <1>2, <2>2, <2>4
    <3>2. c \in Call
      BY <1>0 DEF SheetInv, TypesInv, IsTable
    <3>3. /\ \A x \in DOMAIN screen : KeepsUp(s, screen[x])
          /\ \A k \in DOMAIN queue : KeepsUp(s, queue[k])
      BY <3>1, <3>2 DEF ScreensInv, AloneAreAhead
    <3>4. \A k \in DOMAIN queue' : k < j => k \in DOMAIN queue
      BY <2>1, <2>4, <1>0
    <3> QED  BY <1>2, <2>1, <2>2, <2>4, <3>3, <3>4
  <2> QED  BY <2>1, <2>3, <2>4
<1>3. CASE /\ queue # << >> /\ queue' = Tail(queue) /\ doubtful' = Tail(doubtful)
           /\ screen' = Shown(Head(queue))
  <2>1. \A k \in DOMAIN queue' :
          /\ k \in Nat /\ k > 0 /\ k + 1 \in DOMAIN queue /\ queue'[k] = queue[k + 1]
          /\ doubtful'[k] = doubtful[k + 1]
    BY <1>0, <1>3
  <2>2. ~doubtful[j + 1] /\ j + 1 \in DOMAIN queue /\ queue'[j] = queue[j + 1]
    BY <2>1
  <2>3. /\ \A x \in DOMAIN screen : KeepsUp(queue[j + 1], screen[x])
        /\ \A k \in DOMAIN queue : k < j + 1 => KeepsUp(queue[j + 1], queue[k])
    BY <2>2 DEF ScreensInv, DoubtlessAreAhead
  <2>4. \A x \in DOMAIN screen' :
          \/ screen'[x] = queue[1] /\ 1 \in DOMAIN queue
          \/ x \in DOMAIN screen /\ screen'[x] = screen[x]
    BY <1>0, <1>3, ShownOnes
  <2>5. 1 < j + 1 /\ \A k \in DOMAIN queue' : k < j => k + 1 < j + 1
    BY <2>1
  <2> QED  BY <2>1, <2>2, <2>3, <2>4, <2>5
<1> QED  BY <1>1, <1>2, <1>3, DoubtsMove

LEMMA FirstOfBoth ==
  ASSUME NEW q \in Seq(Snapshot), NEW d \in Seq(BOOLEAN), q # << >>, Len(d) = Len(q)
  PROVE  1 \in DOMAIN q /\ Head(d) = d[1]
<1>1. Len(q) \in Nat /\ Len(q) # 0
  OBVIOUS
<1>2. d # << >>
  BY <1>1
<1> QED  BY <1>1, <1>2

LEMMA ScreensInvKept ==
  ASSUME AuditInv, ScreensInv, AuditNext
  PROVE  ScreensInv'
<1>1. doubtful' \in Seq(BOOLEAN) /\ Len(doubtful') = Len(queue')
  <2>1. /\ queue \in Seq(Snapshot) /\ doubtful \in Seq(BOOLEAN) /\ Len(doubtful) = Len(queue)
    BY Snaps DEF AuditInv, ScreensInv
  <2>2. CASE UNCHANGED <<queue, screen, doubtful>>
    BY <2>1, <2>2
  <2>3. CASE \E s \in Snapshot, doubt \in BOOLEAN :
               queue' = Append(queue, s) /\ doubtful' = Append(doubtful, doubt)
    BY <2>1, <2>3
  <2>4. CASE queue # << >> /\ queue' = Tail(queue) /\ doubtful' = Tail(doubtful)
    <3>1. doubtful # << >>
      BY <2>1, <2>4
    <3> QED  BY <2>1, <2>4, <3>1
  <2> QED  BY <2>2, <2>3, <2>4, DoubtsMove
<1>2. AllAreHad'
  BY AllStillHad DEF AllAreHad, StillHas, IsOfDay, At
<1>3. AloneAreAhead'
  <2> SUFFICES ASSUME NEW c \in Call, Alone(c)', At(c, "emitDashboard")'
               PROVE  /\ \A x \in DOMAIN screen' : KeepsUp(calls[c].snapshot, screen[x])'
                      /\ \A j \in DOMAIN queue' : KeepsUp(calls[c].snapshot, queue[j])'
    BY DEF AloneAreAhead
  <2>1. PICK new : new = calls'[c].snapshot
    OBVIOUS
  <2>2. \A old \in Sent' : KeepsUp(new, old)'
    BY <2>1, AloneKeepsUp
  <2>3. /\ \A x \in DOMAIN screen' : screen'[x] \in Sent'
        /\ \A j \in DOMAIN queue' : queue'[j] \in Sent'
    BY DEF Sent
  <2> QED  BY <2>1, <2>2, <2>3 DEF KeepsUp, FallsBehind
<1>4. DoubtlessAreAhead'
  <2> SUFFICES ASSUME NEW j \in DOMAIN queue', ~doubtful'[j]
               PROVE  /\ \A x \in DOMAIN screen' : KeepsUp(queue[j], screen[x])'
                      /\ \A k \in DOMAIN queue' : k < j => KeepsUp(queue[j], queue[k])'
    BY DEF DoubtlessAreAhead
  <2>1. \A new, old : KeepsUp(new, old) => KeepsUp(new, old)'
    BY KeepsUpStays
  <2> QED  BY <2>1, DoubtlessKeepUp DEF KeepsUp, FallsBehind
<1> QED  BY <1>1, <1>2, <1>3, <1>4 DEF ScreensInv

LEMMA ScreensInvariant == AuditSpec => [](AuditInv /\ ScreensInv)
<1>1. AuditInit => ScreensInv
  <2> SUFFICES ASSUME AuditInit PROVE ScreensInv
    OBVIOUS
  <2>1. DOMAIN screen = {} /\ DOMAIN queue = {} /\ DOMAIN calls = {}
        /\ doubtful = << >> /\ queue = << >>
    BY DEF AuditInit, Init, DashboardInit
  <2> QED  BY <2>1 DEF ScreensInv, AllAreHad, AloneAreAhead, DoubtlessAreAhead, Alone, InFlight, At
<1>2. AuditInv /\ ScreensInv /\ [AuditNext]_auditVars => ScreensInv'
  <2> SUFFICES ASSUME AuditInv, ScreensInv, [AuditNext]_auditVars
               PROVE  ScreensInv'
    OBVIOUS
  <2>1. CASE UNCHANGED auditVars
    <3>1. /\ UNCHANGED <<calls, periods, periodSeq, records, queue, screen>>
          /\ UNCHANGED <<overlapped, doubtful, turnedBack>>
      BY <2>1 DEF auditVars, vars, periodVars, dashboardVars, sheetVars
    <3>2. AllAreHad'
      BY <3>1 DEF ScreensInv, AllAreHad, StillHas, IsOfDay, At
    <3>3. AloneAreAhead'
      BY <3>1 DEF ScreensInv, AloneAreAhead, KeepsUp, FallsBehind, Alone, InFlight, At
    <3>4. DoubtlessAreAhead'
      BY <3>1, ZenonT(30) DEF ScreensInv, DoubtlessAreAhead, KeepsUp, FallsBehind
    <3> QED  BY <3>1, <3>2, <3>3, <3>4 DEF ScreensInv
  <2> QED  BY <2>1, ScreensInvKept
<1> QED  BY <1>1, <1>2, AuditInvInit, AuditInvKept, PTL DEF AuditSpec

\* On one day of one period a screen loses a check-in or a check-out that it
\* has shown only by a snapshot of a call that met another one, or by the empty
\* one of an error: with any number of calls, browsers, snapshots on their way,
\* crashes and changes of the periods, and unless the table itself has lost it.
THEOREM ScreensKeepUp == AuditSpec => ScreensFallBehindForACause
<1>1. AuditInv /\ ScreensInv /\ [AuditNext]_auditVars
        => [\A c \in DOMAIN screen :
              (/\ screen'[c] # screen[c]
               /\ screen'[c].day = screen[c].day /\ screen'[c].period = screen[c].period
               /\ FallsBehind(screen[c], screen'[c]))
              => Head(doubtful)]_auditVars
  <2> SUFFICES ASSUME AuditInv, ScreensInv, AuditNext, NEW c \in DOMAIN screen,
                      screen'[c] # screen[c], screen'[c].day = screen[c].day,
                      screen'[c].period = screen[c].period,
                      FallsBehind(screen[c], screen'[c]), ~Head(doubtful)
               PROVE  FALSE
    OBVIOUS
  <2>1. /\ queue # << >> /\ screen' = Shown(Head(queue))
    BY DoubtsMove
  <2>2. /\ queue \in Seq(Snapshot) /\ doubtful \in Seq(BOOLEAN) /\ Len(doubtful) = Len(queue)
    BY Snaps DEF AuditInv, ScreensInv
  <2>3. 1 \in DOMAIN queue /\ Head(doubtful) = doubtful[1]
    BY <2>1, <2>2, FirstOfBoth
  <2>4. c \in DOMAIN screen' /\ screen'[c] = queue[1]
    BY <2>1, ShownOnes DEF AuditInv, Shown
  <2>5. KeepsUp(queue[1], screen[c])
    BY <2>3 DEF ScreensInv, DoubtlessAreAhead
  <2> QED  BY <2>4, <2>5 DEF KeepsUp
<1> QED  BY <1>1, ScreensInvariant, PTL DEF AuditSpec, ScreensFallBehindForACause

-----------------------------------------------------------------------------
(* Who is late.                                                            *)

\* Rounded down to the minute and compared, the record says LATE only of whom
\* the screen shows late; and whom the screen shows late checked in after the
\* threshold or in the very minute of it.
LEMMA LateToTheMinute ==
  ASSUME NEW t \in Nat, NEW n \in Nat
  PROVE  /\ MinuteOf(t) > n => t > DayOf(t) * DayLength + n * TicksPerMinute
         /\ t > DayOf(t) * DayLength + n * TicksPerMinute => MinuteOf(t) >= n
         /\ MinuteOf(t) \in Nat
<1>1. PICK m \in Nat : m = t % DayLength
  BY Lengths, QuotientOf
<1>2. DayOf(t) \in Nat /\ t = DayLength * DayOf(t) + m /\ DayLength \in Nat
  BY <1>1, Lengths, QuotientOf DEF DayOf
<1>3. PICK q \in Nat : q = m \div TicksPerMinute
  BY Lengths, QuotientOf
<1>4. PICK r \in Nat : r < TicksPerMinute /\ m = TicksPerMinute * q + r
  BY <1>3, Lengths, QuotientOf
<1>5. MinuteOf(t) = q
  BY <1>1, <1>3 DEF MinuteOf
<1>6. /\ DayLength * DayOf(t) = DayOf(t) * DayLength /\ DayOf(t) * DayLength \in Nat
      /\ n * TicksPerMinute \in Nat /\ TicksPerMinute * q \in Nat
      /\ TicksPerMinute \in Nat /\ TicksPerMinute > 0
  BY <1>2, Lengths
<1>7. t > DayOf(t) * DayLength + n * TicksPerMinute <=> m > n * TicksPerMinute
  BY <1>2, <1>6
<1>8. ASSUME q > n
      PROVE  m > n * TicksPerMinute
  <2>1. PICK k \in Nat : q = n + 1 + k
    <3>1. q - (n + 1) \in Nat /\ q = n + 1 + (q - (n + 1))
      BY <1>8
    <3> QED  BY <3>1
  <2>2. /\ TicksPerMinute * q = n * TicksPerMinute + TicksPerMinute + TicksPerMinute * k
        /\ TicksPerMinute * k \in Nat
    BY <1>6, <2>1
  <2> QED  BY <1>4, <1>6, <2>2
<1>9. ASSUME m > n * TicksPerMinute
      PROVE  q >= n
  <2>1. SUFFICES ASSUME n > q PROVE FALSE
    OBVIOUS
  <2>2. PICK k \in Nat : n = q + 1 + k
    <3>1. n - (q + 1) \in Nat /\ n = q + 1 + (n - (q + 1))
      BY <2>1
    <3> QED  BY <3>1
  <2>3. /\ n * TicksPerMinute = TicksPerMinute * q + TicksPerMinute + TicksPerMinute * k
        /\ TicksPerMinute * k \in Nat
    BY <1>6, <2>2
  <2> QED  BY <1>4, <1>6, <1>9, <2>3
<1> QED  BY <1>5, <1>7, <1>8, <1>9

\* The tolerances of the periods nobody has changed one of.
Tuning == [i \in DOMAIN periods \ retuned |-> ToleranceOf(i)]

\* A snapshot agrees with the records in it.
Agrees(s, excused) ==
  s.period \notin excused =>
    /\ \A row \in s.rows : row.status = "LATE" => row.emp \in s.late
    /\ \A e \in s.late : \E row \in s.rows :
         row.emp = e /\ (row.status = "LATE" \/ MinuteOf(row.in) = s.tolerance)

\* A row and a call go by the tolerance of their period, one of the first n.
RowTuned(row, tuning, n) ==
  /\ row.period \in 1 .. n /\ row.date <= DayOf(row.in)
  /\ row.period \in DOMAIN tuning => row.status = StatusAt(row.in, tuning[row.period])

CallTuned(call, tuning, n, excused) ==
  /\ call.pc \in ReadLabels \cup {"readDashboard"} =>
       /\ call.period \in 1 .. n
       /\ call.period \in DOMAIN tuning => call.tolerance = tuning[call.period]
  /\ call.pc = "insertRecord" => RowTuned(call.row, tuning, n)
  /\ call.pc = "emitDashboard" => Agrees(call.snapshot, excused)

LateInv ==
  /\ \A i \in DOMAIN records : RowTuned(records[i], Tuning, periodSeq)
  /\ \A c \in DOMAIN calls : CallTuned(calls[c], Tuning, periodSeq, retuned)
  /\ \A i \in DOMAIN queue : Agrees(queue[i], retuned)

\* A period nobody has changed the tolerance of has the one it had.
LEMMA TuningStays ==
  ASSUME SheetInv, AuditNext
  PROVE  /\ retuned \subseteq retuned'
         /\ \A i \in 1 .. periodSeq :
              /\ i \in 1 .. periodSeq'
              /\ i \in DOMAIN Tuning' => i \in DOMAIN Tuning /\ Tuning'[i] = Tuning[i]
<1>1. retuned \subseteq retuned'
  BY DEF AuditNext
<1>2. ASSUME NEW i \in 1 .. periodSeq
      PROVE  /\ i \in 1 .. periodSeq'
             /\ i \in DOMAIN Tuning' => i \in DOMAIN Tuning /\ Tuning'[i] = Tuning[i]
  <2>1. i \in 1 .. periodSeq' /\ (i \in DOMAIN periods' => i \in DOMAIN periods)
    BY PeriodsGoOn DEF AuditNext
  <2>2. ASSUME i \in DOMAIN periods', i \notin retuned'
        PROVE  ToleranceOf(i)' = ToleranceOf(i)
    BY <2>1, <2>2 DEF AuditNext
  <2> QED  BY <1>1, <2>1, <2>2 DEF Tuning
<1> QED  BY <1>1, <1>2

LEMMA TunedStay ==
  ASSUME SheetInv, AuditNext
  PROVE  /\ \A row : RowTuned(row, Tuning, periodSeq) => RowTuned(row, Tuning', periodSeq')
         /\ \A s : Agrees(s, retuned) => Agrees(s, retuned')
         /\ \A call : CallTuned(call, Tuning, periodSeq, retuned)
                        => CallTuned(call, Tuning', periodSeq', retuned')
<1>1. \A row : RowTuned(row, Tuning, periodSeq) => RowTuned(row, Tuning', periodSeq')
  BY TuningStays DEF RowTuned
<1>2. \A s : Agrees(s, retuned) => Agrees(s, retuned')
  BY TuningStays DEF Agrees
<1>3. ASSUME NEW call, CallTuned(call, Tuning, periodSeq, retuned)
      PROVE  CallTuned(call, Tuning', periodSeq', retuned')
  BY <1>1, <1>2, <1>3, TuningStays DEF CallTuned
<1> QED  BY <1>1, <1>2, <1>3

\* The rows a dashboard reads checked in on its day, so that both measure them
\* from the same midnight.
LEMMA DashboardAgrees ==
  ASSUME SheetInv, TimesInv, LateInv, NEW p, NEW n \in Nat,
         p \in DOMAIN Tuning => n = Tuning[p]
  PROVE  Agrees(Dashboards(p, n), retuned)
<1>1. PICK s : s = Dashboards(p, n)
  OBVIOUS
<1>2. /\ s.period = p /\ s.tolerance = n /\ s.rows = TodaysRows(p)
      /\ s.late = {r.emp : r \in {row \in TodaysRows(p) : ShowsLate(row, n)}}
  BY <1>1 DEF Dashboards
<1>3. ASSUME p \notin retuned, NEW row \in TodaysRows(p)
      PROVE  /\ row.status = StatusAt(row.in, n)
             /\ row.in \in Nat /\ DayOf(row.in) = DayOf(now)
  <2>1. PICK i \in DOMAIN records :
          /\ row = records[i] /\ records[i].period = p
          /\ IsOfDay(records[i], DayOf(now))
    BY <1>3 DEF TodaysRows
  <2>2. RowTuned(row, Tuning, periodSeq) /\ RowUpTo(row, now) /\ row \in Record
    BY <2>1, RowOfTable DEF LateInv, TimesInv, SheetInv, TypesInv
  <2>3. p \in DOMAIN periods
    BY <2>1 DEF SheetInv, TypesInv
  <2>4. row.status = StatusAt(row.in, n)
    BY <1>3, <2>1, <2>2, <2>3 DEF RowTuned, Tuning
  <2>5. /\ row.in \in Nat /\ row.date \in Nat /\ DayOf(row.in) \in Nat
        /\ now \in Nat /\ DayOf(now) \in Nat
    BY <2>2, RecordIsTyped, NowIsTyped DEF SheetInv
  <2>6. DayOf(row.in) <= DayOf(now)
    BY <2>2, <2>5, Lengths, QuotientsOrdered DEF RowUpTo, DayOf
  <2>7. row.date = DayOf(now) \/ DayOf(row.in) = DayOf(now)
    BY <2>1 DEF IsOfDay
  <2>8. row.date <= DayOf(row.in)
    BY <2>2 DEF RowTuned
  <2> QED  BY <2>4, <2>5, <2>6, <2>7, <2>8
<1>4. ASSUME p \notin retuned, NEW row \in TodaysRows(p)
      PROVE  /\ row.status = "LATE" => ShowsLate(row, n)
             /\ ShowsLate(row, n) => row.status = "LATE" \/ MinuteOf(row.in) = n
  <2>1. PICK t \in Nat : t = row.in
    BY <1>3, <1>4
  <2>2. row.status = StatusAt(t, n) /\ DayOf(t) = DayOf(now)
    BY <1>3, <1>4, <2>1
  <2>3. row.status = "LATE" <=> MinuteOf(t) > n
    BY <2>2 DEF StatusAt
  <2>4. ShowsLate(row, n) <=> t > DayOf(t) * DayLength + n * TicksPerMinute
    BY <2>1, <2>2 DEF ShowsLate
  <2>5. /\ MinuteOf(t) > n => t > DayOf(t) * DayLength + n * TicksPerMinute
        /\ t > DayOf(t) * DayLength + n * TicksPerMinute => MinuteOf(t) >= n
        /\ MinuteOf(t) \in Nat
    BY LateToTheMinute
  <2>6. MinuteOf(t) >= n => MinuteOf(t) > n \/ MinuteOf(t) = n
    BY <2>5
  <2> QED  BY <2>1, <2>3, <2>4, <2>5, <2>6
<1>5. Agrees(s, retuned)
  BY <1>2, <1>4 DEF Agrees
<1> QED  BY <1>1, <1>5

LEMMA EmptyAgrees ==
  ASSUME NEW call, NEW excused
  PROVE  Agrees(EmptyDashboard(call), excused)
BY DEF Agrees, EmptyDashboard

\* The tolerance a call has read, and the status it has worked out from it.
LEMMA MovesStayTuned ==
  ASSUME SheetInv, TimesInv, LateInv, NEW c \in Call, Moves(c), NEW d \in DOMAIN calls'
  PROVE  CallTuned(calls'[d], Tuning, periodSeq, retuned)
<1>1. /\ c \in DOMAIN calls /\ calls[c] \in CallRecord
      /\ CallTuned(calls[c], Tuning, periodSeq, retuned) /\ CallUpTo(calls[c], now)
  BY MovesFrame, RowOfTable DEF SheetInv, TypesInv, LateInv, TimesInv
<1>2. \A i \in ActivePeriods(now) : i \in DOMAIN periods /\ i \in 1 .. periodSeq
  BY PeriodIsTyped DEF ActivePeriods, SheetInv
<1>3. CASE d # c
  <2>1. d \in DOMAIN calls /\ calls'[d] = calls[d]
    BY <1>3, MovesFrame DEF OnlyRow
  <2> QED  BY <2>1 DEF LateInv
<1>4. CASE d = c /\ ~ClockStep(c)
  <2>1. calls'[c].pc \in {"insertPeriod", "updatePeriod", "activate"}
    BY <1>4, NextOfPeriods
  <2> QED  BY <1>4, <2>1 DEF CallTuned, ReadLabels
<1>5. CASE d = c /\ ClockStep(c)
  <2>1. CASE /\ calls'[c].pc \in {"checkWorkingDay", "readDashboard"}
             /\ calls'[c].period \in ActivePeriods(now)
             /\ calls'[c].tolerance = ToleranceOf(calls'[c].period)
    BY <1>2, <1>5, <2>1 DEF CallTuned, ReadLabels, Tuning
  <2>2. CASE /\ calls[c].pc = "checkWorkingDay" /\ calls'[c].pc = "readRecord"
             /\ calls'[c].period = calls[c].period
             /\ calls'[c].tolerance = calls[c].tolerance
    BY <1>1, <1>5, <2>2 DEF CallTuned, ReadLabels
  <2>3. CASE /\ calls[c].pc = "readRecord" /\ calls'[c].pc = "insertRecord"
             /\ calls'[c].row = [emp |-> calls[c].emp, period |-> calls[c].period,
                                date |-> calls[c].today, in |-> now, out |-> Never,
                                status |-> StatusAt(now, calls[c].tolerance)]
    <3>1. PICK row : row = calls'[c].row
      OBVIOUS
    <3>2. /\ row.period = calls[c].period /\ row.date = calls[c].today /\ row.in = now
          /\ row.status = StatusAt(now, calls[c].tolerance)
      BY <2>3, <3>1
    <3>3. calls[c].today <= DayOf(now)
      BY <1>1, <2>3 DEF CallUpTo, ReadLabels
    <3>4. RowTuned(row, Tuning, periodSeq)
      BY <1>1, <2>3, <3>2, <3>3 DEF CallTuned, ReadLabels, RowTuned
    <3> QED  BY <1>5, <2>3, <3>1, <3>4 DEF CallTuned, ReadLabels
  <2>4. CASE calls'[c].pc \in WriteLabels \cup {"readDashboardPeriod"}
    BY <1>5, <2>4 DEF CallTuned, ReadLabels, WriteLabels
  <2>5. CASE /\ ReadDashboard(c) /\ calls'[c].pc = "emitDashboard"
             /\ calls'[c].snapshot = Dashboards(calls[c].period, calls[c].tolerance)
    <3>1. calls[c].pc = "readDashboard"
      BY <2>5 DEF ReadDashboard, At
    <3>2. calls[c].tolerance \in Nat
      BY <1>1, <3>1, ClockCallByLabel
    <3>3. calls[c].period \in DOMAIN Tuning => calls[c].tolerance = Tuning[calls[c].period]
      BY <1>1, <3>1 DEF CallTuned
    <3>4. Agrees(Dashboards(calls[c].period, calls[c].tolerance), retuned)
      BY <3>2, <3>3, DashboardAgrees
    <3> QED  BY <1>5, <2>5, <3>4 DEF CallTuned, ReadLabels
  <2>6. c \in DOMAIN calls'
    BY <1>5
  <2> QED
    BY <1>5, <2>1, <2>2, <2>3, <2>4, <2>5, <2>6, NextOfClock DEF WriteLabels
<1> QED  BY <1>3, <1>4, <1>5

LEMMA RowsStayTuned ==
  ASSUME SheetInv, LateInv, NEW c \in Call, Moves(c), NEW i \in DOMAIN records'
  PROVE  RowTuned(records'[i], Tuning, periodSeq)
<1>1. CASE i \in DOMAIN records /\ records'[i] = records[i]
  BY <1>1 DEF LateInv
<1>2. CASE InsertRecord(c) /\ records'[i] = calls[c].row
  BY <1>2 DEF LateInv, CallTuned, InsertRecord, At
<1>3. CASE /\ i \in DOMAIN records /\ records[i] \in Record
           /\ records'[i] = [records[i] EXCEPT !.out = calls[c].at]
  <2>1. /\ records'[i].in = records[i].in /\ records'[i].date = records[i].date
        /\ records'[i].period = records[i].period /\ records'[i].status = records[i].status
    BY <1>3 DEF Record
  <2>2. RowTuned(records[i], Tuning, periodSeq)
    BY <1>3 DEF LateInv
  <2> QED  BY <2>1, <2>2 DEF RowTuned
<1> QED  BY <1>1, <1>2, <1>3, RecordsWriter

LEMMA QueueAgrees ==
  ASSUME SheetInv, LateInv, [Next]_vars, NEW i \in DOMAIN queue'
  PROVE  Agrees(queue'[i], retuned)
<1>1. queue \in Seq(Snapshot)
  BY DEF SheetInv, TypesInv
<1>2. CASE UNCHANGED queue
  BY <1>2 DEF LateInv
<1>3. CASE \E c \in Call : EmitDashboard(c) /\ queue' = Append(queue, calls[c].snapshot)
  <2>1. PICK c \in Call : EmitDashboard(c) /\ queue' = Append(queue, calls[c].snapshot)
    BY <1>3
  <2>2. calls[c].snapshot \in Snapshot /\ Agrees(calls[c].snapshot, retuned)
    BY <2>1, RowOfTable, ClockCallByLabel
       DEF EmitDashboard, At, SheetInv, TypesInv, LateInv, CallTuned
  <2> QED  BY <1>1, <2>1, <2>2, PlacesOfAppend DEF LateInv
<1>4. CASE \E c \in Call :
             FailDashboard(c) /\ queue' = Append(queue, EmptyDashboard(calls[c]))
  <2>1. PICK c \in Call :
          FailDashboard(c) /\ queue' = Append(queue, EmptyDashboard(calls[c]))
    BY <1>4
  <2>2. EmptyDashboard(calls[c]) \in Snapshot
    BY <2>1, EmptyIsTyped DEF FailDashboard, SheetInv
  <2> QED  BY <1>1, <2>1, <2>2, EmptyAgrees, PlacesOfAppend DEF LateInv
<1>5. CASE queue # << >> /\ queue' = Tail(queue)
  BY <1>1, <1>5, PlacesOfTail DEF LateInv
<1> QED  BY <1>2, <1>3, <1>4, <1>5, QueueMoves

LEMMA LateInvKept ==
  ASSUME SheetInv, TimesInv, LateInv, AuditNext
  PROVE  LateInv'
<1>1. \A i \in DOMAIN queue' : Agrees(queue'[i], retuned)
  BY QueueAgrees DEF AuditNext
<1>2. /\ \A i \in DOMAIN records' : RowTuned(records'[i], Tuning, periodSeq)
      /\ \A c \in DOMAIN calls' : CallTuned(calls'[c], Tuning, periodSeq, retuned)
  <2>1. CASE \E c \in Call : Moves(c)
    BY <2>1, MovesStayTuned, RowsStayTuned
  <2>2. CASE \E c \in Call : Starts(c)
    <3>1. PICK c \in Call : Starts(c)
      BY <2>2
    <3>2. /\ UNCHANGED records /\ DOMAIN calls' = DOMAIN calls \cup {c}
          /\ OnlyRow(calls, calls', c)
      BY <3>1, StartsFrame DEF sheetVars
    <3>3. calls'[c].pc \in {"readPeriod", "checkNewPeriod", "checkDates", "updatePeriod",
                           "deletePeriod", "deactivate"}
      BY <3>1 DEF Starts, ClockIn, ClockOut, StartClock, NewPeriodCall, CreatePeriod,
                  EditPeriod, RemovePeriod, RunPeriodsCheck, Goto, Put
    <3>4. CallTuned(calls'[c], Tuning, periodSeq, retuned)
      BY <3>3 DEF CallTuned, ReadLabels
    <3> QED  BY <3>2, <3>4 DEF LateInv, OnlyRow
  <2>3. CASE Crash
    BY <2>3, CrashKeepsTypes DEF Crash, LateInv
  <2>4. CASE Elsewhere
    BY <2>4, ElsewhereFrame DEF LateInv, sheetVars
  <2> QED  BY <2>1, <2>2, <2>3, <2>4, StepOfAttendance DEF AuditNext
<1>3. /\ \A i \in DOMAIN queue' : Agrees(queue'[i], retuned')
      /\ \A i \in DOMAIN records' : RowTuned(records'[i], Tuning', periodSeq')
      /\ \A c \in DOMAIN calls' : CallTuned(calls'[c], Tuning', periodSeq', retuned')
  BY <1>1, <1>2, TunedStay
<1> QED  BY <1>3 DEF LateInv

\* A record and a dashboard measure lateness with a tolerance that each has
\* read itself, from a period that may have been edited, switched or deleted
\* in between, the one to the minute and the other to the tick.  They agree
\* on every snapshot on its way whose period kept its tolerance, except on
\* check-ins in the minute of the threshold: with any number of calls and
\* periods, across midnight, failures and crashes.
THEOREM LatenessAgrees == AuditSpec => []RecordAndScreenAgreeOnLateness
<1>1. AuditInit => LateInv
  BY DEF AuditInit, Init, DashboardInit, LateInv
<1>2. AuditInv /\ LateInv /\ [AuditNext]_auditVars => LateInv'
  <2> SUFFICES ASSUME AuditInv, LateInv, [AuditNext]_auditVars
               PROVE  LateInv'
    OBVIOUS
  <2>1. CASE UNCHANGED auditVars
    <3>1. UNCHANGED <<calls, periods, periodSeq, records, queue, retuned>>
      BY <2>1 DEF auditVars, vars, periodVars, dashboardVars, sheetVars
    <3> QED  BY <3>1 DEF LateInv, Tuning, ToleranceOf
  <2> QED  BY <2>1, LateInvKept DEF AuditInv
<1>3. LateInv => RecordAndScreenAgreeOnLateness
  BY DEF LateInv, Agrees, RecordAndScreenAgreeOnLateness
<1> QED  BY <1>1, <1>2, <1>3, AuditInvInit, AuditInvKept, PTL DEF AuditSpec
=============================================================================
