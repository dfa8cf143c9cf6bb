------------------------------ MODULE MCStaff ------------------------------
(***************************************************************************)
(* Small instances of AttendanceAudit, StaffingAudit, PayScale and         *)
(* LeaveAdministrationAudit, which share no table: a behaviour moves one   *)
(* of them, and the calls in flight are calls of that one.                 *)
(***************************************************************************)
EXTENDS AttendanceAudit, StaffingAudit, LeaveAdministrationAudit, PayScale, TLC

CONSTANTS eve, bob, c1, c2, web

\* A day of two minutes and a half; the first day is covered, the next
\* only in part.  The tolerance is the default of one minute.
Open == [from |-> 0, to |-> 5, active |-> TRUE, weekend |-> FALSE, tolerance |-> 0]

Later == {[from |-> 4, to |-> 6, active |-> TRUE, weekend |-> FALSE, tolerance |-> 2]}

Edits == {[to |-> 3], [active |-> FALSE], [tolerance |-> 2]}

\* Users 1, 2 and 3 are there; 4 is the email everybody wants.
Wanted == {4}

StaffEdits ==
  {[pay |-> "base"], [pay |-> "allowances", active |-> FALSE], [manager |-> 1],
   [email |-> 4]}

Salaries ==
  {[until |-> 2, active |-> TRUE, effective |-> 0],
   [until |-> 0, active |-> TRUE, effective |-> 1],
   [until |-> 2, active |-> FALSE, effective |-> 0]}

SalaryEdits == {[until |-> 0], [active |-> TRUE]}

Setups == <<"ANNUAL", "SICK">>

LeaveBodies == {[from |-> 1, to |-> 3]}

LeavePatches == {[active |-> TRUE], [active |-> FALSE], [from |-> 2]}

Strides == {500000, 12500000, 250000000}

AttendanceTables ==
  <<now, periods, periodSeq, holidays, edits, dashboardVars, records, recordSeq, logs,
    doubtful, turnedBack, retuned>>

StaffTables == <<today, staffTables, seen, tangled>>

Handling == <<calls, mishaps, overlapped>>

-----------------------------------------------------------------------------
\* Which part of the instance a behaviour is about.
VARIABLE focus

TheCalls == {calls[c] : c \in InFlight}

AttendanceParts == {"periods", "records", "screens", "undone", "late"}

StaffParts == {"pay", "hire", "chart"}

\* The calls of clockIn and clockOut that have written their log, and those
\* that may still do so.
Clocks ==
  Cardinality(logs)
    + Cardinality({c \in Clocking :
                     calls[c].pc \notin {"writeOut", "readDashboardPeriod", "readDashboard",
                                        "emitDashboard"}})

ClocksOf(emp, acts) ==
  \A c \in DOMAIN calls :
    calls[c].pc = "readPeriod" /\ calls[c].emp = emp => calls[c].act \in acts

Retuning == {c \in InFlight : "edit" \in DOMAIN calls[c] /\ "tolerance" \in DOMAIN calls[c].edit}

\* The administration of the periods; clocking in and out past one change of
\* the periods or one failure, from the middle of the day on; the dashboard, with
\* every failure; two check-outs of one employee and then the check-in of
\* another; one check-in and its snapshot past a change of the tolerance.
InAttendance ==
  CASE focus # "undone" /\ ~ClocksOf(bob, {}) -> FALSE
    [] focus # "late" /\ Retuning # {} -> FALSE
    [] focus = "late" ->
         /\ Clocks <= 1 /\ mishaps = 0 /\ room = {} /\ holidays = {} /\ edits <= 1
         /\ periodSeq = 1 /\ ClocksOf(eve, {"in"}) /\ InFlight \subseteq Clocking \cup Retuning
    [] focus = "periods" -> Clocking = {} /\ room = {}
    [] focus = "records" ->
         /\ edits + mishaps <= 1 /\ link # Up /\ room = {} /\ Clocks <= 3
         /\ now < 3 => InFlight = {} /\ edits = 0
    [] focus = "screens" -> edits = 0 /\ Clocks <= 2 /\ now <= 3
    [] focus = "undone" ->
         /\ edits = 0 /\ link = Up /\ room = Client /\ Clocks <= 4 /\ now <= 3
         /\ ClocksOf(eve, {"out"}) /\ ClocksOf(bob, {"in"})

\* Somebody has clocked in and the dashboard is being watched.
MidDay ==
  /\ link = Up /\ queue = << >> /\ room = Client /\ screen = << >>
  /\ now = 0 /\ periods = Put(<< >>, 1, StartPeriod) /\ periodSeq = 1
  /\ holidays = {} /\ edits = 0 /\ calls = << >>
  /\ records = Put(<< >>, 1, [emp |-> eve, period |-> 1, date |-> 0, in |-> 0,
                             out |-> Never, status |-> "PRESENT"])
  /\ recordSeq = 1 /\ logs = {[record |-> 1, action |-> "CLOCK_IN", at |-> 0]}
  /\ mishaps = 0 /\ overlapped = {} /\ doubtful = << >> /\ turnedBack = {}
  /\ retuned = {}

PayCalls == {"readPay", "endOld", "endCurrent", "insertSalary", "insertHistory",
             "writeEmployee", "updateSalary", "deleteSalary"}

HireCalls == {"insertUser", "insertEmployee", "insertSalary", "insertHistory", "readPay",
              "checkEmail", "writeEmail"}

ChartCalls == {"readPay", "writeEmployee", "writeDeleted", "findManager", "writeManager",
               "chain", "tree"}

\* The call edits that column, if it edits a row of employees at all.
Edits1(call, column) ==
  "edit" \in DOMAIN call => DOMAIN call.edit \subseteq {column, "active", "until"}

Of1(call) ==
  /\ call.pc \in {"readPay", "endOld", "writeEmployee"} => call.id = 1
  /\ call.pc \in {"updateSalary", "deleteSalary"} => call.id = 1
  /\ call.pc = "endCurrent" => call.row.emp = 1
  /\ call.pc = "insertSalary" => call.row.emp = 1

\* The salaries of one employee; hiring; who manages whom.
InStaffing ==
  CASE focus = "pay" ->
         /\ \A call \in TheCalls :
              call.pc \in PayCalls /\ Edits1(call, "pay") /\ Of1(call)
         /\ \A h \in DOMAIN histories :
              histories[h].emp = 1 /\ (histories[h].type = "PROMOTION" => salarySeq = 1)
         /\ DOMAIN histories \subseteq 1 .. salarySeq
         /\ today + mishaps <= 1
    [] focus = "hire" ->
         /\ today = 0
         /\ \A call \in TheCalls : call.pc \in HireCalls /\ Edits1(call, "email")
         /\ \A call \in TheCalls : call.pc = "readPay" => call.id = 1
         /\ \A h \in DOMAIN histories : histories[h].type # "PROMOTION"
    [] focus = "chart" ->
         /\ today = 0 /\ mishaps = 0 /\ DOMAIN histories = {1}
         /\ \A call \in TheCalls :
              /\ call.pc \in ChartCalls /\ Edits1(call, "manager")
              /\ call.pc = "writeDeleted" => call.id = 1
              /\ call.pc = "findManager" => call.manager <= 4
              /\ call.pc = "readPay" => call.id = 3

LeaveParts == {"leavePeriods", "leaveTypes"}

TypeCalls == {"findDefault", "insertDefault", "isUsed", "deleteType", "writeType"}

Submitting == {c \in DOMAIN calls : "ref" \in DOMAIN calls[c]}

\* Two periods and one type; one period and its types, with failures.
InLeave ==
  /\ Cardinality(Submitting) <= 1
  /\ mishaps > 0 => Submitting = {} /\ balances = {}
  /\ CASE focus = "leavePeriods" ->
              /\ mishaps = 0
              /\ DOMAIN types \subseteq {1}
              /\ \A call \in TheCalls :
                   /\ call.pc \notin TypeCalls
                   /\ call.pc = "insertType" => call.row.active /\ call.row.kind = "ANNUAL"
       [] focus = "leaveTypes" ->
              /\ leavePeriodSeq <= 1
              /\ Cardinality(Opening) <= 1
              /\ \A call \in TheCalls :
                   /\ call.pc \in {"insertLeavePeriod", "writeLeavePeriod"} => DOMAIN types = {}
                   /\ call.pc = "writeLeavePeriod" => call.columns = [active |-> TRUE]

MCInit ==
  /\ focus \in AttendanceParts \cup StaffParts \cup LeaveParts \cup {"scale"}
  /\ IF focus = "undone" THEN MidDay ELSE AuditInit
  /\ StaffAuditInit /\ AdminAuditInit
  /\ IF focus = "scale" THEN ScaleInit ELSE income = 0

MCNext ==
  /\ UNCHANGED focus
  /\ \/ /\ focus \in AttendanceParts
        /\ UNCHANGED <<StaffTables, adminTables, income>>
        /\ AuditNext /\ InAttendance'
     \/ /\ focus \in StaffParts
        /\ UNCHANGED <<AttendanceTables, adminTables, income>>
        /\ StaffAuditNext /\ InStaffing'
     \/ /\ focus = "scale"
        /\ UNCHANGED <<AttendanceTables, StaffTables, adminTables, Handling>>
        /\ Climb
     \/ /\ focus \in LeaveParts
        /\ UNCHANGED <<AttendanceTables, StaffTables, income>>
        /\ AdminAuditNext /\ InLeave'

MCSpec ==
  MCInit /\ [][MCNext]_<<AttendanceTables, StaffTables, adminTables, Handling, income, focus>>

CallSymmetry == Permutations(Call)

-----------------------------------------------------------------------------
\* The tables keep their shapes, their foreign keys and the unique keys of
\* users, employees and leave types, and every call what the rest of its
\* handler needs.
TablesTypeOK ==
  IF focus \in AttendanceParts THEN TypeOK
  ELSE IF focus \in LeaveParts THEN AdministrationTypeOK
  ELSE StaffingTypeOK
=============================================================================
