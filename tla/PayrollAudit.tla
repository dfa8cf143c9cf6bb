---------------------------- MODULE PayrollAudit ----------------------------
(***************************************************************************)
(* What the handlers of payroll and payslip achieve when they have the     *)
(* database to themselves, and what is left of that when they overlap,     *)
(* fail half way, or the salary changes in between.                        *)
(***************************************************************************)
EXTENDS Payroll, Overlaps

auditVars == <<vars, overlapped>>

AuditInit == Init /\ overlapped = {}

AuditNext ==
  /\ Next
  /\ overlapped' = IF Cardinality(InFlight') > 1
                     THEN InFlight'
                     ELSE overlapped \cap InFlight'

AuditSpec == AuditInit /\ [][AuditNext]_auditVars

-----------------------------------------------------------------------------
ShareADay(p, q) == p.from <= q.to /\ q.from <= p.to

\* The pairs of payrolls that pay one employee twice for a day.
DoublePay ==
  {pair \in (DOMAIN payrolls) \X (DOMAIN payrolls) :
     /\ pair[1] < pair[2]
     /\ payrolls[pair[1]].emp = payrolls[pair[2]].emp
     /\ ShareADay(payrolls[pair[1]].period, payrolls[pair[2]].period)}

\* "Payroll already exists for this employee in the overlapping period":
\* createPayroll and bulkGeneratePayroll look first and insert three
\* statements later, so two payrolls of an employee share a day only when the
\* call that inserted the second one met another call.
DoublePayNeedsARace ==
  [][DoublePay' \ DoublePay # {} =>
       \E c \in InFlight : At(c, "insertPayroll") /\ ~Alone(c)]_auditVars

\* "Cannot delete a paid payroll": deletePayroll decides on what it read, so a
\* paid payroll disappears only when the call that deletes it met another one.
PaidPayrollsAreKept ==
  [][\A i \in DOMAIN payrolls :
       (payrolls[i].paid /\ i \notin DOMAIN payrolls') =>
         \E c \in InFlight : At(c, "deletePayroll") /\ ~Alone(c)]_auditVars

\* bulkGeneratePayroll catches what goes wrong for one employee and reports
\* it: when a call that met no other one returns, every employee it was asked
\* for either has a payroll that clashes with the period or is in `failed'.
BulkAccountsForEverybody ==
  [][\A c \in InFlight :
       (/\ Alone(c) /\ calls' = Drop(calls, c) /\ ~Crash
        /\ calls[c].pc \in {"checkPeriod", "readSalary", "insertPayroll", "reselect"})
       => \A e \in calls[c].job.target :
            \/ Existing(e, calls[c].job.period)
            \/ e \in calls[c].job.failed \cup {calls[c].emp}]_auditVars

-----------------------------------------------------------------------------
MonthOf(slip) == payslips[slip].base + payslips[slip].bonuses + payslips[slip].terms.allowances

ItemTotal(rows) == SumOf([row \in rows |-> row[2]])

\* A payslip, its itemised deductions and the payroll they came from agree:
\* what is deducted and what is taken home add up to the gross pay of the
\* payroll with the allowances.  The payroll's own deductions are not among
\* them, so the take-home pay is not derived from its netSalary.  Deductions
\* are itemised only where findOne works, see HasPaidAt.
PayslipsAddUp ==
  \A s \in DOMAIN payslips :
    LET row == payrolls[payslips[s].payroll]
    IN  /\ MonthOf(s) = Gross(row) + payslips[s].terms.allowances
        /\ s \in DOMAIN items =>
             payslips[s].takeHome + ItemTotal(items[s])
               = Net(row) + row.deductions + payslips[s].terms.allowances

\* generatePayslip inserts the payslip, reads it back and inserts its
\* deductions, in three statements.  Where the reading works, a payslip without
\* deductions that no handler is about to itemise is the work of a failure, one
\* failure at most one such payslip for each call.  In the schema that the
\* migrations make it never works, and every payslip stays without.
Unitemised ==
  {s \in DOMAIN payslips \ DOMAIN items :
     ~ \E c \in InFlight :
          (At(c, "readBack") \/ At(c, "insertItems")) /\ calls[c].slip = s}

UnitemisedAreCounted ==
  IF HasPaidAt
    THEN Cardinality(Unitemised) <= mishaps * Cardinality(Call)
    ELSE DOMAIN items = {}

\* calculateOvertimePay answers an error with zero hours: a payroll with less
\* than the listed overtime comes from a failure or from a salary that was
\* removed between the two times it is read.
LostHours == {i \in DOMAIN payrolls : payrolls[i].hours < HoursOf(ListedOvertime)}

LostHoursAreCounted ==
  HasAttendanceTable =>
    Cardinality(LostHours) <= mishaps + changes * Cardinality(Call)

\* Nobody is paid without having been processed and no id is used again: the
\* tables implement the life of a payroll, of whatever handlers overlap.
Stage ==
  [i \in PayrollId |->
     IF i \in DOMAIN payrolls
       THEN IF payrolls[i].paid
              THEN IF payrolls[i].processed THEN "paid" ELSE "unprocessed"
              ELSE IF payrolls[i].processed THEN "processed" ELSE "pending"
       ELSE IF i <= payrollSeq THEN "gone" ELSE "absent"]

Out == {i \in PayrollId : PayslipsOf(i) # {}}

Abstract == INSTANCE PayrollLifecycle
              WITH Id <- PayrollId, stage <- Stage, out <- Out

ImplementsLifecycle == Abstract!Lifecycle

\* How many statements a call has at most before it, the current one included.
WorkLeft(call) ==
  CASE call.pc = "checkPeriod"     -> 5 + 5 * Cardinality(call.job.todo)
    [] call.pc = "readSalary"      -> 4 + 5 * Cardinality(call.job.todo)
    [] call.pc = "readOvertime"    -> 3 + 5 * Cardinality(call.job.todo)
    [] call.pc = "insertPayroll"   -> 2 + 5 * Cardinality(call.job.todo)
    [] call.pc = "reselect"        -> 1 + 5 * Cardinality(call.job.todo)
    [] call.pc = "findUnprocessed" -> 2 + 2 * Cardinality(call.todo)
    [] call.pc = "setProcessed"    -> 1 + 2 * Cardinality(call.todo)
    [] call.pc = "checkPayslip"    -> 4
    [] call.pc = "insertPayslip"   -> 3
    [] call.pc = "readBack"        -> 2
    [] OTHER                       -> 1

\* The loops of bulkGeneratePayroll and processPayrolls come to an end,
\* whatever fails inside them: every statement leaves a call with less to do.
LoopsGoForward ==
  [][\A c \in InFlight :
       (~Free(c)' /\ calls'[c] # calls[c]) =>
         WorkLeft(calls'[c]) < WorkLeft(calls[c])]_auditVars

-----------------------------------------------------------------------------
\* "Fetch approved overtime requests for the period": the hours on a payroll
\* are those of the employee's own approved requests in its period.
OwnHours(emp, p) ==
  HoursOf(SelectSeq(InitialOvertime,
            LAMBDA o : o.emp = emp /\ o.status = "APPROVED" /\ Covers(p, o.day)))

HoursAreTheEmployees ==
  \A i \in DOMAIN payrolls :
    payrolls[i].hours = OwnHours(payrolls[i].emp, payrolls[i].period)
=============================================================================
