------------------------------ MODULE Payroll ------------------------------
(***************************************************************************)
(* Payrolls and payslips of one tenant.                                    *)
(*                                                                         *)
(* PayrollService creates payrolls one at a time or for a list of          *)
(* employees, marks them processed and paid, and deletes them;             *)
(* PayslipService derives at most one payslip from a payroll.  Salaries    *)
(* and overtime requests belong to other modules and change under the feet *)
(* of these handlers.  One action is one SQL statement with the code up to *)
(* the next await.                                                         *)
(*                                                                         *)
(* calculatedAmount is NULL in every overtime request the program writes,  *)
(* so the overtime pay is zero throughout and only the hours are modelled. *)
(***************************************************************************)
EXTENDS PayslipFormulas, Sequences, Handlers

CONSTANTS
  Employee,            \* rows of employees, all active
  Married,             \* those with marital status MARRIED
  Amount,              \* the base salaries that occur
  Period,              \* the periods payrolls are made for: [from, to], of days
  Extra,               \* bonuses and deductions given with a payroll
  Terms,               \* dependents, allowances, other deductions of a payslip
  MaxPayrolls,         \* BOUND on the ids payrolls hands out
  MaxPayslips,         \* BOUND on the ids payslips hands out
  MaxUpsets,           \* BOUND on failed statements, crashes and changes of
                       \* salaries together
  InitialOvertime,     \* overtime_request, newest first
  TakeLimit,           \* take: the length of the page of overtime requests
  HasAttendanceTable,  \* whether the table attendance exists, which the list
                       \* of overtime requests joins
  HasPaidAt            \* whether payrolls has the column paidAt, which findOne
                       \* of a payslip selects and no migration adds

PayrollId == 1 .. MaxPayrolls

PayslipId == 1 .. MaxPayslips

None == 0  \* no current salary

\* What the bodies of POST payroll and POST payroll/bulk-generate hold besides
\* employees and period.
ExtraType == [bonuses : Nat, percentage : 0 .. 100, deductions : Nat]

\* The body of POST payslip/generate.
TermsType == [dependents : Nat, allowances : Nat, other : Nat]

OvertimeType == [emp : Employee, day : Int, status : {"PENDING", "APPROVED"},
                 hours : Nat]

ASSUME PayrollAssumption ==
  /\ IsFiniteSet(Employee) /\ Married \subseteq Employee
  /\ Amount \subseteq Nat \ {None}
  /\ \A p \in Period : p.from \in Int /\ p.to \in Int
  /\ Extra \subseteq ExtraType
  /\ Terms \subseteq TermsType
  /\ {MaxPayrolls, MaxPayslips, MaxUpsets, TakeLimit} \subseteq Nat
  /\ IsFiniteSet(Call)
  /\ InitialOvertime \in Seq(OvertimeType)
  /\ HasAttendanceTable \in BOOLEAN /\ HasPaidAt \in BOOLEAN

\* A row of payrolls; grossSalary and netSalary are Gross and Net of it.
PayrollRow ==
  [emp : Employee, period : Period, base : Amount, hours : Nat, bonuses : Nat,
   deductions : Nat, processed : BOOLEAN, paid : BOOLEAN]

\* A row of payslips.
PayslipRow ==
  [payroll : PayrollId, base : Amount, bonuses : Nat, terms : Terms, tax : Nat,
   kesehatan : Nat, ketenagakerjaan : Nat, other : Nat, takeHome : Int]

VARIABLES
  salary,      \* of each employee the current base salary, or None
  changes,     \* how often a salary changed
  payrolls,    \* the table payrolls
  payslips,    \* the table payslips
  items,       \* payroll_deductions, by payslip
  payrollSeq,  \* the last id handed out by payrolls.id
  payslipSeq,  \* the last id handed out by payslips.id
  mishaps      \* how many statements failed, crashes included

tables == <<payrolls, payslips, items, payrollSeq, payslipSeq>>

vars == <<salary, changes, tables, mishaps, calls>>

\* What a call that makes payrolls still has to do: the period, the extras,
\* the employees to come, those given up, and all of them.
Job == [period : Period, extra : Extra, todo : SUBSET Employee,
        failed : SUBSET Employee, target : SUBSET Employee]

CallRecord ==
       [pc : {"checkPeriod", "readSalary"}, job : Job, emp : Employee]
  \cup [pc : {"readOvertime"}, job : Job, emp : Employee, base : Amount]
  \cup [pc : {"insertPayroll"}, job : Job, emp : Employee, base : Amount, hours : Nat]
  \cup [pc : {"reselect"}, job : Job, emp : Employee, id : PayrollId]
  \cup [pc : {"findUnprocessed", "setProcessed"}, id : PayrollId,
        todo : SUBSET PayrollId]
  \cup [pc : {"setPaid", "deletePayroll"}, id : PayrollId]
  \cup [pc : {"checkPayslip", "insertPayslip"}, id : PayrollId, terms : Terms,
        base : Amount, bonuses : Nat]
  \cup [pc : {"readBack", "insertItems"}, slip : PayslipId, row : PayslipRow]
  \cup [pc : {"deletePayslip"}, slip : PayslipId]

TypeOK ==
  /\ salary \in [Employee -> Amount \cup {None}]
  /\ changes \in Nat /\ mishaps \in Nat /\ changes + mishaps <= MaxUpsets
  /\ payrollSeq \in 0 .. MaxPayrolls
  /\ payslipSeq \in 0 .. MaxPayslips
  /\ IsTable(payrolls, 1 .. payrollSeq, PayrollRow)
  /\ IsTable(payslips, 1 .. payslipSeq, PayslipRow)
  /\ DOMAIN items \subseteq DOMAIN payslips
  /\ IsTable(calls, Call, CallRecord)
  /\ \A s \in DOMAIN payslips : payslips[s].payroll \in DOMAIN payrolls
  /\ \A s, t \in DOMAIN payslips :
       payslips[s].payroll = payslips[t].payroll => s = t

Init ==
  /\ salary \in [Employee -> Amount]
  /\ changes = 0
  /\ payrolls = << >>
  /\ payslips = << >>
  /\ items = << >>
  /\ payrollSeq = 0
  /\ payslipSeq = 0
  /\ mishaps = 0
  /\ calls = << >>

-----------------------------------------------------------------------------
(* Helpers.                                                                *)

ReadOnly == UNCHANGED <<salary, changes, tables, mishaps>>

\* The environment a handler does not touch.
Quiet == UNCHANGED <<salary, changes, mishaps>>

Covers(p, day) == p.from <= day /\ day <= p.to

\* Mutant: the check misses a payroll whose period lies inside the new one.
ClashesAtEnds(row, emp, p) ==
  /\ row.emp = emp
  /\ Covers(row.period, p.from) \/ Covers(row.period, p.to)

\* The condition of findByEmployeeAndPeriod.
ClashesWith(row, emp, p) ==
  /\ row.emp = emp
  /\ \/ Covers(row.period, p.from)
     \/ Covers(row.period, p.to)
     \/ p.from <= row.period.from /\ row.period.to <= p.to

Existing(emp, p) == \E i \in DOMAIN payrolls : ClashesWith(payrolls[i], emp, p)

Gross(row) == row.base + row.bonuses

Net(row) == Gross(row) - row.deductions

\* Mutant: the loop of bulkGeneratePayroll tries an employee again that failed.
RetryEmployee(c, job) ==
  IF job.todo = {} /\ job.failed = {}
    THEN Return(c)
    ELSE \E e \in job.todo \cup job.failed :
           Goto(c, [pc |-> "checkPeriod", emp |-> e,
                    job |-> [job EXCEPT !.todo = @ \ {e}, !.failed = @ \ {e}]])

\* The loop of bulkGeneratePayroll goes on with the next employee or ends.
NextEmployee(c, job) ==
  IF job.todo = {}
    THEN Return(c)
    ELSE \E e \in job.todo :
           Goto(c, [pc |-> "checkPeriod", emp |-> e,
                    job |-> [job EXCEPT !.todo = @ \ {e}]])

\* Mutant: an error for one employee ends the loop.
AbortJob(c) == Return(c)

\* The employee is pushed to `failed'; createPayroll throws.
GiveUp(c) ==
  NextEmployee(c, [calls[c].job EXCEPT !.failed = @ \cup {calls[c].emp}])

-----------------------------------------------------------------------------
(* Payrolls for one employee or for many.                                  *)

\* The rows that a call may still insert, and all the calls in flight, for the
\* bounds on ids.
Ahead(call) ==
  IF call.pc \in {"checkPeriod", "readSalary", "readOvertime", "insertPayroll"}
    THEN 1 + Cardinality(call.job.todo)
    ELSE IF call.pc = "reselect" THEN Cardinality(call.job.todo) ELSE 0

Reserved == SumOf([c \in DOMAIN calls |-> Ahead(calls[c])])

StartJob(c, period, extra, employees) ==
  /\ Free(c)
  /\ payrollSeq + Reserved + Cardinality(employees) <= MaxPayrolls
  /\ NextEmployee(c, [period |-> period, extra |-> extra, todo |-> employees,
                      failed |-> {}, target |-> employees])
  /\ ReadOnly

\* POST payroll
CreatePayroll(c) ==
  /\ \E period \in Period, extra \in Extra, e \in Employee :
       StartJob(c, period, extra, {e})

\* POST payroll/bulk-generate, for the employees of the body or for the page of
\* getAllActiveEmployeeIds.  Its bonus is a percentage only.
BulkGeneratePayroll(c) ==
  /\ \E period \in Period, extra \in Extra :
       extra.bonuses = 0 /\ StartJob(c, period, extra, Employee)

CheckPeriod(c) ==
  /\ At(c, "checkPeriod")
  /\ IF Existing(calls[c].emp, calls[c].job.period)
       THEN GiveUp(c)
       ELSE Goto(c, [calls[c] EXCEPT !.pc = "readSalary"])
  /\ ReadOnly

\* getCurrentSalary, which throws when there is none.
ReadSalary(c) ==
  /\ At(c, "readSalary")
  /\ LET call == calls[c]
     IN  IF salary[call.emp] = None
           THEN GiveUp(c)
           ELSE Goto(c, [pc |-> "readOvertime", job |-> call.job, emp |-> call.emp,
                         base |-> salary[call.emp]])
  /\ ReadOnly

\* OvertimeRequestRepository.findAll: the newest requests, of whomever.
ListedOvertime ==
  SubSeq(InitialOvertime, 1, Least(TakeLimit, Len(InitialOvertime)))

HoursOf(rows) == SumOf([i \in DOMAIN rows |-> rows[i].hours])

CanListOvertime == HasAttendanceTable

GoInsert(c, hours) ==
  LET call == calls[c]
  IN  Goto(c, [pc |-> "insertPayroll", job |-> call.job, emp |-> call.emp,
               base |-> call.base, hours |-> hours])

\* Mutant: bulkGeneratePayroll leaves the overtime out.
ReadOvertimeOfOne(c) ==
  /\ At(c, "readOvertime")
  /\ GoInsert(c, IF /\ salary[calls[c].emp] # None /\ CanListOvertime
                    /\ Cardinality(calls[c].job.target) = 1
                   THEN HoursOf(ListedOvertime)
                   ELSE 0)
  /\ ReadOnly

\* calculateOvertimePay: the salary is read again, and whatever is thrown
\* counts as no overtime.
ReadOvertime(c) ==
  /\ At(c, "readOvertime")
  /\ GoInsert(c, IF salary[calls[c].emp] # None /\ CanListOvertime
                   THEN HoursOf(ListedOvertime)
                   ELSE 0)
  /\ ReadOnly

\* The flat bonus and the percentage of the base salary.
BonusesOf(base, extra) == extra.bonuses + (base * extra.percentage) \div 100

NewPayroll(call) ==
  [emp |-> call.emp, period |-> call.job.period, base |-> call.base,
   hours |-> call.hours, bonuses |-> BonusesOf(call.base, call.job.extra),
   deductions |-> call.job.extra.deductions, processed |-> FALSE, paid |-> FALSE]

InsertPayroll(c) ==
  /\ At(c, "insertPayroll")
  /\ payrollSeq' = payrollSeq + 1
  /\ payrolls' = Put(payrolls, payrollSeq', NewPayroll(calls[c]))
  /\ Goto(c, [pc |-> "reselect", job |-> calls[c].job, emp |-> calls[c].emp,
              id |-> payrollSeq'])
  /\ UNCHANGED <<payslips, items, payslipSeq>>
  /\ Quiet

\* create reads its row back; when it is gone a property of undefined is read.
Reselect(c) ==
  /\ At(c, "reselect")
  /\ IF calls[c].id \in DOMAIN payrolls
       THEN NextEmployee(c, calls[c].job)
       ELSE GiveUp(c)
  /\ ReadOnly

-----------------------------------------------------------------------------
(* Processing, payment, deletion.                                          *)

NextPayroll(c, ids) ==
  IF ids = {}
    THEN Return(c)
    ELSE \E i \in ids :
           Goto(c, [pc |-> "findUnprocessed", id |-> i, todo |-> ids \ {i}])

\* PUT payroll/process
ProcessPayrolls(c) ==
  /\ Free(c)
  /\ \E ids \in (SUBSET (1 .. payrollSeq)) \ {{}} : NextPayroll(c, ids)
  /\ ReadOnly

\* "Not found", "Already processed".
FindUnprocessed(c) ==
  /\ At(c, "findUnprocessed")
  /\ LET call == calls[c]
     IN  IF call.id \in DOMAIN payrolls /\ ~payrolls[call.id].processed
           THEN Goto(c, [call EXCEPT !.pc = "setProcessed"])
           ELSE NextPayroll(c, call.todo)
  /\ ReadOnly

\* An UPDATE of no row makes the handler throw and go on with the next one.
SetProcessed(c) ==
  /\ At(c, "setProcessed")
  /\ payrolls' = IF calls[c].id \in DOMAIN payrolls
                   THEN [payrolls EXCEPT ![calls[c].id].processed = TRUE]
                   ELSE payrolls
  /\ NextPayroll(c, calls[c].todo)
  /\ UNCHANGED <<payslips, items, payrollSeq, payslipSeq>>
  /\ Quiet

\* Mutant: a payroll may be paid that has not been processed.
PayUnprocessed(c) ==
  /\ Free(c)
  /\ \E i \in DOMAIN payrolls :
       ~payrolls[i].paid /\ Goto(c, [pc |-> "setPaid", id |-> i])
  /\ ReadOnly

\* PUT payroll/:id/mark-paid, with the guards on the row it reads.
MarkAsPaid(c) ==
  /\ Free(c)
  /\ \E i \in DOMAIN payrolls :
       /\ ~payrolls[i].paid
       /\ payrolls[i].processed
       /\ Goto(c, [pc |-> "setPaid", id |-> i])
  /\ ReadOnly

SetPaid(c) ==
  /\ At(c, "setPaid")
  /\ payrolls' = IF calls[c].id \in DOMAIN payrolls
                   THEN [payrolls EXCEPT ![calls[c].id].paid = TRUE]
                   ELSE payrolls
  /\ Return(c)
  /\ UNCHANGED <<payslips, items, payrollSeq, payslipSeq>>
  /\ Quiet

\* Mutant: deletePayroll does not look at isPaid.
DeleteAnyPayroll(c) ==
  /\ Free(c)
  /\ \E i \in DOMAIN payrolls : Goto(c, [pc |-> "deletePayroll", id |-> i])
  /\ ReadOnly

\* DELETE payroll/:id
DeletePayroll(c) ==
  /\ Free(c)
  /\ \E i \in DOMAIN payrolls :
       ~payrolls[i].paid /\ Goto(c, [pc |-> "deletePayroll", id |-> i])
  /\ ReadOnly

PayslipsOf(i) == {s \in DOMAIN payslips : payslips[s].payroll = i}

Without(t, keys) == [k \in DOMAIN t \ keys |-> t[k]]

\* The DELETE, with ON DELETE CASCADE to the payslip and its deductions.
WriteDeletion(c) ==
  /\ At(c, "deletePayroll")
  /\ LET slips == PayslipsOf(calls[c].id)
     IN  /\ payrolls' = Without(payrolls, {calls[c].id})
         /\ payslips' = Without(payslips, slips)
         /\ items' = Without(items, slips)
  /\ Return(c)
  /\ UNCHANGED <<payrollSeq, payslipSeq>>
  /\ Quiet

-----------------------------------------------------------------------------
(* Payslips.                                                               *)

Generating ==
  {c \in DOMAIN calls : calls[c].pc \in {"checkPayslip", "insertPayslip"}}

\* POST payslip/generate, up to getPayrollWithEmployee.
GeneratePayslip(c) ==
  /\ Free(c)
  /\ payslipSeq + Cardinality(Generating) < MaxPayslips
  /\ \E i \in DOMAIN payrolls, terms \in Terms :
       Goto(c, [pc |-> "checkPayslip", id |-> i, terms |-> terms,
                base |-> payrolls[i].base, bonuses |-> payrolls[i].bonuses])
  /\ ReadOnly

\* "Payslip already generated for this payroll period"
CheckPayslip(c) ==
  /\ At(c, "checkPayslip")
  /\ IF PayslipsOf(calls[c].id) # {}
       THEN Return(c)
       ELSE Goto(c, [calls[c] EXCEPT !.pc = "insertPayslip"])
  /\ ReadOnly

\* Mutant: the payroll's own deductions are taken off the pay once more.
TakesDeductionsTwice(call) ==
  LET row == payrolls[call.id]
      b   == Breakdown(call.base, call.bonuses, row.emp \in Married, call.terms)
  IN  [payroll |-> call.id, base |-> call.base, bonuses |-> call.bonuses,
       terms |-> call.terms, tax |-> b.tax, kesehatan |-> b.kesehatan,
       ketenagakerjaan |-> b.ketenagakerjaan, other |-> b.other,
       takeHome |-> b.takeHome - row.deductions]

NewPayslip(call) ==
  LET emp == payrolls[call.id].emp
      b   == Breakdown(call.base, call.bonuses, emp \in Married, call.terms)
  IN  [payroll |-> call.id, base |-> call.base, bonuses |-> call.bonuses,
       terms |-> call.terms, tax |-> b.tax, kesehatan |-> b.kesehatan,
       ketenagakerjaan |-> b.ketenagakerjaan, other |-> b.other,
       takeHome |-> b.takeHome]

\* Mutant: payslips has no unique key.
AcceptsAnyPayslip(i) == i \in DOMAIN payrolls

\* The foreign key and the unique key payrollId may turn the INSERT down.
AcceptsPayslip(i) == i \in DOMAIN payrolls /\ PayslipsOf(i) = {}

\* Mutant: the deductions are not itemised.
InsertBarePayslip(c) ==
  /\ At(c, "insertPayslip")
  /\ AcceptsPayslip(calls[c].id)
  /\ payslipSeq' = payslipSeq + 1
  /\ payslips' = Put(payslips, payslipSeq', NewPayslip(calls[c]))
  /\ Return(c)
  /\ UNCHANGED <<payrolls, items, payrollSeq>>
  /\ Quiet

InsertPayslip(c) ==
  /\ At(c, "insertPayslip")
  /\ IF AcceptsPayslip(calls[c].id)
       THEN /\ payslipSeq' = payslipSeq + 1
            /\ payslips' = Put(payslips, payslipSeq', NewPayslip(calls[c]))
            /\ Goto(c, [pc |-> "readBack", slip |-> payslipSeq',
                     row |-> NewPayslip(calls[c])])
       ELSE /\ Return(c)
            /\ UNCHANGED <<payslipSeq, payslips>>
  /\ UNCHANGED <<payrolls, items, payrollSeq>>
  /\ Quiet

\* create ends with findOne, which throws without the column; of a payslip
\* that is gone, generatePayslip reads a property of null.
ReadBack(c) ==
  /\ At(c, "readBack")
  /\ IF HasPaidAt /\ calls[c].slip \in DOMAIN payslips
       THEN Goto(c, [pc |-> "insertItems", slip |-> calls[c].slip,
                     row |-> calls[c].row])
       ELSE Return(c)
  /\ ReadOnly

\* createManyDeductions, which throws when the payslip is gone.
InsertItems(c) ==
  /\ At(c, "insertItems")
  /\ items' = IF calls[c].slip \in DOMAIN payslips
                THEN Put(items, calls[c].slip, DeductionRows(calls[c].row))
                ELSE items
  /\ Return(c)
  /\ UNCHANGED <<payrolls, payslips, payrollSeq, payslipSeq>>
  /\ Quiet

\* DELETE payslip/:id, which begins with findOne.
DeletePayslip(c) ==
  /\ Free(c)
  /\ HasPaidAt
  /\ \E s \in DOMAIN payslips : Goto(c, [pc |-> "deletePayslip", slip |-> s])
  /\ ReadOnly

WritePayslipDeletion(c) ==
  /\ At(c, "deletePayslip")
  /\ payslips' = Without(payslips, {calls[c].slip})
  /\ items' = Without(items, {calls[c].slip})
  /\ Return(c)
  /\ UNCHANGED <<payrolls, payrollSeq, payslipSeq>>
  /\ Quiet

-----------------------------------------------------------------------------
(* Mishaps and the rest of the application.                                *)

\* A statement fails.  The loops catch what is thrown for one employee or one
\* payroll and go on with the next; overtime that cannot be read is none.
Fail(c) ==
  /\ c \in DOMAIN calls
  /\ changes + mishaps < MaxUpsets
  /\ mishaps' = mishaps + 1
  /\ CASE calls[c].pc \in {"checkPeriod", "readSalary", "insertPayroll", "reselect"} ->
            GiveUp(c)
       [] calls[c].pc = "readOvertime" -> GoInsert(c, 0)
       [] calls[c].pc \in {"findUnprocessed", "setProcessed"} ->
            NextPayroll(c, calls[c].todo)
       [] OTHER -> Return(c)
  /\ UNCHANGED <<salary, changes, tables>>

\* The process stops; every handler in flight is gone.
Crash ==
  /\ DOMAIN calls # {}
  /\ changes + mishaps < MaxUpsets
  /\ mishaps' = mishaps + 1
  /\ calls' = << >>
  /\ UNCHANGED <<salary, changes, tables>>

\* The current salary is raised, ended or removed.
ChangeSalary ==
  /\ changes + mishaps < MaxUpsets
  /\ changes' = changes + 1
  /\ \E e \in Employee, a \in Amount \cup {None} : salary' = [salary EXCEPT ![e] = a]
  /\ UNCHANGED <<tables, mishaps, calls>>

PayrollStep(c) ==
  \/ CheckPeriod(c) \/ ReadSalary(c) \/ ReadOvertime(c) \/ InsertPayroll(c)
  \/ Reselect(c)
  \/ FindUnprocessed(c) \/ SetProcessed(c) \/ SetPaid(c) \/ WriteDeletion(c)

PayslipStep(c) ==
  \/ CheckPayslip(c) \/ InsertPayslip(c) \/ ReadBack(c) \/ InsertItems(c)
  \/ WritePayslipDeletion(c)

NewCall(c) ==
  \/ CreatePayroll(c) \/ BulkGeneratePayroll(c) \/ ProcessPayrolls(c)
  \/ MarkAsPaid(c) \/ DeletePayroll(c) \/ GeneratePayslip(c) \/ DeletePayslip(c)

Next ==
  \/ \E c \in Call : NewCall(c) \/ PayrollStep(c) \/ PayslipStep(c) \/ Fail(c)
  \/ Crash
  \/ ChangeSalary

Spec == Init /\ [][Next]_vars
=============================================================================
