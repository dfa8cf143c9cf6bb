------------------------- MODULE PayrollAudit_proofs -------------------------
(***************************************************************************)
(* Proofs about Payroll, PayrollAudit and PayScale, for any number of      *)
(* employees, periods, ids, calls, failures and changes of salaries.       *)
(*                                                                         *)
(* What the amounts are does not matter to the first part, so its          *)
(* invariant gives types only to the columns that decide something.  The   *)
(* second part depends on them: the types of all tables and calls, the     *)
(* sums of a payslip, and how many rows a failure can spoil.  The third is *)
(* about the amounts alone.                                                *)
(***************************************************************************)
EXTENDS PayrollAudit, PayScale, Tables_proofs, TLAPS, FiniteSetTheorems

-----------------------------------------------------------------------------
(* What a step does to the calls.                                          *)

Action(c) == NewCall(c) \/ PayrollStep(c) \/ PayslipStep(c) \/ Fail(c)

LEMMA GiveUpOrNext ==
  ASSUME NEW c, NEW job, NextEmployee(c, job)
  PROVE  (\E rec : calls' = Put(calls, c, rec)) \/ calls' = Drop(calls, c)
BY DEF NextEmployee, Goto, Return

LEMMA NextPayrollMoves ==
  ASSUME NEW c, NEW ids, NextPayroll(c, ids)
  PROVE  (\E rec : calls' = Put(calls, c, rec)) \/ calls' = Drop(calls, c)
BY DEF NextPayroll, Goto, Return

\* A handler moves its own call and no other one.
LEMMA NewCallMoves ==
  ASSUME NEW c, NewCall(c)
  PROVE  /\ Free(c) /\ ReadOnly
         /\ (\E rec : calls' = Put(calls, c, rec)) \/ calls' = Drop(calls, c)
<1>1. CASE CreatePayroll(c) \/ BulkGeneratePayroll(c)
  BY <1>1, GiveUpOrNext DEF CreatePayroll, BulkGeneratePayroll, StartJob
<1>2. CASE ProcessPayrolls(c)
  BY <1>2, NextPayrollMoves DEF ProcessPayrolls
<1>3. CASE MarkAsPaid(c) \/ DeletePayroll(c) \/ GeneratePayslip(c) \/ DeletePayslip(c)
  BY <1>3 DEF MarkAsPaid, DeletePayroll, GeneratePayslip, DeletePayslip, Goto
<1> QED  BY <1>1, <1>2, <1>3 DEF NewCall

LEMMA StepMoves ==
  ASSUME NEW c, PayrollStep(c) \/ PayslipStep(c) \/ Fail(c)
  PROVE  /\ c \in InFlight
         /\ (\E rec : calls' = Put(calls, c, rec)) \/ calls' = Drop(calls, c)
<1>1. CASE CheckPeriod(c) \/ ReadSalary(c) \/ Reselect(c)
  BY <1>1, GiveUpOrNext
     DEF CheckPeriod, ReadSalary, Reselect, GiveUp, Goto, At, InFlight
<1>2. CASE ReadOvertime(c) \/ InsertPayroll(c)
  BY <1>2 DEF ReadOvertime, InsertPayroll, GoInsert, Goto, At, InFlight
<1>3. CASE FindUnprocessed(c) \/ SetProcessed(c)
  BY <1>3, NextPayrollMoves DEF FindUnprocessed, SetProcessed, Goto, At, InFlight
<1>4. CASE SetPaid(c) \/ WriteDeletion(c)
  BY <1>4 DEF SetPaid, WriteDeletion, Return, At, InFlight
<1>5. CASE PayslipStep(c)
  BY <1>5 DEF PayslipStep, CheckPayslip, InsertPayslip, ReadBack, InsertItems,
              WritePayslipDeletion, Goto, Return, At, InFlight
<1>6. CASE Fail(c)
  BY <1>6, GiveUpOrNext, NextPayrollMoves DEF Fail, GiveUp, GoInsert, Goto, Return, InFlight
<1> QED  BY <1>1, <1>2, <1>3, <1>4, <1>5, <1>6 DEF PayrollStep

LEMMA ActionMoves ==
  ASSUME NEW c, Action(c)
  PROVE  /\ InFlight' \subseteq InFlight \cup {c}
         /\ InFlight \ {c} \subseteq InFlight'
         /\ \A d \in InFlight \ {c} : calls'[d] = calls[d]
<1>1. (\E rec : calls' = Put(calls, c, rec)) \/ calls' = Drop(calls, c)
  BY NewCallMoves, StepMoves DEF Action
<1> QED  BY <1>1 DEF InFlight, Put, Drop

-----------------------------------------------------------------------------
(* The shapes of rows and calls, as far as anything depends on them.       *)

JobLabels == {"checkPeriod", "readSalary", "readOvertime", "insertPayroll", "reselect"}

LoopLabels == {"findUnprocessed", "setProcessed"}

ItemLabels == {"readBack", "insertItems"}

IdLabels == {"setPaid", "deletePayroll", "checkPayslip", "insertPayslip", "reselect"}

\* The ids payrolls has handed out.
Issued == 1 .. payrollSeq

JobShape(call) ==
  call.pc \in JobLabels =>
    {"pc", "job", "emp"} \subseteq DOMAIN call /\ call.job \in Job /\ call.emp \in Employee

LoopShape(call) ==
  call.pc \in LoopLabels =>
    /\ {"pc", "id", "todo"} \subseteq DOMAIN call
    /\ call.id \in Issued /\ call.todo \in SUBSET Issued

IdShape(call) ==
  call.pc \in IdLabels => {"pc", "id"} \subseteq DOMAIN call /\ call.id \in Issued

Shaped(call) == JobShape(call) /\ LoopShape(call) /\ IdShape(call)

\* Who is paid for which period, and that only a processed payroll is paid.
RowShape(row) ==
  /\ {"emp", "period", "processed", "paid"} \subseteq DOMAIN row
  /\ row.emp \in Employee /\ row.period \in Period
  /\ row.processed \in BOOLEAN /\ row.paid \in BOOLEAN
  /\ row.paid => row.processed

\* A call about to pay has seen its payroll processed, which is never undone.
PaysTheProcessed(call) ==
  call.pc = "setPaid" /\ call.id \in DOMAIN payrolls => payrolls[call.id].processed

RowsInv ==
  /\ payrollSeq \in Nat /\ payslipSeq \in Nat
  /\ DOMAIN payrolls \subseteq Issued
  /\ \A i \in DOMAIN payrolls : RowShape(payrolls[i])
  /\ DOMAIN payslips \subseteq 1 .. payslipSeq
  /\ \A s \in DOMAIN payslips : payslips[s].payroll \in DOMAIN payrolls
  /\ \A s, t \in DOMAIN payslips : payslips[s].payroll = payslips[t].payroll => s = t

CallsInv ==
  /\ IsFiniteSet(InFlight)
  /\ \A c \in InFlight : Shaped(calls[c]) /\ PaysTheProcessed(calls[c])

PayrollInv == RowsInv /\ CallsInv

-----------------------------------------------------------------------------
(* The loop over employees.                                                *)

\* The call takes the next employee off the list of the job, or ends with an
\* empty one.
TakesNext(c, job) ==
  \/ job.todo = {} /\ calls' = Drop(calls, c)
  \/ \E e \in job.todo, rest \in Job :
       /\ calls' = Put(calls, c, [pc |-> "checkPeriod", emp |-> e, job |-> rest])
       /\ rest.todo = job.todo \ {e} /\ rest.failed = job.failed
       /\ rest.target = job.target /\ rest.period = job.period

LEMMA NextEmployeeTakesNext ==
  ASSUME NEW c, NEW job \in Job, NextEmployee(c, job)
  PROVE  TakesNext(c, job)
<1>1. CASE job.todo = {}
  BY <1>1 DEF NextEmployee, Return, TakesNext
<1>2. CASE job.todo # {}
  <2>1. PICK e \in job.todo :
          Goto(c, [pc |-> "checkPeriod", emp |-> e, job |-> [job EXCEPT !.todo = @ \ {e}]])
    BY <1>2 DEF NextEmployee
  <2> DEFINE rest == [job EXCEPT !.todo = @ \ {e}]
  <2>2. /\ rest \in Job /\ rest.todo = job.todo \ {e} /\ rest.failed = job.failed
        /\ rest.target = job.target /\ rest.period = job.period
    BY DEF Job
  <2>3. calls' = Put(calls, c, [pc |-> "checkPeriod", emp |-> e, job |-> rest])
    BY <2>1 DEF Goto
  <2> QED  BY <2>2, <2>3 DEF TakesNext
<1> QED  BY <1>1, <1>2

\* What is left to do of a job when its current employee is done, or failed.
Resumed(call, job) ==
  /\ job \in Job
  /\ job.todo = call.job.todo /\ job.target = call.job.target
  /\ job.period = call.job.period
  /\ job.failed \in {call.job.failed, call.job.failed \cup {call.emp}}

LEMMA GiveUpTakesNext ==
  ASSUME NEW c, JobShape(calls[c]), calls[c].pc \in JobLabels, GiveUp(c)
  PROVE  \E job : /\ Resumed(calls[c], job) /\ TakesNext(c, job)
                  /\ job.failed = calls[c].job.failed \cup {calls[c].emp}
<1>1. calls[c].job \in Job /\ calls[c].emp \in Employee
  BY DEF JobShape
<1>2. PICK job \in Job : job = [calls[c].job EXCEPT !.failed = @ \cup {calls[c].emp}]
  BY <1>1 DEF Job
<1>3. Resumed(calls[c], job) /\ job.failed = calls[c].job.failed \cup {calls[c].emp}
  BY <1>1, <1>2 DEF Job, Resumed
<1>4. NextEmployee(c, job)
  BY <1>2 DEF GiveUp
<1> QED  BY <1>3, <1>4, NextEmployeeTakesNext

\* The same of the loop over payrolls.
TakesOne(c, ids) ==
  \/ ids = {} /\ calls' = Drop(calls, c)
  \/ \E i \in ids :
       calls' = Put(calls, c, [pc |-> "findUnprocessed", id |-> i, todo |-> ids \ {i}])

LEMMA NextPayrollTakesOne ==
  ASSUME NEW c, NEW ids, NextPayroll(c, ids)
  PROVE  TakesOne(c, ids)
BY DEF NextPayroll, Goto, Return, TakesOne

-----------------------------------------------------------------------------
(* The rows.                                                               *)

\* The steps that write payrolls or payslips.
Writes(c) ==
  \/ InsertPayroll(c) \/ SetProcessed(c) \/ SetPaid(c) \/ WriteDeletion(c)
  \/ InsertPayslip(c) \/ WritePayslipDeletion(c)

written == <<payrolls, payslips, payrollSeq, payslipSeq>>

LEMMA OthersDoNotWrite ==
  ASSUME NEW c, Action(c), ~Writes(c)
  PROVE  UNCHANGED written
<1>1. CASE NewCall(c)
  BY <1>1, NewCallMoves DEF ReadOnly, tables, written
<1>2. CASE PayrollStep(c)
  BY <1>2 DEF PayrollStep, Writes, CheckPeriod, ReadSalary, ReadOvertime, Reselect,
              FindUnprocessed, ReadOnly, tables, written
<1>3. CASE PayslipStep(c)
  BY <1>3 DEF PayslipStep, Writes, CheckPayslip, ReadBack, InsertItems, ReadOnly, tables,
              written
<1>4. CASE Fail(c)
  BY <1>4 DEF Fail, tables, written
<1> QED  BY <1>1, <1>2, <1>3, <1>4 DEF Action

\* An UPDATE that sets a column of a payroll, of none when the row is gone.
LEMMA SetColumn ==
  ASSUME RowsInv, NEW i,
         \/ /\ i \in DOMAIN payrolls
            /\ \/ payrolls' = [payrolls EXCEPT ![i].processed = TRUE]
               \/ /\ payrolls[i].processed
                  /\ payrolls' = [payrolls EXCEPT ![i].paid = TRUE]
         \/ payrolls' = payrolls
  PROVE  /\ DOMAIN payrolls' = DOMAIN payrolls
         /\ \A k \in DOMAIN payrolls :
              /\ RowShape(payrolls'[k])
              /\ payrolls'[k].emp = payrolls[k].emp
              /\ payrolls'[k].period = payrolls[k].period
              /\ payrolls[k].processed => payrolls'[k].processed
              /\ payrolls[k].paid => payrolls'[k].paid
<1>1. \A k \in DOMAIN payrolls : RowShape(payrolls[k])
  BY DEF RowsInv
<1>2. CASE i \in DOMAIN payrolls /\ payrolls' = [payrolls EXCEPT ![i].processed = TRUE]
  BY <1>1, <1>2 DEF RowShape
<1>3. CASE /\ i \in DOMAIN payrolls /\ payrolls[i].processed
           /\ payrolls' = [payrolls EXCEPT ![i].paid = TRUE]
  BY <1>1, <1>3 DEF RowShape
<1>4. CASE payrolls' = payrolls
  BY <1>1, <1>4
<1> QED  BY <1>2, <1>3, <1>4

\* Rows keep their shape, employee and period, a processed one stays
\* processed, and ids are not used again.
RowsGoOn ==
  /\ payrollSeq' \in {payrollSeq, payrollSeq + 1}
  /\ \A i \in DOMAIN payrolls' \cap Issued :
       /\ i \in DOMAIN payrolls
       /\ payrolls'[i].emp = payrolls[i].emp
       /\ payrolls'[i].period = payrolls[i].period
       /\ payrolls[i].processed => payrolls'[i].processed

LEMMA NewPayrollShape ==
  ASSUME NEW c, JobShape(calls[c]), calls[c].pc = "insertPayroll"
  PROVE  /\ RowShape(NewPayroll(calls[c]))
         /\ NewPayroll(calls[c]).emp = calls[c].emp
         /\ NewPayroll(calls[c]).period = calls[c].job.period
         /\ NewPayroll(calls[c]).processed = FALSE /\ NewPayroll(calls[c]).paid = FALSE
<1>1. calls[c].emp \in Employee /\ calls[c].job.period \in Period
  BY DEF JobShape, JobLabels, Job
<1> QED  BY <1>1 DEF NewPayroll, RowShape

LEMMA RowsKept ==
  ASSUME PayrollInv, NEW c, Action(c)
  PROVE  RowsInv' /\ RowsGoOn
<1>1. /\ payrollSeq \in Nat /\ payslipSeq \in Nat
      /\ DOMAIN payrolls \subseteq Issued
      /\ \A i \in DOMAIN payrolls : RowShape(payrolls[i])
      /\ DOMAIN payslips \subseteq 1 .. payslipSeq
      /\ \A s \in DOMAIN payslips : payslips[s].payroll \in DOMAIN payrolls
      /\ \A s, t \in DOMAIN payslips :
           payslips[s].payroll = payslips[t].payroll => s = t
  BY DEF PayrollInv, RowsInv
<1>2. CASE InsertPayroll(c)
  <2>1. /\ payrollSeq' = payrollSeq + 1 /\ UNCHANGED <<payslips, payslipSeq>>
        /\ payrolls' = Put(payrolls, payrollSeq + 1, NewPayroll(calls[c]))
    BY <1>2 DEF InsertPayroll
  <2>2. RowShape(NewPayroll(calls[c]))
    BY <1>2, NewPayrollShape DEF InsertPayroll, At, InFlight, PayrollInv, CallsInv, Shaped
  <2>3. /\ DOMAIN payrolls' = DOMAIN payrolls \cup {payrollSeq + 1}
        /\ \A i \in DOMAIN payrolls : payrolls'[i] = payrolls[i]
        /\ payrolls'[payrollSeq + 1] = NewPayroll(calls[c])
    BY <1>1, <2>1 DEF Put, Issued
  <2>4. DOMAIN payrolls' \subseteq Issued'
    BY <1>1, <2>1, <2>3 DEF Issued
  <2>5. \A i \in DOMAIN payrolls' : RowShape(payrolls'[i])
    BY <1>1, <2>2, <2>3
  <2>6. RowsInv'
    BY <1>1, <2>1, <2>3, <2>4, <2>5 DEF RowsInv, RowShape
  <2>7. RowsGoOn
    BY <1>1, <2>1, <2>3 DEF RowsGoOn, Issued
  <2> QED  BY <2>6, <2>7
<1>3. CASE SetProcessed(c) \/ SetPaid(c)
  <2>1. UNCHANGED <<payslips, payrollSeq, payslipSeq>>
    BY <1>3 DEF SetProcessed, SetPaid
  <2>2. /\ DOMAIN payrolls' = DOMAIN payrolls
        /\ \A k \in DOMAIN payrolls :
             /\ RowShape(payrolls'[k])
             /\ payrolls'[k].emp = payrolls[k].emp
             /\ payrolls'[k].period = payrolls[k].period
             /\ payrolls[k].processed => payrolls'[k].processed
    BY <1>3, SetColumn
       DEF SetProcessed, SetPaid, At, InFlight, PayrollInv, CallsInv, PaysTheProcessed
  <2>3. RowsInv'
    BY <1>1, <2>1, <2>2 DEF RowsInv, Issued, RowShape
  <2>4. RowsGoOn
    BY <1>1, <2>1, <2>2 DEF RowsGoOn
  <2> QED  BY <2>3, <2>4
<1>4. CASE WriteDeletion(c)
  <2> DEFINE slips == PayslipsOf(calls[c].id)
  <2>1. /\ UNCHANGED <<payrollSeq, payslipSeq>>
        /\ payrolls' = Without(payrolls, {calls[c].id})
        /\ payslips' = Without(payslips, slips)
    BY <1>4 DEF WriteDeletion
  <2>2. /\ DOMAIN payrolls' = DOMAIN payrolls \ {calls[c].id}
        /\ \A i \in DOMAIN payrolls' : payrolls'[i] = payrolls[i]
        /\ DOMAIN payslips' = {s \in DOMAIN payslips : payslips[s].payroll # calls[c].id}
        /\ \A s \in DOMAIN payslips' : payslips'[s] = payslips[s]
    BY <2>1 DEF Without, PayslipsOf
  <2>3. RowsInv'
    <3>1. \A i \in DOMAIN payrolls' : i \in DOMAIN payrolls /\ RowShape(payrolls[i])
      BY <1>1, <2>2 DEF RowsInv
    <3>2. \A i \in DOMAIN payrolls' : RowShape(payrolls'[i])
      BY <2>2, <3>1
    <3>3. /\ payrollSeq' = payrollSeq /\ payslipSeq' = payslipSeq
          /\ DOMAIN payrolls' \subseteq DOMAIN payrolls
          /\ DOMAIN payslips' \subseteq DOMAIN payslips
      BY <2>1, <2>2
    <3>4. /\ \A s \in DOMAIN payslips' : payslips'[s].payroll \in DOMAIN payrolls'
          /\ \A s, t \in DOMAIN payslips' :
               payslips'[s].payroll = payslips'[t].payroll => s = t
      BY <1>1, <2>2 DEF RowsInv
    <3> QED  BY <1>1, <3>2, <3>3, <3>4 DEF RowsInv, Issued, RowShape
  <2>4. RowsGoOn
    BY <1>1, <2>1, <2>2 DEF RowsGoOn
  <2> QED  BY <2>3, <2>4
<1>5. CASE InsertPayslip(c)
  <2>1. UNCHANGED <<payrolls, payrollSeq>>
    BY <1>5 DEF InsertPayslip
  <2>2. CASE UNCHANGED <<payslips, payslipSeq>>
    BY <1>1, <2>1, <2>2 DEF RowsInv, RowsGoOn, Issued, RowShape
  <2>3. CASE /\ AcceptsPayslip(calls[c].id)
             /\ payslipSeq' = payslipSeq + 1
             /\ payslips' = Put(payslips, payslipSeq', NewPayslip(calls[c]))
    <3>1. NewPayslip(calls[c]).payroll = calls[c].id
      BY DEF NewPayslip
    <3>2. /\ calls[c].id \in DOMAIN payrolls
          /\ \A s \in DOMAIN payslips : payslips[s].payroll # calls[c].id
      BY <2>3 DEF AcceptsPayslip, PayslipsOf
    <3>3. /\ DOMAIN payslips' = DOMAIN payslips \cup {payslipSeq + 1}
          /\ \A s \in DOMAIN payslips : payslips'[s] = payslips[s]
          /\ payslips'[payslipSeq + 1].payroll = calls[c].id
      BY <1>1, <2>3, <3>1 DEF Put
    <3>4. DOMAIN payslips' \subseteq 1 .. payslipSeq' /\ payslipSeq' \in Nat
      BY <1>1, <2>3, <3>3
    <3>5. RowsInv'
      BY <1>1, <2>1, <3>2, <3>3, <3>4 DEF RowsInv, Issued, RowShape
    <3> QED  BY <1>1, <2>1, <3>5 DEF RowsGoOn
  <2> QED  BY <1>5, <2>2, <2>3 DEF InsertPayslip
<1>6. CASE WritePayslipDeletion(c)
  <2>1. /\ UNCHANGED <<payrolls, payrollSeq, payslipSeq>>
        /\ payslips' = Without(payslips, {calls[c].slip})
    BY <1>6 DEF WritePayslipDeletion
  <2>2. /\ DOMAIN payslips' = DOMAIN payslips \ {calls[c].slip}
        /\ \A s \in DOMAIN payslips' : payslips'[s] = payslips[s]
    BY <2>1 DEF Without
  <2>3. RowsInv'
    <3>1. \A s, t \in DOMAIN payslips' : payslips'[s].payroll = payslips'[t].payroll => s = t
      BY <1>1, <2>2
    <3>2. \A s \in DOMAIN payslips' : payslips'[s].payroll \in DOMAIN payrolls'
      BY <1>1, <2>1, <2>2
    <3> QED  BY <1>1, <2>1, <2>2, <3>1, <3>2 DEF RowsInv, Issued, RowShape
  <2>4. RowsGoOn
    BY <1>1, <2>1 DEF RowsGoOn, Issued
  <2> QED  BY <2>3, <2>4
<1>7. CASE ~Writes(c)
  <2>1. UNCHANGED written
    BY <1>7, OthersDoNotWrite
  <2> QED  BY <1>1, <2>1 DEF RowsInv, RowsGoOn, Issued, RowShape, written
<1> QED  BY <1>2, <1>3, <1>4, <1>5, <1>6, <1>7 DEF Writes

-----------------------------------------------------------------------------
(* The calls.                                                              *)

\* What the record of a call has to be after a step.
Good(c) == Shaped(calls[c]) /\ PaysTheProcessed(calls[c])

LEMMA TakesNextIsGood ==
  ASSUME NEW c, NEW job \in Job, TakesNext(c, job), c \in InFlight'
  PROVE  Good(c)'
<1>1. PICK e \in job.todo, rest \in Job :
        calls'[c] = [pc |-> "checkPeriod", emp |-> e, job |-> rest]
  BY DEF TakesNext, InFlight, Put, Drop
<1>2. e \in Employee
  BY DEF Job
<1> QED
  BY <1>1, <1>2 DEF Good, Shaped, JobShape, LoopShape, IdShape, PaysTheProcessed,
                    JobLabels, LoopLabels, IdLabels

LEMMA NextPayrollIsGood ==
  ASSUME NEW c, NEW ids \in SUBSET Issued', NextPayroll(c, ids), c \in InFlight'
  PROVE  Good(c)'
<1>1. PICK i \in ids :
        calls'[c] = [pc |-> "findUnprocessed", id |-> i, todo |-> ids \ {i}]
  <2>1. TakesOne(c, ids)
    BY NextPayrollTakesOne
  <2> QED  BY <2>1 DEF TakesOne, InFlight, Put, Drop
<1> QED
  BY <1>1 DEF Good, Shaped, JobShape, LoopShape, IdShape, PaysTheProcessed,
              JobLabels, LoopLabels, IdLabels

LEMMA NewCallIsGood ==
  ASSUME PayrollInv, NEW c, NewCall(c), c \in InFlight'
  PROVE  Good(c)'
<1>1. /\ UNCHANGED <<payrolls, payrollSeq>>
      /\ DOMAIN payrolls \subseteq Issued
      /\ c \notin InFlight
  BY NewCallMoves DEF PayrollInv, RowsInv, ReadOnly, tables, Free, InFlight
<1>2. CASE CreatePayroll(c) \/ BulkGeneratePayroll(c)
  <2>1. PICK period \in Period, extra \in Extra, employees \in SUBSET Employee :
          StartJob(c, period, extra, employees)
    BY <1>2 DEF CreatePayroll, BulkGeneratePayroll
  <2>2. PICK job \in Job :
          job = [period |-> period, extra |-> extra, todo |-> employees, failed |-> {},
                 target |-> employees]
    BY DEF Job
  <2> QED  BY <2>1, <2>2, NextEmployeeTakesNext, TakesNextIsGood DEF StartJob
<1>3. CASE ProcessPayrolls(c)
  <2>1. PICK ids \in SUBSET (1 .. payrollSeq) : NextPayroll(c, ids)
    BY <1>3 DEF ProcessPayrolls
  <2>2. ids \in SUBSET Issued'
    BY <1>1 DEF Issued
  <2> QED  BY <2>1, <2>2, NextPayrollIsGood
<1>4. CASE MarkAsPaid(c) \/ DeletePayroll(c)
  <2>1. PICK i \in DOMAIN payrolls :
          \/ payrolls[i].processed /\ calls' = Put(calls, c, [pc |-> "setPaid", id |-> i])
          \/ calls' = Put(calls, c, [pc |-> "deletePayroll", id |-> i])
    BY <1>4 DEF MarkAsPaid, DeletePayroll, Goto
  <2>2. i \in Issued'
    BY <1>1 DEF Issued
  <2>3. \/ payrolls[i].processed /\ calls'[c] = [pc |-> "setPaid", id |-> i]
        \/ calls'[c] = [pc |-> "deletePayroll", id |-> i]
    BY <2>1 DEF Put
  <2> QED
    BY <1>1, <2>2, <2>3 DEF Good, Shaped, JobShape, LoopShape, IdShape, PaysTheProcessed,
                            JobLabels, LoopLabels, IdLabels
<1>5. CASE GeneratePayslip(c)
  <2>1. PICK i \in DOMAIN payrolls, terms \in Terms :
          calls' = Put(calls, c, [pc |-> "checkPayslip", id |-> i, terms |-> terms,
                                  base |-> payrolls[i].base, bonuses |-> payrolls[i].bonuses])
    BY <1>5 DEF GeneratePayslip, Goto
  <2>2. i \in Issued'
    BY <1>1 DEF Issued
  <2>3. {"pc", "id"} \subseteq DOMAIN calls'[c] /\ calls'[c].pc = "checkPayslip"
        /\ calls'[c].id = i
    BY <2>1 DEF Put
  <2> QED
    BY <2>2, <2>3 DEF Good, Shaped, JobShape, LoopShape, IdShape, PaysTheProcessed,
                      JobLabels, LoopLabels, IdLabels
<1>6. CASE DeletePayslip(c)
  <2>1. calls'[c].pc = "deletePayslip"
    BY <1>6 DEF DeletePayslip, Goto, Put
  <2> QED
    BY <2>1 DEF Good, Shaped, JobShape, LoopShape, IdShape, PaysTheProcessed,
                JobLabels, LoopLabels, IdLabels
<1> QED  BY <1>2, <1>3, <1>4, <1>5, <1>6 DEF NewCall

\* A call that goes on with the same job.
SameJob(c) ==
  /\ c \in InFlight'
  /\ {"pc", "job", "emp"} \subseteq DOMAIN calls'[c]
  /\ calls'[c].job = calls[c].job /\ calls'[c].emp = calls[c].emp

LEMMA GoInsertKeepsJob ==
  ASSUME NEW c, NEW hours, GoInsert(c, hours)
  PROVE  SameJob(c) /\ calls'[c].pc = "insertPayroll"
BY DEF GoInsert, Goto, Put, SameJob, InFlight

\* The statements for one employee, one after the other.
GoesOn(c) ==
  /\ SameJob(c)
  /\ <<calls[c].pc, calls'[c].pc>> \in
       {<<"checkPeriod", "readSalary">>, <<"readSalary", "readOvertime">>,
        <<"readOvertime", "insertPayroll">>, <<"insertPayroll", "reselect">>}
  /\ InsertPayroll(c) <=> calls'[c].pc = "reselect"
  /\ calls'[c].pc = "reselect" => calls'[c].id = payrollSeq'
  /\ calls'[c].pc = "readSalary" => ~Existing(calls[c].emp, calls[c].job.period)

\* On to the next employee: this one has failed, or has a payroll.
Resumes(c) ==
  /\ ~InsertPayroll(c)
  /\ \E job : /\ Resumed(calls[c], job) /\ TakesNext(c, job)
              /\ \/ job.failed = calls[c].job.failed \cup {calls[c].emp}
                 \/ calls[c].pc = "reselect" /\ calls[c].id \in DOMAIN payrolls

LEMMA JobStepMoves ==
  ASSUME PayrollInv, NEW c \in InFlight,
         \/ CheckPeriod(c) \/ ReadSalary(c) \/ ReadOvertime(c) \/ InsertPayroll(c)
         \/ Reselect(c)
         \/ Fail(c) /\ calls[c].pc \in JobLabels
  PROVE  /\ JobShape(calls[c]) /\ calls[c].pc \in JobLabels
         /\ GoesOn(c) \/ Resumes(c)
<1>1. calls[c].pc \in JobLabels
  BY DEF CheckPeriod, ReadSalary, ReadOvertime, InsertPayroll, Reselect, At, JobLabels
<1>2. JobShape(calls[c])
  BY DEF PayrollInv, CallsInv, Shaped
<1>3. {"pc", "job", "emp"} \subseteq DOMAIN calls[c] /\ calls[c].job \in Job
  BY <1>1, <1>2 DEF JobShape
<1>4. CASE GiveUp(c) /\ ~InsertPayroll(c)
  BY <1>1, <1>2, <1>4, GiveUpTakesNext DEF Resumes
<1>5. CASE CheckPeriod(c) /\ ~GiveUp(c)
  <2>1. /\ calls[c].pc = "checkPeriod" /\ ~Existing(calls[c].emp, calls[c].job.period)
        /\ calls'[c] = [calls[c] EXCEPT !.pc = "readSalary"]
    BY <1>5 DEF CheckPeriod, At, Goto, Put
  <2>2. calls'[c].pc = "readSalary" /\ SameJob(c)
    BY <1>3, <1>5, <2>1 DEF SameJob, CheckPeriod, Goto, Put, InFlight
  <2>3. ~InsertPayroll(c)
    BY <2>1 DEF InsertPayroll, At
  <2> QED  BY <1>1, <1>2, <2>1, <2>2, <2>3 DEF GoesOn
<1>6. CASE ReadSalary(c) /\ ~GiveUp(c)
  <2>1. calls[c].pc = "readSalary" /\ calls'[c].pc = "readOvertime" /\ SameJob(c)
    BY <1>6 DEF ReadSalary, At, Goto, Put, SameJob, InFlight
  <2>2. ~InsertPayroll(c)
    BY <2>1 DEF InsertPayroll, At
  <2> QED  BY <1>1, <1>2, <2>1, <2>2 DEF GoesOn
<1>7. CASE ReadOvertime(c) \/ (Fail(c) /\ calls[c].pc = "readOvertime")
  <2>1. calls[c].pc = "readOvertime" /\ \E hours : GoInsert(c, hours)
    BY <1>7 DEF ReadOvertime, At, Fail
  <2>2. calls'[c].pc = "insertPayroll" /\ SameJob(c)
    BY <2>1, GoInsertKeepsJob
  <2>3. ~InsertPayroll(c)
    BY <2>1 DEF InsertPayroll, At
  <2> QED  BY <1>1, <1>2, <2>1, <2>2, <2>3 DEF GoesOn
<1>8. CASE InsertPayroll(c)
  <2>1. /\ calls[c].pc = "insertPayroll"
        /\ calls'[c].pc = "reselect" /\ calls'[c].id = payrollSeq' /\ SameJob(c)
    BY <1>8 DEF InsertPayroll, At, Goto, Put, SameJob, InFlight
  <2> QED  BY <1>1, <1>2, <1>8, <2>1 DEF GoesOn
<1>9. CASE Reselect(c) /\ ~GiveUp(c)
  <2>1. /\ calls[c].pc = "reselect" /\ calls[c].id \in DOMAIN payrolls
        /\ NextEmployee(c, calls[c].job)
    BY <1>9 DEF Reselect, At
  <2>2. PICK job \in Job : job = calls[c].job
    BY <1>3
  <2>3. Resumed(calls[c], job) /\ TakesNext(c, job)
    BY <2>1, <2>2, NextEmployeeTakesNext DEF Resumed
  <2>4. ~InsertPayroll(c)
    BY <2>1 DEF InsertPayroll, At
  <2> QED  BY <1>1, <1>2, <2>1, <2>3, <2>4 DEF Resumes
<1>10. CASE Fail(c) /\ calls[c].pc \in JobLabels /\ calls[c].pc # "readOvertime"
  <2>1. GiveUp(c) /\ UNCHANGED payrollSeq
    BY <1>10 DEF Fail, JobLabels, tables
  <2>2. ~InsertPayroll(c)
    BY <2>1 DEF InsertPayroll, PayrollInv, RowsInv
  <2> QED  BY <1>4, <2>1, <2>2
<1> QED  BY <1>4, <1>5, <1>6, <1>7, <1>8, <1>9, <1>10

\* The loop over payrolls.
LEMMA LoopStepMoves ==
  ASSUME PayrollInv, NEW c \in InFlight,
         \/ FindUnprocessed(c) \/ SetProcessed(c)
         \/ Fail(c) /\ calls[c].pc \in LoopLabels
  PROVE  /\ LoopShape(calls[c]) /\ calls[c].pc \in LoopLabels
         /\ \/ /\ calls[c].pc = "findUnprocessed" /\ calls'[c].pc = "setProcessed"
               /\ {"pc", "id", "todo"} \subseteq DOMAIN calls'[c]
               /\ calls'[c].id = calls[c].id /\ calls'[c].todo = calls[c].todo
            \/ TakesOne(c, calls[c].todo)
<1>1. calls[c].pc \in LoopLabels
  BY DEF FindUnprocessed, SetProcessed, At, LoopLabels
<1>2. LoopShape(calls[c])
  BY DEF PayrollInv, CallsInv, Shaped
<1>3. CASE NextPayroll(c, calls[c].todo)
  <2>1. PICK ids : ids = calls[c].todo
    OBVIOUS
  <2> QED  BY <1>1, <1>2, <1>3, <2>1, NextPayrollTakesOne
<1>4. CASE FindUnprocessed(c) /\ ~NextPayroll(c, calls[c].todo)
  <2>1. /\ calls[c].pc = "findUnprocessed"
        /\ calls'[c] = [calls[c] EXCEPT !.pc = "setProcessed"]
    BY <1>4 DEF FindUnprocessed, At, Goto, Put
  <2> QED  BY <1>1, <1>2, <2>1 DEF LoopShape
<1>5. CASE SetProcessed(c) \/ (Fail(c) /\ calls[c].pc \in LoopLabels)
  BY <1>3, <1>5 DEF SetProcessed, Fail, LoopLabels
<1> QED  BY <1>3, <1>4, <1>5

\* All other statements.
LEMMA LastStepMoves ==
  ASSUME PayrollInv, NEW c \in InFlight,
         \/ SetPaid(c) \/ WriteDeletion(c) \/ PayslipStep(c)
         \/ Fail(c) /\ calls[c].pc \notin JobLabels \cup LoopLabels
  PROVE  \/ Return(c)
         \/ /\ calls[c].pc = "checkPayslip" /\ calls'[c].pc = "insertPayslip"
            /\ {"pc", "id"} \subseteq DOMAIN calls'[c] /\ calls'[c].id = calls[c].id
         \/ calls[c].pc = "insertPayslip" /\ calls'[c].pc = "readBack"
         \/ calls[c].pc = "readBack" /\ calls'[c].pc = "insertItems" /\ ReadBack(c)
<1>1. CASE CheckPayslip(c)
  <2>1. \/ Return(c)
        \/ /\ calls[c].pc = "checkPayslip"
           /\ calls'[c] = [calls[c] EXCEPT !.pc = "insertPayslip"]
    BY <1>1 DEF CheckPayslip, At, Goto, Put
  <2>2. IdShape(calls[c])
    BY DEF PayrollInv, CallsInv, Shaped
  <2> QED  BY <2>1, <2>2 DEF IdShape, IdLabels
<1>2. CASE InsertPayslip(c) \/ ReadBack(c)
  BY <1>2 DEF InsertPayslip, ReadBack, At, Goto, Put
<1>3. CASE SetPaid(c) \/ WriteDeletion(c) \/ InsertItems(c) \/ WritePayslipDeletion(c)
  BY <1>3 DEF SetPaid, WriteDeletion, InsertItems, WritePayslipDeletion
<1>4. CASE Fail(c) /\ calls[c].pc \notin JobLabels \cup LoopLabels
  BY <1>4 DEF Fail, JobLabels, LoopLabels
<1> QED  BY <1>1, <1>2, <1>3, <1>4 DEF PayslipStep

LEMMA StepIsOneOfThree ==
  ASSUME NEW c, PayrollStep(c) \/ PayslipStep(c) \/ Fail(c)
  PROVE  /\ c \in InFlight
         /\ \/ \/ CheckPeriod(c) \/ ReadSalary(c) \/ ReadOvertime(c) \/ InsertPayroll(c)
               \/ Reselect(c)
               \/ Fail(c) /\ calls[c].pc \in JobLabels
            \/ \/ FindUnprocessed(c) \/ SetProcessed(c)
               \/ Fail(c) /\ calls[c].pc \in LoopLabels
            \/ \/ SetPaid(c) \/ WriteDeletion(c) \/ PayslipStep(c)
               \/ Fail(c) /\ calls[c].pc \notin JobLabels \cup LoopLabels
BY StepMoves DEF PayrollStep

LEMMA StepIsGood ==
  ASSUME PayrollInv, RowsInv', RowsGoOn, NEW c, PayrollStep(c) \/ PayslipStep(c) \/ Fail(c),
         c \in InFlight'
  PROVE  Good(c)'
<1>1. /\ c \in InFlight
      /\ Issued \subseteq Issued' /\ payrollSeq \in Nat
  BY StepMoves DEF PayrollInv, RowsInv, RowsGoOn, Issued
<1>2. CASE \/ CheckPeriod(c) \/ ReadSalary(c) \/ ReadOvertime(c) \/ InsertPayroll(c)
           \/ Reselect(c)
           \/ Fail(c) /\ calls[c].pc \in JobLabels
  <2>1. CASE \E job : Resumed(calls[c], job) /\ TakesNext(c, job)
    BY <2>1, TakesNextIsGood DEF Resumed
  <2>2. CASE /\ SameJob(c)
             /\ calls'[c].pc \in {"readSalary", "readOvertime", "insertPayroll", "reselect"}
             /\ calls'[c].pc = "reselect" => InsertPayroll(c) /\ calls'[c].id = payrollSeq'
    <3>1. JobShape(calls[c])'
      BY <1>1, <1>2, <2>2, JobStepMoves DEF JobShape, SameJob, JobLabels
    <3>2. calls'[c].pc = "reselect" =>
            {"pc", "id"} \subseteq DOMAIN calls'[c] /\ calls'[c].id \in Issued'
      <4>1. InsertPayroll(c) => {"pc", "id"} \subseteq DOMAIN calls'[c]
        BY DEF InsertPayroll, Goto, Put
      <4>2. InsertPayroll(c) => payrollSeq' \in Issued'
        BY <1>1 DEF InsertPayroll, Issued
      <4> QED  BY <2>2, <4>1, <4>2
    <3> QED
      BY <2>2, <3>1, <3>2 DEF Good, Shaped, LoopShape, IdShape, PaysTheProcessed,
                              LoopLabels, IdLabels
  <2> QED  BY <1>1, <1>2, <2>1, <2>2, JobStepMoves DEF GoesOn, Resumes
<1>3. CASE \/ FindUnprocessed(c) \/ SetProcessed(c)
           \/ Fail(c) /\ calls[c].pc \in LoopLabels
  <2>1. LoopShape(calls[c]) /\ calls[c].pc \in LoopLabels
    BY <1>1, <1>3, LoopStepMoves
  <2>2. calls[c].id \in Issued' /\ calls[c].todo \in SUBSET Issued'
    BY <1>1, <2>1 DEF LoopShape
  <2>3. CASE TakesOne(c, calls[c].todo)
    <3>1. PICK i \in calls[c].todo :
            calls'[c] = [pc |-> "findUnprocessed", id |-> i, todo |-> calls[c].todo \ {i}]
      BY <2>3 DEF TakesOne, InFlight, Put, Drop
    <3> QED
      BY <2>2, <3>1 DEF Good, Shaped, JobShape, LoopShape, IdShape, PaysTheProcessed,
                        JobLabels, LoopLabels, IdLabels
  <2>4. CASE /\ calls'[c].pc = "setProcessed"
             /\ {"pc", "id", "todo"} \subseteq DOMAIN calls'[c]
             /\ calls'[c].id = calls[c].id /\ calls'[c].todo = calls[c].todo
    BY <2>2, <2>4 DEF Good, Shaped, JobShape, LoopShape, IdShape, PaysTheProcessed,
                      JobLabels, LoopLabels, IdLabels
  <2> QED  BY <1>1, <1>3, <2>3, <2>4, LoopStepMoves
<1>4. CASE \/ SetPaid(c) \/ WriteDeletion(c) \/ PayslipStep(c)
           \/ Fail(c) /\ calls[c].pc \notin JobLabels \cup LoopLabels
  <2>1. ~Return(c)
    BY DEF Return, Drop, InFlight
  <2>2. CASE /\ calls[c].pc = "checkPayslip" /\ calls'[c].pc = "insertPayslip"
             /\ {"pc", "id"} \subseteq DOMAIN calls'[c] /\ calls'[c].id = calls[c].id
    <3>1. calls[c].id \in Issued'
      BY <1>1, <2>2 DEF PayrollInv, CallsInv, Shaped, IdShape, IdLabels
    <3> QED
      BY <2>2, <3>1 DEF Good, Shaped, JobShape, LoopShape, IdShape, PaysTheProcessed,
                        JobLabels, LoopLabels, IdLabels
  <2>3. CASE calls'[c].pc \in ItemLabels
    BY <2>3 DEF ItemLabels, Good, Shaped, JobShape, LoopShape, IdShape, PaysTheProcessed,
                JobLabels, LoopLabels, IdLabels
  <2> QED  BY <1>1, <1>4, <2>1, <2>2, <2>3, LastStepMoves DEF ItemLabels
<1> QED  BY <1>2, <1>3, <1>4, StepIsOneOfThree

LEMMA ActionKeepsInv ==
  ASSUME PayrollInv, NEW c, Action(c)
  PROVE  PayrollInv'
<1>1. RowsInv' /\ RowsGoOn
  BY RowsKept
<1>2. IsFiniteSet(InFlight')
  <2>1. IsFiniteSet(InFlight \cup {c}) /\ InFlight' \subseteq InFlight \cup {c}
    BY ActionMoves, FS_AddElement DEF PayrollInv, CallsInv
  <2> QED  BY <2>1, FS_Subset
<1>3. ASSUME NEW d \in InFlight'
      PROVE  Good(d)'
  <2>1. CASE d = c
    BY <1>1, <2>1, NewCallIsGood, StepIsGood DEF Action
  <2>2. CASE d # c
    <3>1. d \in InFlight /\ calls'[d] = calls[d] /\ Good(d)
      BY <2>2, ActionMoves DEF PayrollInv, CallsInv, Good
    <3>2. Issued \subseteq Issued' /\ DOMAIN payrolls' \subseteq Issued'
      BY <1>1 DEF PayrollInv, RowsInv, RowsGoOn, Issued
    <3>3. Shaped(calls[d])'
      BY <3>1, <3>2 DEF Good, Shaped, JobShape, LoopShape, IdShape
    <3>4. PaysTheProcessed(calls[d])'
      <4>1. SUFFICES ASSUME calls[d].pc = "setPaid", calls[d].id \in DOMAIN payrolls'
                     PROVE  payrolls'[calls[d].id].processed
        BY <3>1 DEF PaysTheProcessed
      <4>2. calls[d].id \in Issued
        BY <3>1, <4>1 DEF Good, Shaped, IdShape, IdLabels
      <4>3. calls[d].id \in DOMAIN payrolls /\ payrolls[calls[d].id].processed
        BY <1>1, <3>1, <4>1, <4>2 DEF RowsGoOn, Good, PaysTheProcessed
      <4> QED  BY <1>1, <4>1, <4>2, <4>3 DEF RowsGoOn
    <3> QED  BY <3>3, <3>4 DEF Good
  <2> QED  BY <2>1, <2>2
<1> QED  BY <1>1, <1>2, <1>3 DEF PayrollInv, CallsInv, Good

LEMMA CrashMoves ==
  ASSUME Crash
  PROVE  InFlight' = {} /\ UNCHANGED written
BY DEF Crash, InFlight, tables, written

\* Nothing happens to rows or calls.
Still == UNCHANGED <<written, calls>>

LEMMA StillKeepsInv ==
  ASSUME PayrollInv, Still
  PROVE  PayrollInv'
BY DEF Still, written, PayrollInv, RowsInv, CallsInv, Issued, RowShape, InFlight, Shaped,
       JobShape, LoopShape, IdShape, PaysTheProcessed

\* The steps of the specification.
LEMMA NextIsOneOfThree ==
  ASSUME [AuditNext]_auditVars
  PROVE  (\E c \in Call : Action(c)) \/ Crash \/ Still
BY DEF AuditNext, Next, ChangeSalary, Action, auditVars, vars, tables, written, Still

LEMMA InvKept ==
  ASSUME PayrollInv, [AuditNext]_auditVars
  PROVE  PayrollInv'
<1>1. CASE Crash
  BY <1>1, CrashMoves, FS_EmptySet
     DEF written, PayrollInv, RowsInv, CallsInv, Issued, RowShape
<1> QED  BY <1>1, NextIsOneOfThree, ActionKeepsInv, StillKeepsInv

LEMMA InvInit == AuditInit => PayrollInv
BY FS_EmptySet DEF AuditInit, Init, PayrollInv, RowsInv, CallsInv, InFlight

LEMMA PayrollInvariant == AuditSpec => []PayrollInv
BY InvInit, InvKept, PTL DEF AuditSpec

-----------------------------------------------------------------------------
(* What a call that met no other one still knows.                          *)

\* What has been found by a handler before its last statement is still so, and
\* nobody of a job has been forgotten.
StillTrue(c) ==
  /\ calls[c].pc \in {"readSalary", "readOvertime", "insertPayroll"} =>
       ~Existing(calls[c].emp, calls[c].job.period)
  /\ calls[c].pc = "reselect" =>
       (calls[c].id \in DOMAIN payrolls => Existing(calls[c].emp, calls[c].job.period))
  /\ calls[c].pc \in JobLabels =>
       \A e \in calls[c].job.target :
         \/ e \in calls[c].job.todo \cup calls[c].job.failed \cup {calls[c].emp}
         \/ Existing(e, calls[c].job.period)
  /\ calls[c].pc = "deletePayroll" =>
       (calls[c].id \in DOMAIN payrolls => ~payrolls[calls[c].id].paid)

AloneInv == \A c \in InFlight : Alone(c) => InFlight = {c} /\ StillTrue(c)

LEMMA NewCallStillTrue ==
  ASSUME NEW c, NewCall(c), c \in InFlight'
  PROVE  StillTrue(c)'
<1>1. UNCHANGED payrolls
  BY NewCallMoves DEF ReadOnly, tables
<1>2. CASE CreatePayroll(c) \/ BulkGeneratePayroll(c)
  <2>1. PICK period \in Period, extra \in Extra, employees \in SUBSET Employee :
          StartJob(c, period, extra, employees)
    BY <1>2 DEF CreatePayroll, BulkGeneratePayroll
  <2>2. PICK job \in Job :
          job = [period |-> period, extra |-> extra, todo |-> employees, failed |-> {},
                 target |-> employees]
    BY DEF Job
  <2>3. TakesNext(c, job)
    BY <2>1, <2>2, NextEmployeeTakesNext DEF StartJob
  <2>4. PICK e \in job.todo, rest \in Job :
          /\ calls'[c] = [pc |-> "checkPeriod", emp |-> e, job |-> rest]
          /\ rest.todo = job.todo \ {e} /\ rest.target = job.target
    BY <2>3 DEF TakesNext, InFlight, Put, Drop
  <2> QED  BY <2>2, <2>4 DEF StillTrue, JobLabels
<1>3. CASE ProcessPayrolls(c)
  <2>1. PICK ids : NextPayroll(c, ids)
    BY <1>3 DEF ProcessPayrolls
  <2>2. calls'[c].pc = "findUnprocessed"
    <3>1. TakesOne(c, ids)
      BY <2>1, NextPayrollTakesOne
    <3> QED  BY <3>1 DEF TakesOne, InFlight, Put, Drop
  <2> QED  BY <2>2 DEF StillTrue, JobLabels
<1>4. CASE MarkAsPaid(c) \/ GeneratePayslip(c) \/ DeletePayslip(c)
  <2>1. calls'[c].pc \in {"setPaid", "checkPayslip", "deletePayslip"}
    BY <1>4 DEF MarkAsPaid, GeneratePayslip, DeletePayslip, Goto, Put
  <2> QED  BY <2>1 DEF StillTrue, JobLabels
<1>5. CASE DeletePayroll(c)
  <2>1. PICK i \in DOMAIN payrolls :
          ~payrolls[i].paid /\ calls'[c] = [pc |-> "deletePayroll", id |-> i]
    BY <1>5 DEF DeletePayroll, Goto, Put
  <2> QED  BY <1>1, <2>1 DEF StillTrue, JobLabels
<1> QED  BY <1>2, <1>3, <1>4, <1>5 DEF NewCall

\* The next employee of a job is looked at afresh, the others are accounted for
\* as before.
LEMMA TakesNextStillTrue ==
  ASSUME UNCHANGED payrolls, NEW c, StillTrue(c), calls[c].pc \in JobLabels,
         NEW job, Resumed(calls[c], job), TakesNext(c, job), c \in InFlight',
         \/ job.failed = calls[c].job.failed \cup {calls[c].emp}
         \/ calls[c].pc = "reselect" /\ calls[c].id \in DOMAIN payrolls
  PROVE  StillTrue(c)'
<1>1. PICK e \in job.todo, rest \in Job :
        /\ calls'[c] = [pc |-> "checkPeriod", emp |-> e, job |-> rest]
        /\ rest.todo = job.todo \ {e} /\ rest.failed = job.failed
        /\ rest.target = job.target /\ rest.period = job.period
  BY DEF TakesNext, InFlight, Put, Drop
<1>2. ASSUME NEW x \in rest.target
      PROVE  \/ x \in rest.todo \cup rest.failed \cup {e}
             \/ Existing(x, rest.period)
  <2>1. /\ x \in calls[c].job.target /\ rest.period = calls[c].job.period
        /\ calls[c].job.todo = rest.todo \cup {e}
        /\ calls[c].job.failed \subseteq rest.failed
    BY <1>1, <1>2 DEF Resumed
  <2>2. \/ x \in calls[c].job.todo \cup calls[c].job.failed \cup {calls[c].emp}
        \/ Existing(x, calls[c].job.period)
    BY <2>1 DEF StillTrue
  <2>3. calls[c].emp \in rest.failed \/ Existing(calls[c].emp, calls[c].job.period)
    BY <1>1 DEF StillTrue
  <2> QED  BY <2>1, <2>2, <2>3
<1>3. \A x : Existing(x, rest.period)' = Existing(x, rest.period)
  BY DEF Existing, ClashesWith
<1> QED  BY <1>1, <1>2, <1>3 DEF StillTrue, JobLabels, Existing

\* The payroll just inserted is in the way of another one for the same period.
LEMMA InsertedIsExisting ==
  ASSUME PayrollInv, NEW c \in InFlight, InsertPayroll(c)
  PROVE  \A e, p :
           \/ e = calls[c].emp /\ p = calls[c].job.period
           \/ Existing(e, p)
           => Existing(e, p)'
<1>1. /\ DOMAIN payrolls' = DOMAIN payrolls \cup {payrollSeq + 1}
      /\ payrolls'[payrollSeq + 1] = NewPayroll(calls[c])
      /\ \A i \in DOMAIN payrolls : payrolls'[i] = payrolls[i]
  BY DEF InsertPayroll, Put, PayrollInv, RowsInv, Issued
<1>2. /\ NewPayroll(calls[c]).emp = calls[c].emp
      /\ NewPayroll(calls[c]).period = calls[c].job.period
      /\ calls[c].job.period \in Period
  <2>1. JobShape(calls[c]) /\ calls[c].pc = "insertPayroll"
    BY DEF InsertPayroll, At, PayrollInv, CallsInv, Shaped
  <2> QED  BY <2>1, NewPayrollShape DEF JobShape, JobLabels, Job
<1>3. calls[c].job.period.from \in Int /\ calls[c].job.period.to \in Int
  BY <1>2, PayrollAssumption
<1>4. ClashesWith(NewPayroll(calls[c]), calls[c].emp, calls[c].job.period)
  BY <1>2, <1>3 DEF ClashesWith
<1>5. \E i \in DOMAIN payrolls' :
        ClashesWith(payrolls'[i], calls[c].emp, calls[c].job.period)
  BY <1>1, <1>4
<1>6. \A e, p : (\E i \in DOMAIN payrolls : ClashesWith(payrolls[i], e, p)) =>
                \E i \in DOMAIN payrolls' : ClashesWith(payrolls'[i], e, p)
  BY <1>1
<1> QED  BY <1>5, <1>6 DEF Existing

LEMMA StepStillTrue ==
  ASSUME PayrollInv, NEW c, StillTrue(c), PayrollStep(c) \/ PayslipStep(c) \/ Fail(c),
         c \in InFlight'
  PROVE  StillTrue(c)'
<1>1. c \in InFlight
  BY StepMoves
<1>2. CASE \/ CheckPeriod(c) \/ ReadSalary(c) \/ ReadOvertime(c) \/ InsertPayroll(c)
           \/ Reselect(c)
           \/ Fail(c) /\ calls[c].pc \in JobLabels
  <2>1. ~InsertPayroll(c) => UNCHANGED payrolls
    BY <1>2 DEF CheckPeriod, ReadSalary, ReadOvertime, Reselect, Fail, ReadOnly, tables
  <2>2. calls[c].pc \in JobLabels
    BY <1>1, <1>2, JobStepMoves
  <2>3. ASSUME NEW job, Resumed(calls[c], job), TakesNext(c, job), ~InsertPayroll(c),
               \/ job.failed = calls[c].job.failed \cup {calls[c].emp}
               \/ calls[c].pc = "reselect" /\ calls[c].id \in DOMAIN payrolls
        PROVE  StillTrue(c)'
    BY <2>1, <2>2, <2>3, TakesNextStillTrue
  <2>4. CASE /\ SameJob(c)
             /\ <<calls[c].pc, calls'[c].pc>> \in
                  {<<"checkPeriod", "readSalary">>, <<"readSalary", "readOvertime">>,
                   <<"readOvertime", "insertPayroll">>}
             /\ ~InsertPayroll(c)
             /\ calls'[c].pc = "readSalary" => ~Existing(calls[c].emp, calls[c].job.period)
    <3>1. \A e, p : Existing(e, p)' = Existing(e, p)
      BY <2>1, <2>4 DEF Existing, ClashesWith
    <3>2. calls'[c].job = calls[c].job /\ calls'[c].emp = calls[c].emp
      BY <2>4 DEF SameJob
    <3>3. ~Existing(calls[c].emp, calls[c].job.period)
      BY <2>4 DEF StillTrue
    <3>4. calls'[c].pc \in {"readSalary", "readOvertime", "insertPayroll"}
      BY <2>4
    <3> QED  BY <2>2, <3>1, <3>2, <3>3, <3>4 DEF StillTrue, JobLabels
  <2>5. CASE InsertPayroll(c) /\ SameJob(c) /\ calls'[c].pc = "reselect"
    <3>1. \A e, p :
            \/ e = calls[c].emp /\ p = calls[c].job.period
            \/ Existing(e, p)
            => Existing(e, p)'
      BY <1>1, <2>5, InsertedIsExisting
    <3>2. calls'[c].job = calls[c].job /\ calls'[c].emp = calls[c].emp
      BY <2>5 DEF SameJob
    <3> QED  BY <2>2, <2>5, <3>1, <3>2 DEF StillTrue, JobLabels
  <2>6. CASE Resumes(c)
    BY <2>3, <2>6 DEF Resumes
  <2>7. CASE GoesOn(c)
    BY <2>4, <2>5, <2>7 DEF GoesOn
  <2> QED  BY <1>1, <1>2, <2>6, <2>7, JobStepMoves
<1>3. CASE \/ FindUnprocessed(c) \/ SetProcessed(c)
           \/ Fail(c) /\ calls[c].pc \in LoopLabels
  <2>1. calls'[c].pc \in LoopLabels
    <3>1. TakesOne(c, calls[c].todo) => calls'[c].pc = "findUnprocessed"
      BY DEF TakesOne, InFlight, Put, Drop
    <3> QED  BY <1>1, <1>3, <3>1, LoopStepMoves DEF LoopLabels
  <2> QED  BY <2>1 DEF StillTrue, LoopLabels, JobLabels
<1>4. CASE \/ SetPaid(c) \/ WriteDeletion(c) \/ PayslipStep(c)
           \/ Fail(c) /\ calls[c].pc \notin JobLabels \cup LoopLabels
  <2>1. ~Return(c)
    BY DEF Return, Drop, InFlight
  <2>2. calls'[c].pc \in {"insertPayslip"} \cup ItemLabels
    BY <1>1, <1>4, <2>1, LastStepMoves DEF ItemLabels
  <2> QED  BY <2>2 DEF StillTrue, JobLabels, ItemLabels
<1> QED  BY <1>2, <1>3, <1>4, StepIsOneOfThree

\* Nothing that StillTrue is about has changed.
LEMMA StillTrueFrame ==
  ASSUME UNCHANGED payrolls, NEW d, StillTrue(d), calls'[d] = calls[d]
  PROVE  StillTrue(d)'
<1>1. \A e, p : Existing(e, p)' = Existing(e, p)
  BY DEF Existing, ClashesWith
<1> QED  BY <1>1 DEF StillTrue

\* A call that has met no other one is the only one in flight.
LEMMA AloneIsOnlyOne ==
  ASSUME AuditNext, IsFiniteSet(InFlight'), NEW d \in InFlight', Alone(d)'
  PROVE  InFlight' = {d} /\ d \notin overlapped
<1>1. d \notin overlapped'
  BY DEF Alone
<1>2. ~(Cardinality(InFlight') > 1) /\ overlapped' = overlapped \cap InFlight'
  BY <1>1 DEF AuditNext
<1>3. Cardinality(InFlight') \in Nat /\ Cardinality(InFlight') # 0
  BY FS_CardinalityType, FS_EmptySet
<1>4. Cardinality(InFlight') = 1
  BY <1>2, <1>3
<1>5. PICK x : InFlight' = {x}
  BY <1>4, FS_Singleton
<1> QED  BY <1>1, <1>2, <1>5

LEMMA AloneKept ==
  ASSUME PayrollInv, AloneInv, AuditNext
  PROVE  AloneInv'
<1>1. IsFiniteSet(InFlight')
  BY InvKept DEF PayrollInv, CallsInv
<1>2. SUFFICES ASSUME NEW d \in InFlight', Alone(d)'
               PROVE  InFlight' = {d} /\ StillTrue(d)'
  BY DEF AloneInv
<1>3. InFlight' = {d} /\ d \notin overlapped
  BY <1>1, <1>2, AloneIsOnlyOne
<1>4. d \in InFlight => InFlight = {d} /\ StillTrue(d)
  BY <1>3 DEF AloneInv, Alone
<1>5. CASE \E c \in Call : Action(c)
  <2>1. PICK c \in Call : Action(c)
    BY <1>5
  <2>2. CASE c = d
    BY <1>3, <1>4, <2>1, <2>2, NewCallStillTrue, StepStillTrue, StepMoves DEF Action
  <2>3. CASE c # d
    <3>1. d \in InFlight /\ calls'[d] = calls[d]
      BY <1>2, <2>1, <2>3, ActionMoves
    <3>2. c \notin InFlight
      BY <1>4, <2>3, <3>1
    <3>3. UNCHANGED payrolls
      BY <2>1, <3>2, StepMoves, NewCallMoves DEF Action, ReadOnly, tables
    <3> QED  BY <1>3, <1>4, <3>1, <3>3, StillTrueFrame
  <2> QED  BY <2>2, <2>3
<1>6. CASE Crash
  BY <1>2, <1>6, CrashMoves
<1>7. CASE Still
  <2>1. UNCHANGED <<payrolls, calls>> /\ InFlight' = InFlight
    BY <1>7 DEF Still, written, InFlight
  <2> QED  BY <1>2, <1>3, <1>4, <2>1, StillTrueFrame
<1> QED  BY <1>5, <1>6, <1>7, NextIsOneOfThree

LEMMA AloneInvariant == AuditSpec => [](PayrollInv /\ AloneInv)
<1>1. AuditInit => PayrollInv /\ AloneInv
  BY InvInit DEF AuditInit, Init, AloneInv, InFlight
<1>2. PayrollInv /\ AloneInv /\ [AuditNext]_auditVars => (PayrollInv /\ AloneInv)'
  <2>1. ASSUME PayrollInv, AloneInv, UNCHANGED auditVars
        PROVE  AloneInv'
    <3>1. UNCHANGED <<payrolls, calls, overlapped>> /\ InFlight' = InFlight
      BY <2>1 DEF auditVars, vars, tables, InFlight
    <3>2. \A d \in InFlight : StillTrue(d) => StillTrue(d)'
      BY <3>1, StillTrueFrame
    <3> QED  BY <2>1, <3>1, <3>2 DEF AloneInv, Alone
  <2> QED  BY <2>1, InvKept, AloneKept
<1> QED  BY <1>1, <1>2, PTL DEF AuditSpec

-----------------------------------------------------------------------------
(* Paid twice, deleted though paid, forgotten.                             *)

\* Two periods that share a day clash in the sense of the handler's query.
LEMMA SharedDaysClash ==
  ASSUME NEW row, NEW p \in Period, row.period \in Period, NEW e, row.emp = e,
         ShareADay(row.period, p)
  PROVE  ClashesWith(row, e, p)
<1>1. /\ row.period.from \in Int /\ row.period.to \in Int
      /\ p.from \in Int /\ p.to \in Int
  BY PayrollAssumption
<1> QED  BY <1>1 DEF ShareADay, ClashesWith, Covers

\* Only an INSERT adds payrolls, and none changes whom and when they pay.
LEMMA OthersPayNobody ==
  ASSUME PayrollInv, [AuditNext]_auditVars, ~\E c \in InFlight : InsertPayroll(c)
  PROVE  DoublePay' \subseteq DoublePay
<1>1. /\ DOMAIN payrolls' \subseteq DOMAIN payrolls
      /\ \A i \in DOMAIN payrolls' : /\ payrolls'[i].emp = payrolls[i].emp
                                     /\ payrolls'[i].period = payrolls[i].period
  <2>1. CASE \E c \in Call : Action(c)
    <3>1. PICK c \in Call : Action(c)
      BY <2>1
    <3>2. CASE SetProcessed(c) \/ SetPaid(c)
      BY <3>2, SetColumn DEF SetProcessed, SetPaid, At, InFlight, PayrollInv, CallsInv,
                             PaysTheProcessed
    <3>3. CASE WriteDeletion(c)
      BY <3>3 DEF WriteDeletion, Without
    <3>4. CASE InsertPayslip(c) \/ WritePayslipDeletion(c)
      BY <3>4 DEF InsertPayslip, WritePayslipDeletion
    <3>5. CASE ~Writes(c)
      BY <3>1, <3>5, OthersDoNotWrite DEF written
    <3>6. ~InsertPayroll(c)
      BY DEF InsertPayroll, At, InFlight
    <3> QED  BY <3>2, <3>3, <3>4, <3>5, <3>6 DEF Writes
  <2>2. CASE Crash \/ Still
    BY <2>2, CrashMoves DEF Still, written
  <2> QED  BY <2>1, <2>2, NextIsOneOfThree
<1> QED  BY <1>1 DEF DoublePay

LEMMA AloneInsertsNoClash ==
  ASSUME PayrollInv, AloneInv, NEW c \in InFlight, Alone(c), InsertPayroll(c)
  PROVE  DoublePay' \subseteq DoublePay
<1> DEFINE n == payrollSeq + 1
<1>1. /\ DOMAIN payrolls' = DOMAIN payrolls \cup {n}
      /\ payrolls'[n] = NewPayroll(calls[c])
      /\ \A i \in DOMAIN payrolls : payrolls'[i] = payrolls[i]
      /\ \A i \in DOMAIN payrolls : ~(n < i) /\ i # n
  <2>1. payrollSeq \in Nat /\ DOMAIN payrolls \subseteq 1 .. payrollSeq
    BY DEF PayrollInv, RowsInv, Issued
  <2>2. payrolls' = Put(payrolls, n, NewPayroll(calls[c]))
    BY DEF InsertPayroll
  <2>3. \A i \in DOMAIN payrolls : ~(n < i) /\ i # n
    BY <2>1
  <2> QED  BY <2>2, <2>3 DEF Put
<1>2. JobShape(calls[c]) /\ calls[c].pc = "insertPayroll"
  BY DEF InsertPayroll, At, PayrollInv, CallsInv, Shaped
<1>3. /\ payrolls'[n].emp = calls[c].emp
      /\ payrolls'[n].period = calls[c].job.period
      /\ calls[c].job.period \in Period
  BY <1>1, <1>2, NewPayrollShape DEF JobShape, JobLabels, Job
<1>4. \A i \in DOMAIN payrolls : ~ClashesWith(payrolls[i], calls[c].emp, calls[c].job.period)
  BY <1>2 DEF AloneInv, StillTrue, Existing
<1>5. \A i \in DOMAIN payrolls :
        payrolls[i].emp = calls[c].emp => ~ShareADay(payrolls[i].period, calls[c].job.period)
  BY <1>3, <1>4, SharedDaysClash DEF PayrollInv, RowsInv, RowShape
<1> HIDE DEF n
<1>6. SUFFICES ASSUME NEW pair \in (DOMAIN payrolls') \X (DOMAIN payrolls'),
                      pair[1] < pair[2],
                      payrolls'[pair[1]].emp = payrolls'[pair[2]].emp,
                      ShareADay(payrolls'[pair[1]].period, payrolls'[pair[2]].period)
               PROVE  pair \in DoublePay
  BY DEF DoublePay, ShareADay
<1>7. n \in Int
  BY DEF PayrollInv, RowsInv, n
<1>8. pair[1] # n
  BY <1>1, <1>6, <1>7
<1>9. pair[2] # n
  BY <1>1, <1>3, <1>5, <1>6, <1>8
<1>10. pair \in (DOMAIN payrolls) \X (DOMAIN payrolls)
  BY <1>1, <1>6, <1>8, <1>9
<1> QED  BY <1>1, <1>6, <1>10 DEF DoublePay

\* Two payrolls of an employee share a day only when the call that inserted the
\* second one met another call.
THEOREM DoublePayTakesARace == AuditSpec => DoublePayNeedsARace
<1>1. ASSUME PayrollInv, AloneInv, [AuditNext]_auditVars, DoublePay' \ DoublePay # {}
      PROVE  \E c \in InFlight : At(c, "insertPayroll") /\ ~Alone(c)
  <2>1. PICK c \in InFlight : InsertPayroll(c)
    BY <1>1, OthersPayNobody
  <2>2. ~Alone(c)
    BY <1>1, <2>1, AloneInsertsNoClash
  <2> QED  BY <2>1, <2>2 DEF InsertPayroll
<1>2. PayrollInv /\ AloneInv /\ [AuditNext]_auditVars =>
        [DoublePay' \ DoublePay # {} =>
           \E c \in InFlight : At(c, "insertPayroll") /\ ~Alone(c)]_auditVars
  BY <1>1
<1> QED  BY <1>2, AloneInvariant, PTL DEF AuditSpec, DoublePayNeedsARace

\* A payroll disappears by the DELETE alone.
LEMMA OnlyDeletionRemoves ==
  ASSUME PayrollInv, [AuditNext]_auditVars, NEW i \in DOMAIN payrolls, i \notin DOMAIN payrolls'
  PROVE  \E c \in InFlight : WriteDeletion(c) /\ calls[c].id = i
<1>1. CASE \E c \in Call : Action(c)
  <2>1. PICK c \in Call : Action(c)
    BY <1>1
  <2>2. CASE InsertPayroll(c)
    BY <2>2 DEF InsertPayroll, Put
  <2>3. CASE SetProcessed(c) \/ SetPaid(c)
    BY <2>3 DEF SetProcessed, SetPaid
  <2>4. CASE WriteDeletion(c)
    BY <2>4 DEF WriteDeletion, Without, At, InFlight
  <2>5. CASE InsertPayslip(c) \/ WritePayslipDeletion(c)
    BY <2>5 DEF InsertPayslip, WritePayslipDeletion
  <2>6. CASE ~Writes(c)
    BY <2>1, <2>6, OthersDoNotWrite DEF written
  <2> QED  BY <2>2, <2>3, <2>4, <2>5, <2>6 DEF Writes
<1>2. CASE Crash \/ Still
  BY <1>2, CrashMoves DEF Still, written
<1> QED  BY <1>1, <1>2, NextIsOneOfThree

\* A paid payroll disappears only when the call that deletes it met another one.
THEOREM PaidDisappearInARace == AuditSpec => PaidPayrollsAreKept
<1>1. ASSUME PayrollInv, AloneInv, [AuditNext]_auditVars, NEW i \in DOMAIN payrolls,
             payrolls[i].paid, i \notin DOMAIN payrolls'
      PROVE  \E c \in InFlight : At(c, "deletePayroll") /\ ~Alone(c)
  <2>1. PICK c \in InFlight : WriteDeletion(c) /\ calls[c].id = i
    BY <1>1, OnlyDeletionRemoves
  <2>2. calls[c].pc = "deletePayroll"
    BY <2>1 DEF WriteDeletion, At
  <2>3. ~Alone(c)
    BY <1>1, <2>1, <2>2 DEF AloneInv, StillTrue
  <2> QED  BY <2>2, <2>3 DEF At, InFlight
<1>2. PayrollInv /\ AloneInv /\ [AuditNext]_auditVars =>
        [\A i \in DOMAIN payrolls :
           (payrolls[i].paid /\ i \notin DOMAIN payrolls') =>
             \E c \in InFlight : At(c, "deletePayroll") /\ ~Alone(c)]_auditVars
  BY <1>1
<1> QED  BY <1>2, AloneInvariant, PTL DEF AuditSpec, PaidPayrollsAreKept

\* The call of a job that is the only one in flight ends with its own step, when
\* nobody is left to do.
LEMMA AloneEndsByItself ==
  ASSUME PayrollInv, [AuditNext]_auditVars, ~Crash, NEW c \in InFlight, InFlight = {c},
         calls' = Drop(calls, c), calls[c].pc \in JobLabels
  PROVE  calls[c].job.todo = {}
<1>1. c \notin InFlight'
  BY DEF InFlight, Drop
<1>2. PICK d \in Call : Action(d)
  BY <1>1, NextIsOneOfThree DEF Still, InFlight
<1>3. d = c
  BY <1>1, <1>2, ActionMoves
<1>4. PayrollStep(c) \/ PayslipStep(c) \/ Fail(c)
  BY <1>2, <1>3, NewCallMoves DEF Action, Free, InFlight
<1>5. ~(FindUnprocessed(c) \/ SetProcessed(c) \/ SetPaid(c) \/ WriteDeletion(c) \/ PayslipStep(c))
  BY DEF FindUnprocessed, SetProcessed, SetPaid, WriteDeletion, PayslipStep, CheckPayslip,
         InsertPayslip, ReadBack, InsertItems, WritePayslipDeletion, At, JobLabels
<1>6. Resumes(c)
  BY <1>1, <1>4, <1>5, JobStepMoves, StepIsOneOfThree DEF GoesOn, SameJob
<1>7. PICK job : Resumed(calls[c], job) /\ TakesNext(c, job)
  BY <1>6 DEF Resumes
<1>8. job.todo = {}
  BY <1>1, <1>7 DEF TakesNext, InFlight, Put
<1> QED  BY <1>7, <1>8 DEF Resumed

\* When a call that met no other one returns, every employee it was asked for
\* has a payroll that clashes with the period, or is reported as failed.
THEOREM NobodyIsForgotten == AuditSpec => BulkAccountsForEverybody
<1>1. ASSUME PayrollInv, AloneInv, [AuditNext]_auditVars, NEW c \in InFlight, Alone(c),
             calls' = Drop(calls, c), ~Crash,
             calls[c].pc \in {"checkPeriod", "readSalary", "insertPayroll", "reselect"},
             NEW e \in calls[c].job.target
      PROVE  \/ Existing(e, calls[c].job.period)
             \/ e \in calls[c].job.failed \cup {calls[c].emp}
  <2>1. InFlight = {c} /\ StillTrue(c) /\ calls[c].pc \in JobLabels
    BY <1>1 DEF AloneInv, JobLabels
  <2>2. calls[c].job.todo = {}
    BY <1>1, <2>1, AloneEndsByItself
  <2> QED  BY <1>1, <2>1, <2>2 DEF StillTrue
<1>2. PayrollInv /\ AloneInv /\ [AuditNext]_auditVars =>
        [\A c \in InFlight :
           (/\ Alone(c) /\ calls' = Drop(calls, c) /\ ~Crash
            /\ calls[c].pc \in {"checkPeriod", "readSalary", "insertPayroll", "reselect"})
           => \A e \in calls[c].job.target :
                \/ Existing(e, calls[c].job.period)
                \/ e \in calls[c].job.failed \cup {calls[c].emp}]_auditVars
  BY <1>1
<1> QED  BY <1>2, AloneInvariant, PTL DEF AuditSpec, BulkAccountsForEverybody

-----------------------------------------------------------------------------
(* The loops come to an end.                                               *)

LEMMA WorkOfLabels ==
  ASSUME NEW call
  PROVE  /\ call.pc = "checkPeriod" => WorkLeft(call) = 5 + 5 * Cardinality(call.job.todo)
         /\ call.pc = "readSalary" => WorkLeft(call) = 4 + 5 * Cardinality(call.job.todo)
         /\ call.pc = "readOvertime" => WorkLeft(call) = 3 + 5 * Cardinality(call.job.todo)
         /\ call.pc = "insertPayroll" => WorkLeft(call) = 2 + 5 * Cardinality(call.job.todo)
         /\ call.pc = "reselect" => WorkLeft(call) = 1 + 5 * Cardinality(call.job.todo)
         /\ call.pc = "findUnprocessed" => WorkLeft(call) = 2 + 2 * Cardinality(call.todo)
         /\ call.pc = "setProcessed" => WorkLeft(call) = 1 + 2 * Cardinality(call.todo)
         /\ call.pc = "checkPayslip" => WorkLeft(call) = 4
         /\ call.pc = "insertPayslip" => WorkLeft(call) = 3
         /\ call.pc = "readBack" => WorkLeft(call) = 2
         /\ call.pc = "insertItems" => WorkLeft(call) = 1
BY DEF WorkLeft

LEMMA JobGoesForward ==
  ASSUME PayrollInv, NEW c \in InFlight, c \in InFlight',
         JobShape(calls[c]), calls[c].pc \in JobLabels, GoesOn(c) \/ Resumes(c)
  PROVE  WorkLeft(calls'[c]) < WorkLeft(calls[c])
<1> DEFINE left == Cardinality(calls[c].job.todo)
<1>1. IsFiniteSet(calls[c].job.todo) /\ left \in Nat
  <2>1. calls[c].job.todo \subseteq Employee
    BY DEF JobShape, Job
  <2> QED  BY <2>1, PayrollAssumption, FS_Subset, FS_CardinalityType
<1>2. CASE GoesOn(c)
  <2>1. Cardinality(calls'[c].job.todo) = left
    BY <1>2 DEF GoesOn, SameJob
  <2> HIDE DEF left
  <2> QED  BY <1>1, <1>2, <2>1, WorkOfLabels DEF GoesOn, left
<1>3. CASE Resumes(c)
  <2>1. PICK job : Resumed(calls[c], job) /\ TakesNext(c, job)
    BY <1>3 DEF Resumes
  <2>2. PICK e \in job.todo, rest \in Job :
          /\ calls'[c] = [pc |-> "checkPeriod", emp |-> e, job |-> rest]
          /\ rest.todo = job.todo \ {e}
    BY <2>1 DEF TakesNext, InFlight, Put, Drop
  <2>3. rest.todo = calls[c].job.todo \ {e} /\ e \in calls[c].job.todo
    BY <2>1, <2>2 DEF Resumed
  <2>4. Cardinality(rest.todo) = left - 1
    <3> DEFINE todo == calls[c].job.todo
    <3>1. Cardinality(todo \ {e}) = Cardinality(todo) - 1
      BY <1>1, <2>3, FS_RemoveElement
    <3> QED  BY <2>3, <3>1
  <2>5. calls'[c].pc = "checkPeriod" /\ calls'[c].job = rest
    BY <2>2
  <2>6. WorkLeft(calls'[c]) = 5 + 5 * (left - 1)
    BY <2>4, <2>5, WorkOfLabels
  <2>7. \E k \in {1, 2, 3, 4, 5} : WorkLeft(calls[c]) = k + 5 * left
    BY WorkOfLabels DEF JobLabels
  <2> HIDE DEF left
  <2> QED  BY <1>1, <2>6, <2>7
<1> QED  BY <1>2, <1>3

LEMMA LoopGoesForward ==
  ASSUME PayrollInv, NEW c \in InFlight, c \in InFlight',
         LoopShape(calls[c]), calls[c].pc \in LoopLabels,
         \/ /\ calls[c].pc = "findUnprocessed" /\ calls'[c].pc = "setProcessed"
            /\ calls'[c].todo = calls[c].todo
         \/ TakesOne(c, calls[c].todo)
  PROVE  WorkLeft(calls'[c]) < WorkLeft(calls[c])
<1> DEFINE left == Cardinality(calls[c].todo)
<1>1. IsFiniteSet(calls[c].todo) /\ left \in Nat
  <2>1. calls[c].todo \subseteq 1 .. payrollSeq /\ payrollSeq \in Nat
    BY DEF LoopShape, Issued, PayrollInv, RowsInv
  <2>2. IsFiniteSet(1 .. payrollSeq)
    BY <2>1, IdsAreFinite
  <2>3. IsFiniteSet(calls[c].todo)
    BY <2>1, <2>2, FS_Subset
  <2> QED  BY <2>3, FS_CardinalityType
<1>2. CASE /\ calls[c].pc = "findUnprocessed" /\ calls'[c].pc = "setProcessed"
           /\ calls'[c].todo = calls[c].todo
  <2>1. WorkLeft(calls'[c]) = 1 + 2 * left /\ WorkLeft(calls[c]) = 2 + 2 * left
    BY <1>2, WorkOfLabels
  <2> HIDE DEF left
  <2> QED  BY <1>1, <2>1
<1>3. CASE TakesOne(c, calls[c].todo)
  <2>1. PICK i \in calls[c].todo :
          calls'[c] = [pc |-> "findUnprocessed", id |-> i, todo |-> calls[c].todo \ {i}]
    BY <1>3 DEF TakesOne, InFlight, Put, Drop
  <2>2. calls'[c].todo = calls[c].todo \ {i} /\ calls'[c].pc = "findUnprocessed"
    BY <2>1
  <2>3. Cardinality(calls[c].todo \ {i}) = left - 1
    BY <1>1, FS_RemoveElement
  <2>4. WorkLeft(calls'[c]) = 2 + 2 * (left - 1)
    BY <2>2, <2>3, WorkOfLabels
  <2>5. \E k \in {1, 2} : WorkLeft(calls[c]) = k + 2 * left
    BY WorkOfLabels DEF LoopLabels
  <2> HIDE DEF left
  <2> QED  BY <1>1, <2>4, <2>5
<1> QED  BY <1>2, <1>3

\* Every statement leaves a call with less to do, whatever fails.
THEOREM LoopsEnd == AuditSpec => LoopsGoForward
<1>1. ASSUME PayrollInv, [AuditNext]_auditVars, NEW c \in InFlight, ~Free(c)',
             calls'[c] # calls[c]
      PROVE  WorkLeft(calls'[c]) < WorkLeft(calls[c])
  <2>1. c \in InFlight'
    BY <1>1 DEF Free, InFlight
  <2>2. PICK d \in Call : Action(d)
    BY <1>1, <2>1, NextIsOneOfThree, CrashMoves DEF Still
  <2>3. d = c
    BY <1>1, <2>2, ActionMoves
  <2>4. PayrollStep(c) \/ PayslipStep(c) \/ Fail(c)
    BY <2>2, <2>3, NewCallMoves DEF Action, Free, InFlight
  <2>5. CASE \/ CheckPeriod(c) \/ ReadSalary(c) \/ ReadOvertime(c) \/ InsertPayroll(c)
             \/ Reselect(c)
             \/ Fail(c) /\ calls[c].pc \in JobLabels
    BY <1>1, <2>1, <2>5, JobStepMoves, JobGoesForward
  <2>6. CASE \/ FindUnprocessed(c) \/ SetProcessed(c)
             \/ Fail(c) /\ calls[c].pc \in LoopLabels
    BY <1>1, <2>1, <2>6, LoopStepMoves, LoopGoesForward
  <2>7. CASE \/ SetPaid(c) \/ WriteDeletion(c) \/ PayslipStep(c)
             \/ Fail(c) /\ calls[c].pc \notin JobLabels \cup LoopLabels
    <3>1. ~Return(c)
      BY <2>1 DEF Return, Drop, InFlight
    <3>2. \/ calls[c].pc = "checkPayslip" /\ calls'[c].pc = "insertPayslip"
          \/ calls[c].pc = "insertPayslip" /\ calls'[c].pc = "readBack"
          \/ calls[c].pc = "readBack" /\ calls'[c].pc = "insertItems"
      BY <1>1, <2>7, <3>1, LastStepMoves
    <3>3. \/ WorkLeft(calls[c]) = 4 /\ WorkLeft(calls'[c]) = 3
          \/ WorkLeft(calls[c]) = 3 /\ WorkLeft(calls'[c]) = 2
          \/ WorkLeft(calls[c]) = 2 /\ WorkLeft(calls'[c]) = 1
      BY <3>2, WorkOfLabels
    <3> QED  BY <3>3
  <2> QED  BY <2>4, <2>5, <2>6, <2>7, StepIsOneOfThree
<1>2. PayrollInv /\ [AuditNext]_auditVars =>
        [\A c \in InFlight :
           (~Free(c)' /\ calls'[c] # calls[c]) =>
             WorkLeft(calls'[c]) < WorkLeft(calls[c])]_auditVars
  BY <1>1
<1> QED  BY <1>2, PayrollInvariant, PTL DEF AuditSpec, LoopsGoForward

-----------------------------------------------------------------------------
(* The tables implement the life of a payroll.                             *)

StageIn(rows, seq, i) ==
  IF i \in DOMAIN rows
    THEN IF rows[i].paid
           THEN IF rows[i].processed THEN "paid" ELSE "unprocessed"
           ELSE IF rows[i].processed THEN "processed" ELSE "pending"
    ELSE IF i <= seq THEN "gone" ELSE "absent"

LEMMA StageByRows ==
  /\ Stage = [i \in PayrollId |-> StageIn(payrolls, payrollSeq, i)]
  /\ Stage' = [i \in PayrollId |-> StageIn(payrolls', payrollSeq', i)]
  /\ Out = {i \in PayrollId : \E s \in DOMAIN payslips : payslips[s].payroll = i}
  /\ Out' = {i \in PayrollId : \E s \in DOMAIN payslips' : payslips'[s].payroll = i}
<1>1. \A i \in PayrollId :
        (PayslipsOf(i) # {}) <=> (\E s \in DOMAIN payslips : payslips[s].payroll = i)
  BY DEF PayslipsOf
<1>2. \A i \in PayrollId :
        (PayslipsOf(i) # {})' <=> (\E s \in DOMAIN payslips' : payslips'[s].payroll = i)
  BY DEF PayslipsOf
<1> QED  BY <1>1, <1>2 DEF Stage, StageIn, Out, PayrollId

\* A step that touches one id at most.
LEMMA StageOfOne ==
  ASSUME NEW n, \A i \in PayrollId \ {n} :
                  StageIn(payrolls', payrollSeq', i) = StageIn(payrolls, payrollSeq, i)
  PROVE  /\ n \notin PayrollId => Stage' = Stage
         /\ n \in PayrollId =>
              /\ Stage[n] = StageIn(payrolls, payrollSeq, n)
              /\ Stage' = [Stage EXCEPT ![n] = StageIn(payrolls', payrollSeq', n)]
BY StageByRows

\* A step of the abstract specification for some id, or a stutter.
AbstractStep == (\E i \in PayrollId : Abstract!Step(i)) \/ UNCHANGED <<Stage, Out>>

LEMMA InsertIsAdvance ==
  ASSUME PayrollInv, NEW c \in InFlight, InsertPayroll(c)
  PROVE  AbstractStep
<1> DEFINE n == payrollSeq + 1
<1>1. payrollSeq \in Nat /\ DOMAIN payrolls \subseteq 1 .. payrollSeq
  BY DEF PayrollInv, RowsInv, Issued
<1>2. /\ DOMAIN payrolls' = DOMAIN payrolls \cup {n}
      /\ payrolls'[n] = NewPayroll(calls[c])
      /\ \A i \in DOMAIN payrolls : payrolls'[i] = payrolls[i]
      /\ payrollSeq' = n /\ UNCHANGED payslips
  <2>1. payrolls' = Put(payrolls, n, NewPayroll(calls[c]))
        /\ payrollSeq' = n /\ UNCHANGED payslips
    BY DEF InsertPayroll
  <2>2. \A i \in DOMAIN payrolls : i # n
    BY <1>1
  <2> QED  BY <2>1, <2>2 DEF Put
<1>3. payrolls'[n].processed = FALSE /\ payrolls'[n].paid = FALSE
  BY <1>2 DEF NewPayroll
<1>4. n \notin DOMAIN payrolls /\ n \in Nat /\ ~(n <= payrollSeq)
  BY <1>1
<1>5. \A i \in PayrollId \ {n} :
        StageIn(payrolls', payrollSeq', i) = StageIn(payrolls, payrollSeq, i)
  <2>1. \A i \in PayrollId \ {n} : i <= n <=> i <= payrollSeq
    BY <1>1 DEF PayrollId
  <2> QED  BY <1>2, <2>1 DEF StageIn
<1>6. /\ StageIn(payrolls, payrollSeq, n) = "absent"
      /\ StageIn(payrolls', payrollSeq', n) = "pending"
  BY <1>2, <1>3, <1>4 DEF StageIn
<1>7. Out' = Out
  BY <1>2, StageByRows
<1> HIDE DEF n
<1> QED
  BY <1>5, <1>6, <1>7, StageOfOne DEF AbstractStep, Abstract!Step, Abstract!Advance

LEMMA UpdateIsAdvance ==
  ASSUME PayrollInv, NEW c \in InFlight, SetProcessed(c) \/ SetPaid(c)
  PROVE  AbstractStep
<1> DEFINE n == calls[c].id
<1>1. \A i \in DOMAIN payrolls : RowShape(payrolls[i])
  BY DEF PayrollInv, RowsInv
<1>2. UNCHANGED <<payslips, payrollSeq>>
  BY DEF SetProcessed, SetPaid
<1>3. Out' = Out
  BY <1>2, StageByRows
<1>4. CASE payrolls' = payrolls
  BY <1>2, <1>3, <1>4, StageByRows DEF AbstractStep
<1>5. CASE n \in DOMAIN payrolls /\ payrolls' # payrolls
  <2>1. \/ payrolls' = [payrolls EXCEPT ![n].processed = TRUE]
        \/ /\ payrolls[n].processed
           /\ payrolls' = [payrolls EXCEPT ![n].paid = TRUE]
    BY <1>5 DEF SetProcessed, SetPaid, At, InFlight, PayrollInv, CallsInv, PaysTheProcessed
  <2>2. RowShape(payrolls[n])
    BY <1>1, <1>5
  <2>3. \/ /\ StageIn(payrolls, payrollSeq, n) = "pending"
           /\ StageIn(payrolls', payrollSeq', n) = "processed"
        \/ /\ StageIn(payrolls, payrollSeq, n) = "processed"
           /\ StageIn(payrolls', payrollSeq', n) = "paid"
        \/ StageIn(payrolls', payrollSeq', n) = StageIn(payrolls, payrollSeq, n)
    BY <1>5, <2>1, <2>2 DEF StageIn, RowShape
  <2>4. \A i \in PayrollId \ {n} :
          StageIn(payrolls', payrollSeq', i) = StageIn(payrolls, payrollSeq, i)
    BY <1>2, <2>1 DEF StageIn
  <2>5. CASE StageIn(payrolls', payrollSeq', n) = StageIn(payrolls, payrollSeq, n)
    BY <1>3, <2>4, <2>5, StageByRows DEF AbstractStep
  <2> HIDE DEF n
  <2> QED
    BY <1>3, <2>3, <2>4, <2>5, StageOfOne DEF AbstractStep, Abstract!Step, Abstract!Advance
<1> QED  BY <1>4, <1>5 DEF SetProcessed, SetPaid

LEMMA DeletionIsDiscard ==
  ASSUME PayrollInv, NEW c \in InFlight, WriteDeletion(c)
  PROVE  AbstractStep
<1> DEFINE n == calls[c].id
<1>1. /\ DOMAIN payrolls \subseteq 1 .. payrollSeq
      /\ \A s \in DOMAIN payslips : payslips[s].payroll \in DOMAIN payrolls
      /\ \A i \in DOMAIN payrolls : RowShape(payrolls[i])
  BY DEF PayrollInv, RowsInv, Issued
<1>2. /\ DOMAIN payrolls' = DOMAIN payrolls \ {n}
      /\ \A i \in DOMAIN payrolls' : payrolls'[i] = payrolls[i]
      /\ DOMAIN payslips' = {s \in DOMAIN payslips : payslips[s].payroll # n}
      /\ \A s \in DOMAIN payslips' : payslips'[s] = payslips[s]
      /\ payrollSeq' = payrollSeq
  BY DEF WriteDeletion, Without, PayslipsOf
<1>3. \A i \in PayrollId \ {n} :
        StageIn(payrolls', payrollSeq', i) = StageIn(payrolls, payrollSeq, i)
  BY <1>2 DEF StageIn
<1>4. Out' = Out \ {n}
  BY <1>2, StageByRows
<1>5. CASE n \in DOMAIN payrolls
  <2>1. StageIn(payrolls', payrollSeq', n) = "gone"
    <3>1. payrollSeq \in Nat /\ n <= payrollSeq
      BY <1>1, <1>5 DEF PayrollInv, RowsInv
    <3> QED  BY <1>2, <3>1 DEF StageIn
  <2>2. StageIn(payrolls, payrollSeq, n) \in {"pending", "processed", "paid"}
    BY <1>1, <1>5 DEF StageIn, RowShape
  <2> HIDE DEF n
  <2>3. CASE n \in PayrollId
    BY <1>3, <1>4, <2>1, <2>2, <2>3, StageOfOne
       DEF AbstractStep, Abstract!Step, Abstract!Discard, Abstract!Exists
  <2>4. CASE n \notin PayrollId
    <3>1. Out' = Out
      BY <1>4, <2>4, StageByRows
    <3> QED  BY <1>3, <2>4, <3>1, StageOfOne DEF AbstractStep
  <2> QED  BY <2>3, <2>4
<1>6. CASE n \notin DOMAIN payrolls
  <2>1. \A i \in PayrollId :
          StageIn(payrolls', payrollSeq', i) = StageIn(payrolls, payrollSeq, i)
    BY <1>2, <1>6 DEF StageIn
  <2>2. Out' = Out
    BY <1>1, <1>4, <1>6, StageByRows
  <2> QED  BY <2>1, <2>2, StageByRows DEF AbstractStep
<1> QED  BY <1>5, <1>6

LEMMA PayslipIsIssue ==
  ASSUME PayrollInv, NEW c \in InFlight, InsertPayslip(c)
  PROVE  AbstractStep
<1> DEFINE n == calls[c].id
<1>1. Stage' = Stage
  BY StageByRows DEF InsertPayslip
<1>2. CASE UNCHANGED payslips
  BY <1>1, <1>2, StageByRows DEF AbstractStep
<1>3. CASE /\ AcceptsPayslip(n)
           /\ payslips' = Put(payslips, payslipSeq + 1, NewPayslip(calls[c]))
  <2>1. /\ DOMAIN payslips' = DOMAIN payslips \cup {payslipSeq + 1}
        /\ \A s \in DOMAIN payslips : payslips'[s] = payslips[s]
        /\ payslips'[payslipSeq + 1].payroll = n
    <3>1. \A s \in DOMAIN payslips : s # payslipSeq + 1
      BY DEF PayrollInv, RowsInv
    <3>2. NewPayslip(calls[c]).payroll = n
      BY DEF NewPayslip
    <3> QED  BY <1>3, <3>1, <3>2 DEF Put
  <2>2. n \in DOMAIN payrolls /\ \A s \in DOMAIN payslips : payslips[s].payroll # n
    BY <1>3 DEF AcceptsPayslip, PayslipsOf
  <2>3. StageIn(payrolls, payrollSeq, n) \in {"pending", "processed", "paid"}
    BY <2>2 DEF StageIn, RowShape, PayrollInv, RowsInv
  <2> HIDE DEF n
  <2>4. CASE n \in PayrollId
    <3>1. Out' = Out \cup {n} /\ n \notin Out
      BY <2>1, <2>2, <2>4, StageByRows
    <3>2. Stage[n] \in {"pending", "processed", "paid"}
      BY <2>3, <2>4, StageByRows
    <3> QED  BY <1>1, <2>4, <3>1, <3>2 DEF AbstractStep, Abstract!Step, Abstract!Issue, Abstract!Exists
  <2>5. CASE n \notin PayrollId
    <3>1. Out' = Out
      BY <2>1, <2>5, StageByRows
    <3> QED  BY <1>1, <3>1 DEF AbstractStep
  <2> QED  BY <2>4, <2>5
<1> QED  BY <1>2, <1>3 DEF InsertPayslip

LEMMA PayslipDeletionIsWithdraw ==
  ASSUME PayrollInv, NEW c \in InFlight, WritePayslipDeletion(c)
  PROVE  AbstractStep
<1> DEFINE slip == calls[c].slip
           n    == payslips[slip].payroll
<1>1. /\ Stage' = Stage
      /\ DOMAIN payslips' = DOMAIN payslips \ {slip}
      /\ \A s \in DOMAIN payslips' : payslips'[s] = payslips[s]
  BY StageByRows DEF WritePayslipDeletion, Without
<1>2. CASE slip \notin DOMAIN payslips
  <2>1. Out' = Out
    BY <1>1, <1>2, StageByRows
  <2> QED  BY <1>1, <2>1 DEF AbstractStep
<1>3. CASE slip \in DOMAIN payslips
  <2>1. \A s \in DOMAIN payslips : payslips[s].payroll = n => s = slip
    BY <1>3 DEF PayrollInv, RowsInv
  <2>2. Out' = Out \ {n}
    BY <1>1, <2>1, StageByRows
  <2>3. n \in PayrollId => n \in Out
    BY <1>3, StageByRows
  <2> HIDE DEF slip, n
  <2>4. CASE n \in PayrollId
    BY <1>1, <2>2, <2>3, <2>4 DEF AbstractStep, Abstract!Step, Abstract!Withdraw
  <2>5. CASE n \notin PayrollId
    BY <1>1, <2>2, <2>5, StageByRows DEF AbstractStep
  <2> QED  BY <2>4, <2>5
<1> QED  BY <1>2, <1>3

LEMMA OthersStutter ==
  ASSUME UNCHANGED written
  PROVE  AbstractStep
BY StageByRows DEF written, AbstractStep

LEMMA EmptyBegins == AuditInit => Abstract!Begin
<1>1. SUFFICES ASSUME AuditInit
               PROVE  Abstract!Begin
  OBVIOUS
<1>2. DOMAIN payrolls = {} /\ DOMAIN payslips = {} /\ payrollSeq = 0
  BY <1>1 DEF AuditInit, Init
<1>3. \A i \in PayrollId : ~(i <= 0)
  BY DEF PayrollId
<1> QED  BY <1>2, <1>3, StageByRows DEF StageIn, Abstract!Begin

\* Of whatever handlers overlap, fail or crash, each payroll only goes forward,
\* from pending over processed to paid, is never back once gone, and has at most
\* one payslip, which does not outlive it.
THEOREM PayrollRefinesLifecycle == AuditSpec => ImplementsLifecycle
<1>1. ASSUME PayrollInv, [AuditNext]_auditVars
      PROVE  AbstractStep
  <2>1. CASE \E c \in Call : Action(c)
    <3>1. PICK c \in Call : Action(c)
      BY <2>1
    <3>2. Writes(c) => c \in InFlight
      BY DEF Writes, InsertPayroll, SetProcessed, SetPaid, WriteDeletion, InsertPayslip,
             WritePayslipDeletion, At, InFlight
    <3>3. CASE Writes(c)
      BY <1>1, <3>2, <3>3, InsertIsAdvance, UpdateIsAdvance, DeletionIsDiscard,
         PayslipIsIssue, PayslipDeletionIsWithdraw DEF Writes
    <3> QED  BY <3>1, <3>3, OthersDoNotWrite, OthersStutter
  <2> QED  BY <1>1, <2>1, NextIsOneOfThree, CrashMoves, OthersStutter DEF Still, written
<1>2. PayrollInv /\ [AuditNext]_auditVars =>
        [\E i \in PayrollId : Abstract!Step(i)]_Abstract!lifecycle
  BY <1>1 DEF AbstractStep, Abstract!lifecycle
<1> QED  BY <1>2, EmptyBegins, PayrollInvariant, PTL
         DEF AuditSpec, ImplementsLifecycle, Abstract!Lifecycle

-----------------------------------------------------------------------------
(* The second part.                                                        *)

-----------------------------------------------------------------------------
(* Sums of natural numbers.                                                *)

LEMMA SumOfNats ==
  ASSUME NEW f, IsFiniteSet(DOMAIN f), f \in [DOMAIN f -> Nat]
  PROVE  IsColumn(f) /\ SumOf(f) \in Nat
<1>1. IsColumn(f)
  BY DEF IsColumn
<1> DEFINE z == [x \in {} |-> 0]
<1>2. IsColumn(z) /\ SumOf(z) = 0 /\ \A x : Term(z, x) = 0
  BY SumOfEmpty, FS_EmptySet DEF IsColumn, Term
<1>3. \A x : Term(z, x) <= Term(f, x)
  BY <1>2 DEF Term
<1> HIDE DEF z
<1>4. SumOf(z) <= SumOf(f) /\ SumOf(f) \in Int
  BY <1>1, <1>2, <1>3, SumOfIsInt, SumOfMonotonic
<1> QED  BY <1>1, <1>2, <1>4

LEMMA HoursOfIsNat ==
  ASSUME NEW rows \in Seq(OvertimeType)
  PROVE  HoursOf(rows) \in Nat
<1> DEFINE f == [i \in DOMAIN rows |-> rows[i].hours]
<1>1. IsFiniteSet(DOMAIN f)
  BY IdsAreFinite
<1>2. f \in [DOMAIN f -> Nat]
  <2>1. \A i \in DOMAIN rows : rows[i] \in OvertimeType
    OBVIOUS
  <2>2. \A o \in OvertimeType : o.hours \in Nat
    BY DEF OvertimeType
  <2> QED  BY <2>1, <2>2
<1> HIDE DEF f
<1>3. SumOf(f) \in Nat
  BY <1>1, <1>2, SumOfNats
<1> QED  BY <1>3 DEF HoursOf, f

LEMMA ListedHours == HoursOf(ListedOvertime) \in Nat
<1>1. ListedOvertime \in Seq(OvertimeType)
  BY PayrollAssumption DEF ListedOvertime, Least
<1> QED  BY <1>1, HoursOfIsNat

-----------------------------------------------------------------------------
(* The sums of a payslip.                                                  *)

LEMMA CapsAreNat == KesehatanMaxSalary \in Nat /\ JpMaxSalary \in Nat /\ Million \in Nat
BY SMT DEF KesehatanMaxSalary, JpMaxSalary, Million

LEMMA RoundedIsNat ==
  ASSUME NEW n \in Nat, NEW d \in Nat, d > 0
  PROVE  Rounded(n, d) \in Nat
<1>1. 2 * n + d \in Nat /\ 2 * d \in Nat /\ 2 * d > 0
  OBVIOUS
<1> QED  BY <1>1 DEF Rounded

LEMMA ShareIsNat ==
  ASSUME NEW amount \in Nat, NEW rate \in Nat
  PROVE  Share(amount, rate) \in Nat
<1>1. amount \div 10000 \in Nat /\ amount % 10000 \in Nat
  OBVIOUS
<1>2. (amount \div 10000) * rate \in Nat /\ (amount % 10000) * rate \in Nat
  BY <1>1
<1>3. Rounded((amount % 10000) * rate, 10000) \in Nat
  BY <1>2, RoundedIsNat
<1> QED  BY <1>2, <1>3 DEF Share

LEMMA BracketsAreOrdered ==
  ASSUME NEW i \in DOMAIN TaxBrackets
  PROVE  /\ TaxBrackets[i].rate \in Nat
         /\ TaxBrackets[i].limit \in Nat /\ PreviousLimit(i) \in Nat
         /\ PreviousLimit(i) < TaxBrackets[i].limit
<1>1. i \in 1 .. 5
  BY DEF TaxBrackets
<1> QED  BY <1>1 DEF TaxBrackets, PreviousLimit

LEMMA InBracketIsNat ==
  ASSUME NEW amount \in Nat, NEW i \in DOMAIN TaxBrackets
  PROVE  InBracket(amount, i) \in Nat
<1>1. PICK low \in Nat, high \in Nat :
        low = PreviousLimit(i) /\ high = TaxBrackets[i].limit /\ low < high
  BY BracketsAreOrdered
<1>2. PICK m \in Nat : m = Million /\ m > 0
  BY SMT DEF Million
<1>3. amount \div m >= low => amount - low * m \in Nat
  <2>1. PICK q \in Nat, r \in Nat : q = amount \div m /\ amount = q * m + r
    BY <1>2
  <2>2. PICK below \in Nat, whole \in Nat : below = low * m /\ whole = q * m
    BY <1>2
  <2>3. q >= low => whole >= below
    BY <1>1, <1>2, <2>2
  <2>4. amount = whole + r
    BY <2>1, <2>2
  <2>5. q >= low => amount - below \in Nat
    BY <2>3, <2>4
  <2> QED  BY <2>1, <2>2, <2>5
<1>4. (high - low) * m \in Nat
  BY <1>1, <1>2
<1> QED  BY <1>1, <1>2, <1>3, <1>4 DEF InBracket

LEMMA ProgressiveTaxIsNat ==
  ASSUME NEW amount \in Nat
  PROVE  ProgressiveTax(amount) \in Nat
<1> DEFINE whole == [i \in DOMAIN TaxBrackets |->
                       (InBracket(amount, i) \div 10000) * TaxBrackets[i].rate]
           part  == [i \in DOMAIN TaxBrackets |->
                       (InBracket(amount, i) % 10000) * TaxBrackets[i].rate]
<1>1. \A x, r \in Nat : (x \div 10000) * r \in Nat /\ (x % 10000) * r \in Nat
  <2> SUFFICES ASSUME NEW x \in Nat, NEW r \in Nat
               PROVE  (x \div 10000) * r \in Nat /\ (x % 10000) * r \in Nat
    OBVIOUS
  <2>1. x \div 10000 \in Nat /\ x % 10000 \in Nat
    OBVIOUS
  <2> QED  BY <2>1
<1>2. IsFiniteSet(DOMAIN TaxBrackets)
  <2>1. DOMAIN TaxBrackets = 1 .. 5
    BY DEF TaxBrackets
  <2>2. IsFiniteSet(1 .. 5)
    BY IdsAreFinite
  <2> QED  BY <2>1, <2>2
<1>3. whole \in [DOMAIN whole -> Nat] /\ part \in [DOMAIN part -> Nat]
  BY <1>1, InBracketIsNat, BracketsAreOrdered
<1>4. DOMAIN whole = DOMAIN TaxBrackets /\ DOMAIN part = DOMAIN TaxBrackets
  OBVIOUS
<1> HIDE DEF whole, part
<1>5. SumOf(whole) \in Nat /\ SumOf(part) \in Nat
  BY <1>2, <1>3, <1>4, SumOfNats
<1>6. Rounded(SumOf(part), 10000) \in Nat
  BY <1>5, RoundedIsNat
<1>7. ProgressiveTax(amount) = SumOf(whole) + Rounded(SumOf(part), 10000)
  BY DEF ProgressiveTax, whole, part
<1> QED  BY <1>5, <1>6, <1>7

LEMMA PTKPIsNat ==
  ASSUME NEW married \in BOOLEAN, NEW dependents \in Nat
  PROVE  PTKP(married, dependents) \in Nat
<1>1. CountedDependents(dependents) + 1 \in 1 .. 4
  BY DEF CountedDependents, Least
<1> QED  BY SMT, <1>1 DEF PTKP, PTKPConfig

LEMMA MonthlyTaxIsNat ==
  ASSUME NEW gross \in Nat, NEW married \in BOOLEAN, NEW dependents \in Nat
  PROVE  MonthlyTax(gross, married, dependents) \in Nat
<1>1. TaxableIncome(gross, married, dependents) \in Nat
  BY PTKPIsNat DEF TaxableIncome
<1> QED  BY <1>1, ProgressiveTaxIsNat, RoundedIsNat DEF MonthlyTax

AddsUp(b, base, bonuses, terms) ==
  /\ b.tax \in Nat /\ b.kesehatan \in Nat /\ b.ketenagakerjaan \in Nat
  /\ b.other \in Nat /\ b.takeHome \in Int
  /\ b.takeHome + (b.tax + b.kesehatan + b.ketenagakerjaan + b.other)
       = base + bonuses + terms.allowances

LEMMA BreakdownAddsUp ==
  ASSUME NEW base \in Nat, NEW bonuses \in Nat, NEW married \in BOOLEAN,
         NEW terms \in TermsType
  PROVE  AddsUp(Breakdown(base, bonuses, married, terms), base, bonuses, terms)
<1>1. terms.allowances \in Nat /\ terms.other \in Nat /\ terms.dependents \in Nat
  BY DEF TermsType
<1>2. PICK gross \in Nat : /\ gross = MonthlyGross(base, bonuses, terms.allowances)
                           /\ gross = base + bonuses + terms.allowances
  BY <1>1 DEF MonthlyGross
<1>3. PICK tax \in Nat : tax = MonthlyTax(gross, married, terms.dependents)
  BY <1>1, MonthlyTaxIsNat
<1>4. PICK kes \in Nat : kes = Kesehatan(base)
  <2>1. Least(base, KesehatanMaxSalary) \in Nat
    BY CapsAreNat DEF Least
  <2> QED  BY <2>1, ShareIsNat DEF Kesehatan
<1>5. PICK tk \in Nat : tk = Ketenagakerjaan(base)
  <2>1. Least(base, JpMaxSalary) \in Nat
    BY CapsAreNat DEF Least
  <2>2. Share(base, 200) \in Nat
    BY ShareIsNat
  <2>3. Share(Least(base, JpMaxSalary), 100) \in Nat
    BY <2>1, ShareIsNat
  <2> QED  BY <2>2, <2>3 DEF Ketenagakerjaan, Jht, Jp
<1>6. Breakdown(base, bonuses, married, terms)
        = [tax |-> tax, kesehatan |-> kes, ketenagakerjaan |-> tk, other |-> terms.other,
           takeHome |-> gross - (tax + kes + tk + terms.other)]
  BY <1>2, <1>3, <1>4, <1>5 DEF Breakdown
<1> QED  BY <1>1, <1>2, <1>6 DEF AddsUp

-----------------------------------------------------------------------------
(* The records of calls.                                                   *)

LEMMA CallByLabel ==
  ASSUME NEW call \in CallRecord
  PROVE  /\ call.pc \in {"checkPeriod", "readSalary"} =>
              call \in [pc : {"checkPeriod", "readSalary"}, job : Job, emp : Employee]
         /\ call.pc = "readOvertime" =>
              call \in [pc : {"readOvertime"}, job : Job, emp : Employee, base : Amount]
         /\ call.pc = "insertPayroll" =>
              call \in [pc : {"insertPayroll"}, job : Job, emp : Employee,
                        base : Amount, hours : Nat]
         /\ call.pc = "reselect" =>
              call \in [pc : {"reselect"}, job : Job, emp : Employee, id : PayrollId]
         /\ call.pc \in {"findUnprocessed", "setProcessed"} =>
              call \in [pc : {"findUnprocessed", "setProcessed"}, id : PayrollId,
                        todo : SUBSET PayrollId]
         /\ call.pc \in {"checkPayslip", "insertPayslip"} =>
              call \in [pc : {"checkPayslip", "insertPayslip"}, id : PayrollId,
                        terms : Terms, base : Amount, bonuses : Nat]
         /\ call.pc \in ItemLabels =>
              call \in [pc : {"readBack", "insertItems"}, slip : PayslipId, row : PayslipRow]
BY DEF CallRecord, ItemLabels

LEMMA RecordsOfCalls ==
  /\ \A job \in Job, e \in Employee :
       [pc |-> "checkPeriod", job |-> job, emp |-> e] \in CallRecord
  /\ \A job \in Job, e \in Employee :
       [pc |-> "readSalary", job |-> job, emp |-> e] \in CallRecord
  /\ \A job \in Job, e \in Employee, a \in Amount :
       [pc |-> "readOvertime", job |-> job, emp |-> e, base |-> a] \in CallRecord
  /\ \A job \in Job, e \in Employee, a \in Amount, h \in Nat :
       [pc |-> "insertPayroll", job |-> job, emp |-> e, base |-> a, hours |-> h]
         \in CallRecord
  /\ \A job \in Job, e \in Employee, i \in PayrollId :
       [pc |-> "reselect", job |-> job, emp |-> e, id |-> i] \in CallRecord
BY DEF CallRecord

LEMMA RecordsOfOtherCalls ==
  /\ \A i \in PayrollId, ids \in SUBSET PayrollId,
        pc \in {"findUnprocessed", "setProcessed"} :
       [pc |-> pc, id |-> i, todo |-> ids] \in CallRecord
  /\ \A i \in PayrollId, pc \in {"setPaid", "deletePayroll"} :
       [pc |-> pc, id |-> i] \in CallRecord
  /\ \A i \in PayrollId, t \in Terms, a \in Amount, b \in Nat,
        pc \in {"checkPayslip", "insertPayslip"} :
       [pc |-> pc, id |-> i, terms |-> t, base |-> a, bonuses |-> b] \in CallRecord
  /\ \A s \in PayslipId, row \in PayslipRow, pc \in {"readBack", "insertItems"} :
       [pc |-> pc, slip |-> s, row |-> row] \in CallRecord
  /\ \A s \in PayslipId : [pc |-> "deletePayslip", slip |-> s] \in CallRecord
BY DEF CallRecord

\* What a call may still insert.
LEMMA AheadOfLabels ==
  ASSUME NEW call \in CallRecord
  PROVE  /\ Ahead(call) \in Nat
         /\ call.pc \in JobLabels => IsFiniteSet(call.job.todo) /\ Cardinality(call.job.todo) \in Nat
         /\ call.pc \in JobLabels \ {"reselect"} => Ahead(call) = 1 + Cardinality(call.job.todo)
         /\ call.pc = "reselect" => Ahead(call) = Cardinality(call.job.todo)
         /\ call.pc \notin JobLabels => Ahead(call) = 0
<1>1. call.pc \in JobLabels => call.job \in Job
  BY CallByLabel DEF JobLabels
<1>2. call.pc \in JobLabels => call.job.todo \in SUBSET Employee
  BY <1>1 DEF Job
<1>3. call.pc \in JobLabels => IsFiniteSet(call.job.todo) /\ Cardinality(call.job.todo) \in Nat
  BY <1>2, PayrollAssumption, FS_Subset, FS_CardinalityType
<1> QED  BY <1>3 DEF Ahead, JobLabels

-----------------------------------------------------------------------------
(* The types, and the bounds on ids.                                       *)

TypesInv ==
  /\ salary \in [Employee -> Amount \cup {None}]
  /\ IsTable(payrolls, Issued, PayrollRow)
  /\ IsTable(payslips, 1 .. payslipSeq, PayslipRow)
  /\ DOMAIN items \subseteq DOMAIN payslips
  /\ IsTable(calls, Call, CallRecord)

\* Whoever may still insert a row has an id to insert it with.
BoundsInv ==
  /\ changes \in Nat /\ mishaps \in Nat /\ changes + mishaps <= MaxUpsets
  /\ payrollSeq + Reserved <= MaxPayrolls
  /\ payslipSeq + Cardinality(Generating) <= MaxPayslips

PayInv == PayrollInv /\ TypesInv /\ BoundsInv

\* The column that Reserved adds up.
Rows == [c \in InFlight |-> Ahead(calls[c])]

LEMMA RowsAreNats ==
  ASSUME PayrollInv, TypesInv
  PROVE  IsColumn(Rows) /\ Reserved = SumOf(Rows) /\ Reserved \in Nat
<1>1. IsFiniteSet(DOMAIN Rows)
  BY DEF PayrollInv, CallsInv, Rows
<1>2. \A c \in InFlight : Ahead(calls[c]) \in Nat
  BY AheadOfLabels, RowOfTable DEF TypesInv, InFlight
<1>3. Rows \in [DOMAIN Rows -> Nat]
  BY <1>2 DEF Rows
<1>4. Reserved = SumOf(Rows)
  BY DEF Reserved, Rows, InFlight
<1> QED  BY <1>1, <1>3, <1>4, SumOfNats

LEMMA RowsOfOne ==
  ASSUME PayrollInv, TypesInv, NEW c \in InFlight
  PROVE  Ahead(calls[c]) \in Nat /\ Ahead(calls[c]) <= Reserved
<1>1. IsColumn(Rows) /\ Reserved = SumOf(Rows) /\ Reserved \in Nat
  BY RowsAreNats
<1>2. Term(Rows, c) = Ahead(calls[c]) /\ Ahead(calls[c]) \in Nat
  BY AheadOfLabels, RowOfTable DEF Rows, Term, TypesInv, InFlight
<1>3. /\ IsColumn(Drop(Rows, c))
      /\ SumOf(Rows) = Term(Rows, c) + SumOf(Drop(Rows, c))
  BY <1>1, SumOfTerm
<1>4. Drop(Rows, c) \in [DOMAIN Drop(Rows, c) -> Nat] /\ IsFiniteSet(DOMAIN Drop(Rows, c))
  BY <1>3, AheadOfLabels, RowOfTable DEF Drop, Rows, TypesInv, InFlight, IsColumn
<1>5. SumOf(Drop(Rows, c)) \in Nat
  BY <1>4, SumOfNats
<1> QED  BY <1>1, <1>2, <1>3, <1>5

LEMMA GeneratingIsFinite ==
  ASSUME PayrollInv
  PROVE  IsFiniteSet(Generating) /\ Cardinality(Generating) \in Nat
BY FS_Subset, FS_CardinalityType DEF PayrollInv, CallsInv, Generating, InFlight

\* The ids that exist are those the bounds allow, and a call about to insert a
\* row has one left.
LEMMA IdsLast ==
  ASSUME PayInv
  PROVE  /\ payrollSeq \in 0 .. MaxPayrolls /\ payslipSeq \in 0 .. MaxPayslips
         /\ Issued \subseteq PayrollId /\ DOMAIN payslips \subseteq PayslipId
         /\ \A c : At(c, "insertPayroll") => payrollSeq + 1 \in PayrollId
         /\ \A c : At(c, "insertPayslip") => payslipSeq + 1 \in PayslipId
<1>1. /\ payrollSeq \in Nat /\ payslipSeq \in Nat
      /\ MaxPayrolls \in Nat /\ MaxPayslips \in Nat
      /\ DOMAIN payslips \subseteq 1 .. payslipSeq
  BY PayrollAssumption DEF PayInv, PayrollInv, RowsInv
<1>2. /\ Reserved \in Nat /\ payrollSeq + Reserved <= MaxPayrolls
      /\ Cardinality(Generating) \in Nat
      /\ payslipSeq + Cardinality(Generating) <= MaxPayslips
  BY RowsAreNats, GeneratingIsFinite DEF PayInv, BoundsInv
<1>3. ASSUME NEW c, At(c, "insertPayroll")
      PROVE  payrollSeq + 1 \in PayrollId
  <2>1. c \in InFlight /\ calls[c] \in CallRecord /\ calls[c].pc \in JobLabels \ {"reselect"}
    BY <1>3, RowOfTable DEF At, InFlight, PayInv, TypesInv, JobLabels
  <2>2. Ahead(calls[c]) >= 1
    BY <2>1, AheadOfLabels
  <2>3. Ahead(calls[c]) \in Nat /\ Ahead(calls[c]) <= Reserved
    BY <2>1, RowsOfOne DEF PayInv
  <2> QED  BY <1>1, <1>2, <2>2, <2>3 DEF PayrollId
<1>4. ASSUME NEW c, At(c, "insertPayslip")
      PROVE  payslipSeq + 1 \in PayslipId
  <2>1. Generating # {}
    BY <1>4 DEF Generating, At
  <2>2. Cardinality(Generating) # 0
    BY <2>1, GeneratingIsFinite, FS_EmptySet DEF PayInv
  <2> QED  BY <1>1, <1>2, <2>2 DEF PayslipId
<1> QED  BY <1>1, <1>2, <1>3, <1>4 DEF Issued, PayrollId, PayslipId

-----------------------------------------------------------------------------
(* What a handler makes of its call.                                       *)

TypedMove(c) ==
  (\E rec \in CallRecord : calls' = Put(calls, c, rec)) \/ calls' = Drop(calls, c)

LEMMA TakesNextIsTyped ==
  ASSUME NEW c, NEW job \in Job, TakesNext(c, job)
  PROVE  TypedMove(c)
<1>1. job.todo \subseteq Employee
  BY DEF Job
<1>2. CASE calls' = Drop(calls, c)
  BY <1>2 DEF TypedMove
<1>3. CASE calls' # Drop(calls, c)
  <2>1. PICK e \in job.todo, rest \in Job :
          calls' = Put(calls, c, [pc |-> "checkPeriod", emp |-> e, job |-> rest])
    BY <1>3 DEF TakesNext
  <2>2. [pc |-> "checkPeriod", emp |-> e, job |-> rest] \in CallRecord
    BY <1>1, RecordsOfCalls
  <2> QED  BY <2>1, <2>2 DEF TypedMove
<1> QED  BY <1>2, <1>3

LEMMA TakesOneIsTyped ==
  ASSUME NEW c, NEW ids \in SUBSET PayrollId, NextPayroll(c, ids)
  PROVE  TypedMove(c)
<1>1. CASE calls' = Drop(calls, c)
  BY <1>1 DEF TypedMove
<1>2. CASE calls' # Drop(calls, c)
  <2>1. PICK i \in ids :
          calls' = Put(calls, c, [pc |-> "findUnprocessed", id |-> i, todo |-> ids \ {i}])
    BY <1>2, NextPayrollTakesOne DEF TakesOne
  <2>2. [pc |-> "findUnprocessed", id |-> i, todo |-> ids \ {i}] \in CallRecord
    BY RecordsOfOtherCalls
  <2> QED  BY <2>1, <2>2 DEF TypedMove
<1> QED  BY <1>1, <1>2

LEMMA NewCallTyped ==
  ASSUME PayInv, NEW c, NewCall(c)
  PROVE  TypedMove(c)
<1>1. /\ DOMAIN payrolls \subseteq PayrollId /\ DOMAIN payslips \subseteq PayslipId
      /\ 1 .. payrollSeq \subseteq PayrollId
  BY IdsLast DEF PayInv, PayrollInv, RowsInv, Issued
<1>2. CASE CreatePayroll(c) \/ BulkGeneratePayroll(c)
  <2>1. PICK period \in Period, extra \in Extra, employees \in SUBSET Employee :
          StartJob(c, period, extra, employees)
    BY <1>2 DEF CreatePayroll, BulkGeneratePayroll
  <2>2. PICK job \in Job :
          job = [period |-> period, extra |-> extra, todo |-> employees, failed |-> {},
                 target |-> employees]
    BY DEF Job
  <2> QED  BY <2>1, <2>2, NextEmployeeTakesNext, TakesNextIsTyped DEF StartJob
<1>3. CASE ProcessPayrolls(c)
  <2>1. PICK ids \in SUBSET (1 .. payrollSeq) : NextPayroll(c, ids)
    BY <1>3 DEF ProcessPayrolls
  <2> QED  BY <1>1, <2>1, TakesOneIsTyped
<1>4. CASE MarkAsPaid(c) \/ DeletePayroll(c)
  <2>1. PICK i \in DOMAIN payrolls, pc \in {"setPaid", "deletePayroll"} :
          calls' = Put(calls, c, [pc |-> pc, id |-> i])
    BY <1>4 DEF MarkAsPaid, DeletePayroll, Goto
  <2>2. [pc |-> pc, id |-> i] \in CallRecord
    BY <1>1, RecordsOfOtherCalls
  <2> QED  BY <2>1, <2>2 DEF TypedMove
<1>5. CASE GeneratePayslip(c)
  <2>1. PICK i \in DOMAIN payrolls, terms \in Terms :
          calls' = Put(calls, c, [pc |-> "checkPayslip", id |-> i, terms |-> terms,
                                  base |-> payrolls[i].base, bonuses |-> payrolls[i].bonuses])
    BY <1>5 DEF GeneratePayslip, Goto
  <2>2. payrolls[i] \in PayrollRow
    BY RowOfTable DEF PayInv, TypesInv
  <2>3. payrolls[i].base \in Amount /\ payrolls[i].bonuses \in Nat
    BY <2>2 DEF PayrollRow
  <2>4. [pc |-> "checkPayslip", id |-> i, terms |-> terms, base |-> payrolls[i].base,
         bonuses |-> payrolls[i].bonuses] \in CallRecord
    BY <1>1, <2>3, RecordsOfOtherCalls
  <2> QED  BY <2>1, <2>4 DEF TypedMove
<1>6. CASE DeletePayslip(c)
  <2>1. PICK s \in DOMAIN payslips : calls' = Put(calls, c, [pc |-> "deletePayslip", slip |-> s])
    BY <1>6 DEF DeletePayslip, Goto
  <2>2. [pc |-> "deletePayslip", slip |-> s] \in CallRecord
    BY <1>1, RecordsOfOtherCalls
  <2> QED  BY <2>1, <2>2 DEF TypedMove
<1> QED  BY <1>2, <1>3, <1>4, <1>5, <1>6 DEF NewCall

\* The fields of a payslip that is about to be inserted.
LEMMA NewPayslipAddsUp ==
  ASSUME PayInv, NEW c, At(c, "insertPayslip"), calls[c].id \in DOMAIN payrolls
  PROVE  /\ NewPayslip(calls[c]) \in PayslipRow
         /\ NewPayslip(calls[c]).payroll = calls[c].id
         /\ NewPayslip(calls[c]).base = calls[c].base
         /\ NewPayslip(calls[c]).bonuses = calls[c].bonuses
         /\ LET s == NewPayslip(calls[c])
            IN  s.takeHome + (s.tax + s.kesehatan + s.ketenagakerjaan + s.other)
                  = s.base + s.bonuses + s.terms.allowances
<1>1. calls[c] \in CallRecord /\ calls[c].pc = "insertPayslip"
  BY RowOfTable DEF At, PayInv, TypesInv
<1>2. /\ calls[c].id \in PayrollId /\ calls[c].terms \in Terms
      /\ calls[c].base \in Amount /\ calls[c].bonuses \in Nat
  BY <1>1, CallByLabel
<1>3. calls[c].base \in Nat /\ calls[c].terms \in TermsType
  BY <1>2, PayrollAssumption
<1>4. PICK married \in BOOLEAN : married = (payrolls[calls[c].id].emp \in Married)
  <2>1. CASE payrolls[calls[c].id].emp \in Married
    <3>1. TRUE = (payrolls[calls[c].id].emp \in Married)
      BY <2>1
    <3> QED  BY <3>1, Zenon
  <2>2. CASE payrolls[calls[c].id].emp \notin Married
    <3>1. FALSE = (payrolls[calls[c].id].emp \in Married)
      BY <2>2
    <3> QED  BY <3>1, Zenon
  <2> QED  BY <2>1, <2>2
<1>5. PICK b : b = Breakdown(calls[c].base, calls[c].bonuses, married, calls[c].terms)
  OBVIOUS
<1>6. /\ b.tax \in Nat /\ b.kesehatan \in Nat /\ b.ketenagakerjaan \in Nat
      /\ b.other \in Nat /\ b.takeHome \in Int
      /\ b.takeHome + (b.tax + b.kesehatan + b.ketenagakerjaan + b.other)
           = calls[c].base + calls[c].bonuses + calls[c].terms.allowances
  <2>1. AddsUp(b, calls[c].base, calls[c].bonuses, calls[c].terms)
    BY <1>2, <1>3, <1>5, BreakdownAddsUp
  <2> QED  BY <2>1 DEF AddsUp
<1>7. NewPayslip(calls[c])
        = [payroll |-> calls[c].id, base |-> calls[c].base, bonuses |-> calls[c].bonuses,
           terms |-> calls[c].terms, tax |-> b.tax, kesehatan |-> b.kesehatan,
           ketenagakerjaan |-> b.ketenagakerjaan, other |-> b.other,
           takeHome |-> b.takeHome]
  BY <1>4, <1>5 DEF NewPayslip
<1>8. NewPayslip(calls[c]) \in PayslipRow
  BY <1>2, <1>6, <1>7 DEF PayslipRow
<1> QED  BY <1>6, <1>7, <1>8

LEMMA JobStepTyped ==
  ASSUME PayInv, NEW c \in InFlight,
         \/ CheckPeriod(c) \/ ReadSalary(c) \/ ReadOvertime(c) \/ InsertPayroll(c)
         \/ Reselect(c)
         \/ Fail(c) /\ calls[c].pc \in JobLabels
  PROVE  TypedMove(c)
<1>1. calls[c] \in CallRecord
  BY RowOfTable DEF PayInv, TypesInv, InFlight
<1>2. JobShape(calls[c]) /\ calls[c].pc \in JobLabels /\ (GoesOn(c) \/ Resumes(c))
  BY JobStepMoves DEF PayInv
<1>3. CASE Resumes(c)
  BY <1>3, TakesNextIsTyped DEF Resumes, Resumed
<1>4. CASE GoesOn(c)
  <2>1. calls[c].job \in Job /\ calls[c].emp \in Employee
    BY <1>2 DEF JobShape
  <2>2. CASE CheckPeriod(c)
    <3>1. calls[c] \in [pc : {"checkPeriod", "readSalary"}, job : Job, emp : Employee]
      BY <1>1, <2>2, CallByLabel DEF CheckPeriod, At
    <3>2. calls' = Put(calls, c, [calls[c] EXCEPT !.pc = "readSalary"])
      <4>1. ~GiveUp(c)
        <5>1. SUFFICES ASSUME GiveUp(c) PROVE FALSE
          OBVIOUS
        <5>2. PICK job : TakesNext(c, job)
          BY <1>2, <5>1, GiveUpTakesNext
        <5>3. c \notin DOMAIN calls' \/ calls'[c].pc = "checkPeriod"
          BY <5>2 DEF TakesNext, Put, Drop
        <5> QED  BY <1>4, <2>2, <5>3 DEF GoesOn, SameJob, InFlight, CheckPeriod, At
      <4> QED  BY <2>2, <4>1 DEF CheckPeriod, Goto
    <3>3. [calls[c] EXCEPT !.pc = "readSalary"]
            = [pc |-> "readSalary", job |-> calls[c].job, emp |-> calls[c].emp]
      BY <3>1
    <3> QED  BY <2>1, <3>2, <3>3, RecordsOfCalls DEF TypedMove
  <2>3. CASE ReadSalary(c)
    <3>1. CASE GiveUp(c)
      <4>1. PICK job : Resumed(calls[c], job) /\ TakesNext(c, job)
        BY <1>2, <3>1, GiveUpTakesNext
      <4> QED  BY <4>1, TakesNextIsTyped DEF Resumed
    <3>2. CASE ~GiveUp(c)
      <4>1. /\ salary[calls[c].emp] # None
            /\ calls' = Put(calls, c, [pc |-> "readOvertime", job |-> calls[c].job,
                                       emp |-> calls[c].emp,
                                       base |-> salary[calls[c].emp]])
        BY <2>3, <3>2 DEF ReadSalary, Goto
      <4>2. salary[calls[c].emp] \in Amount
        BY <2>1, <4>1 DEF PayInv, TypesInv
      <4> QED  BY <2>1, <4>1, <4>2, RecordsOfCalls DEF TypedMove
    <3> QED  BY <3>1, <3>2
  <2>4. CASE ReadOvertime(c) \/ (Fail(c) /\ calls[c].pc = "readOvertime")
    <3>1. PICK hours \in Nat : GoInsert(c, hours)
      BY <2>4, ListedHours DEF ReadOvertime, Fail
    <3>2. calls[c].pc = "readOvertime"
      BY <2>4 DEF ReadOvertime, At
    <3>3. calls[c].base \in Amount
      BY <1>1, <3>2, CallByLabel
    <3> QED  BY <2>1, <3>1, <3>3, RecordsOfCalls DEF GoInsert, Goto, TypedMove
  <2>5. CASE InsertPayroll(c)
    <3>1. payrollSeq' = payrollSeq + 1 /\ At(c, "insertPayroll")
          /\ calls' = Put(calls, c, [pc |-> "reselect", job |-> calls[c].job,
                                     emp |-> calls[c].emp, id |-> payrollSeq'])
      BY <2>5 DEF InsertPayroll, Goto
    <3>2. payrollSeq' \in PayrollId
      BY <3>1, IdsLast
    <3> QED  BY <2>1, <3>1, <3>2, RecordsOfCalls DEF TypedMove
  <2>6. CASE Reselect(c) \/ (Fail(c) /\ calls[c].pc # "readOvertime")
    <3>1. PICK job \in Job : NextEmployee(c, job)
      <4>1. CASE GiveUp(c)
        <5>1. PICK job \in Job : job = [calls[c].job EXCEPT !.failed = @ \cup {calls[c].emp}]
          BY <2>1 DEF Job
        <5> QED  BY <4>1, <5>1 DEF GiveUp
      <4>2. CASE ~GiveUp(c)
        BY <1>2, <2>1, <2>6, <4>2 DEF Reselect, Fail, JobLabels
      <4> QED  BY <4>1, <4>2
    <3> QED  BY <3>1, NextEmployeeTakesNext, TakesNextIsTyped
  <2> QED  BY <2>2, <2>3, <2>4, <2>5, <2>6
<1> QED  BY <1>2, <1>3, <1>4

LEMMA LoopStepTyped ==
  ASSUME PayInv, NEW c \in InFlight,
         \/ FindUnprocessed(c) \/ SetProcessed(c)
         \/ Fail(c) /\ calls[c].pc \in LoopLabels
  PROVE  TypedMove(c)
<1>1. calls[c] \in CallRecord /\ calls[c].pc \in {"findUnprocessed", "setProcessed"}
  BY RowOfTable DEF PayInv, TypesInv, InFlight, LoopLabels, FindUnprocessed, SetProcessed, At
<1>2. calls[c] \in [pc : {"findUnprocessed", "setProcessed"}, id : PayrollId,
                    todo : SUBSET PayrollId]
  BY <1>1, CallByLabel
<1>3. CASE NextPayroll(c, calls[c].todo)
  <2>1. PICK ids \in SUBSET PayrollId : ids = calls[c].todo
    BY <1>2
  <2> QED  BY <1>3, <2>1, TakesOneIsTyped
<1>4. CASE calls' = Put(calls, c, [calls[c] EXCEPT !.pc = "setProcessed"])
  <2>1. [calls[c] EXCEPT !.pc = "setProcessed"]
          = [pc |-> "setProcessed", id |-> calls[c].id, todo |-> calls[c].todo]
    BY <1>2
  <2>2. calls[c].id \in PayrollId /\ calls[c].todo \in SUBSET PayrollId
    BY <1>2
  <2>3. [pc |-> "setProcessed", id |-> calls[c].id, todo |-> calls[c].todo] \in CallRecord
    BY <2>2, RecordsOfOtherCalls
  <2> QED  BY <1>4, <2>1, <2>3 DEF TypedMove
<1> QED  BY <1>1, <1>3, <1>4 DEF FindUnprocessed, SetProcessed, Fail, Goto

LEMMA LastStepTyped ==
  ASSUME PayInv, NEW c \in InFlight,
         \/ SetPaid(c) \/ WriteDeletion(c) \/ PayslipStep(c)
         \/ Fail(c) /\ calls[c].pc \notin JobLabels \cup LoopLabels
  PROVE  TypedMove(c)
<1>1. CASE Return(c)
  BY <1>1 DEF Return, TypedMove
<1>2. CASE CheckPayslip(c) /\ ~Return(c)
  <2>1. /\ calls[c].pc = "checkPayslip" /\ calls[c] \in CallRecord
        /\ calls' = Put(calls, c, [calls[c] EXCEPT !.pc = "insertPayslip"])
    BY <1>2, RowOfTable DEF CheckPayslip, At, Goto, PayInv, TypesInv
  <2>2. calls[c] \in [pc : {"checkPayslip", "insertPayslip"}, id : PayrollId,
                      terms : Terms, base : Amount, bonuses : Nat]
    BY <2>1, CallByLabel
  <2>3. [calls[c] EXCEPT !.pc = "insertPayslip"]
          = [pc |-> "insertPayslip", id |-> calls[c].id, terms |-> calls[c].terms,
             base |-> calls[c].base, bonuses |-> calls[c].bonuses]
    BY <2>2
  <2>4. /\ calls[c].id \in PayrollId /\ calls[c].terms \in Terms
        /\ calls[c].base \in Amount /\ calls[c].bonuses \in Nat
    BY <2>2
  <2>5. [pc |-> "insertPayslip", id |-> calls[c].id, terms |-> calls[c].terms,
         base |-> calls[c].base, bonuses |-> calls[c].bonuses] \in CallRecord
    BY <2>4, RecordsOfOtherCalls
  <2> QED  BY <2>1, <2>3, <2>5 DEF TypedMove
<1>3. CASE InsertPayslip(c) /\ ~Return(c)
  <2>1. /\ At(c, "insertPayslip") /\ calls[c].id \in DOMAIN payrolls
        /\ payslipSeq' = payslipSeq + 1
        /\ calls' = Put(calls, c, [pc |-> "readBack", slip |-> payslipSeq',
                                   row |-> NewPayslip(calls[c])])
    BY <1>3 DEF InsertPayslip, AcceptsPayslip, Goto
  <2>2. payslipSeq' \in PayslipId /\ NewPayslip(calls[c]) \in PayslipRow
    BY <2>1, IdsLast, NewPayslipAddsUp
  <2>3. [pc |-> "readBack", slip |-> payslipSeq', row |-> NewPayslip(calls[c])]
          \in CallRecord
    BY <2>2, RecordsOfOtherCalls
  <2> QED  BY <2>1, <2>3 DEF TypedMove
<1>4. CASE SetPaid(c) \/ WriteDeletion(c) \/ InsertItems(c) \/ WritePayslipDeletion(c)
  BY <1>1, <1>4 DEF SetPaid, WriteDeletion, InsertItems, WritePayslipDeletion
<1>5. CASE Fail(c) /\ calls[c].pc \notin JobLabels \cup LoopLabels
  BY <1>1, <1>5 DEF Fail, JobLabels, LoopLabels
<1>6. CASE ReadBack(c) /\ ~Return(c)
  <2>1. /\ calls[c].pc = "readBack" /\ calls[c] \in CallRecord
        /\ calls' = Put(calls, c, [pc |-> "insertItems", slip |-> calls[c].slip,
                                   row |-> calls[c].row])
    BY <1>6, RowOfTable DEF ReadBack, At, Goto, PayInv, TypesInv
  <2>2. calls[c].slip \in PayslipId /\ calls[c].row \in PayslipRow
    BY <2>1, CallByLabel DEF ItemLabels
  <2>3. [pc |-> "insertItems", slip |-> calls[c].slip, row |-> calls[c].row] \in CallRecord
    BY <2>2, RecordsOfOtherCalls
  <2> QED  BY <2>1, <2>3 DEF TypedMove
<1> QED  BY <1>1, <1>2, <1>3, <1>4, <1>5, <1>6 DEF PayslipStep

LEMMA ActionTyped ==
  ASSUME PayInv, NEW c, Action(c)
  PROVE  TypedMove(c)
<1>1. CASE NewCall(c)
  BY <1>1, NewCallTyped
<1>2. CASE PayrollStep(c) \/ PayslipStep(c) \/ Fail(c)
  BY <1>2, StepIsOneOfThree, JobStepTyped, LoopStepTyped, LastStepTyped
<1> QED  BY <1>1, <1>2 DEF Action

-----------------------------------------------------------------------------
(* What a step makes of the tables.                                        *)

\* The amounts of a payroll are written once, and so is all of a payslip.
AmountsKept ==
  /\ \A i \in DOMAIN payrolls' \cap Issued :
       /\ i \in DOMAIN payrolls
       /\ payrolls'[i].base = payrolls[i].base
       /\ payrolls'[i].bonuses = payrolls[i].bonuses
       /\ payrolls'[i].hours = payrolls[i].hours
  /\ \A s \in DOMAIN payslips' \cap (1 .. payslipSeq) :
       s \in DOMAIN payslips /\ payslips'[s] = payslips[s]

TablesTyped ==
  /\ IsTable(payrolls, Issued, PayrollRow)
  /\ IsTable(payslips, 1 .. payslipSeq, PayslipRow)
  /\ DOMAIN items \subseteq DOMAIN payslips

LEMMA TablesAreTyped ==
  ASSUME TypesInv
  PROVE  /\ TablesTyped
         /\ payrolls \in [DOMAIN payrolls -> PayrollRow] /\ DOMAIN payrolls \subseteq Issued
         /\ payslips \in [DOMAIN payslips -> PayslipRow]
         /\ DOMAIN payslips \subseteq 1 .. payslipSeq
BY DEF TypesInv, TablesTyped, IsTable

LEMMA BonusesAreNat ==
  ASSUME NEW base \in Amount, NEW extra \in Extra
  PROVE  BonusesOf(base, extra) \in Nat /\ extra.deductions \in Nat
<1>1. base \in Nat /\ extra \in ExtraType
  BY PayrollAssumption
<1>2. PICK p \in Nat, b \in Nat : p = extra.percentage /\ b = extra.bonuses
  BY <1>1 DEF ExtraType
<1>3. base * p \in Nat
  BY <1>1, <1>2
<1>4. (base * p) \div 100 \in Nat
  BY <1>3
<1>5. BonusesOf(base, extra) = b + (base * p) \div 100
  BY <1>2 DEF BonusesOf
<1>6. BonusesOf(base, extra) \in Nat
  BY <1>4, <1>5
<1>7. extra.deductions \in Nat
  BY <1>1 DEF ExtraType
<1> QED  BY <1>6, <1>7

LEMMA NewPayrollTyped ==
  ASSUME PayInv, NEW c, At(c, "insertPayroll")
  PROVE  NewPayroll(calls[c]) \in PayrollRow
<1>1. calls[c] \in [pc : {"insertPayroll"}, job : Job, emp : Employee,
                    base : Amount, hours : Nat]
  BY RowOfTable, CallByLabel DEF At, PayInv, TypesInv
<1>2. calls[c].job.extra \in Extra /\ calls[c].job.period \in Period
  BY <1>1 DEF Job
<1>3. /\ BonusesOf(calls[c].base, calls[c].job.extra) \in Nat
      /\ calls[c].job.extra.deductions \in Nat
  BY <1>1, <1>2, BonusesAreNat
<1> QED  BY <1>1, <1>2, <1>3 DEF NewPayroll, PayrollRow

LEMMA InsertPayrollTables ==
  ASSUME PayInv, NEW c, InsertPayroll(c)
  PROVE  TablesTyped' /\ AmountsKept
<1>1. /\ payrollSeq' = payrollSeq + 1 /\ UNCHANGED <<payslips, items, payslipSeq>>
      /\ payrolls' = Put(payrolls, payrollSeq + 1, NewPayroll(calls[c]))
      /\ payrollSeq \in Nat
  BY DEF InsertPayroll, PayInv, PayrollInv, RowsInv
<1>2. NewPayroll(calls[c]) \in PayrollRow
  BY NewPayrollTyped DEF InsertPayroll
<1>3. Issued \subseteq Issued' /\ payrollSeq + 1 \in Issued'
  BY <1>1 DEF Issued
<1>4. IsTable(payrolls, Issued', PayrollRow)
  BY <1>3, TablesAreTyped DEF IsTable, PayInv
<1>5. IsTable(payrolls', Issued', PayrollRow)
  BY <1>1, <1>2, <1>3, <1>4, PutIsTable
<1>6. TablesTyped'
  BY <1>1, <1>5, TablesAreTyped DEF TablesTyped, PayInv
<1>7. AmountsKept
  BY <1>1, TablesAreTyped DEF AmountsKept, PayInv, Issued, Put
<1> QED  BY <1>6, <1>7

LEMMA UpdateTables ==
  ASSUME PayInv, NEW c, SetProcessed(c) \/ SetPaid(c)
  PROVE  TablesTyped' /\ AmountsKept
<1>1. UNCHANGED <<payslips, items, payrollSeq, payslipSeq>>
  BY DEF SetProcessed, SetPaid
<1>2. payrolls \in [DOMAIN payrolls -> PayrollRow] /\ DOMAIN payrolls \subseteq Issued
  BY TablesAreTyped DEF PayInv
<1>3. \/ payrolls' = payrolls
      \/ \E i \in DOMAIN payrolls :
           \/ payrolls' = [payrolls EXCEPT ![i].processed = TRUE]
           \/ payrolls' = [payrolls EXCEPT ![i].paid = TRUE]
  BY DEF SetProcessed, SetPaid
<1>4. ASSUME NEW i \in DOMAIN payrolls,
             NEW row \in PayrollRow, payrolls' = [payrolls EXCEPT ![i] = row],
             row.base = payrolls[i].base, row.bonuses = payrolls[i].bonuses,
             row.hours = payrolls[i].hours
      PROVE  TablesTyped' /\ AmountsKept
  <2>1. IsTable(payrolls', Issued', PayrollRow)
    BY <1>1, <1>2, <1>4 DEF IsTable, Issued
  <2>2. TablesTyped'
    BY <1>1, <2>1, TablesAreTyped DEF TablesTyped, PayInv
  <2>3. AmountsKept
    BY <1>1, <1>2, <1>4, TablesAreTyped DEF AmountsKept
  <2> QED  BY <2>2, <2>3
<1>5. CASE payrolls' = payrolls
  BY <1>1, <1>5, TablesAreTyped DEF TablesTyped, AmountsKept, PayInv, Issued
<1>6. ASSUME NEW i \in DOMAIN payrolls, payrolls' = [payrolls EXCEPT ![i].processed = TRUE]
      PROVE  TablesTyped' /\ AmountsKept
  <2>1. PICK row : row = [payrolls[i] EXCEPT !.processed = TRUE]
    OBVIOUS
  <2>2. /\ row \in PayrollRow /\ row.base = payrolls[i].base
        /\ row.bonuses = payrolls[i].bonuses /\ row.hours = payrolls[i].hours
    BY <1>2, <2>1 DEF PayrollRow
  <2>3. payrolls' = [payrolls EXCEPT ![i] = row]
    BY <1>6, <2>1
  <2> QED  BY <1>4, <2>2, <2>3
<1>7. ASSUME NEW i \in DOMAIN payrolls, payrolls' = [payrolls EXCEPT ![i].paid = TRUE]
      PROVE  TablesTyped' /\ AmountsKept
  <2>1. PICK row : row = [payrolls[i] EXCEPT !.paid = TRUE]
    OBVIOUS
  <2>2. /\ row \in PayrollRow /\ row.base = payrolls[i].base
        /\ row.bonuses = payrolls[i].bonuses /\ row.hours = payrolls[i].hours
    BY <1>2, <2>1 DEF PayrollRow
  <2>3. payrolls' = [payrolls EXCEPT ![i] = row]
    BY <1>7, <2>1
  <2> QED  BY <1>4, <2>2, <2>3
<1> QED  BY <1>3, <1>5, <1>6, <1>7

LEMMA DeletionTables ==
  ASSUME PayInv, NEW c, WriteDeletion(c)
  PROVE  TablesTyped' /\ AmountsKept
<1> DEFINE slips == PayslipsOf(calls[c].id)
<1>1. /\ UNCHANGED <<payrollSeq, payslipSeq>>
      /\ payrolls' = Without(payrolls, {calls[c].id})
      /\ payslips' = Without(payslips, slips)
      /\ items' = Without(items, slips)
  BY DEF WriteDeletion
<1> HIDE DEF slips
<1>2. TablesTyped'
  BY <1>1, TablesAreTyped DEF TablesTyped, IsTable, Without, PayInv, Issued
<1>3. AmountsKept
  BY <1>1 DEF AmountsKept, Without
<1> QED  BY <1>2, <1>3

LEMMA PayslipTables ==
  ASSUME PayInv, NEW c, InsertPayslip(c)
  PROVE  TablesTyped' /\ AmountsKept
<1>1. UNCHANGED <<payrolls, items, payrollSeq>>
  BY DEF InsertPayslip
<1>2. CASE UNCHANGED <<payslips, payslipSeq>>
  BY <1>1, <1>2, TablesAreTyped DEF TablesTyped, AmountsKept, PayInv, Issued
<1>3. CASE /\ AcceptsPayslip(calls[c].id)
           /\ payslipSeq' = payslipSeq + 1
           /\ payslips' = Put(payslips, payslipSeq', NewPayslip(calls[c]))
  <2>1. NewPayslip(calls[c]) \in PayslipRow /\ payslipSeq \in Nat
    BY <1>3, NewPayslipAddsUp
       DEF InsertPayslip, AcceptsPayslip, PayInv, PayrollInv, RowsInv
  <2>2. /\ 1 .. payslipSeq \subseteq 1 .. payslipSeq'
        /\ payslipSeq' \in 1 .. payslipSeq'
    BY <1>3, <2>1
  <2>3. IsTable(payslips, 1 .. payslipSeq', PayslipRow)
    BY <2>2, TablesAreTyped DEF IsTable, PayInv
  <2>4. IsTable(payslips', 1 .. payslipSeq', PayslipRow)
    BY <1>3, <2>1, <2>2, <2>3, PutIsTable
  <2>5. TablesTyped'
    BY <1>1, <1>3, <2>4, TablesAreTyped DEF TablesTyped, PayInv, Put, Issued
  <2>6. AmountsKept
    BY <1>1, <1>3, <2>1, TablesAreTyped DEF AmountsKept, PayInv, Put
  <2> QED  BY <2>5, <2>6
<1> QED  BY <1>2, <1>3 DEF InsertPayslip

LEMMA ActionKeepsTables ==
  ASSUME PayInv, NEW c, Action(c)
  PROVE  TablesTyped' /\ AmountsKept
<1>1. CASE InsertItems(c)
  BY <1>1, TablesAreTyped DEF InsertItems, TablesTyped, AmountsKept, PayInv, Issued, Put
<1>2. CASE WritePayslipDeletion(c)
  <2>1. /\ UNCHANGED <<payrolls, payrollSeq, payslipSeq>>
        /\ payslips' = Without(payslips, {calls[c].slip})
        /\ items' = Without(items, {calls[c].slip})
    BY <1>2 DEF WritePayslipDeletion
  <2>2. TablesTyped'
    BY <2>1, TablesAreTyped DEF TablesTyped, IsTable, Without, PayInv, Issued
  <2>3. AmountsKept
    BY <2>1 DEF AmountsKept, Without
  <2> QED  BY <2>2, <2>3
<1>3. CASE ~Writes(c) /\ ~InsertItems(c)
  <2>1. UNCHANGED written
    BY <1>3, OthersDoNotWrite
  <2>2. UNCHANGED items
    <3>1. CASE NewCall(c)
      BY <3>1, NewCallMoves DEF ReadOnly, tables
    <3>2. CASE PayrollStep(c) \/ PayslipStep(c) \/ Fail(c)
      BY <1>3, <3>2 DEF PayrollStep, PayslipStep, Writes, CheckPeriod, ReadSalary,
           ReadOvertime, Reselect, FindUnprocessed, CheckPayslip, ReadBack, ReadOnly, Fail, tables
    <3> QED  BY <3>1, <3>2 DEF Action
  <2> QED
    BY <2>1, <2>2, TablesAreTyped DEF TablesTyped, AmountsKept, PayInv, Issued, written
<1> QED
  BY <1>1, <1>2, <1>3, InsertPayrollTables, UpdateTables, DeletionTables, PayslipTables
     DEF Writes

-----------------------------------------------------------------------------
(* What a step makes of the bounds.                                        *)

LEMMA CallsTyped ==
  ASSUME PayInv, NEW c \in Call, Action(c)
  PROVE  IsTable(calls', Call, CallRecord)
BY ActionTyped, PutIsTable, DropIsTable DEF TypedMove, PayInv, TypesInv

\* The cause of the rows to come: a new job, or a step that needs no more than
\* the call had set aside.
LEMMA AheadOfNext ==
  ASSUME NEW c, NEW job \in Job, TakesNext(c, job), c \in InFlight'
  PROVE  /\ Ahead(calls'[c]) = Cardinality(job.todo)
         /\ calls'[c].pc = "checkPeriod"
<1>1. PICK e \in job.todo, rest \in Job :
        /\ calls'[c] = [pc |-> "checkPeriod", emp |-> e, job |-> rest]
        /\ rest.todo = job.todo \ {e}
  BY DEF TakesNext, InFlight, Put, Drop
<1>2. IsFiniteSet(job.todo)
  BY PayrollAssumption, FS_Subset DEF Job
<1>3. Cardinality(rest.todo) = Cardinality(job.todo) - 1 /\ Cardinality(job.todo) \in Nat
  BY <1>1, <1>2, FS_RemoveElement, FS_CardinalityType
<1>4. Ahead(calls'[c]) = 1 + Cardinality(rest.todo)
  BY <1>1 DEF Ahead
<1> QED  BY <1>1, <1>3, <1>4

\* The steps that leave a call in flight, by the labels they lead to.
LEMMA StepLabels ==
  ASSUME PayInv, NEW c \in InFlight, PayrollStep(c) \/ PayslipStep(c) \/ Fail(c),
         c \in InFlight'
  PROVE  \/ /\ calls[c].pc \in JobLabels /\ calls'[c].pc \in JobLabels
            /\ GoesOn(c) \/ Resumes(c)
         \/ /\ calls[c].pc \in LoopLabels /\ calls'[c].pc \in LoopLabels
            /\ UNCHANGED payrollSeq
         \/ /\ calls[c].pc = "checkPayslip" /\ calls'[c].pc = "insertPayslip"
            /\ UNCHANGED payrollSeq
         \/ /\ calls[c].pc = "insertPayslip" /\ calls'[c].pc = "readBack"
            /\ UNCHANGED payrollSeq
         \/ /\ calls[c].pc = "readBack" /\ calls'[c].pc = "insertItems"
            /\ UNCHANGED payrollSeq /\ ReadBack(c)
<1>1. CASE \/ CheckPeriod(c) \/ ReadSalary(c) \/ ReadOvertime(c) \/ InsertPayroll(c)
           \/ Reselect(c)
           \/ Fail(c) /\ calls[c].pc \in JobLabels
  <2>1. calls[c].pc \in JobLabels /\ (GoesOn(c) \/ Resumes(c))
    BY <1>1, JobStepMoves DEF PayInv
  <2>2. GoesOn(c) => calls'[c].pc \in JobLabels
    BY DEF GoesOn, JobLabels
  <2>3. Resumes(c) => calls'[c].pc \in JobLabels
    BY AheadOfNext DEF Resumes, Resumed, JobLabels
  <2> QED  BY <2>1, <2>2, <2>3
<1>2. CASE \/ FindUnprocessed(c) \/ SetProcessed(c)
           \/ Fail(c) /\ calls[c].pc \in LoopLabels
  <2>1. TakesOne(c, calls[c].todo) => calls'[c].pc = "findUnprocessed"
    BY DEF TakesOne, InFlight, Put, Drop
  <2>2. UNCHANGED payrollSeq
    BY <1>2 DEF FindUnprocessed, SetProcessed, Fail, ReadOnly, tables
  <2> QED  BY <1>2, <2>1, <2>2, LoopStepMoves DEF LoopLabels, PayInv
<1>3. CASE \/ SetPaid(c) \/ WriteDeletion(c) \/ PayslipStep(c)
           \/ Fail(c) /\ calls[c].pc \notin JobLabels \cup LoopLabels
  <2>1. ~Return(c)
    BY DEF Return, Drop, InFlight
  <2>2. UNCHANGED payrollSeq
    BY <1>3 DEF SetPaid, WriteDeletion, PayslipStep, CheckPayslip, InsertPayslip,
                ReadBack, InsertItems, WritePayslipDeletion, Fail, ReadOnly, tables
  <2> QED  BY <1>3, <2>1, <2>2, LastStepMoves DEF PayInv
<1> QED  BY <1>1, <1>2, <1>3, StepIsOneOfThree

LEMMA NewCallLabels ==
  ASSUME PayInv, NEW c, NewCall(c), c \in InFlight'
  PROVE  /\ calls'[c].pc \in JobLabels =>
              /\ calls'[c].pc = "checkPeriod"
              /\ payrollSeq + Reserved + Ahead(calls'[c]) <= MaxPayrolls
         /\ calls'[c].pc \in {"checkPayslip", "insertPayslip"} =>
              payslipSeq + Cardinality(Generating) < MaxPayslips
         /\ calls'[c].pc \notin ItemLabels
<1>1. CASE CreatePayroll(c) \/ BulkGeneratePayroll(c)
  <2>1. PICK period \in Period, extra \in Extra, employees \in SUBSET Employee :
          StartJob(c, period, extra, employees)
    BY <1>1 DEF CreatePayroll, BulkGeneratePayroll
  <2>2. PICK job \in Job :
          job = [period |-> period, extra |-> extra, todo |-> employees, failed |-> {},
                 target |-> employees]
    BY DEF Job
  <2>3. /\ job.todo = employees
        /\ payrollSeq + Reserved + Cardinality(employees) <= MaxPayrolls
        /\ TakesNext(c, job)
    BY <2>1, <2>2, NextEmployeeTakesNext DEF StartJob
  <2> QED  BY <2>3, AheadOfNext DEF ItemLabels
<1>2. CASE ProcessPayrolls(c)
  <2>1. PICK ids : NextPayroll(c, ids)
    BY <1>2 DEF ProcessPayrolls
  <2>2. TakesOne(c, ids)
    BY <2>1, NextPayrollTakesOne
  <2>3. calls'[c].pc = "findUnprocessed"
    BY <2>2 DEF TakesOne, InFlight, Put, Drop
  <2> QED  BY <2>3 DEF JobLabels, ItemLabels
<1>3. CASE MarkAsPaid(c) \/ DeletePayroll(c) \/ DeletePayslip(c)
  <2>1. calls'[c].pc \in {"setPaid", "deletePayroll", "deletePayslip"}
    BY <1>3 DEF MarkAsPaid, DeletePayroll, DeletePayslip, Goto, Put
  <2> QED  BY <2>1 DEF JobLabels, ItemLabels
<1>4. CASE GeneratePayslip(c)
  <2>1. calls'[c].pc = "checkPayslip" /\ payslipSeq + Cardinality(Generating) < MaxPayslips
    BY <1>4 DEF GeneratePayslip, Goto, Put
  <2> QED  BY <2>1 DEF JobLabels, ItemLabels
<1> QED  BY <1>1, <1>2, <1>3, <1>4 DEF NewCall

\* Only one term of Reserved changes.
LEMMA ReservedChanges ==
  ASSUME PayInv, PayrollInv', TypesInv', NEW c, Action(c)
  PROVE  /\ Reserved \in Nat /\ Reserved' \in Nat
         /\ Reserved' = Reserved + Term(Rows', c) - Term(Rows, c)
         /\ c \in InFlight => Term(Rows, c) = Ahead(calls[c])
         /\ c \notin InFlight => Term(Rows, c) = 0
         /\ c \in InFlight' => Term(Rows', c) = Ahead(calls'[c])
         /\ c \notin InFlight' => Term(Rows', c) = 0
<1>1. PICK f, g : f = Rows /\ g = Rows'
  OBVIOUS
<1>2. IsColumn(f) /\ Reserved = SumOf(f) /\ Reserved \in Nat
  BY <1>1, RowsAreNats DEF PayInv
<1>3. (IsColumn(Rows) /\ Reserved = SumOf(Rows) /\ Reserved \in Nat)'
  BY RowsAreNats, PTL
<1>4. IsColumn(g) /\ Reserved' = SumOf(g) /\ Reserved' \in Nat
  BY <1>1, <1>3
<1>5. /\ DOMAIN f = InFlight /\ \A d \in InFlight : f[d] = Ahead(calls[d])
      /\ DOMAIN g = InFlight' /\ \A d \in InFlight' : g[d] = Ahead(calls'[d])
  BY <1>1 DEF Rows, Ahead
<1>6. /\ \A d : d # c => (d \in DOMAIN f <=> d \in DOMAIN g)
      /\ \A d \in DOMAIN f : d # c => f[d] = g[d]
  BY <1>5, ActionMoves
<1>7. SumOf(g) = SumOf(f) + Term(g, c) - Term(f, c)
  BY <1>2, <1>4, <1>6, SumOfChange
<1> QED  BY <1>1, <1>2, <1>4, <1>5, <1>7 DEF Term

LEMMA PayrollBoundKept ==
  ASSUME PayInv, PayrollInv', TypesInv', NEW c, Action(c)
  PROVE  payrollSeq' + Reserved' <= MaxPayrolls
<1>1. /\ Reserved \in Nat /\ Reserved' \in Nat
      /\ Reserved' = Reserved + Term(Rows', c) - Term(Rows, c)
      /\ c \in InFlight => Term(Rows, c) = Ahead(calls[c])
      /\ c \notin InFlight => Term(Rows, c) = 0
      /\ c \in InFlight' => Term(Rows', c) = Ahead(calls'[c])
      /\ c \notin InFlight' => Term(Rows', c) = 0
  BY ReservedChanges
<1>2. /\ payrollSeq \in Nat /\ MaxPayrolls \in Nat
      /\ payrollSeq + Reserved <= MaxPayrolls
  BY PayrollAssumption DEF PayInv, PayrollInv, RowsInv, BoundsInv
<1>3. \A d \in InFlight' : calls'[d] \in CallRecord
  BY RowOfTable DEF TypesInv, InFlight
<1>4. CASE NewCall(c)
  <2>1. UNCHANGED payrollSeq /\ c \notin InFlight
    BY <1>4, NewCallMoves DEF ReadOnly, tables, Free, InFlight
  <2>2. CASE c \notin InFlight'
    BY <1>1, <1>2, <2>1, <2>2
  <2>3. CASE c \in InFlight' /\ calls'[c].pc \in JobLabels
    <3>1. Ahead(calls'[c]) \in Nat /\ payrollSeq + Reserved + Ahead(calls'[c]) <= MaxPayrolls
      BY <1>3, <1>4, <2>3, NewCallLabels, AheadOfLabels
    <3> QED  BY <1>1, <1>2, <2>1, <2>3, <3>1
  <2>4. CASE c \in InFlight' /\ calls'[c].pc \notin JobLabels
    <3>1. Ahead(calls'[c]) = 0
      BY <1>3, <2>4, AheadOfLabels
    <3> QED  BY <1>1, <1>2, <2>1, <2>4, <3>1
  <2> QED  BY <2>2, <2>3, <2>4
<1>5. CASE PayrollStep(c) \/ PayslipStep(c) \/ Fail(c)
  <2>1. c \in InFlight /\ calls[c] \in CallRecord
    BY <1>5, StepMoves, RowOfTable DEF PayInv, TypesInv, InFlight
  <2>2. Ahead(calls[c]) \in Nat
    BY <2>1, AheadOfLabels
  <2>3. InsertPayroll(c) => calls[c].pc = "insertPayroll" /\ payrollSeq' = payrollSeq + 1
    BY DEF InsertPayroll, At
  <2>4. ~InsertPayroll(c) => payrollSeq' = payrollSeq
    BY <1>5 DEF PayrollStep, PayslipStep, CheckPeriod, ReadSalary, ReadOvertime, Reselect,
         FindUnprocessed, SetProcessed, SetPaid, WriteDeletion, CheckPayslip, InsertPayslip,
         ReadBack, InsertItems, WritePayslipDeletion, Fail, ReadOnly, tables
  <2>5. CASE c \notin InFlight'
    <3>1. ~InsertPayroll(c)
      BY <2>5 DEF InsertPayroll, Goto, Put, InFlight
    <3> QED  BY <1>1, <1>2, <2>1, <2>2, <2>4, <2>5, <3>1
  <2>6. CASE c \in InFlight' /\ GoesOn(c)
    <3>1. /\ calls[c].pc \in JobLabels \ {"reselect"}
          /\ Ahead(calls[c]) = 1 + Cardinality(calls[c].job.todo)
          /\ Cardinality(calls[c].job.todo) \in Nat
      BY <2>1, <2>6, AheadOfLabels DEF GoesOn, JobLabels
    <3>2. calls'[c].job = calls[c].job /\ calls'[c] \in CallRecord
      BY <1>3, <2>6 DEF GoesOn, SameJob
    <3>3. CASE InsertPayroll(c)
      <4>1. Ahead(calls'[c]) = Cardinality(calls[c].job.todo)
        BY <2>6, <3>2, <3>3, AheadOfLabels DEF GoesOn
      <4> QED  BY <1>1, <1>2, <2>1, <2>3, <2>6, <3>1, <3>3, <4>1
    <3>4. CASE ~InsertPayroll(c)
      <4>1. Ahead(calls'[c]) = 1 + Cardinality(calls[c].job.todo)
        BY <2>6, <3>2, <3>4, AheadOfLabels DEF GoesOn, JobLabels
      <4> QED  BY <1>1, <1>2, <2>1, <2>4, <2>6, <3>1, <3>4, <4>1
    <3> QED  BY <3>3, <3>4
  <2>7. CASE c \in InFlight' /\ Resumes(c) /\ calls[c].pc \in JobLabels
    <3>1. PICK job \in Job : job.todo = calls[c].job.todo /\ TakesNext(c, job)
      BY <2>7 DEF Resumes, Resumed
    <3>2. Ahead(calls'[c]) = Cardinality(calls[c].job.todo)
      BY <2>7, <3>1, AheadOfNext
    <3>3. /\ Cardinality(calls[c].job.todo) \in Nat
          /\ Ahead(calls[c]) >= Cardinality(calls[c].job.todo)
      BY <2>1, <2>7, AheadOfLabels
    <3>4. ~InsertPayroll(c)
      BY <2>7 DEF Resumes
    <3> QED  BY <1>1, <1>2, <2>1, <2>2, <2>4, <2>7, <3>2, <3>3, <3>4
  <2>8. CASE c \in InFlight' /\ calls'[c].pc \notin JobLabels /\ UNCHANGED payrollSeq
    <3>1. Ahead(calls'[c]) = 0
      BY <1>3, <2>8, AheadOfLabels
    <3> QED  BY <1>1, <1>2, <2>1, <2>2, <2>8, <3>1
  <2> QED
    BY <1>5, <2>1, <2>5, <2>6, <2>7, <2>8, StepLabels DEF JobLabels, LoopLabels
<1> QED  BY <1>4, <1>5 DEF Action

LEMMA PayslipBoundKept ==
  ASSUME PayInv, PayrollInv', NEW c, Action(c)
  PROVE  payslipSeq' + Cardinality(Generating') <= MaxPayslips
<1>1. /\ payslipSeq \in Nat /\ MaxPayslips \in Nat
      /\ payslipSeq + Cardinality(Generating) <= MaxPayslips
      /\ IsFiniteSet(Generating) /\ Cardinality(Generating) \in Nat
  BY GeneratingIsFinite, PayrollAssumption DEF PayInv, PayrollInv, RowsInv, BoundsInv
<1>2. \A d : d # c => (d \in Generating <=> d \in Generating')
  BY ActionMoves DEF Generating, InFlight
<1>3. \/ UNCHANGED payslipSeq
      \/ /\ InsertPayslip(c) /\ payslipSeq' = payslipSeq + 1
         /\ c \in Generating /\ c \notin Generating'
  <2>1. CASE NewCall(c)
    BY <2>1, NewCallMoves DEF ReadOnly, tables
  <2>2. CASE InsertPayslip(c) /\ ~UNCHANGED payslipSeq
    <3>1. /\ payslipSeq' = payslipSeq + 1 /\ At(c, "insertPayslip")
          /\ calls'[c].pc = "readBack"
      BY <2>2 DEF InsertPayslip, Goto, Put
    <3> QED  BY <2>2, <3>1 DEF Generating, At
  <2>3. CASE (PayrollStep(c) \/ PayslipStep(c) \/ Fail(c)) /\ ~InsertPayslip(c)
    BY <2>3 DEF PayrollStep, PayslipStep, CheckPeriod, ReadSalary, ReadOvertime, Reselect,
         InsertPayroll, FindUnprocessed, SetProcessed, SetPaid, WriteDeletion, CheckPayslip,
         ReadBack, InsertItems, WritePayslipDeletion, Fail, ReadOnly, tables
  <2> QED  BY <2>1, <2>2, <2>3 DEF Action
<1>4. CASE c \notin Generating'
  <2>1. Generating' = Generating \ {c}
    BY <1>2, <1>4
  <2>2. Cardinality(Generating')
          = IF c \in Generating THEN Cardinality(Generating) - 1 ELSE Cardinality(Generating)
    BY <1>1, <2>1, FS_RemoveElement
  <2> QED  BY <1>1, <1>3, <2>2
<1>5. CASE c \in Generating' /\ c \in Generating
  <2>1. Generating' = Generating
    BY <1>2, <1>5
  <2> QED  BY <1>1, <1>3, <1>5, <2>1
<1>6. CASE c \in Generating' /\ c \notin Generating
  <2>1. Generating' = Generating \cup {c}
    BY <1>2, <1>6
  <2>2. Cardinality(Generating') = Cardinality(Generating) + 1
    BY <1>1, <1>6, <2>1, FS_AddElement
  <2>3. NewCall(c)
    <3>1. c \in InFlight' /\ calls'[c].pc \in {"checkPayslip", "insertPayslip"}
      BY <1>6 DEF Generating, InFlight
    <3>2. c \in InFlight => calls[c].pc \notin {"checkPayslip", "insertPayslip"}
      BY <1>6 DEF Generating, InFlight
    <3> QED
      BY <3>1, <3>2, StepLabels, StepMoves DEF Action, JobLabels, LoopLabels
  <2>4. payslipSeq + Cardinality(Generating) < MaxPayslips
    BY <1>6, <2>3, NewCallLabels DEF Generating, InFlight
  <2> QED  BY <1>1, <1>3, <1>6, <2>2, <2>4
<1> QED  BY <1>4, <1>5, <1>6

LEMMA UpsetsKept ==
  ASSUME PayInv, NEW c, Action(c)
  PROVE  /\ UNCHANGED <<salary, changes>>
         /\ mishaps' \in Nat /\ changes + mishaps' <= MaxUpsets
         /\ \/ UNCHANGED mishaps
            \/ Fail(c) /\ mishaps' = mishaps + 1
<1>1. /\ changes \in Nat /\ mishaps \in Nat /\ changes + mishaps <= MaxUpsets
      /\ MaxUpsets \in Nat
  BY PayrollAssumption DEF PayInv, BoundsInv
<1>2. CASE NewCall(c)
  BY <1>1, <1>2, NewCallMoves DEF ReadOnly
<1>3. CASE PayrollStep(c) \/ PayslipStep(c)
  BY <1>1, <1>3 DEF PayrollStep, PayslipStep, CheckPeriod, ReadSalary, ReadOvertime,
       Reselect, InsertPayroll, FindUnprocessed, SetProcessed, SetPaid, WriteDeletion,
       CheckPayslip, InsertPayslip, ReadBack, InsertItems, WritePayslipDeletion, ReadOnly, Quiet
<1>4. CASE Fail(c)
  BY <1>1, <1>4 DEF Fail
<1> QED  BY <1>2, <1>3, <1>4 DEF Action

LEMMA ActionKeepsPayInv ==
  ASSUME PayInv, NEW c \in Call, Action(c)
  PROVE  PayInv'
<1>1. PayrollInv'
  BY ActionKeepsInv DEF PayInv
<1>2. TypesInv'
  BY ActionKeepsTables, CallsTyped, UpsetsKept DEF TablesTyped, TypesInv, PayInv
<1>3. BoundsInv'
  BY <1>1, <1>2, UpsetsKept, PayrollBoundKept, PayslipBoundKept DEF BoundsInv, PayInv
<1> QED  BY <1>1, <1>2, <1>3 DEF PayInv

\* Without calls nothing is set aside.
LEMMA NobodyCalls ==
  ASSUME PayrollInv, DOMAIN calls = {}
  PROVE  Reserved = 0 /\ Generating = {} /\ Cardinality(Generating) = 0
<1>1. PICK f : f = [c \in DOMAIN calls |-> Ahead(calls[c])]
  OBVIOUS
<1>2. SumOf(f) = 0
  BY <1>1, SumOfEmpty
<1> QED  BY <1>1, <1>2, FS_EmptySet DEF Reserved, Generating

LEMMA CrashKeepsPayInv ==
  ASSUME PayInv, PayrollInv', Crash
  PROVE  PayInv'
<1>1. /\ UNCHANGED <<salary, changes, payrolls, payslips, items, payrollSeq, payslipSeq>>
      /\ mishaps' = mishaps + 1 /\ changes + mishaps < MaxUpsets
      /\ calls' = << >>
  BY DEF Crash, tables
<1>2. /\ payrollSeq <= MaxPayrolls /\ payslipSeq <= MaxPayslips
      /\ changes \in Nat /\ mishaps \in Nat
      /\ payrollSeq \in Nat /\ payslipSeq \in Nat /\ MaxUpsets \in Nat
  BY IdsLast, PayrollAssumption DEF PayInv, BoundsInv, PayrollInv, RowsInv
<1>3. (PayrollInv /\ DOMAIN calls = {} => Reserved = 0 /\ Cardinality(Generating) = 0)'
  BY NobodyCalls, PTL
<1>4. Reserved' = 0 /\ Cardinality(Generating') = 0
  BY <1>1, <1>3
<1>5. TypesInv'
  BY <1>1, EmptyTable DEF PayInv, TypesInv, Issued
<1>6. BoundsInv'
  BY <1>1, <1>2, <1>4 DEF BoundsInv
<1> QED  BY <1>5, <1>6 DEF PayInv

\* A change of salary, or nothing.
Elsewhere ==
  /\ UNCHANGED <<tables, mishaps, calls>>
  /\ \/ UNCHANGED <<salary, changes>>
     \/ /\ changes + mishaps < MaxUpsets /\ changes' = changes + 1
        /\ \E e \in Employee, a \in Amount \cup {None} : salary' = [salary EXCEPT ![e] = a]

LEMMA ElsewhereKeepsPayInv ==
  ASSUME PayInv, PayrollInv', Elsewhere
  PROVE  PayInv'
<1>1. UNCHANGED <<payrolls, payslips, items, payrollSeq, payslipSeq, mishaps, calls>>
  BY DEF Elsewhere, tables
<1>2. salary' \in [Employee -> Amount \cup {None}]
  BY DEF Elsewhere, PayInv, TypesInv
<1>3. TypesInv'
  BY <1>1, <1>2 DEF PayInv, TypesInv, Issued
<1>4. changes' \in Nat /\ mishaps' \in Nat /\ changes' + mishaps' <= MaxUpsets
  <2>1. changes \in Nat /\ mishaps \in Nat /\ changes + mishaps <= MaxUpsets /\ MaxUpsets \in Nat
    BY PayrollAssumption DEF PayInv, BoundsInv
  <2> QED  BY <1>1, <2>1 DEF Elsewhere
<1>5. Reserved' = Reserved /\ Generating' = Generating
  BY <1>1 DEF Reserved, Generating, Ahead
<1>6. BoundsInv'
  BY <1>1, <1>4, <1>5 DEF PayInv, BoundsInv
<1> QED  BY <1>3, <1>6 DEF PayInv

LEMMA StepOfPayroll ==
  ASSUME [Next]_vars
  PROVE  (\E c \in Call : Action(c)) \/ Crash \/ Elsewhere
BY DEF Next, ChangeSalary, Action, vars, Elsewhere

LEMMA PayInvKept ==
  ASSUME PayInv, [Next]_vars
  PROVE  PayInv'
<1>1. CASE \E c \in Call : Action(c)
  BY <1>1, ActionKeepsPayInv
<1>2. CASE Crash
  <2>1. PayrollInv'
    BY <1>2, CrashMoves, FS_EmptySet
       DEF written, PayInv, PayrollInv, RowsInv, CallsInv, Issued, RowShape
  <2> QED  BY <1>2, <2>1, CrashKeepsPayInv
<1>3. CASE Elsewhere
  <2>1. PayrollInv'
    BY <1>3, StillKeepsInv DEF Elsewhere, Still, written, tables, PayInv
  <2> QED  BY <1>3, <2>1, ElsewhereKeepsPayInv
<1> QED  BY <1>1, <1>2, <1>3, StepOfPayroll

LEMMA PayInvInit == Init => PayInv
<1> SUFFICES ASSUME Init PROVE PayInv
  OBVIOUS
<1>1. PayrollInv
  BY FS_EmptySet DEF Init, PayrollInv, RowsInv, CallsInv, InFlight
<1>2. TypesInv
  BY EmptyTable DEF Init, TypesInv
<1>3. BoundsInv
  BY <1>1, NobodyCalls, PayrollAssumption DEF Init, BoundsInv
<1> QED  BY <1>1, <1>2, <1>3 DEF PayInv

LEMMA PayInvariant == Spec => []PayInv
BY PayInvInit, PayInvKept, PTL DEF Spec

\* Rows and calls have their types, no id is used beyond the bounds, a payslip
\* has its payroll and a payroll at most one payslip: the foreign key and the
\* unique key of schema.prisma, the cascade of deletePayroll included.
THEOREM PayrollTypes == Spec => []TypeOK
<1>1. PayInv => TypeOK
  BY IdsLast DEF PayInv, TypesInv, BoundsInv, PayrollInv, RowsInv, TypeOK, Issued
<1> QED  BY <1>1, PayInvariant, PTL

-----------------------------------------------------------------------------
(* What a payslip, its payroll and its deductions have in common.          *)

\* The deductions are told apart by their labels, so that equal amounts are
\* added up as often as they occur.
LEMMA TotalOfRows ==
  ASSUME NEW b, b.tax \in Nat, b.kesehatan \in Nat, b.ketenagakerjaan \in Nat,
         b.other \in Nat
  PROVE  ItemTotal(DeductionRows(b)) = b.tax + b.kesehatan + b.ketenagakerjaan + b.other
<1>1. PICK x1, x2, x3, x4 :
        /\ x1 = <<"TAX", b.tax>> /\ x2 = <<"BPJS_KESEHATAN", b.kesehatan>>
        /\ x3 = <<"BPJS_TK", b.ketenagakerjaan>> /\ x4 = <<"OTHER", b.other>>
  OBVIOUS
<1>2. /\ x1 # x2 /\ x1 # x3 /\ x1 # x4 /\ x2 # x3 /\ x2 # x4 /\ x3 # x4
      /\ x1[2] = b.tax /\ x2[2] = b.kesehatan /\ x3[2] = b.ketenagakerjaan
      /\ x4[2] = b.other
  BY <1>1
<1>3. PICK rows : rows = DeductionRows(b)
  OBVIOUS
<1>4. rows = IF b.other > 0 THEN {x1, x2, x3, x4} ELSE {x1, x2, x3}
  BY <1>1, <1>3 DEF DeductionRows
<1>5. IsFiniteSet(rows)
  <2>1. IsFiniteSet({x1, x2, x3, x4})
    <3>1. IsFiniteSet({x1}) /\ IsFiniteSet({x1} \cup {x2})
      BY FS_Singleton, FS_AddElement
    <3>2. IsFiniteSet(({x1} \cup {x2}) \cup {x3})
      BY <3>1, FS_AddElement
    <3>3. IsFiniteSet((({x1} \cup {x2}) \cup {x3}) \cup {x4})
      BY <3>2, FS_AddElement
    <3>4. (({x1} \cup {x2}) \cup {x3}) \cup {x4} = {x1, x2, x3, x4}
      OBVIOUS
    <3> QED  BY <3>3, <3>4
  <2>2. rows \in SUBSET {x1, x2, x3, x4}
    BY <1>4
  <2> QED  BY <2>1, <2>2, FS_Subset
<1>6. PICK f : f = [row \in rows |-> row[2]]
  OBVIOUS
<1>7. ItemTotal(DeductionRows(b)) = SumOf(f)
  BY <1>3, <1>6 DEF ItemTotal
<1>8. IsColumn(f) /\ DOMAIN f = rows
  <2>1. \A x \in rows : x[2] \in Int
    BY <1>2, <1>4
  <2> QED  BY <1>5, <1>6, <2>1 DEF IsColumn
<1>9. PICK g, h, k, m : /\ g = Drop(f, x1) /\ h = Drop(g, x2)
                        /\ k = Drop(h, x3) /\ m = Drop(k, x4)
  OBVIOUS
<1>10. /\ SumOf(f) = Term(f, x1) + SumOf(g) /\ IsColumn(g) /\ Term(f, x1) = b.tax
       /\ SumOf(g) \in Int
  BY <1>2, <1>4, <1>6, <1>8, <1>9, SumOfTerm DEF Term
<1>11. /\ SumOf(g) = Term(g, x2) + SumOf(h) /\ IsColumn(h) /\ Term(g, x2) = b.kesehatan
       /\ SumOf(h) \in Int
  <2>1. x2 \in DOMAIN g /\ g[x2] = b.kesehatan
    BY <1>2, <1>4, <1>6, <1>9 DEF Drop
  <2>2. Term(g, x2) = b.kesehatan
    BY <2>1 DEF Term
  <2> QED  BY <1>9, <1>10, <2>2, SumOfTerm
<1>12. /\ SumOf(h) = Term(h, x3) + SumOf(k) /\ IsColumn(k)
       /\ Term(h, x3) = b.ketenagakerjaan /\ SumOf(k) \in Int
  <2>1. x3 \in DOMAIN h /\ h[x3] = b.ketenagakerjaan
    BY <1>2, <1>4, <1>6, <1>9 DEF Drop
  <2>2. Term(h, x3) = b.ketenagakerjaan
    BY <2>1 DEF Term
  <2> QED  BY <1>9, <1>11, <2>2, SumOfTerm
<1>13. /\ SumOf(k) = Term(k, x4) + SumOf(m) /\ IsColumn(m) /\ Term(k, x4) = b.other
       /\ SumOf(m) \in Int
  <2>1. x4 \in DOMAIN k <=> b.other > 0
    BY <1>2, <1>4, <1>6, <1>9 DEF Drop
  <2>2. x4 \in DOMAIN k => k[x4] = b.other
    BY <1>2, <1>6, <1>9 DEF Drop
  <2>3. Term(k, x4) = b.other
    BY <2>1, <2>2 DEF Term
  <2> QED  BY <1>9, <1>12, <2>3, SumOfTerm
<1>14. SumOf(m) = 0
  <2>1. DOMAIN m = {}
    BY <1>4, <1>6, <1>9 DEF Drop
  <2> QED  BY <2>1, SumOfEmpty
<1> QED  BY <1>7, <1>10, <1>11, <1>12, <1>13, <1>14

\* What a payslip takes from its payroll, and that it adds up.
SlipAgrees(slip, row) ==
  /\ slip.base = row.base /\ slip.bonuses = row.bonuses
  /\ slip.takeHome + (slip.tax + slip.kesehatan + slip.ketenagakerjaan + slip.other)
       = slip.base + slip.bonuses + slip.terms.allowances

\* A handler that makes a payslip carries along what it has read of the
\* payroll, and what it has written of the payslip.
CallAgrees(call) ==
  /\ call.pc \in {"checkPayslip", "insertPayslip"} /\ call.id \in DOMAIN payrolls =>
       call.base = payrolls[call.id].base /\ call.bonuses = payrolls[call.id].bonuses
  /\ call.pc \in ItemLabels =>
       /\ call.slip \in 1 .. payslipSeq
       /\ call.slip \in DOMAIN payslips => call.row = payslips[call.slip]

SlipsInv ==
  /\ \A s \in DOMAIN payslips : SlipAgrees(payslips[s], payrolls[payslips[s].payroll])
  /\ \A s \in DOMAIN items : items[s] = DeductionRows(payslips[s])
  /\ \A c \in InFlight : CallAgrees(calls[c])

\* DeductionRows reads four columns of what it is given.
LEMMA SlipsAddUp ==
  ASSUME PayInv, SlipsInv
  PROVE  PayslipsAddUp
<1>1. SUFFICES ASSUME NEW s \in DOMAIN payslips
               PROVE  LET row == payrolls[payslips[s].payroll]
                      IN  /\ MonthOf(s) = Gross(row) + payslips[s].terms.allowances
                          /\ s \in DOMAIN items =>
                               payslips[s].takeHome + ItemTotal(items[s])
                                 = Net(row) + row.deductions + payslips[s].terms.allowances
  BY DEF PayslipsAddUp
<1>2. PICK slip, row : slip = payslips[s] /\ row = payrolls[slip.payroll]
  OBVIOUS
<1>3. slip \in PayslipRow /\ row \in PayrollRow /\ SlipAgrees(slip, row)
  <2>1. slip.payroll \in DOMAIN payrolls
    BY <1>2 DEF PayInv, PayrollInv, RowsInv
  <2> QED  BY <1>2, <2>1, RowOfTable DEF PayInv, TypesInv, SlipsInv
<1>4. /\ slip.tax \in Nat /\ slip.kesehatan \in Nat /\ slip.ketenagakerjaan \in Nat
      /\ slip.other \in Nat /\ slip.takeHome \in Int /\ slip.base \in Nat
      /\ slip.bonuses \in Nat /\ slip.terms.allowances \in Nat
      /\ row.base \in Nat /\ row.bonuses \in Nat /\ row.deductions \in Nat
  BY <1>3, PayrollAssumption DEF PayslipRow, PayrollRow, TermsType
<1>5. MonthOf(s) = Gross(row) + slip.terms.allowances
  BY <1>2, <1>3 DEF MonthOf, Gross, SlipAgrees
<1>6. s \in DOMAIN items =>
        ItemTotal(items[s]) = slip.tax + slip.kesehatan + slip.ketenagakerjaan + slip.other
  BY <1>2, <1>4, TotalOfRows DEF SlipsInv
<1>7. Net(row) + row.deductions = row.base + row.bonuses
  BY <1>4 DEF Net, Gross
<1>8. slip.takeHome + (slip.tax + slip.kesehatan + slip.ketenagakerjaan + slip.other)
        = row.base + row.bonuses + slip.terms.allowances
  BY <1>3 DEF SlipAgrees
<1> QED  BY <1>2, <1>4, <1>5, <1>6, <1>7, <1>8

\* Of the steps of handlers one inserts payslips and one inserts deductions.
LEMMA PayslipWriter ==
  ASSUME PayInv, NEW c, Action(c)
  PROVE  \/ /\ UNCHANGED payslipSeq
            /\ \A s \in DOMAIN payslips' : s \in DOMAIN payslips /\ payslips'[s] = payslips[s]
         \/ /\ At(c, "insertPayslip") /\ calls[c].id \in DOMAIN payrolls
            /\ payslipSeq' = payslipSeq + 1
            /\ payslips' = Put(payslips, payslipSeq', NewPayslip(calls[c]))
            /\ calls' = Put(calls, c, [pc |-> "readBack", slip |-> payslipSeq',
                                       row |-> NewPayslip(calls[c])])
            /\ UNCHANGED <<payrolls, items, payrollSeq>>
<1>1. CASE InsertPayslip(c)
  BY <1>1 DEF InsertPayslip, AcceptsPayslip, Goto
<1>2. CASE ~InsertPayslip(c)
  <2>1. UNCHANGED payslipSeq
    <3>1. CASE NewCall(c)
      BY <3>1, NewCallMoves DEF ReadOnly, tables
    <3>2. CASE PayrollStep(c) \/ PayslipStep(c) \/ Fail(c)
      BY <1>2, <3>2 DEF PayrollStep, PayslipStep, CheckPeriod, ReadSalary, ReadOvertime,
           Reselect, InsertPayroll, FindUnprocessed, SetProcessed, SetPaid, WriteDeletion,
           CheckPayslip, ReadBack, InsertItems, WritePayslipDeletion, Fail, ReadOnly, tables
    <3> QED  BY <3>1, <3>2 DEF Action
  <2>2. TablesTyped' /\ AmountsKept
    BY ActionKeepsTables
  <2> QED  BY <2>1, <2>2 DEF TablesTyped, IsTable, AmountsKept
<1> QED  BY <1>1, <1>2

LEMMA ItemsWriter ==
  ASSUME NEW c, Action(c)
  PROVE  \/ /\ InsertItems(c) /\ calls[c].slip \in DOMAIN payslips
            /\ items' = Put(items, calls[c].slip, DeductionRows(calls[c].row))
            /\ UNCHANGED payslips
         \/ \A s \in DOMAIN items' : s \in DOMAIN items /\ items'[s] = items[s]
<1>1. CASE InsertItems(c)
  BY <1>1 DEF InsertItems
<1>2. CASE WriteDeletion(c) \/ WritePayslipDeletion(c)
  BY <1>2 DEF WriteDeletion, WritePayslipDeletion, Without
<1>3. CASE NewCall(c)
  BY <1>3, NewCallMoves DEF ReadOnly, tables
<1>4. CASE \/ PayrollStep(c) /\ ~WriteDeletion(c)
           \/ PayslipStep(c) /\ ~InsertItems(c) /\ ~WritePayslipDeletion(c)
           \/ Fail(c)
  BY <1>4 DEF PayrollStep, PayslipStep, CheckPeriod, ReadSalary, ReadOvertime,
       Reselect, InsertPayroll, FindUnprocessed, SetProcessed, SetPaid, CheckPayslip,
       InsertPayslip, ReadBack, Fail, ReadOnly, tables
<1> QED  BY <1>1, <1>2, <1>3, <1>4 DEF Action

LEMMA SlipsKept ==
  ASSUME PayInv, PayInv', SlipsInv, NEW c, Action(c), NEW s \in DOMAIN payslips'
  PROVE  SlipAgrees(payslips'[s], payrolls'[payslips'[s].payroll])
<1>1. AmountsKept /\ payslips'[s].payroll \in DOMAIN payrolls'
  BY ActionKeepsTables DEF PayInv, PayrollInv, RowsInv
<1>2. CASE s \in DOMAIN payslips /\ payslips'[s] = payslips[s]
  <2>1. /\ payslips[s].payroll \in DOMAIN payrolls
        /\ payslips[s].payroll \in Issued
        /\ SlipAgrees(payslips[s], payrolls[payslips[s].payroll])
    BY <1>2 DEF PayInv, PayrollInv, RowsInv, SlipsInv
  <2>2. PICK i : i = payslips[s].payroll
    OBVIOUS
  <2>3. payrolls'[i].base = payrolls[i].base /\ payrolls'[i].bonuses = payrolls[i].bonuses
    BY <1>1, <1>2, <2>1, <2>2 DEF AmountsKept
  <2> QED  BY <1>2, <2>1, <2>2, <2>3 DEF SlipAgrees
<1>3. CASE /\ At(c, "insertPayslip") /\ calls[c].id \in DOMAIN payrolls
           /\ payslips' = Put(payslips, payslipSeq', NewPayslip(calls[c]))
           /\ UNCHANGED payrolls
           /\ s = payslipSeq'
  <2>1. payslips'[s] = NewPayslip(calls[c])
    BY <1>3 DEF Put
  <2>2. /\ calls[c].base = payrolls[calls[c].id].base
        /\ calls[c].bonuses = payrolls[calls[c].id].bonuses
    BY <1>3 DEF SlipsInv, CallAgrees, At, InFlight
  <2>3. PICK slip, i : slip = NewPayslip(calls[c]) /\ i = calls[c].id
    OBVIOUS
  <2>4. /\ slip.payroll = i /\ slip.base = payrolls[i].base
        /\ slip.bonuses = payrolls[i].bonuses
        /\ slip.takeHome + (slip.tax + slip.kesehatan + slip.ketenagakerjaan + slip.other)
             = slip.base + slip.bonuses + slip.terms.allowances
    BY <1>3, <2>2, <2>3, NewPayslipAddsUp
  <2>5. payslips'[s] = slip /\ payrolls' = payrolls
    BY <1>3, <2>1, <2>3
  <2> QED  BY <2>4, <2>5 DEF SlipAgrees
<1>4. PICK seq : seq = payslipSeq'
  OBVIOUS
<1>5. s \in DOMAIN Put(payslips, seq, NewPayslip(calls[c])) /\ s # seq =>
        /\ s \in DOMAIN payslips
        /\ Put(payslips, seq, NewPayslip(calls[c]))[s] = payslips[s]
  BY DEF Put
<1> QED  BY <1>2, <1>3, <1>4, <1>5, PayslipWriter

LEMMA ItemsKept ==
  ASSUME PayInv, PayInv', SlipsInv, NEW c, Action(c), NEW s \in DOMAIN items'
  PROVE  items'[s] = DeductionRows(payslips'[s])
<1>1. s \in DOMAIN payslips'
  BY DEF PayInv, TypesInv
<1>2. CASE s \in DOMAIN items /\ items'[s] = items[s]
  <2>1. s \in DOMAIN payslips /\ s \in 1 .. payslipSeq
    BY <1>2 DEF PayInv, TypesInv, PayrollInv, RowsInv
  <2>2. payslips'[s] = payslips[s]
    BY <1>1, <2>1, ActionKeepsTables DEF AmountsKept
  <2> QED  BY <1>2, <2>2 DEF SlipsInv
<1>3. CASE /\ InsertItems(c) /\ s = calls[c].slip /\ s \in DOMAIN payslips
           /\ items' = Put(items, calls[c].slip, DeductionRows(calls[c].row))
           /\ UNCHANGED payslips
  <2>1. calls[c].row = payslips[s]
    BY <1>3 DEF InsertItems, At, SlipsInv, CallAgrees, InFlight, ItemLabels
  <2> QED  BY <1>3, <2>1 DEF Put
<1> QED  BY <1>2, <1>3, ItemsWriter DEF Put

\* The call that moves still agrees with the rows it has read or written.
LEMMA MoverAgrees ==
  ASSUME PayInv, PayInv', SlipsInv, NEW c, Action(c), c \in InFlight'
  PROVE  CallAgrees(calls[c])'
<1>1. CASE NewCall(c)
  <2>1. UNCHANGED <<payrolls, payslips>>
    BY <1>1, NewCallMoves DEF ReadOnly, tables
  <2>2. CASE GeneratePayslip(c)
    <3>1. PICK i \in DOMAIN payrolls, terms \in Terms :
            calls'[c] = [pc |-> "checkPayslip", id |-> i, terms |-> terms,
                         base |-> payrolls[i].base, bonuses |-> payrolls[i].bonuses]
      BY <2>2 DEF GeneratePayslip, Goto, Put
    <3> QED  BY <2>1, <3>1 DEF CallAgrees, ItemLabels
  <2>3. CASE ~GeneratePayslip(c)
    <3>1. CASE CreatePayroll(c) \/ BulkGeneratePayroll(c)
      <4>1. PICK period \in Period, extra \in Extra, employees \in SUBSET Employee :
              StartJob(c, period, extra, employees)
        BY <3>1 DEF CreatePayroll, BulkGeneratePayroll
      <4>2. PICK job \in Job :
              job = [period |-> period, extra |-> extra, todo |-> employees,
                     failed |-> {}, target |-> employees]
        BY DEF Job
      <4>3. calls'[c].pc = "checkPeriod"
        BY <4>1, <4>2, NextEmployeeTakesNext, AheadOfNext DEF StartJob
      <4> QED  BY <4>3 DEF CallAgrees, ItemLabels
    <3>2. CASE ProcessPayrolls(c)
      <4>1. PICK ids : NextPayroll(c, ids)
        BY <3>2 DEF ProcessPayrolls
      <4>2. TakesOne(c, ids)
        BY <4>1, NextPayrollTakesOne
      <4>3. calls'[c].pc = "findUnprocessed"
        BY <4>2 DEF TakesOne, InFlight, Put, Drop
      <4> QED  BY <4>3 DEF CallAgrees, ItemLabels
    <3>3. CASE MarkAsPaid(c) \/ DeletePayroll(c) \/ DeletePayslip(c)
      <4>1. calls'[c].pc \in {"setPaid", "deletePayroll", "deletePayslip"}
        BY <3>3 DEF MarkAsPaid, DeletePayroll, DeletePayslip, Goto, Put
      <4> QED  BY <4>1 DEF CallAgrees, ItemLabels
    <3> QED  BY <1>1, <2>3, <3>1, <3>2, <3>3 DEF NewCall
  <2> QED  BY <2>2, <2>3
<1>2. CASE PayrollStep(c) \/ PayslipStep(c) \/ Fail(c)
  <2>1. c \in InFlight /\ CallAgrees(calls[c])
    BY <1>2, StepMoves DEF SlipsInv
  <2>2. CASE calls'[c].pc \in JobLabels \cup LoopLabels
    BY <2>2 DEF CallAgrees, JobLabels, LoopLabels, ItemLabels
  <2>3. CASE calls[c].pc = "checkPayslip" /\ calls'[c].pc = "insertPayslip"
    <3>1. CheckPayslip(c) \/ Fail(c)
      BY <1>2, <2>3 DEF PayrollStep, PayslipStep, CheckPeriod, ReadSalary, ReadOvertime,
           Reselect, InsertPayroll, FindUnprocessed, SetProcessed, SetPaid, WriteDeletion,
           InsertPayslip, ReadBack, InsertItems, WritePayslipDeletion, At
    <3>2. ~Return(c)
      BY DEF Return, Drop, InFlight
    <3>3. CheckPayslip(c)
      BY <2>3, <3>1, <3>2 DEF Fail
    <3>4. /\ calls'[c] = [calls[c] EXCEPT !.pc = "insertPayslip"]
          /\ UNCHANGED payrolls
      BY <3>2, <3>3 DEF CheckPayslip, Goto, Put, ReadOnly, tables
    <3>5. calls[c] \in [pc : {"checkPayslip", "insertPayslip"}, id : PayrollId,
                        terms : Terms, base : Amount, bonuses : Nat]
      BY <2>1, <2>3, RowOfTable, CallByLabel DEF PayInv, TypesInv, InFlight
    <3>6. /\ calls'[c].pc = "insertPayslip" /\ calls'[c].id = calls[c].id
          /\ calls'[c].base = calls[c].base /\ calls'[c].bonuses = calls[c].bonuses
      BY <3>4, <3>5
    <3> QED  BY <2>1, <2>3, <3>4, <3>6 DEF CallAgrees, ItemLabels
  <2>4. CASE calls[c].pc = "insertPayslip" /\ calls'[c].pc = "readBack"
    <3>1. InsertPayslip(c) \/ Fail(c)
      BY <1>2, <2>4 DEF PayrollStep, PayslipStep, CheckPeriod, ReadSalary, ReadOvertime,
           Reselect, InsertPayroll, FindUnprocessed, SetProcessed, SetPaid, WriteDeletion,
           CheckPayslip, ReadBack, InsertItems, WritePayslipDeletion, At
    <3>2. ~Return(c)
      BY DEF Return, Drop, InFlight
    <3>3. InsertPayslip(c)
      BY <2>4, <3>1, <3>2 DEF Fail
    <3>4. /\ payslipSeq' = payslipSeq + 1 /\ payslipSeq \in Nat
          /\ payslips' = Put(payslips, payslipSeq', NewPayslip(calls[c]))
          /\ calls'[c] = [pc |-> "readBack", slip |-> payslipSeq',
                          row |-> NewPayslip(calls[c])]
      BY <3>2, <3>3 DEF InsertPayslip, Goto, Put, PayInv, PayrollInv, RowsInv
    <3>5. payslips'[payslipSeq'] = NewPayslip(calls[c])
      BY <3>4 DEF Put
    <3> QED  BY <3>4, <3>5 DEF CallAgrees, ItemLabels
  <2>5. CASE ReadBack(c) /\ calls[c].pc = "readBack" /\ calls'[c].pc = "insertItems"
    <3>1. ~Return(c)
      BY DEF Return, Drop, InFlight
    <3>2. /\ calls'[c].slip = calls[c].slip /\ calls'[c].row = calls[c].row
          /\ UNCHANGED <<payslips, payslipSeq>>
      BY <2>5, <3>1 DEF ReadBack, Goto, Put, ReadOnly, tables
    <3> QED  BY <2>1, <2>5, <3>2 DEF CallAgrees, ItemLabels
  <2> QED  BY <1>2, <2>1, <2>2, <2>3, <2>4, <2>5, StepLabels
<1> QED  BY <1>1, <1>2 DEF Action

LEMMA OthersAgree ==
  ASSUME PayInv, PayInv', SlipsInv, NEW c, Action(c), NEW d \in InFlight', d # c
  PROVE  CallAgrees(calls[d])'
<1>1. d \in InFlight /\ calls'[d] = calls[d] /\ CallAgrees(calls[d])
  BY ActionMoves DEF SlipsInv
<1>2. AmountsKept
  BY ActionKeepsTables
<1>3. calls[d].pc \in {"checkPayslip", "insertPayslip"} => calls[d].id \in Issued
  BY <1>1 DEF PayInv, PayrollInv, CallsInv, Shaped, IdShape, IdLabels
<1>4. payslipSeq \in Nat /\ payslipSeq' \in Nat /\ payslipSeq <= payslipSeq'
  <2>1. payslipSeq \in Nat /\ payslipSeq' \in Nat
    BY DEF PayInv, PayrollInv, RowsInv
  <2>2. payslipSeq' = payslipSeq \/ payslipSeq' = payslipSeq + 1
    BY PayslipWriter
  <2> QED  BY <2>1, <2>2
<1> QED  BY <1>1, <1>2, <1>3, <1>4 DEF CallAgrees, AmountsKept, ItemLabels

LEMMA SlipsInvKept ==
  ASSUME PayInv, PayInv', SlipsInv, [Next]_vars
  PROVE  SlipsInv'
<1>1. ASSUME NEW c \in Call, Action(c)
      PROVE  SlipsInv'
  <2>1. ASSUME NEW d \in InFlight' PROVE CallAgrees(calls[d])'
    BY <1>1, MoverAgrees, OthersAgree
  <2>2. /\ \A s \in DOMAIN payslips' :
             SlipAgrees(payslips'[s], payrolls'[payslips'[s].payroll])
        /\ \A s \in DOMAIN items' : items'[s] = DeductionRows(payslips'[s])
    BY <1>1, SlipsKept, ItemsKept
  <2> QED  BY <2>1, <2>2 DEF SlipsInv, SlipAgrees
<1>2. CASE Crash
  BY <1>2 DEF Crash, SlipsInv, InFlight, tables, SlipAgrees
<1>3. CASE Elsewhere
  BY <1>3 DEF Elsewhere, SlipsInv, InFlight, tables, SlipAgrees, CallAgrees
<1> QED  BY <1>1, <1>2, <1>3, StepOfPayroll

LEMMA SlipsInvInit == Init => SlipsInv
BY DEF Init, SlipsInv, InFlight

LEMMA SlipsInvariant == Spec => [](PayInv /\ SlipsInv)
BY PayInvInit, PayInvKept, SlipsInvInit, SlipsInvKept, PTL DEF Spec

\* "takeHomePay = monthlyGross - totalDeductions", from a payroll that was read
\* three statements earlier: whatever handlers overlap, fail or delete each
\* other's rows, a payslip repeats the amounts of the payroll it belongs to, and
\* its itemised deductions and its take-home pay add up to the gross pay of
\* that payroll with the allowances.
THEOREM PayslipsAreConsistent == Spec => []PayslipsAddUp
BY SlipsInvariant, SlipsAddUp, PTL

-----------------------------------------------------------------------------
(* How many rows mishaps can spoil.                                        *)

LEMMA CallsAreCounted ==
  ASSUME PayInv
  PROVE  /\ IsFiniteSet(InFlight) /\ Cardinality(InFlight) \in Nat
         /\ Cardinality(Call) \in Nat /\ Cardinality(InFlight) <= Cardinality(Call)
         /\ InFlight # {} => Cardinality(Call) >= 1
<1>1. IsFiniteSet(Call) /\ InFlight \in SUBSET Call /\ Cardinality(Call) \in Nat
  BY PayrollAssumption, FS_CardinalityType DEF PayInv, TypesInv, IsTable, InFlight
<1>2. /\ IsFiniteSet(InFlight) /\ Cardinality(InFlight) <= Cardinality(Call)
      /\ Cardinality(InFlight) \in Nat
  BY <1>1, FS_Subset, FS_CardinalityType
<1>3. InFlight # {} => Cardinality(InFlight) # 0
  BY <1>2, FS_EmptySet
<1> QED  BY <1>1, <1>2, <1>3

LEMMA UnitemisedIsFinite ==
  ASSUME PayInv
  PROVE  IsFiniteSet(Unitemised) /\ Cardinality(Unitemised) \in Nat
<1>1. Unitemised \subseteq 1 .. payslipSeq /\ payslipSeq \in Nat
  BY DEF Unitemised, PayInv, PayrollInv, RowsInv
<1> QED  BY <1>1, IdsAreFinite, FS_Subset, FS_CardinalityType

\* Deductions disappear with their payslip only.
LEMMA ItemsStay ==
  ASSUME NEW c, Action(c), NEW s \in DOMAIN items, s \in DOMAIN payslips'
  PROVE  s \in DOMAIN items'
<1>1. CASE WriteDeletion(c) \/ WritePayslipDeletion(c)
  BY <1>1 DEF WriteDeletion, WritePayslipDeletion, Without
<1>2. CASE InsertItems(c)
  BY <1>2 DEF InsertItems, Put
<1>3. CASE NewCall(c)
  BY <1>3, NewCallMoves DEF ReadOnly, tables
<1>4. CASE \/ PayrollStep(c) /\ ~WriteDeletion(c)
           \/ PayslipStep(c) /\ ~InsertItems(c) /\ ~WritePayslipDeletion(c)
           \/ Fail(c)
  BY <1>4 DEF PayrollStep, PayslipStep, CheckPeriod, ReadSalary, ReadOvertime,
       Reselect, InsertPayroll, FindUnprocessed, SetProcessed, SetPaid, CheckPayslip,
       InsertPayslip, ReadBack, Fail, ReadOnly, tables
<1> QED  BY <1>1, <1>2, <1>3, <1>4 DEF Action

\* A payslip is left without deductions by the failure of the statement that
\* reads it back or of createManyDeductions.
LEMMA LeftBare ==
  ASSUME HasPaidAt, PayInv, PayInv', NEW c, Action(c), NEW s \in Unitemised', s \notin Unitemised
  PROVE  Fail(c) /\ s = calls[c].slip
<1>1. /\ s \in DOMAIN payslips' /\ s \notin DOMAIN items'
      /\ \A d : d \in InFlight' /\ calls'[d].pc \in ItemLabels => calls'[d].slip # s
  BY DEF Unitemised, At, InFlight, ItemLabels
<1>2. s \in DOMAIN payslips
  <2>1. PICK seq, slip : seq = payslipSeq' /\ slip = NewPayslip(calls[c])
    OBVIOUS
  <2>2. CASE /\ payslips' = Put(payslips, seq, slip)
             /\ calls' = Put(calls, c, [pc |-> "readBack", slip |-> seq, row |-> slip])
    <3>1. c \in InFlight' /\ calls'[c].pc \in ItemLabels /\ calls'[c].slip = seq
      BY <2>2 DEF Put, InFlight, ItemLabels
    <3>2. s # seq
      BY <1>1, <3>1
    <3> QED  BY <1>1, <2>2, <3>2 DEF Put
  <2> QED  BY <1>1, <2>1, <2>2, PayslipWriter
<1>3. s \notin DOMAIN items
  BY <1>1, ItemsStay
<1>4. PICK d \in InFlight : calls[d].pc \in ItemLabels /\ calls[d].slip = s
  BY <1>2, <1>3 DEF Unitemised, At, ItemLabels
<1>5. d = c
  BY <1>1, <1>4, ActionMoves DEF At, InFlight
<1>6. c \in InFlight /\ calls[c].pc \in ItemLabels
  BY <1>4, <1>5
<1>7. ReadBack(c) \/ InsertItems(c) \/ Fail(c)
  <2>1. ~NewCall(c)
    BY <1>6, NewCallMoves DEF Free, InFlight
  <2> QED
    BY <1>6, <2>1 DEF ItemLabels, Action, PayrollStep, PayslipStep, CheckPeriod, ReadSalary,
         ReadOvertime, Reselect, InsertPayroll, FindUnprocessed, SetProcessed, SetPaid,
         WriteDeletion, CheckPayslip, InsertPayslip, WritePayslipDeletion, At
<1>8. ~InsertItems(c)
  BY <1>1, <1>2, <1>4, <1>5 DEF InsertItems, Put
<1>9. ~ReadBack(c)
  <2>1. SUFFICES ASSUME ReadBack(c) PROVE FALSE
    OBVIOUS
  <2>2. calls' = Put(calls, c, [pc |-> "insertItems", slip |-> s, row |-> calls[c].row])
    BY <1>2, <1>4, <1>5, <2>1 DEF ReadBack, Goto
  <2>3. c \in InFlight' /\ calls'[c].pc \in ItemLabels /\ calls'[c].slip = s
    BY <2>2 DEF Put, InFlight, ItemLabels
  <2> QED  BY <1>1, <2>3
<1> QED  BY <1>4, <1>5, <1>7, <1>8, <1>9

\* Without the column nothing is itemised: no call gets past reading back.
NothingItemised ==
  ~HasPaidAt => DOMAIN items = {} /\ \A c \in InFlight : calls[c].pc # "insertItems"

LEMMA NothingItemisedKept ==
  ASSUME PayInv, PayInv', NothingItemised, [Next]_vars
  PROVE  NothingItemised'
<1>1. SUFFICES ASSUME ~HasPaidAt
               PROVE  DOMAIN items' = {} /\ \A d \in InFlight' : calls'[d].pc # "insertItems"
  BY DEF NothingItemised
<1>2. DOMAIN items = {} /\ \A d \in InFlight : calls[d].pc # "insertItems"
  BY <1>1 DEF NothingItemised
<1>3. ASSUME NEW c \in Call, Action(c)
      PROVE  DOMAIN items' = {} /\ \A d \in InFlight' : calls'[d].pc # "insertItems"
  <2>1. ~InsertItems(c)
    BY <1>2 DEF InsertItems, At, InFlight
  <2>2. DOMAIN items' = {}
    BY <1>2, <1>3, <2>1, ItemsWriter
  <2>3. c \in InFlight' => calls'[c].pc # "insertItems"
    <3>1. CASE NewCall(c)
      BY <3>1, NewCallLabels DEF ItemLabels
    <3>2. CASE PayrollStep(c) \/ PayslipStep(c) \/ Fail(c)
      <4>1. ReadBack(c) => Return(c)
        BY <1>1 DEF ReadBack
      <4>2. Return(c) => c \notin InFlight'
        BY DEF Return, Drop, InFlight
      <4> QED  BY <3>2, <4>1, <4>2, StepLabels, StepMoves DEF JobLabels, LoopLabels
    <3> QED  BY <1>3, <3>1, <3>2 DEF Action
  <2>4. \A d \in InFlight' : d # c => calls'[d].pc # "insertItems"
    BY <1>2, <1>3, ActionMoves
  <2> QED  BY <2>2, <2>3, <2>4
<1>4. CASE Crash
  BY <1>2, <1>4 DEF Crash, tables, InFlight
<1>5. CASE Elsewhere
  BY <1>2, <1>5 DEF Elsewhere, tables, InFlight
<1> QED  BY <1>3, <1>4, <1>5, StepOfPayroll

LEMMA UnitemisedKept ==
  ASSUME HasPaidAt, PayInv, PayInv', UnitemisedAreCounted, [Next]_vars
  PROVE  UnitemisedAreCounted'
<1>1. PICK k \in Nat, m \in Nat : k = Cardinality(Call) /\ m = mishaps
  BY CallsAreCounted DEF PayInv, BoundsInv
<1>2. /\ IsFiniteSet(Unitemised) /\ Cardinality(Unitemised) \in Nat
      /\ Cardinality(Unitemised) <= m * k
  BY <1>1, UnitemisedIsFinite DEF UnitemisedAreCounted
<1>3. m * k \in Nat /\ (m + 1) * k = m * k + k
  BY OneUpsetMore
<1>4. ASSUME NEW c \in Call, Action(c)
      PROVE  Cardinality(Unitemised') <= mishaps' * k
  <2>1. CASE Unitemised' \subseteq Unitemised /\ ~Fail(c)
    <3>1. Cardinality(Unitemised') <= Cardinality(Unitemised) /\ Cardinality(Unitemised') \in Nat
      BY <1>2, <2>1, FS_Subset, FS_CardinalityType
    <3>2. mishaps' = m
      BY <1>1, <1>4, <2>1, UpsetsKept
    <3> QED  BY <1>2, <1>3, <3>1, <3>2
  <2>2. CASE Fail(c)
    <3>1. Unitemised' \subseteq Unitemised \cup {calls[c].slip}
      BY <1>4, LeftBare
    <3>2. /\ Cardinality(Unitemised') <= Cardinality(Unitemised) + 1
          /\ Cardinality(Unitemised') \in Nat
      BY <1>2, <3>1, OneMore
    <3>3. mishaps' = m + 1 /\ k >= 1
      BY <1>1, <2>2, CallsAreCounted DEF Fail, InFlight
    <3> QED  BY <1>2, <1>3, <3>2, <3>3
  <2> QED  BY <1>4, <2>1, <2>2, LeftBare
<1>5. CASE Crash
  <2> DEFINE D == {c \in InFlight : calls[c].pc \in ItemLabels}
             f == [c \in D |-> calls[c].slip]
             U == {calls[c].slip : c \in D}
  <2>1. IsFiniteSet(D) /\ Cardinality(D) <= k /\ Cardinality(D) \in Nat
    BY <1>1, CallsAreCounted, FS_Subset, FS_CardinalityType
  <2>2. f \in Surjection(D, U)
    BY DEF Surjection
  <2>3. Unitemised' \subseteq Unitemised \cup U
    BY <1>5 DEF Crash, tables, Unitemised, At, InFlight, ItemLabels
  <2> HIDE DEF D, f, U
  <2>4. IsFiniteSet(U) /\ Cardinality(U) <= Cardinality(D)
    BY <2>1, <2>2, FS_Surjection
  <2>5. /\ Cardinality(Unitemised') <= Cardinality(Unitemised) + Cardinality(U)
        /\ Cardinality(Unitemised') \in Nat /\ Cardinality(U) \in Nat
    BY <1>2, <2>3, <2>4, SomeMore
  <2>6. mishaps' = m + 1
    BY <1>1, <1>5 DEF Crash
  <2> QED  BY <1>1, <1>2, <1>3, <2>1, <2>4, <2>5, <2>6 DEF UnitemisedAreCounted
<1>6. CASE Elsewhere
  <2>1. UNCHANGED <<payslips, items, calls, mishaps>>
    BY <1>6 DEF Elsewhere, tables
  <2>2. Unitemised' = Unitemised
    BY <2>1 DEF Unitemised, At, InFlight
  <2> QED  BY <2>1, <2>2 DEF UnitemisedAreCounted
<1> QED  BY <1>1, <1>4, <1>5, <1>6, StepOfPayroll DEF UnitemisedAreCounted

\* generatePayslip writes a payslip and its deductions without a transaction
\* and reads the payslip back in between.  Where findOne works, a payslip is
\* left without deductions by a failure only, and by each failure at most as
\* many as there were calls in flight.  Where findOne throws, as it does in the
\* schema of the migrations, no payslip ever has deductions.
THEOREM FailuresLeaveFewBarePayslips == Spec => []UnitemisedAreCounted
<1>1. Init => UnitemisedAreCounted /\ NothingItemised
  <2> SUFFICES ASSUME Init PROVE UnitemisedAreCounted /\ NothingItemised
    OBVIOUS
  <2>1. Unitemised = {} /\ mishaps = 0 /\ DOMAIN items = {} /\ InFlight = {}
    BY DEF Init, Unitemised, InFlight
  <2>2. Cardinality(Unitemised) = 0 /\ Cardinality(Call) \in Nat
    BY <2>1, FS_EmptySet, FS_CardinalityType, PayrollAssumption
  <2> QED  BY <2>1, <2>2 DEF UnitemisedAreCounted, NothingItemised
<1>2. ASSUME PayInv, PayInv', UnitemisedAreCounted, NothingItemised, [Next]_vars
      PROVE  (UnitemisedAreCounted /\ NothingItemised)'
  <2>1. NothingItemised'
    BY <1>2, NothingItemisedKept
  <2>2. CASE HasPaidAt
    BY <1>2, <2>1, <2>2, UnitemisedKept
  <2>3. CASE ~HasPaidAt
    BY <2>1, <2>3 DEF UnitemisedAreCounted, NothingItemised
  <2> QED  BY <2>2, <2>3
<1> QED  BY <1>1, <1>2, PayInvInit, PayInvKept, PTL DEF Spec

-----------------------------------------------------------------------------
(* Hours that get lost.                                                    *)

\* The calls that will insert too few hours: they have given up on the list of
\* overtime, or will, since the salary they have seen is gone.
Losing ==
  {c \in InFlight :
     \/ At(c, "insertPayroll") /\ calls[c].hours < HoursOf(ListedOvertime)
     \/ At(c, "readOvertime") /\ salary[calls[c].emp] = None}

LossesAreCounted ==
  Cardinality(LostHours) + Cardinality(Losing) <= mishaps + changes * Cardinality(Call)

LEMMA LossesAreFinite ==
  ASSUME PayInv
  PROVE  /\ IsFiniteSet(LostHours) /\ Cardinality(LostHours) \in Nat
         /\ IsFiniteSet(Losing) /\ Cardinality(Losing) \in Nat
         /\ Cardinality(Losing) <= Cardinality(Call)
<1>1. LostHours \subseteq 1 .. payrollSeq /\ payrollSeq \in Nat
  BY DEF LostHours, PayInv, PayrollInv, RowsInv, Issued
<1>2. IsFiniteSet(LostHours) /\ Cardinality(LostHours) \in Nat
  BY <1>1, IdsAreFinite, FS_Subset, FS_CardinalityType
<1>3. Losing \subseteq InFlight
  BY DEF Losing
<1>4. /\ IsFiniteSet(Losing) /\ Cardinality(Losing) \in Nat
      /\ Cardinality(Losing) <= Cardinality(InFlight)
  BY <1>3, CallsAreCounted, FS_Subset, FS_CardinalityType
<1> QED  BY <1>2, <1>4, CallsAreCounted

\* A call begins to lose hours when a statement fails.
LEMMA BeginsToLose ==
  ASSUME PayInv, PayInv', HasAttendanceTable, NEW c, Action(c), c \in Losing', c \notin Losing
  PROVE  Fail(c) /\ calls[c].pc = "readOvertime"
<1>1. PICK h \in Nat : h = HoursOf(ListedOvertime)
  BY ListedHours
<1>2. /\ c \in InFlight' /\ UNCHANGED salary
      /\ \/ calls'[c].pc = "insertPayroll" /\ calls'[c].hours < h
         \/ calls'[c].pc = "readOvertime" /\ salary[calls'[c].emp] = None
  BY <1>1, UpsetsKept DEF Losing, At, InFlight
<1>3. ~NewCall(c)
  BY <1>2, NewCallLabels DEF JobLabels
<1>4. PayrollStep(c) \/ PayslipStep(c) \/ Fail(c)
  BY <1>3 DEF Action
<1>5. /\ c \in InFlight /\ calls[c].pc \in JobLabels
      /\ GoesOn(c) \/ Resumes(c)
  BY <1>2, <1>4, StepMoves, StepLabels DEF JobLabels, LoopLabels
<1>6. ~Resumes(c)
  BY <1>2, AheadOfNext DEF Resumes, Resumed
<1>7. CASE calls'[c].pc = "readOvertime"
  <2>1. calls[c].pc = "readSalary" /\ calls'[c].emp = calls[c].emp
    BY <1>5, <1>6, <1>7 DEF GoesOn, SameJob
  <2>2. ReadSalary(c) \/ Fail(c)
    BY <1>4, <2>1 DEF PayrollStep, PayslipStep, CheckPeriod, ReadOvertime, Reselect,
         InsertPayroll, FindUnprocessed, SetProcessed, SetPaid, WriteDeletion, CheckPayslip,
         InsertPayslip, ReadBack, InsertItems, WritePayslipDeletion, At
  <2>3. ~GiveUp(c)
    <3>1. SUFFICES ASSUME GiveUp(c) PROVE FALSE
      OBVIOUS
    <3>2. JobShape(calls[c])
      BY <1>5 DEF PayInv, PayrollInv, CallsInv, Shaped
    <3>3. PICK job : TakesNext(c, job)
      BY <1>5, <3>1, <3>2, GiveUpTakesNext
    <3>4. calls'[c].pc = "checkPeriod"
      BY <1>2, <3>3 DEF TakesNext, InFlight, Put, Drop
    <3> QED  BY <1>7, <3>4
  <2>4. salary[calls[c].emp] # None
    BY <2>1, <2>2, <2>3 DEF ReadSalary, Fail
  <2> QED  BY <1>2, <1>7, <2>1, <2>4
<1>8. CASE calls'[c].pc = "insertPayroll"
  <2>1. calls[c].pc = "readOvertime"
    BY <1>5, <1>6, <1>8 DEF GoesOn
  <2>2. ReadOvertime(c) \/ Fail(c)
    BY <1>4, <2>1 DEF PayrollStep, PayslipStep, CheckPeriod, ReadSalary, Reselect,
         InsertPayroll, FindUnprocessed, SetProcessed, SetPaid, WriteDeletion, CheckPayslip,
         InsertPayslip, ReadBack, InsertItems, WritePayslipDeletion, At
  <2>3. salary[calls[c].emp] # None
    BY <1>5, <2>1 DEF Losing, At, InFlight
  <2>4. ~ReadOvertime(c)
    <3>1. SUFFICES ASSUME ReadOvertime(c) PROVE FALSE
      OBVIOUS
    <3>2. GoInsert(c, h)
      BY <1>1, <2>3, <3>1 DEF ReadOvertime, CanListOvertime
    <3>3. calls'[c].hours = h
      BY <3>2 DEF GoInsert, Goto, Put
    <3> QED  BY <1>1, <1>2, <1>8, <3>3
  <2> QED  BY <2>1, <2>2, <2>4
<1> QED  BY <1>2, <1>7, <1>8

\* Others lose what they lost before.
LEMMA OthersLose ==
  ASSUME PayInv, NEW c, Action(c), NEW d, d # c
  PROVE  d \in Losing <=> d \in Losing'
<1>1. UNCHANGED salary
  BY UpsetsKept
<1>2. /\ d \in InFlight <=> d \in InFlight'
      /\ d \in InFlight => calls'[d] = calls[d]
  BY ActionMoves
<1>3. d \in InFlight => (d \in Losing <=> d \in Losing')
  BY <1>1, <1>2 DEF Losing, At, InFlight
<1> QED  BY <1>2, <1>3 DEF Losing

\* A payroll with too few hours is inserted by a call that was losing them.
LEMMA IsLost ==
  ASSUME PayInv, PayInv', NEW c, Action(c), NEW i \in LostHours', i \notin LostHours
  PROVE  /\ InsertPayroll(c) /\ i = payrollSeq + 1
         /\ c \in Losing /\ c \notin Losing'
<1>1. PICK h \in Nat : h = HoursOf(ListedOvertime)
  BY ListedHours
<1>2. i \in DOMAIN payrolls' /\ payrolls'[i].hours < h
  BY <1>1 DEF LostHours
<1>3. i \notin Issued
  <2>1. i \in Issued => i \in DOMAIN payrolls /\ payrolls'[i].hours = payrolls[i].hours
    BY <1>2, ActionKeepsTables DEF AmountsKept
  <2> QED  BY <1>1, <1>2, <2>1 DEF LostHours
<1>4. i \in Issued'
  BY <1>2 DEF PayInv, PayrollInv, RowsInv
<1>5. CASE InsertPayroll(c)
  <2>1. /\ At(c, "insertPayroll") /\ payrollSeq' = payrollSeq + 1
        /\ payrolls' = Put(payrolls, payrollSeq + 1, NewPayroll(calls[c]))
        /\ calls'[c].pc = "reselect"
        /\ payrollSeq \in Nat
    BY <1>5 DEF InsertPayroll, Goto, Put, PayInv, PayrollInv, RowsInv
  <2>2. i = payrollSeq + 1
    BY <1>3, <1>4, <2>1 DEF Issued
  <2>3. payrolls'[i].hours = calls[c].hours
    BY <2>1, <2>2 DEF Put, NewPayroll
  <2>4. c \in Losing
    BY <1>1, <1>2, <2>1, <2>3 DEF Losing, At, InFlight
  <2>5. c \notin Losing'
    BY <2>1 DEF Losing, At
  <2> QED  BY <1>5, <2>2, <2>4, <2>5
<1>6. CASE ~InsertPayroll(c)
  <2>1. UNCHANGED payrollSeq
    <3>1. CASE NewCall(c)
      BY <3>1, NewCallMoves DEF ReadOnly, tables
    <3>2. CASE PayrollStep(c) \/ PayslipStep(c) \/ Fail(c)
      BY <1>6, <3>2 DEF PayrollStep, PayslipStep, CheckPeriod, ReadSalary, ReadOvertime,
           Reselect, FindUnprocessed, SetProcessed, SetPaid, WriteDeletion, CheckPayslip,
           InsertPayslip, ReadBack, InsertItems, WritePayslipDeletion, Fail, ReadOnly, tables
    <3> QED  BY <3>1, <3>2 DEF Action
  <2> QED  BY <1>3, <1>4, <2>1 DEF Issued
<1> QED  BY <1>5, <1>6

LEMMA LossesKept ==
  ASSUME PayInv, PayInv', HasAttendanceTable, LossesAreCounted, [Next]_vars
  PROVE  LossesAreCounted'
<1>1. PICK k \in Nat, m \in Nat, n \in Nat :
        k = Cardinality(Call) /\ m = mishaps /\ n = changes
  BY CallsAreCounted DEF PayInv, BoundsInv
<1>2. PICK l \in Nat, g \in Nat :
        l = Cardinality(LostHours) /\ g = Cardinality(Losing) /\ l + g <= m + n * k
  BY <1>1, LossesAreFinite DEF LossesAreCounted
<1>3. n * k \in Nat /\ (n + 1) * k = n * k + k
  BY OneUpsetMore
<1>4. (IsFiniteSet(LostHours) /\ Cardinality(LostHours) \in Nat
       /\ IsFiniteSet(Losing) /\ Cardinality(Losing) \in Nat
       /\ Cardinality(Losing) <= Cardinality(Call))'
  BY LossesAreFinite, PTL
<1>5. PICK l2 \in Nat, g2 \in Nat :
        l2 = Cardinality(LostHours') /\ g2 = Cardinality(Losing') /\ g2 <= k
  BY <1>1, <1>4
<1>6. ASSUME NEW c \in Call, Action(c)
      PROVE  l2 + g2 <= mishaps' + changes' * k
  <2>1. changes' = n /\ (mishaps' = m \/ (Fail(c) /\ mishaps' = m + 1))
    BY <1>1, <1>6, UpsetsKept
  <2>2. CASE LostHours' \subseteq LostHours
    <3>1. l2 <= l
      BY <1>2, <1>5, <2>2, LossesAreFinite, FS_Subset
    <3>2. CASE Losing' \subseteq Losing
      <4>1. g2 <= g
        BY <1>2, <1>5, <3>2, LossesAreFinite, FS_Subset
      <4> QED  BY <1>1, <1>2, <1>3, <2>1, <3>1, <4>1
    <3>3. CASE ~ (Losing' \subseteq Losing)
      <4>1. c \in Losing' /\ c \notin Losing
        BY <1>6, <3>3, OthersLose
      <4>2. mishaps' = m + 1
        BY <1>1, <1>6, <4>1, BeginsToLose DEF Fail
      <4>3. Losing' \subseteq Losing \cup {c}
        BY <1>6, OthersLose
      <4>4. g2 <= g + 1
        BY <1>2, <1>5, <4>3, LossesAreFinite, OneMore
      <4> QED  BY <1>1, <1>2, <1>3, <2>1, <3>1, <4>2, <4>4
    <3> QED  BY <3>2, <3>3
  <2>3. CASE ~ (LostHours' \subseteq LostHours)
    <3>1. c \in Losing /\ c \notin Losing'
      BY <1>6, <2>3, IsLost
    <3>2. LostHours' \subseteq LostHours \cup {payrollSeq + 1}
      BY <1>6, IsLost
    <3>3. l2 <= l + 1
      BY <1>2, <1>5, <3>2, LossesAreFinite, OneMore
    <3>4. Losing' = Losing \ {c}
      BY <1>6, <3>1, OthersLose
    <3>5. g2 = g - 1
      BY <1>2, <1>5, <3>1, <3>4, LossesAreFinite, FS_RemoveElement
    <3> QED  BY <1>1, <1>2, <1>3, <2>1, <3>3, <3>5
  <2> QED  BY <2>2, <2>3
<1>7. CASE Crash
  <2>1. /\ UNCHANGED <<payrolls, changes>> /\ mishaps' = m + 1 /\ InFlight' = {}
    BY <1>1, <1>7 DEF Crash, tables, InFlight
  <2>2. Losing' = {} /\ LostHours' = LostHours
    BY <2>1 DEF Losing, LostHours
  <2>3. g2 = 0 /\ l2 = l
    BY <1>2, <1>5, <2>2, FS_EmptySet
  <2> QED  BY <1>1, <1>2, <1>3, <1>5, <2>1, <2>3 DEF LossesAreCounted
<1>8. CASE Elsewhere
  <2>1. UNCHANGED <<payrolls, calls, mishaps>>
    BY <1>8 DEF Elsewhere, tables
  <2>2. l2 = l
    BY <1>2, <1>5, <2>1 DEF LostHours
  <2>3. CASE UNCHANGED <<salary, changes>>
    <3>1. Losing' = Losing
      BY <2>1, <2>3 DEF Losing, At, InFlight
    <3> QED  BY <1>1, <1>2, <1>5, <2>1, <2>2, <2>3, <3>1 DEF LossesAreCounted
  <2>4. CASE changes' = n + 1
    BY <1>1, <1>2, <1>3, <1>5, <2>1, <2>2, <2>4 DEF LossesAreCounted
  <2> QED  BY <1>1, <1>8, <2>3, <2>4 DEF Elsewhere
<1> QED  BY <1>1, <1>5, <1>6, <1>7, <1>8, StepOfPayroll DEF LossesAreCounted

\* calculateOvertimePay turns whatever is thrown into no overtime, and
\* createPayroll goes on: with the table attendance in place a payroll has
\* fewer hours than were listed only because a statement failed, or because
\* the salary of its employee was taken away while the call was in flight.
THEOREM HoursGetLostForACause == Spec => []LostHoursAreCounted
<1>1. PayInv /\ LossesAreCounted => LostHoursAreCounted
  <2> SUFFICES ASSUME PayInv, LossesAreCounted PROVE LostHoursAreCounted
    OBVIOUS
  <2>1. changes \in Nat /\ Cardinality(Call) \in Nat /\ mishaps \in Nat
    BY CallsAreCounted DEF PayInv, BoundsInv
  <2>2. changes * Cardinality(Call) \in Nat
    BY <2>1, OneUpsetMore
  <2> QED  BY <2>1, <2>2, LossesAreFinite DEF LossesAreCounted, LostHoursAreCounted
<1>2. Init => LossesAreCounted
  <2> SUFFICES ASSUME Init PROVE LossesAreCounted
    OBVIOUS
  <2>1. LostHours = {} /\ Losing = {} /\ mishaps = 0 /\ changes = 0
    BY DEF Init, LostHours, Losing, InFlight
  <2>2. /\ Cardinality(LostHours) = 0 /\ Cardinality(Losing) = 0
        /\ Cardinality(Call) \in Nat
    BY <2>1, FS_EmptySet, FS_CardinalityType, PayrollAssumption
  <2> QED  BY <2>1, <2>2 DEF LossesAreCounted
<1>3. CASE HasAttendanceTable
  BY <1>1, <1>2, <1>3, PayInvInit, PayInvKept, LossesKept, PTL DEF Spec
<1>4. CASE ~HasAttendanceTable
  <2>1. LostHoursAreCounted
    BY <1>4 DEF LostHoursAreCounted
  <2> QED  BY <2>1, PTL
<1> QED  BY <1>3, <1>4

-----------------------------------------------------------------------------
(* The third part: the scale of the tax and the insurances.  SMT is cited  *)
(* where numbers of seven digits and more occur.                           *)

\* The sum of one number per tax bracket.
LEMMA SumOfFive ==
  ASSUME NEW f \in [1 .. 5 -> Int]
  PROVE  SumOf(f) = f[1] + f[2] + f[3] + f[4] + f[5]
<1> DEFINE f4 == Drop(f, 5)
           f3 == Drop(f4, 4)
           f2 == Drop(f3, 3)
           f1 == Drop(f2, 2)
           f0 == Drop(f1, 1)
<1>1. DOMAIN f4 = 1 .. 4 /\ \A i \in 1 .. 4 : f4[i] = f[i]
  BY DEF Drop
<1>2. DOMAIN f3 = 1 .. 3 /\ \A i \in 1 .. 3 : f3[i] = f[i]
  <2> HIDE DEF f4
  <2> QED  BY <1>1 DEF Drop
<1>3. DOMAIN f2 = 1 .. 2 /\ \A i \in 1 .. 2 : f2[i] = f[i]
  <2> HIDE DEF f3
  <2> QED  BY <1>2 DEF Drop
<1>4. DOMAIN f1 = {1} /\ f1[1] = f[1]
  <2> HIDE DEF f2
  <2> QED  BY <1>3 DEF Drop
<1>5. DOMAIN f0 = {}
  <2> HIDE DEF f1
  <2> QED  BY <1>4 DEF Drop
<1>6. IsColumn(f)
  <2>1. IsFiniteSet(1 .. 5)
    BY IdsAreFinite
  <2> QED  BY <2>1 DEF IsColumn
<1>7. SumOf(f0) = 0
  BY <1>5, SumOfEmpty
<1> HIDE DEF f0, f1, f2, f3, f4
<1>8. SumOf(f) = f[5] + SumOf(f4) /\ IsColumn(f4)
  BY <1>6, SumOfDrop DEF f4
<1>9. SumOf(f4) = f[4] + SumOf(f3) /\ IsColumn(f3)
  BY <1>1, <1>8, SumOfDrop DEF f3
<1>10. SumOf(f3) = f[3] + SumOf(f2) /\ IsColumn(f2)
  BY <1>2, <1>9, SumOfDrop DEF f2
<1>11. SumOf(f2) = f[2] + SumOf(f1) /\ IsColumn(f1)
  BY <1>3, <1>10, SumOfDrop DEF f1
<1>12. SumOf(f1) = f[1] + SumOf(f0)
  BY <1>4, <1>11, SumOfDrop DEF f0
<1> QED  BY <1>7, <1>8, <1>9, <1>10, <1>11, <1>12

\* t is n hundredths, rounded half up.
Hundredths(t, n) == t \in Int /\ 100 * t <= n + 50 /\ n + 50 < 100 * t + 100

LEMMA RoundedHundredths ==
  ASSUME NEW n \in Nat
  PROVE  Hundredths(Rounded(100 * n, 10000), n)
BY DEF Rounded, Hundredths

LEMMA QuotientAndRest ==
  ASSUME NEW x \in Nat
  PROVE  x = 10000 * (x \div 10000) + (x % 10000) /\ x \div 10000 \in Nat /\ x % 10000 \in Nat
OBVIOUS


\* Share does round amount * rate, although it never forms the product.
LEMMA ShareHundredths ==
  ASSUME NEW x \in Nat, NEW p \in Nat
  PROVE  /\ x * p \in Nat
         /\ Hundredths(Share(x, 100 * p), x * p)
<1>1. PICK q \in Nat, r \in Nat : q = x \div 10000 /\ r = x % 10000 /\ x = 10000 * q + r
  BY QuotientAndRest
<1>2. PICK a \in Nat, b \in Nat : a = q * p /\ b = r * p
  OBVIOUS
<1>3. x * p = 10000 * a + b
  BY <1>1, <1>2
<1>4. q * (100 * p) = 100 * a /\ r * (100 * p) = 100 * b
  BY <1>2
<1>5. Share(x, 100 * p) = 100 * a + Rounded(100 * b, 10000)
  BY <1>1, <1>4 DEF Share
<1>6. Hundredths(Rounded(100 * b, 10000), b)
  BY RoundedHundredths
<1> QED  BY <1>3, <1>5, <1>6 DEF Hundredths

\* The incomes below the limit of the last bracket, which stands for Infinity.
InScale(x) == x \in Nat /\ x \div Million < 1000000

\* What of x lies in bracket i, with the limits written out.
LEMMA InEachBracket ==
  ASSUME NEW x \in Nat, InScale(x)
  PROVE  /\ InBracket(x, 1) = IF x < 60000000 THEN x ELSE 60000000
         /\ InBracket(x, 2) = IF x < 60000000 THEN 0
                              ELSE IF x < 250000000 THEN x - 60000000 ELSE 190000000
         /\ InBracket(x, 3) = IF x < 250000000 THEN 0
                              ELSE IF x < 500000000 THEN x - 250000000 ELSE 250000000
         /\ InBracket(x, 4) = IF x < 500000000 THEN 0
                              ELSE IF x < 5000000000 THEN x - 500000000 ELSE 4500000000
         /\ InBracket(x, 5) = IF x < 5000000000 THEN 0 ELSE x - 5000000000
<1>1. PICK q \in Nat, r \in Nat :
        q = x \div Million /\ x = 1000000 * q + r /\ r < 1000000 /\ q < 1000000
  BY SMT DEF Million, InScale
<1>2. /\ TaxBrackets[1].limit = 60 /\ TaxBrackets[2].limit = 250
      /\ TaxBrackets[3].limit = 500 /\ TaxBrackets[4].limit = 5000
      /\ TaxBrackets[5].limit = 1000000
  BY SMT DEF TaxBrackets
<1>3. /\ PreviousLimit(1) = 0 /\ PreviousLimit(2) = 60 /\ PreviousLimit(3) = 250
      /\ PreviousLimit(4) = 500 /\ PreviousLimit(5) = 5000
  BY SMT, <1>2 DEF PreviousLimit
<1>4. InBracket(x, 1) = IF x < 60000000 THEN x ELSE 60000000
  BY SMT, <1>1, <1>2, <1>3 DEF InBracket, Million
<1>5. InBracket(x, 2) = IF x < 60000000 THEN 0
                              ELSE IF x < 250000000 THEN x - 60000000 ELSE 190000000
  BY SMT, <1>1, <1>2, <1>3 DEF InBracket, Million
<1>6. InBracket(x, 3) = IF x < 250000000 THEN 0
                              ELSE IF x < 500000000 THEN x - 250000000 ELSE 250000000
  BY SMT, <1>1, <1>2, <1>3 DEF InBracket, Million
<1>7. InBracket(x, 4) = IF x < 500000000 THEN 0
                              ELSE IF x < 5000000000 THEN x - 500000000 ELSE 4500000000
  BY SMT, <1>1, <1>2, <1>3 DEF InBracket, Million
<1>8. InBracket(x, 5) = IF x < 5000000000 THEN 0 ELSE x - 5000000000
  BY SMT, <1>1, <1>2, <1>3 DEF InBracket, Million
<1> QED  BY SMT, <1>4, <1>5, <1>6, <1>7, <1>8

\* The tax of a year in hundredths of a rupiah, before it is rounded.
Exact(x) ==
  IF x < 60000000 THEN 5 * x
  ELSE IF x < 250000000 THEN 15 * x - 600000000
  ELSE IF x < 500000000 THEN 25 * x - 3100000000
  ELSE IF x < 5000000000 THEN 30 * x - 5600000000
  ELSE 35 * x - 30600000000

LEMMA RatesOfBrackets ==
  /\ DOMAIN TaxBrackets = 1 .. 5
  /\ TaxBrackets[1].rate = 100 * 5 /\ TaxBrackets[2].rate = 100 * 15
  /\ TaxBrackets[3].rate = 100 * 25 /\ TaxBrackets[4].rate = 100 * 30
  /\ TaxBrackets[5].rate = 100 * 35
BY SMT DEF TaxBrackets

\* Rounding only the total, as calculateProgressiveTax does, rounds Exact.
LEMMA TaxHundredths ==
  ASSUME NEW x \in Nat, InScale(x)
  PROVE  Hundredths(ProgressiveTax(x), Exact(x))
<1> DEFINE b == [i \in 1 .. 5 |-> InBracket(x, i)]
           whole == [i \in DOMAIN TaxBrackets |->
                       (InBracket(x, i) \div 10000) * TaxBrackets[i].rate]
           part  == [i \in DOMAIN TaxBrackets |->
                       (InBracket(x, i) % 10000) * TaxBrackets[i].rate]
<1>1. \A i \in 1 .. 5 : InBracket(x, i) \in Nat
  BY InEachBracket
<1>2. PICK q \in [1 .. 5 -> Nat], r \in [1 .. 5 -> Nat] :
        \A i \in 1 .. 5 : /\ q[i] = InBracket(x, i) \div 10000
                          /\ r[i] = InBracket(x, i) % 10000
                          /\ InBracket(x, i) = 10000 * q[i] + r[i]
  <2> DEFINE q == [i \in 1 .. 5 |-> InBracket(x, i) \div 10000]
             r == [i \in 1 .. 5 |-> InBracket(x, i) % 10000]
  <2>1. \A i \in 1 .. 5 :
          /\ q[i] = InBracket(x, i) \div 10000 /\ q[i] \in Nat
          /\ r[i] = InBracket(x, i) % 10000 /\ r[i] \in Nat
          /\ InBracket(x, i) = 10000 * q[i] + r[i]
    BY <1>1, QuotientAndRest
  <2>2. q \in [1 .. 5 -> Nat] /\ r \in [1 .. 5 -> Nat]
    BY <2>1
  <2> HIDE DEF q, r
  <2> QED  BY <2>1, <2>2
<1>3. /\ whole[1] = 500 * q[1] /\ whole[2] = 1500 * q[2] /\ whole[3] = 2500 * q[3]
      /\ whole[4] = 3000 * q[4] /\ whole[5] = 3500 * q[5]
      /\ whole \in [1 .. 5 -> Int]
  <2>1. /\ whole[1] = q[1] * 500 /\ whole[2] = q[2] * 1500 /\ whole[3] = q[3] * 2500
        /\ whole[4] = q[4] * 3000 /\ whole[5] = q[5] * 3500
    BY <1>2, RatesOfBrackets
  <2>2. \A i \in 1 .. 5 : whole[i] \in Int
    BY <2>1, <1>2
  <2>3. whole \in [1 .. 5 -> Int]
    <3>1. whole = [i \in 1 .. 5 |-> whole[i]]
      BY RatesOfBrackets
    <3> HIDE DEF whole
    <3> QED  BY <2>2, <3>1
  <2> HIDE DEF whole
  <2> QED  BY <1>2, <2>1, <2>3
<1>4. /\ part[1] = 500 * r[1] /\ part[2] = 1500 * r[2] /\ part[3] = 2500 * r[3]
      /\ part[4] = 3000 * r[4] /\ part[5] = 3500 * r[5]
      /\ part \in [1 .. 5 -> Int]
  <2>1. /\ part[1] = r[1] * 500 /\ part[2] = r[2] * 1500 /\ part[3] = r[3] * 2500
        /\ part[4] = r[4] * 3000 /\ part[5] = r[5] * 3500
    BY <1>2, RatesOfBrackets
  <2>2. \A i \in 1 .. 5 : part[i] \in Int
    BY <2>1, <1>2
  <2>3. part \in [1 .. 5 -> Int]
    <3>1. part = [i \in 1 .. 5 |-> part[i]]
      BY RatesOfBrackets
    <3> HIDE DEF part
    <3> QED  BY <2>2, <3>1
  <2> HIDE DEF part
  <2> QED  BY <1>2, <2>1, <2>3
<1>5. ProgressiveTax(x) = SumOf(whole) + Rounded(SumOf(part), 10000)
  BY DEF ProgressiveTax
<1> HIDE DEF whole, part
<1> DEFINE n == 5 * r[1] + 15 * r[2] + 25 * r[3] + 30 * r[4] + 35 * r[5]
           w == 5 * q[1] + 15 * q[2] + 25 * q[3] + 30 * q[4] + 35 * q[5]
<1>6. SumOf(whole) = 100 * w /\ SumOf(part) = 100 * n /\ w \in Nat /\ n \in Nat
  <2>1. /\ SumOf(whole) = whole[1] + whole[2] + whole[3] + whole[4] + whole[5]
        /\ SumOf(part) = part[1] + part[2] + part[3] + part[4] + part[5]
    BY <1>3, <1>4, SumOfFive
  <2>2. \A i \in 1 .. 5 : q[i] \in Nat /\ r[i] \in Nat
    OBVIOUS
  <2> QED  BY <1>3, <1>4, <2>1, <2>2
<1>7. Exact(x) = 10000 * w + n
  <2>1. Exact(x) = 5 * InBracket(x, 1) + 15 * InBracket(x, 2) + 25 * InBracket(x, 3)
                     + 30 * InBracket(x, 4) + 35 * InBracket(x, 5)
    BY SMT, InEachBracket DEF Exact
  <2>2. \A i \in 1 .. 5 : q[i] \in Nat /\ r[i] \in Nat
    OBVIOUS
  <2> QED  BY <1>2, <2>1, <2>2
<1>8. Hundredths(Rounded(100 * n, 10000), n)
  BY <1>6, RoundedHundredths
<1> HIDE DEF n, w
<1> QED  BY <1>5, <1>6, <1>7, <1>8 DEF Hundredths

\* The tax has no jump and no gap: it is the largest of the lines.
LEMMA TaxIsLargestLine ==
  ASSUME NEW x \in Nat, InScale(x)
  PROVE  IsLargestLine(ProgressiveTax(x), x)
<1>1. /\ TaxLine(x, 1) \in Int /\ Hundredths(TaxLine(x, 1), 5 * x)
      /\ TaxLine(x, 2) \in Int /\ Hundredths(TaxLine(x, 2), 15 * x - 600000000)
      /\ TaxLine(x, 3) \in Int /\ Hundredths(TaxLine(x, 3), 25 * x - 3100000000)
      /\ TaxLine(x, 4) \in Int /\ Hundredths(TaxLine(x, 4), 30 * x - 5600000000)
      /\ TaxLine(x, 5) \in Int /\ Hundredths(TaxLine(x, 5), 35 * x - 30600000000)
  <2>1. /\ Hundredths(Share(x, 500), x * 5) /\ Hundredths(Share(x, 1500), x * 15)
        /\ Hundredths(Share(x, 2500), x * 25) /\ Hundredths(Share(x, 3000), x * 30)
        /\ Hundredths(Share(x, 3500), x * 35)
    <3>1. \A p \in Nat : Hundredths(Share(x, 100 * p), x * p)
      BY SMT, ShareHundredths
    <3>2. 500 = 100 * 5 /\ 1500 = 100 * 15 /\ 2500 = 100 * 25 /\ 3000 = 100 * 30
          /\ 3500 = 100 * 35
      BY SMT
    <3> QED  BY SMT, <3>1, <3>2
  <2>2. /\ TaxLine(x, 1) = Share(x, 500) /\ TaxLine(x, 2) = Share(x, 1500) - 6000000
        /\ TaxLine(x, 3) = Share(x, 2500) - 31000000
        /\ TaxLine(x, 4) = Share(x, 3000) - 56000000
        /\ TaxLine(x, 5) = Share(x, 3500) - 306000000
    BY SMT, <2>1, RatesOfBrackets DEF TaxLine, Saving, Million, Hundredths
  <2> QED  BY SMT, <2>1, <2>2 DEF Hundredths
<1>2. Hundredths(ProgressiveTax(x), Exact(x))
  BY SMT, TaxHundredths
<1>3. PICK i \in 1 .. 5 : ProgressiveTax(x) = TaxLine(x, i)
  BY SMT, <1>1, <1>2 DEF Hundredths, Exact
<1>4. \A j \in 1 .. 5 : TaxLine(x, j) <= ProgressiveTax(x)
  BY SMT, <1>1, <1>2 DEF Hundredths, Exact
<1> QED  BY SMT, <1>3, <1>4, RatesOfBrackets DEF IsLargestLine

\* No bracket takes more than 35 hundredths of what an income has more.
LEMMA ExactGrows ==
  ASSUME NEW x \in Nat, NEW y \in Nat, x <= y
  PROVE  /\ Exact(x) \in Nat /\ Exact(y) \in Nat
         /\ Exact(x) <= Exact(y) /\ Exact(y) <= Exact(x) + 35 * (y - x)
         /\ Exact(0) = 0
BY SMT DEF Exact

\* m is a twelfth of n, rounded half up.
Twelfths(m, n) == m \in Int /\ 12 * m <= n + 6 /\ n + 6 < 12 * m + 12

LEMMA RoundedTwelfths ==
  ASSUME NEW n \in Nat
  PROVE  Twelfths(Rounded(n, 12), n)
BY DEF Rounded, Twelfths

\* More dependents never lower the PTKP.
LEMMA PTKPGrows ==
  ASSUME NEW married \in BOOLEAN, NEW d \in Nat
  PROVE  /\ PTKP(married, d) \in Nat /\ PTKP(married, d + 1) \in Nat
         /\ PTKP(married, d) <= PTKP(married, d + 1)
<1> DEFINE row == PTKPConfig[IF married THEN "K" ELSE "TK"]
<1>1. /\ row[1] \in Nat /\ row[2] \in Nat /\ row[3] \in Nat /\ row[4] \in Nat
      /\ row[1] <= row[2] /\ row[2] <= row[3] /\ row[3] <= row[4]
  <2>1. CASE married
    <3>1. row = PTKPConfig.K
      BY <2>1
    <3> HIDE DEF row
    <3> QED  BY SMT, <3>1 DEF PTKPConfig
  <2>2. CASE ~married
    <3>1. row = PTKPConfig.TK
      BY <2>2
    <3> HIDE DEF row
    <3> QED  BY SMT, <3>1 DEF PTKPConfig
  <2> QED  BY <2>1, <2>2
<1>2. PTKP(married, d) = row[CountedDependents(d) + 1]
      /\ PTKP(married, d + 1) = row[CountedDependents(d + 1) + 1]
  BY DEF PTKP
<1>3. \/ CountedDependents(d) = 0 /\ CountedDependents(d + 1) = 1
      \/ CountedDependents(d) = 1 /\ CountedDependents(d + 1) = 2
      \/ CountedDependents(d) = 2 /\ CountedDependents(d + 1) = 3
      \/ CountedDependents(d) = 3 /\ CountedDependents(d + 1) = 3
  BY DEF CountedDependents, Least
<1> HIDE DEF row
<1> QED  BY <1>1, <1>2, <1>3

\* The tax of a month from what is taxable in the year.
MonthlyOf(x) == Rounded(ProgressiveTax(x), 12)

\* The two roundings of the tax together add less than one rupiah to the
\* seventeen and a half that 600 more a year cost a month.
LEMMA MonthlyOfGrows ==
  ASSUME NEW x \in Nat, InScale(x), NEW y \in Nat, InScale(y), x <= y
  PROVE  /\ MonthlyOf(x) \in Nat /\ MonthlyOf(y) \in Nat
         /\ MonthlyOf(x) <= MonthlyOf(y)
         /\ y - x <= 600 => MonthlyOf(y) <= MonthlyOf(x) + 18
         /\ x = 0 => MonthlyOf(x) = 0
<1>1. PICK t, u : /\ t = ProgressiveTax(x) /\ Hundredths(t, Exact(x))
                  /\ u = ProgressiveTax(y) /\ Hundredths(u, Exact(y))
  BY TaxHundredths
<1>2. PICK e \in Nat, f \in Nat :
        /\ e = Exact(x) /\ f = Exact(y) /\ e <= f /\ f <= e + 35 * (y - x)
        /\ x = 0 => e = 0
  BY ExactGrows
<1>3. /\ t \in Nat /\ u \in Nat /\ t <= u
      /\ y - x <= 600 => u <= t + 210
      /\ x = 0 => t = 0
  BY <1>1, <1>2 DEF Hundredths
<1>4. Twelfths(MonthlyOf(x), t) /\ Twelfths(MonthlyOf(y), u)
  BY <1>1, <1>3, RoundedTwelfths DEF MonthlyOf
<1> HIDE DEF MonthlyOf
<1> QED  BY <1>3, <1>4 DEF Twelfths

\* The insurances take at most one rupiah each of fifty more.
LEMMA InsurancesGrow ==
  ASSUME NEW b \in Nat
  PROVE  /\ Kesehatan(b) \in Int /\ Kesehatan(b + 50) <= Kesehatan(b) + 1
         /\ Ketenagakerjaan(b) \in Int /\ Kesehatan(b + 50) \in Int
         /\ Ketenagakerjaan(b + 50) \in Int
         /\ Ketenagakerjaan(b + 50) <= Ketenagakerjaan(b) + 2
<1>1. \A x \in Nat : Hundredths(Share(x, 100), x) /\ Hundredths(Share(x, 200), 2 * x)
  <2> SUFFICES ASSUME NEW x \in Nat
               PROVE  Hundredths(Share(x, 100), x) /\ Hundredths(Share(x, 200), 2 * x)
    OBVIOUS
  <2>1. Hundredths(Share(x, 100 * 1), x * 1) /\ Hundredths(Share(x, 100 * 2), x * 2)
    BY ShareHundredths
  <2> QED  BY <2>1
<1>2. \A cap \in Nat :
        /\ Share(Least(b, cap), 100) \in Int /\ Share(Least(b + 50, cap), 100) \in Int
        /\ Share(Least(b + 50, cap), 100) <= Share(Least(b, cap), 100) + 1
  <2> SUFFICES ASSUME NEW cap \in Nat
               PROVE  /\ Share(Least(b, cap), 100) \in Int
                      /\ Share(Least(b + 50, cap), 100) \in Int
                      /\ Share(Least(b + 50, cap), 100) <= Share(Least(b, cap), 100) + 1
    OBVIOUS
  <2>1. PICK l \in Nat, m \in Nat : /\ l = Least(b, cap) /\ m = Least(b + 50, cap)
                                    /\ m <= l + 50
    BY DEF Least
  <2> QED  BY <1>1, <2>1 DEF Hundredths
<1>3. KesehatanMaxSalary \in Nat /\ JpMaxSalary \in Nat
  BY SMT DEF KesehatanMaxSalary, JpMaxSalary
<1>4. /\ Kesehatan(b) \in Int /\ Kesehatan(b + 50) \in Int
      /\ Kesehatan(b + 50) <= Kesehatan(b) + 1
  BY <1>2, <1>3 DEF Kesehatan
<1>5. /\ Jp(b) \in Int /\ Jp(b + 50) \in Int /\ Jp(b + 50) <= Jp(b) + 1
  BY <1>2, <1>3 DEF Jp
<1>6. /\ Jht(b) \in Int /\ Jht(b + 50) \in Int /\ Jht(b + 50) <= Jht(b) + 1
  <2>1. b + 50 \in Nat
    OBVIOUS
  <2> QED  BY <1>1, <2>1 DEF Jht, Hundredths
<1> QED  BY <1>4, <1>5, <1>6 DEF Ketenagakerjaan

LEMMA MonthlyTaxGrows ==
  ASSUME NEW b \in Nat, NEW married \in BOOLEAN, NEW d \in Nat,
         \A x \in Nat : x <= 12 * (b + 50) => InScale(x)
  PROVE  /\ MonthlyTax(b, married, d) \in Nat /\ MonthlyTax(b + 50, married, d) \in Nat
         /\ MonthlyTax(b + 50, married, d) <= MonthlyTax(b, married, d) + 18
         /\ MonthlyTax(b, married, d + 1) <= MonthlyTax(b, married, d)
         /\ 12 * b <= PTKP(married, d) => MonthlyTax(b, married, d) = 0
<1>1. PICK p \in Nat, q \in Nat :
        p = PTKP(married, d) /\ q = PTKP(married, d + 1) /\ p <= q
  BY PTKPGrows
<1>2. PICK x \in Nat, y \in Nat, z \in Nat :
        /\ x = TaxableIncome(b, married, d)
        /\ y = TaxableIncome(b + 50, married, d)
        /\ z = TaxableIncome(b, married, d + 1)
        /\ z <= x /\ x <= y /\ y - x <= 600 /\ y <= 12 * (b + 50)
        /\ 12 * b <= p => x = 0
  <2>1. /\ TaxableIncome(b, married, d) = (IF 12 * b - p > 0 THEN 12 * b - p ELSE 0)
        /\ TaxableIncome(b + 50, married, d)
             = (IF 12 * (b + 50) - p > 0 THEN 12 * (b + 50) - p ELSE 0)
        /\ TaxableIncome(b, married, d + 1) = (IF 12 * b - q > 0 THEN 12 * b - q ELSE 0)
    BY <1>1 DEF TaxableIncome
  <2> QED  BY <1>1, <2>1
<1>3. InScale(x) /\ InScale(y) /\ InScale(z)
  BY <1>2
<1>4. /\ MonthlyTax(b, married, d) = MonthlyOf(x)
      /\ MonthlyTax(b + 50, married, d) = MonthlyOf(y)
      /\ MonthlyTax(b, married, d + 1) = MonthlyOf(z)
  BY <1>2 DEF MonthlyTax, MonthlyOf
<1>5. /\ MonthlyOf(x) \in Nat /\ MonthlyOf(y) \in Nat /\ MonthlyOf(z) <= MonthlyOf(x)
      /\ MonthlyOf(y) <= MonthlyOf(x) + 18
      /\ x = 0 => MonthlyOf(x) = 0
  BY <1>2, <1>3, MonthlyOfGrows
<1> QED  BY <1>1, <1>2, <1>4, <1>5

\* Fifty more a month cost at most 18 of tax and 3 of insurances.
LEMMA TakeHomeGrows ==
  ASSUME NEW b \in Nat, NEW married \in BOOLEAN, NEW d \in Nat,
         \A x \in Nat : x <= 12 * (b + 50) => InScale(x)
  PROVE  TakeHome(b, married, d) < TakeHome(b + 50, married, d)
<1> DEFINE terms == [NoExtras EXCEPT !.dependents = d]
<1>1. terms.dependents = d /\ terms.allowances = 0 /\ terms.other = 0
  BY DEF NoExtras
<1>2. \A a : TakeHome(a, married, d) = Breakdown(a, 0, married, terms).takeHome
  BY DEF TakeHome
<1> HIDE DEF terms
<1>3. ASSUME NEW a \in Nat
      PROVE  TakeHome(a, married, d)
               = a - (MonthlyTax(a, married, d) + Kesehatan(a) + Ketenagakerjaan(a) + 0)
  <2>1. MonthlyGross(a, 0, terms.allowances) = a
    BY <1>1 DEF MonthlyGross
  <2> QED  BY <1>1, <1>2, <2>1 DEF Breakdown
<1>4. /\ TakeHome(b, married, d)
           = b - (MonthlyTax(b, married, d) + Kesehatan(b) + Ketenagakerjaan(b) + 0)
      /\ TakeHome(b + 50, married, d)
           = (b + 50) - (MonthlyTax(b + 50, married, d) + Kesehatan(b + 50)
                         + Ketenagakerjaan(b + 50) + 0)
  <2>1. b + 50 \in Nat
    OBVIOUS
  <2> QED  BY <1>3, <2>1
<1>5. /\ MonthlyTax(b, married, d) \in Nat /\ MonthlyTax(b + 50, married, d) \in Nat
      /\ MonthlyTax(b + 50, married, d) <= MonthlyTax(b, married, d) + 18
  BY MonthlyTaxGrows
<1> QED  BY <1>4, <1>5, InsurancesGrow

\* The walk stays where the formulas have a last bracket, and where fifty more
\* a month still do.
ScaleInv == income \in Nat /\ income >= 1 /\ InScale(income + 600)

\* For every base salary, marital status and number of dependents, the tax has
\* no jump or gap at a limit, nothing is taxed up to the PTKP, a dependent more
\* never raises the tax, and 50 rupiah more a month never lower the take-home
\* pay.
THEOREM MorePay == ScaleSpec => []MorePayIsMoreToTakeHome
<1>0. ScaleAssumption
  BY ScaleConstants
<1>1. ScaleInit => ScaleInv
  BY SMT DEF ScaleInit, ScaleInv, InScale, Million
<1>2. ScaleInv /\ [Climb]_income => ScaleInv'
  <2> SUFFICES ASSUME ScaleInv, [Climb]_income PROVE ScaleInv'
    OBVIOUS
  <2>1. CASE Climb
    <3>1. PICK d \in Stride : d <= Top - income /\ income' = income + d
      BY <2>1 DEF Climb
    <3>2. d \in Nat /\ income \in Nat /\ income >= 1 /\ Top \in Nat /\ Top \div Million < 999999
      BY SMT, <1>0 DEF ScaleAssumption, ScaleInv
    <3> QED  BY SMT, <3>1, <3>2 DEF ScaleInv, InScale, Million
  <2>2. CASE UNCHANGED income
    BY <2>2 DEF ScaleInv, InScale
  <2> QED  BY <2>1, <2>2
<1>3. ScaleInv => MorePayIsMoreToTakeHome
  <2> SUFFICES ASSUME ScaleInv PROVE MorePayIsMoreToTakeHome
    OBVIOUS
  <2>1. PICK base \in Nat : base = income \div 12 /\ 12 * base <= income
    BY DEF ScaleInv
  <2>2. \A x \in Nat : x <= income + 600 => InScale(x)
    BY SMT DEF ScaleInv, InScale, Million
  <2>3. \A x \in Nat : x <= 12 * (base + 50) => InScale(x)
    BY <2>1, <2>2 DEF ScaleInv
  <2>4. \A x \in income - 1 .. income + 1 : IsLargestLine(ProgressiveTax(x), x)
    <3>1. \A x \in income - 1 .. income + 1 : x \in Nat /\ InScale(x)
      BY <2>2 DEF ScaleInv
    <3> QED  BY <3>1, TaxIsLargestLine
  <2>5. \A married \in BOOLEAN, d \in Nat :
          /\ 12 * base <= PTKP(married, d) => MonthlyTax(base, married, d) = 0
          /\ MonthlyTax(base, married, d + 1) <= MonthlyTax(base, married, d)
          /\ TakeHome(base, married, d) < TakeHome(base + 50, married, d)
    BY <2>3, MonthlyTaxGrows, TakeHomeGrows
  <2>6. \A d \in 0 .. 4 : d \in Nat
    OBVIOUS
  <2> QED  BY <2>1, <2>4, <2>5, <2>6 DEF MorePayIsMoreToTakeHome
<1> QED  BY <1>1, <1>2, <1>3, PTL DEF ScaleSpec
=============================================================================
