----------------------------- MODULE MCPayroll -----------------------------
(* Small instances of PayrollAudit. *)
EXTENDS PayrollAudit, TLC

CONSTANTS ann, bob, c1, c2

\* a month, and a period inside it
SomePeriods == {[from |-> 1, to |-> 30], [from |-> 10, to |-> 12]}

OnePeriod == {[from |-> 1, to |-> 30]}

SomeExtra == {[bonuses |-> 0, percentage |-> 10, deductions |-> 250000]}

SomeTerms == {[dependents |-> 4, allowances |-> 500000, other |-> 100000]}

\* ann has worked late in the period, bob has asked to
SomeOvertime ==
  << [emp |-> bob, day |-> 5, status |-> "PENDING", hours |-> 2],
     [emp |-> ann, day |-> 4, status |-> "APPROVED", hours |-> 3] >>

\* Which half of the instance a behaviour is about: payrolls for overlapping
\* periods, with no payslips, or payrolls for one period with payslips.
VARIABLE focus

Month == [from |-> 1, to |-> 30]

InFocus ==
  IF focus = "periods"
    THEN Generating = {} /\ payslipSeq = 0
    ELSE \A c \in InFlight : "job" \in DOMAIN calls[c] => calls[c].job.period = Month

FocusInit == AuditInit /\ focus \in {"periods", "payslips"}

FocusNext == AuditNext /\ UNCHANGED focus /\ InFocus'

FocusSpec == FocusInit /\ [][FocusNext]_<<auditVars, focus>>

CallSymmetry == Permutations(Call)
=============================================================================
