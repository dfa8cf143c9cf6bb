------------------------------ MODULE PayScale ------------------------------
(***************************************************************************)
(* A walk up the scale of incomes, at every step of which the formulas of  *)
(* a payslip are compared with what the scale of the tax and the caps of   *)
(* the insurances are meant to give.                                       *)
(***************************************************************************)
EXTENDS PayslipFormulas

CONSTANTS
  Stride,  \* from one income looked at to another
  Top      \* BOUND on the income of a year

\* TaxBrackets writes the Infinity of the last bracket as 1000000 million.
ScaleAssumption == Stride \subseteq Nat /\ Top \in Nat /\ Top \div Million < 999999

ASSUME ScaleConstants == ScaleAssumption

VARIABLE income  \* of a year, 0 while none is looked at

ScaleInit == income = 1

Climb == \E d \in Stride : d <= Top - income /\ income' = income + d

ScaleSpec == ScaleInit /\ [][Climb]_income

\* What the lower brackets save, in millions: the tax of an income is the
\* largest of the lines rate * income - saving.
Saving == <<0, 6, 31, 56, 306>>

TaxLine(x, i) == Share(x, TaxBrackets[i].rate) - Saving[i] * Million

IsLargestLine(tax, x) ==
  /\ \E i \in DOMAIN TaxBrackets : tax = TaxLine(x, i)
  /\ \A i \in DOMAIN TaxBrackets : TaxLine(x, i) <= tax

NoExtras == [dependents |-> 0, allowances |-> 0, other |-> 0]

TakeHome(base, married, dependents) ==
  Breakdown(base, 0, married, [NoExtras EXCEPT !.dependents = dependents]).takeHome

\* calculateProgressiveTax, calculatePPh21 and calculateBPJS, at any
\* income: the tax has no jump and no gap, nothing is taxed up to the PTKP,
\* more dependents never mean more tax, and 50 rupiah more a month are never
\* lost to the tax, the caps and the roundings together.
MorePayIsMoreToTakeHome ==
  income > 0 =>
    LET base == income \div 12
    IN  /\ \A x \in income - 1 .. income + 1 : IsLargestLine(ProgressiveTax(x), x)
        /\ \A married \in BOOLEAN, dependents \in 0 .. 4 :
             /\ 12 * base <= PTKP(married, dependents)
                  => MonthlyTax(base, married, dependents) = 0
             /\ MonthlyTax(base, married, dependents + 1)
                  <= MonthlyTax(base, married, dependents)
             /\ TakeHome(base, married, dependents)
                  < TakeHome(base + 50, married, dependents)
=============================================================================
