-------------------------- MODULE PayslipFormulas --------------------------
(***************************************************************************)
(* The sums of a payslip: the monthly withholding tax PPh 21, the employee *)
(* shares of the social insurances BPJS, and the take-home pay.  Amounts   *)
(* are whole rupiah.  The default configuration is the one that applies:   *)
(* the client of a tenant has no model `setting'.  A rate is written per   *)
(* ten thousand, a limit of a tax bracket in millions, so that no product  *)
(* leaves the integers of TLC as long as a month stays below 170 million.  *)
(***************************************************************************)
EXTENDS FiniteSets, Tables

Million == 1000000

\* Math.round(n / d) of a non-negative quotient.
Rounded(n, d) == (2 * n + d) \div (2 * d)

\* Math.round(amount * rate), without forming the product.
Share(amount, rate) ==
  (amount \div 10000) * rate + Rounded((amount % 10000) * rate, 10000)

Least(a, b) == IF a <= b THEN a ELSE b

-----------------------------------------------------------------------------
(* PPh 21.                                                                 *)

\* PTKP, the income that is not taxed, by category and dependents.
PTKPConfig ==
  [TK |-> <<54000000, 58500000, 63000000, 67500000>>,
   K  |-> <<58500000, 63000000, 67500000, 72000000>>]

\* "Max 3 tanggungan".
CountedDependents(dependents) == Least(dependents, 3)

PTKP(married, dependents) ==
  PTKPConfig[IF married THEN "K" ELSE "TK"][CountedDependents(dependents) + 1]

\* The limit of the last bracket is null in the code, which reads as Infinity.
TaxBrackets ==
  << [limit |-> 60,      rate |-> 500],
     [limit |-> 250,     rate |-> 1500],
     [limit |-> 500,     rate |-> 2500],
     [limit |-> 5000,    rate |-> 3000],
     [limit |-> 1000000, rate |-> 3500] >>

PreviousLimit(i) == IF i = 1 THEN 0 ELSE TaxBrackets[i - 1].limit

\* incomeInBracket: what of the income lies between the two limits.
InBracket(income, i) ==
  IF income \div Million < PreviousLimit(i)
    THEN 0
    ELSE IF income \div Million >= TaxBrackets[i].limit
           THEN (TaxBrackets[i].limit - PreviousLimit(i)) * Million
           ELSE income - PreviousLimit(i) * Million

\* Mutant: the whole income is taxed at the rate of the bracket it ends in.
FlatTax(income) ==
  LET i == CHOOSE j \in DOMAIN TaxBrackets :
             /\ PreviousLimit(j) <= income \div Million
             /\ income \div Million < TaxBrackets[j].limit
  IN  Share(income, TaxBrackets[i].rate)

\* The tax of a year; only the total is rounded.
ProgressiveTax(income) ==
  LET whole == [i \in DOMAIN TaxBrackets |->
                  (InBracket(income, i) \div 10000) * TaxBrackets[i].rate]
      part  == [i \in DOMAIN TaxBrackets |->
                  (InBracket(income, i) % 10000) * TaxBrackets[i].rate]
  IN  SumOf(whole) + Rounded(SumOf(part), 10000)

TaxableIncome(monthlyGross, married, dependents) ==
  LET pkp == 12 * monthlyGross - PTKP(married, dependents)
  IN  IF pkp > 0 THEN pkp ELSE 0

MonthlyTax(monthlyGross, married, dependents) ==
  Rounded(ProgressiveTax(TaxableIncome(monthlyGross, married, dependents)), 12)

-----------------------------------------------------------------------------
(* BPJS, on the base salary alone.                                         *)

KesehatanMaxSalary == 12000000

JpMaxSalary == 9559600

\* BPJS Kesehatan: 1% of the capped salary.
Kesehatan(base) == Share(Least(base, KesehatanMaxSalary), 100)

\* JHT: 2%, no cap.
Jht(base) == Share(base, 200)

\* JP: 1% of the capped salary.
Jp(base) == Share(Least(base, JpMaxSalary), 100)

Ketenagakerjaan(base) == Jht(base) + Jp(base)

-----------------------------------------------------------------------------
\* monthlyGross, the basis of the tax.
MonthlyGross(base, bonuses, allowances) == base + bonuses + allowances

\* The columns of a payslip, from what the payroll and the request say.
Breakdown(base, bonuses, married, terms) ==
  LET gross == MonthlyGross(base, bonuses, terms.allowances)
      tax   == MonthlyTax(gross, married, terms.dependents)
      kes   == Kesehatan(base)
      tk    == Ketenagakerjaan(base)
  IN  [tax |-> tax, kesehatan |-> kes, ketenagakerjaan |-> tk, other |-> terms.other,
       takeHome |-> gross - (tax + kes + tk + terms.other)]

\* The rows of payslip_deductions: three always, the fourth when it is not zero.
DeductionRows(b) ==
  {<<"TAX", b.tax>>, <<"BPJS_KESEHATAN", b.kesehatan>>,
   <<"BPJS_TK", b.ketenagakerjaan>>}
  \cup (IF b.other > 0 THEN {<<"OTHER", b.other>>} ELSE {})
=============================================================================
