------------------------------ MODULE MCLeave ------------------------------
(* Small instances of LeaveAudit. *)
EXTENDS LeaveAudit, TLC

CONSTANTS eve, max,   \* an employee and her manager
          nobody, annual, r1, r2, r3, c1, c2

\* max has no manager, so his leave goes to HR directly.
Pair == {eve, max}
PairManagers == eve :> max @@ max :> nobody

Solo == {max}
SoloManagers == max :> nobody

AnnualOnly == {annual}
Quota2 == annual :> 2
Quota3 == annual :> 3
NoLimit == annual :> 0
Limit2 == annual :> 2
Notice1 == annual :> 1

OneDay == {[first |-> 2, last |-> 2]}
\* two ranges that overlap, the longer one within Limit2
Days3 == {[first |-> 2, last |-> 3], [first |-> 3, last |-> 3]}
\* one more that keeps no notice, and one that overlaps with none
Days4 == Days3 \cup {[first |-> 1, last |-> 1], [first |-> 4, last |-> 4]}

Requests1 == {r1}
Requests2 == {r1, r2}
Requests3 == {r1, r2, r3}
Calls1 == {c1}
Calls2 == {c1, c2}
Periods1 == {1}
Periods2 == {1, 2}

Symmetry == Permutations(RequestId) \cup Permutations(Call)
=============================================================================
