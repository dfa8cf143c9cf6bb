----------------------------- MODULE MCOvertime -----------------------------
(* Small instances of OvertimeAudit. *)
EXTENDS OvertimeAudit, TLC

CONSTANTS eve, ann, c1, c2

\* a PATCH of the status, and one of the date
SomeEdits == {[status |-> "CANCELLED"], [day |-> 2]}

NoEdits == {}

CallSymmetry == Permutations(Call)
=============================================================================
