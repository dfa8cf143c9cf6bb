-------------------------- MODULE PayrollLifecycle --------------------------
(***************************************************************************)
(* What the payroll module promises about one payroll id at a time: it     *)
(* only goes forward, from absent over pending and processed to paid, it   *)
(* may be discarded for good, and at most one payslip at a time is out for *)
(* a payroll that exists.                                                  *)
(***************************************************************************)
EXTENDS FiniteSets

CONSTANT Id

VARIABLES
  stage,  \* of each id
  out     \* the ids whose payslip is out

lifecycle == <<stage, out>>

Begin == stage = [i \in Id |-> "absent"] /\ out = {}

\* The stages a payroll that exists goes through.
Exists(i) == stage[i] \in {"pending", "processed", "paid"}

Advance(i, from, to) ==
  /\ stage[i] = from
  /\ stage' = [stage EXCEPT ![i] = to]
  /\ UNCHANGED out

Discard(i) ==
  /\ Exists(i)
  /\ stage' = [stage EXCEPT ![i] = "gone"]
  /\ out' = out \ {i}

Issue(i) ==
  /\ Exists(i) /\ i \notin out
  /\ out' = out \cup {i}
  /\ UNCHANGED stage

Withdraw(i) ==
  /\ i \in out
  /\ out' = out \ {i}
  /\ UNCHANGED stage

Step(i) ==
  \/ Advance(i, "absent", "pending")
  \/ Advance(i, "pending", "processed")
  \/ Advance(i, "processed", "paid")
  \/ Discard(i) \/ Issue(i) \/ Withdraw(i)

Lifecycle == Begin /\ [][\E i \in Id : Step(i)]_lifecycle
=============================================================================
