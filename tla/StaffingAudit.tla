--------------------------- MODULE StaffingAudit ---------------------------
(***************************************************************************)
(* What the handlers of module Staffing achieve when a call has the tables *)
(* to itself, and what becomes of users, salaries and the organisation     *)
(* when calls overlap or fail half way.                                    *)
(***************************************************************************)
EXTENDS Staffing, Overlaps

VARIABLES
  seen,        \* of each walk through the organisation, whom it has read
  tangled      \* the employees who have had two current salaries

staffAuditVars == <<staffVars, overlapped, seen, tangled>>

StaffAuditInit == StaffInit /\ overlapped = {} /\ seen = << >> /\ tangled = {}

Walks == {c \in InFlight : calls[c].pc \in {"chain", "tree"}}

\* Whom the walk of c has just read.
ReadBy(c) ==
  IF At(c, "chain") THEN {calls[c].at}
  ELSE IF At(c, "tree")
    THEN calls[c].pending \ (IF Free(c)' THEN {} ELSE calls'[c].pending)
    ELSE {}

StaffAuditNext ==
  /\ StaffNext
  /\ overlapped' = IF Cardinality(InFlight') > 1 \/ today' # today
                     THEN InFlight'
                     ELSE overlapped \cap InFlight'
  /\ seen' = [c \in Walks' |->
                IF c \in Walks /\ calls'[c] # calls[c] THEN seen[c] \cup ReadBy(c)
                ELSE IF c \in Walks THEN seen[c] ELSE {}]
  /\ tangled' = tangled \cup {i \in DOMAIN employees' : Cardinality(Current(i)') > 1}

StaffAuditSpec == StaffAuditInit /\ [][StaffAuditNext]_staffAuditVars

-----------------------------------------------------------------------------
\* POST salaries and PATCH employees/:id end the salary there is before they
\* insert the next.  An employee gets a second current salary only by a call
\* that met another one, by a PATCH of a salary, or because updateEmployee does
\* not see a salary that has its end date ahead, although it is current.
TwoSalariesHaveACause ==
  \A i \in DOMAIN employees \ tangled :
    Cardinality(Current(i)') > 1 =>
      \E c \in InFlight :
        \/ At(c, "updateSalary")
        \/ At(c, "insertSalary") /\ ~Alone(c)
        \/ /\ At(c, "insertSalary") /\ calls[c].edit # << >>
           /\ \E s \in Current(i) : salaries[s].until # Endless

\* No current salary, and no handler about to insert one.
Unpaid(i) ==
  /\ Current(i) = {}
  /\ ~ \E c \in InFlight : At(c, "insertSalary") /\ calls[c].row.emp = i

\* An employee loses the salary without getting another only by a failure, by
\* an administrator who ends or removes it, by a new one that is not current,
\* or by the day it ends on.
LostSalariesHaveACause ==
  \A i \in DOMAIN employees :
    (~Unpaid(i) /\ Unpaid(i)') =>
      \/ mishaps' > mishaps
      \/ today' > today
      \/ \E c \in InFlight :
           \/ At(c, "updateSalary") \/ At(c, "deleteSalary")
           \/ /\ At(c, "insertSalary")
              /\ ~calls[c].row.active \/ calls[c].row.until < today

SalariesFollowEachOther ==
  [][TwoSalariesHaveACause /\ LostSalariesHaveACause]_staffAuditVars

-----------------------------------------------------------------------------
\* The users that belong to no employee and are about to belong to none.
Stranded ==
  {u \in DOMAIN users :
     /\ ~ \E i \in DOMAIN employees : employees[i].user = u
     /\ ~ \E c \in InFlight : At(c, "insertEmployee") /\ calls[c].user = u}

\* The salaries ever inserted that salary_histories says nothing of.
Unrecorded ==
  salarySeq - Cardinality({h \in DOMAIN histories : histories[h].type # "PROMOTION"})
            - Cardinality({c \in InFlight : At(c, "insertHistory")})

\* createEmployee undoes nothing: a user without an employee, whose email can
\* not be hired again, is what a failure leaves; so is a salary that has no
\* line in the history.
HalfHiredAreCounted ==
  Cardinality(Stranded) + Unrecorded <= mishaps * Cardinality(Call)

-----------------------------------------------------------------------------
\* Following managerId from i never ends: i is among employees whose managers
\* are all among them.
GoesRound(i) ==
  \E group \in SUBSET DOMAIN employees :
    i \in group /\ \A j \in group : employees[j].manager \in group

\* Neither walk remembers where it has been and setManager lets a cycle in: a
\* walk that nobody disturbs reads an employee for the second time, and then
\* goes on for ever, only where the managers go round.
WalksRepeatOnlyInCycles ==
  [][\A c \in Walks :
       (Alone(c) /\ (Free(c)' \/ calls'[c] # calls[c]) /\ mishaps' = mishaps) =>
         \A i \in ReadBy(c) \cap seen[c] : GoesRound(i)]_staffAuditVars
=============================================================================
