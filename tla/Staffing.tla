------------------------------ MODULE Staffing ------------------------------
(***************************************************************************)
(* Employees, their users, their salaries and their managers:              *)
(* EmployeesService, SalaryService and SalaryHistoryService of one tenant. *)
(*                                                                         *)
(* One action is one SQL statement with the code up to the next await.     *)
(* The lookup a handler begins with is part of the action that starts the  *)
(* call; a call that ends there changes nothing and is not started.  The   *)
(* profile columns, amounts, grades and reasons are left out.              *)
(***************************************************************************)
EXTENDS Mishaps

CONSTANTS
  StartStaff,        \* there are employees 1 .. StartStaff, 1 with a salary
  NewEmail,          \* the emails of those who are hired
  EmployeeEdit,      \* the bodies of PATCH employees/:id
  NewSalary,         \* the bodies of POST salaries
  SalaryEdit,        \* the bodies of PATCH salaries/:id
  HasManagerColumn,  \* whether employees has the column managerId: schema.prisma
                     \* has it, the migrations of a tenant do not
  MaxUsers,          \* BOUND on the rows of users and of employees
  MaxSalaries,       \* BOUND on the ids salaries hands out
  MaxHistories,      \* BOUND on the rows of salary_histories
  MaxDay             \* BOUND on the calendar

Id == 1 .. MaxUsers

SalaryId == 1 .. MaxSalaries

None == 0  \* a NULL id

Endless == MaxDay + 1  \* endDate is NULL

\* A row of employees: userId, managerId, deletedAt is set, isActive.
EmployeeRow == [user : Id, manager : Id \cup {None}, deleted : BOOLEAN, active : BOOLEAN]

\* A row of salaries: endDate, isActive.
Salary == [emp : Id, until : -1 .. Endless, active : BOOLEAN]

\* A row of salary_histories; PROMOTION stands for what people enter.
History == [emp : Id, type : {"INITIAL", "ADJUSTMENT", "PROMOTION"}]

VARIABLES
  today,      \* the date of the application and of the database
  users,      \* the table users: the email of each
  employees,  \* the table employees
  salaries,   \* the table salaries
  salarySeq,  \* the last id handed out by salaries.id
  histories   \* the table salary_histories

staffTables == <<users, employees, salaries, salarySeq, histories>>

staffVars == <<today, staffTables, calls, mishaps>>

Emails == NewEmail \cup Id

\* The body of POST employees: an email, and whether a base salary is given.
HireBody == [email : NewEmail, paid : BOOLEAN]

StaffingAssumption ==
  /\ {MaxUsers, MaxDay, MaxMishaps} \subseteq Nat
  /\ {MaxSalaries, MaxHistories} \subseteq Nat \ {0}
  /\ StartStaff \in 1 .. MaxUsers
  /\ IsFiniteSet(Call)
  /\ \A edit \in EmployeeEdit :
       /\ "manager" \in DOMAIN edit => edit.manager \in Id \cup {None}
       /\ "active" \in DOMAIN edit => edit.active \in BOOLEAN
       /\ "email" \in DOMAIN edit => edit.email \in Emails
  /\ NewSalary \subseteq [until : -1 .. Endless, active : BOOLEAN, effective : 0 .. MaxDay]
  /\ \A edit \in SalaryEdit :
       /\ "until" \in DOMAIN edit => edit.until \in -1 .. Endless
       /\ "active" \in DOMAIN edit => edit.active \in BOOLEAN

ASSUME StaffingConstants == StaffingAssumption

\* edit is empty in the calls of POST employees and POST salaries.
StaffCall ==
       [pc : {"insertUser"}, email : Emails, paid : BOOLEAN]
  \cup [pc : {"insertEmployee"}, user : Id, paid : BOOLEAN]
  \cup [pc : {"readPay"}, id : Id, edit : EmployeeEdit]
  \cup [pc : {"checkEmail", "writeEmail", "endOld"}, id : Id, edit : EmployeeEdit,
        old : SalaryId \cup {None}]
  \cup [pc : {"endCurrent"}, row : Salary, effective : 0 .. MaxDay]
  \cup [pc : {"insertSalary"}, row : Salary, type : {"INITIAL", "ADJUSTMENT"},
        edit : EmployeeEdit \cup {<< >>}]
  \cup [pc : {"insertHistory"}, id : Id, type : {"INITIAL", "ADJUSTMENT"},
        edit : EmployeeEdit \cup {<< >>}]
  \cup [pc : {"writeEmployee"}, id : Id, edit : EmployeeEdit]
  \cup [pc : {"writeDeleted"}, id : Id, deleted : BOOLEAN]
  \cup [pc : {"findManager", "writeManager"}, id : Id, manager : Id]
  \cup [pc : {"updateSalary"}, id : SalaryId, edit : SalaryEdit]
  \cup [pc : {"deleteSalary"}, id : SalaryId]
  \cup [pc : {"chain"}, at : Id]
  \cup [pc : {"tree"}, pending : SUBSET Id]

Unique(f) == \A i, j \in DOMAIN f : f[i] = f[j] => i = j

StaffingTypeOK ==
  /\ today \in 0 .. MaxDay
  /\ IsTable(users, Id, Emails) /\ Unique(users)
  /\ IsTable(employees, Id, EmployeeRow)
  /\ \A i \in DOMAIN employees : employees[i].user \in DOMAIN users
  /\ \A i, j \in DOMAIN employees : employees[i].user = employees[j].user => i = j
  /\ salarySeq \in 0 .. MaxSalaries
  /\ IsTable(salaries, 1 .. salarySeq, Salary)
  /\ \A s \in DOMAIN salaries : salaries[s].emp \in DOMAIN employees
  /\ IsTable(histories, 1 .. MaxHistories, History)
  /\ \A h \in DOMAIN histories : histories[h].emp \in DOMAIN employees
  /\ IsTable(calls, Call, StaffCall)
  /\ mishaps \in 0 .. MaxMishaps

StaffInit ==
  /\ today = 0
  /\ users = [i \in 1 .. StartStaff |-> i]
  /\ employees = [i \in 1 .. StartStaff |->
                    [user |-> i, manager |-> None, deleted |-> FALSE, active |-> TRUE]]
  /\ salaries = Put(<< >>, 1, [emp |-> 1, until |-> Endless, active |-> TRUE])
  /\ salarySeq = 1
  /\ histories = Put(<< >>, 1, [emp |-> 1, type |-> "INITIAL"])
  /\ calls = << >>
  /\ mishaps = 0

-----------------------------------------------------------------------------
(* Helpers.                                                                *)

Quiet == UNCHANGED <<today, mishaps>>

NewRow(table) == Cardinality(DOMAIN table) + 1

\* isActive and not over: findCurrentSalary, endCurrentSalary.
Current(emp) ==
  {s \in DOMAIN salaries : /\ salaries[s].emp = emp /\ salaries[s].active
                           /\ salaries[s].until >= today}

\* isActive and "endDate" IS NULL: updateEmployee, getProfile.
OpenEnded(emp) == {s \in Current(emp) : salaries[s].until = Endless}

Present == {i \in DOMAIN employees : ~employees[i].deleted}

Taken(email, user) == \E u \in DOMAIN users \ {user} : users[u] = email

\* The calls that may still write a row, for the bounds on ids.
Hiring == {c \in DOMAIN calls : calls[c].pc \in {"insertUser", "insertEmployee"}}

Paying ==
  {c \in DOMAIN calls :
     \/ calls[c].pc \in {"insertUser", "insertEmployee"} /\ calls[c].paid
     \/ calls[c].pc \in {"endOld", "endCurrent", "insertSalary", "insertHistory"}
     \/ /\ calls[c].pc \in {"readPay", "checkEmail", "writeEmail"}
        /\ "pay" \in DOMAIN calls[c].edit}

CanPay ==
  /\ salarySeq + Cardinality(Paying) < MaxSalaries
  /\ Cardinality(DOMAIN histories) + Cardinality(Paying) < MaxHistories

-----------------------------------------------------------------------------
(* createEmployee: four INSERTs, none of them undone.                      *)

\* "User with this email already exists"
CreateEmployee(c) ==
  /\ Free(c)
  /\ Cardinality(DOMAIN users) + Cardinality(Hiring) < MaxUsers
  /\ \E body \in HireBody :
       /\ ~Taken(body.email, None)
       /\ body.paid => CanPay
       /\ Goto(c, [pc |-> "insertUser", email |-> body.email, paid |-> body.paid])
  /\ Quiet /\ UNCHANGED staffTables

\* Mutant: the emails of a tenant are not unique.
InsertAnyUser(c) ==
  /\ At(c, "insertUser")
  /\ users' = Put(users, NewRow(users), calls[c].email)
  /\ Goto(c, [pc |-> "insertEmployee", user |-> NewRow(users), paid |-> calls[c].paid])
  /\ Quiet /\ UNCHANGED <<employees, salaries, salarySeq, histories>>

\* users_email_unique
InsertUser(c) ==
  /\ At(c, "insertUser")
  /\ IF Taken(calls[c].email, None)
       THEN Return(c) /\ UNCHANGED users
       ELSE /\ users' = Put(users, NewRow(users), calls[c].email)
            /\ Goto(c, [pc |-> "insertEmployee", user |-> NewRow(users),
                        paid |-> calls[c].paid])
  /\ Quiet /\ UNCHANGED <<employees, salaries, salarySeq, histories>>

InsertEmployee(c) ==
  /\ At(c, "insertEmployee")
  /\ LET id == NewRow(employees)
     IN  /\ employees' = Put(employees, id, [user |-> calls[c].user, manager |-> None,
                                             deleted |-> FALSE, active |-> TRUE])
         /\ IF calls[c].paid
              THEN Goto(c, [pc |-> "insertSalary", type |-> "INITIAL", edit |-> << >>,
                            row |-> [emp |-> id, until |-> Endless, active |-> TRUE]])
              ELSE Return(c)
  /\ Quiet /\ UNCHANGED <<users, salaries, salarySeq, histories>>

-----------------------------------------------------------------------------
(* updateEmployee.                                                         *)

\* PUT and PATCH employees/:id, "Employee not found"
UpdateEmployee(c) ==
  /\ Free(c)
  /\ \E i \in Present, ed \in EmployeeEdit :
       /\ "pay" \in DOMAIN ed => CanPay
       /\ Goto(c, [pc |-> "readPay", id |-> i, edit |-> ed])
  /\ Quiet /\ UNCHANGED staffTables

\* From the email on: a salary without an amount, neither given nor there to be
\* copied, is refused by its INSERT; without a column to write there is no UPDATE.
AfterEmail(c, old) ==
  LET i    == calls[c].id
      ed   == calls[c].edit
      row  == [emp |-> i, until |-> Endless, active |-> TRUE]
  IN  IF "pay" \in DOMAIN ed
        THEN IF old # None
               THEN Goto(c, [pc |-> "endOld", id |-> i, edit |-> ed, old |-> old])
               ELSE IF ed.pay = "allowances"
                      THEN Return(c)
                      ELSE Goto(c, [pc |-> "insertSalary", row |-> row,
                                    type |-> "ADJUSTMENT", edit |-> ed])
        ELSE IF DOMAIN ed \cap {"manager", "active"} # {}
               THEN Goto(c, [pc |-> "writeEmployee", id |-> i, edit |-> ed])
               ELSE Return(c)

\* Get current salary for comparison, LIMIT 1 without an ORDER BY.
ReadPay(c) ==
  /\ At(c, "readPay")
  /\ \E old \in IF OpenEnded(calls[c].id) = {} THEN {None} ELSE OpenEnded(calls[c].id) :
       IF "email" \in DOMAIN calls[c].edit
         THEN Goto(c, [pc |-> "checkEmail", id |-> calls[c].id, edit |-> calls[c].edit,
                       old |-> old])
         ELSE AfterEmail(c, old)
  /\ Quiet /\ UNCHANGED staffTables

UserOf(i) == employees[i].user

\* "Email already in use by another user"
CheckEmail(c) ==
  /\ At(c, "checkEmail")
  /\ IF Taken(calls[c].edit.email, UserOf(calls[c].id))
       THEN Return(c)
       ELSE Goto(c, [calls[c] EXCEPT !.pc = "writeEmail"])
  /\ Quiet /\ UNCHANGED staffTables

WriteEmail(c) ==
  /\ At(c, "writeEmail")
  /\ IF Taken(calls[c].edit.email, UserOf(calls[c].id))
       THEN Return(c) /\ UNCHANGED users
       ELSE /\ users' = [users EXCEPT ![UserOf(calls[c].id)] = calls[c].edit.email]
            /\ AfterEmail(c, calls[c].old)
  /\ Quiet /\ UNCHANGED <<employees, salaries, salarySeq, histories>>

\* Mutant: the old salary gets its end date and stays active.
EndOldLater(c) ==
  /\ At(c, "endOld")
  /\ salaries' = IF calls[c].old \in DOMAIN salaries
                   THEN [salaries EXCEPT ![calls[c].old].until = today]
                   ELSE salaries
  /\ Goto(c, [pc |-> "insertSalary", type |-> "ADJUSTMENT", edit |-> calls[c].edit,
              row |-> [emp |-> calls[c].id, until |-> Endless, active |-> TRUE]])
  /\ Quiet /\ UNCHANGED <<users, employees, salarySeq, histories>>

\* If there's an active salary, end it first.
EndOld(c) ==
  /\ At(c, "endOld")
  /\ salaries' = IF calls[c].old \in DOMAIN salaries
                   THEN [salaries EXCEPT ![calls[c].old].until = today,
                                         ![calls[c].old].active = FALSE]
                   ELSE salaries
  /\ Goto(c, [pc |-> "insertSalary", type |-> "ADJUSTMENT", edit |-> calls[c].edit,
              row |-> [emp |-> calls[c].id, until |-> Endless, active |-> TRUE]])
  /\ Quiet /\ UNCHANGED <<users, employees, salarySeq, histories>>

\* Only the columns of the body; the manager is not looked up.
WriteEmployee(c) ==
  /\ At(c, "writeEmployee")
  /\ LET ed == calls[c].edit
     IN  employees' = IF "manager" \in DOMAIN ed /\ ~HasManagerColumn
                        THEN employees
                        ELSE [employees EXCEPT
                                ![calls[c].id].manager = Setting(ed, "manager", @),
                                ![calls[c].id].active = Setting(ed, "active", @)]
  /\ Return(c)
  /\ Quiet /\ UNCHANGED <<users, salaries, salarySeq, histories>>

-----------------------------------------------------------------------------
(* Salaries.                                                               *)

\* POST salaries, with its reading of the current salary.
CreateSalary(c) ==
  /\ Free(c)
  /\ CanPay
  /\ \E i \in DOMAIN employees, body \in NewSalary :
       LET row == [emp |-> i, until |-> body.until, active |-> body.active]
       IN  IF Current(i) # {}
             THEN Goto(c, [pc |-> "endCurrent", row |-> row,
                           effective |-> body.effective])
             ELSE Goto(c, [pc |-> "insertSalary", row |-> row, type |-> "INITIAL",
                           edit |-> << >>])
  /\ Quiet /\ UNCHANGED staffTables

\* endCurrentSalary: every current salary ends the day before the new one.
EndCurrent(c) ==
  /\ At(c, "endCurrent")
  /\ LET ends == Current(calls[c].row.emp)
     IN  salaries' = [s \in DOMAIN salaries |->
                        IF s \in ends
                          THEN [salaries[s] EXCEPT !.until = calls[c].effective - 1,
                                                   !.active = FALSE]
                          ELSE salaries[s]]
  /\ Goto(c, [pc |-> "insertSalary", row |-> calls[c].row, type |-> "ADJUSTMENT",
              edit |-> << >>])
  /\ Quiet /\ UNCHANGED <<users, employees, salarySeq, histories>>

\* The INSERT of all three handlers.
InsertSalary(c) ==
  /\ At(c, "insertSalary")
  /\ salarySeq' = salarySeq + 1
  /\ salaries' = Put(salaries, salarySeq', calls[c].row)
  /\ Goto(c, [pc |-> "insertHistory", id |-> calls[c].row.emp, type |-> calls[c].type,
              edit |-> calls[c].edit])
  /\ Quiet /\ UNCHANGED <<users, employees, histories>>

\* Mutant: only a change of salary is recorded, not the first one.
InsertChangeHistory(c) ==
  /\ At(c, "insertHistory")
  /\ histories' = IF calls[c].type = "INITIAL"
                    THEN histories
                    ELSE Put(histories, NewRow(histories),
                             [emp |-> calls[c].id, type |-> calls[c].type])
  /\ IF calls[c].edit = << >>
       THEN Return(c)
       ELSE Goto(c, [pc |-> "writeEmployee", id |-> calls[c].id, edit |-> calls[c].edit])
  /\ Quiet /\ UNCHANGED <<users, employees, salaries, salarySeq>>

\* The INSERT into salary_histories that follows; updateEmployee goes on.
InsertHistory(c) ==
  /\ At(c, "insertHistory")
  /\ histories' = Put(histories, NewRow(histories),
                      [emp |-> calls[c].id, type |-> calls[c].type])
  /\ IF calls[c].edit = << >>
       THEN Return(c)
       ELSE Goto(c, [pc |-> "writeEmployee", id |-> calls[c].id, edit |-> calls[c].edit])
  /\ Quiet /\ UNCHANGED <<users, employees, salaries, salarySeq>>

\* PATCH salaries/:id, which can not take an end date away.
UpdateSalary(c) ==
  /\ Free(c)
  /\ \E s \in DOMAIN salaries, ed \in SalaryEdit :
       Goto(c, [pc |-> "updateSalary", id |-> s, edit |-> ed])
  /\ Quiet /\ UNCHANGED staffTables

WriteSalary(c) ==
  /\ At(c, "updateSalary")
  /\ LET s  == calls[c].id
         ed == calls[c].edit
     IN  salaries' = IF s \in DOMAIN salaries
                       THEN [salaries EXCEPT ![s].until = Setting(ed, "until", @),
                                             ![s].active = Setting(ed, "active", @)]
                       ELSE salaries
  /\ Return(c)
  /\ Quiet /\ UNCHANGED <<users, employees, salarySeq, histories>>

\* DELETE salaries/:id
RemoveSalary(c) ==
  /\ Free(c)
  /\ \E s \in DOMAIN salaries : Goto(c, [pc |-> "deleteSalary", id |-> s])
  /\ Quiet /\ UNCHANGED staffTables

DeleteSalary(c) ==
  /\ At(c, "deleteSalary")
  /\ salaries' = [s \in DOMAIN salaries \ {calls[c].id} |-> salaries[s]]
  /\ Return(c)
  /\ Quiet /\ UNCHANGED <<users, employees, salarySeq, histories>>

\* POST salary-history
AddHistory ==
  /\ Cardinality(DOMAIN histories) + Cardinality(Paying) < MaxHistories
  /\ \E i \in DOMAIN employees :
       histories' = Put(histories, NewRow(histories), [emp |-> i, type |-> "PROMOTION"])
  /\ Quiet /\ UNCHANGED <<users, employees, salaries, salarySeq, calls>>

-----------------------------------------------------------------------------
(* Dismissal, and the organisation.                                        *)

\* DELETE employees/:id, "Employee not found"
DeleteEmployee(c) ==
  /\ Free(c)
  /\ \E i \in Present : Goto(c, [pc |-> "writeDeleted", id |-> i, deleted |-> TRUE])
  /\ Quiet /\ UNCHANGED staffTables

\* PATCH employees/:id/restore, "Deleted employee not found"
RestoreEmployee(c) ==
  /\ Free(c)
  /\ \E i \in DOMAIN employees \ Present :
       Goto(c, [pc |-> "writeDeleted", id |-> i, deleted |-> FALSE])
  /\ Quiet /\ UNCHANGED staffTables

WriteDeleted(c) ==
  /\ At(c, "writeDeleted")
  /\ employees' = [employees EXCEPT ![calls[c].id].deleted = calls[c].deleted]
  /\ Return(c)
  /\ Quiet /\ UNCHANGED <<users, salaries, salarySeq, histories>>

\* PUT employees/:id/manager, "Employee not found"
SetManager(c) ==
  /\ Free(c)
  /\ \E i \in Present, m \in Id :
       Goto(c, [pc |-> "findManager", id |-> i, manager |-> m])
  /\ Quiet /\ UNCHANGED staffTables

\* "Manager not found", "Cannot assign employee as their own manager"
FindManager(c) ==
  /\ At(c, "findManager")
  /\ IF calls[c].manager \notin Present \/ calls[c].manager = calls[c].id
       THEN Return(c)
       ELSE Goto(c, [calls[c] EXCEPT !.pc = "writeManager"])
  /\ Quiet /\ UNCHANGED staffTables

\* Whether the manager is below the employee is not asked.
WriteManager(c) ==
  /\ At(c, "writeManager")
  /\ employees' = IF HasManagerColumn
                    THEN [employees EXCEPT ![calls[c].id].manager = calls[c].manager]
                    ELSE employees
  /\ Return(c)
  /\ Quiet /\ UNCHANGED <<users, salaries, salarySeq, histories>>

\* GET employees/:id/management-chain
GetManagementChain(c) ==
  /\ Free(c)
  /\ \E i \in DOMAIN employees : Goto(c, [pc |-> "chain", at |-> i])
  /\ Quiet /\ UNCHANGED staffTables

\* One turn of the loop, dismissed employees included.
ClimbChain(c) ==
  /\ At(c, "chain")
  /\ LET manager == employees[calls[c].at].manager
     IN  IF manager = None \/ manager \notin DOMAIN employees
           THEN Return(c)
           ELSE Goto(c, [calls[c] EXCEPT !.at = manager])
  /\ Quiet /\ UNCHANGED staffTables

\* GET employees/:id/organization-tree; its reading of the employee.
GetOrganizationTree(c) ==
  /\ Free(c)
  /\ HasManagerColumn
  /\ \E i \in Present : Goto(c, [pc |-> "tree", pending |-> {i}])
  /\ Quiet /\ UNCHANGED staffTables

\* Mutant: those with the same manager instead, as the siblings are found.
Siblings(i) == {j \in Present \ {i} : employees[j].manager = employees[i].manager}

Subordinates(i) == {j \in Present : employees[j].manager = i}

\* getSubordinatesRecursive; which of the pending calls is next is left open.
DescendTree(c) ==
  /\ At(c, "tree")
  /\ \E i \in calls[c].pending :
       LET rest == (calls[c].pending \ {i}) \cup Subordinates(i)
       IN  IF rest = {}
             THEN Return(c)
             ELSE Goto(c, [calls[c] EXCEPT !.pending = rest])
  /\ Quiet /\ UNCHANGED staffTables

-----------------------------------------------------------------------------
\* A statement fails: the call ends.
StaffFail(c) ==
  /\ c \in DOMAIN calls
  /\ Mishap
  /\ Return(c)
  /\ UNCHANGED <<today, staffTables>>

StaffCrash ==
  /\ Mishap
  /\ calls' = << >>
  /\ UNCHANGED <<today, staffTables>>

Midnight ==
  /\ today < MaxDay
  /\ today' = today + 1
  /\ UNCHANGED <<staffTables, calls, mishaps>>

NewStaffCall(c) ==
  \/ CreateEmployee(c) \/ UpdateEmployee(c) \/ DeleteEmployee(c) \/ RestoreEmployee(c)
  \/ SetManager(c) \/ GetManagementChain(c) \/ GetOrganizationTree(c)
  \/ CreateSalary(c) \/ UpdateSalary(c) \/ RemoveSalary(c)

StaffStep(c) ==
  \/ InsertUser(c) \/ InsertEmployee(c) \/ ReadPay(c) \/ CheckEmail(c) \/ WriteEmail(c)
  \/ EndOld(c) \/ WriteEmployee(c) \/ EndCurrent(c) \/ InsertSalary(c)
  \/ InsertHistory(c) \/ WriteSalary(c) \/ DeleteSalary(c) \/ WriteDeleted(c)
  \/ FindManager(c) \/ WriteManager(c) \/ ClimbChain(c) \/ DescendTree(c)

StaffNext ==
  \/ \E c \in Call : NewStaffCall(c) \/ StaffStep(c) \/ StaffFail(c)
  \/ AddHistory \/ Midnight \/ StaffCrash

StaffSpec == StaffInit /\ [][StaffNext]_staffVars
=============================================================================
