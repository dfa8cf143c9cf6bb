------------------------ MODULE StaffingAudit_proofs ------------------------
(***************************************************************************)
(* Proofs about Staffing and StaffingAudit, for any staff, bodies, bounds  *)
(* and calls: the types with the foreign and unique keys, what failures    *)
(* can leave half done, how salaries follow each other, and that a walk    *)
(* through the organisation repeats itself only in a cycle.                *)
(***************************************************************************)
EXTENDS StaffingAudit, Tables_proofs, FiniteSetTheorems, TLAPS

-----------------------------------------------------------------------------
(* The invariant about shapes.                                             *)

\* A table nothing is ever deleted from, numbered from 1.
Dense(t) == IsFiniteSet(DOMAIN t) /\ DOMAIN t = 1 .. Cardinality(DOMAIN t)

\* The employees a call is about.
Subjects(call) ==
  IF call.pc \in {"endCurrent", "insertSalary"} THEN {call.row.emp}
  ELSE IF call.pc = "chain" THEN {call.at}
  ELSE IF call.pc = "tree" THEN call.pending
  ELSE IF call.pc \in {"readPay", "checkEmail", "writeEmail", "endOld", "insertHistory",
                       "writeEmployee", "writeDeleted", "findManager", "writeManager"}
    THEN {call.id}
    ELSE {}

\* What a call remembers of the tables is there.
Backed(call) ==
  /\ Subjects(call) \subseteq DOMAIN employees
  /\ call.pc \in {"checkEmail", "writeEmail"} => "email" \in DOMAIN call.edit
  /\ call.pc = "endOld" => "pay" \in DOMAIN call.edit
  /\ call.pc \in {"checkEmail", "writeEmail", "endOld"} =>
       /\ call.old \in 0 .. salarySeq
       /\ call.old \in DOMAIN salaries => salaries[call.old].emp = call.id
  /\ call.pc = "insertEmployee" =>
       /\ call.user \in DOMAIN users
       /\ \A i \in DOMAIN employees : employees[i].user # call.user

CallsInv ==
  /\ IsTable(calls, Call, StaffCall)
  /\ \A c \in DOMAIN calls : Backed(calls[c])
  /\ \A c, d \in DOMAIN calls :
       (At(c, "insertEmployee") /\ At(d, "insertEmployee") /\ calls[c].user = calls[d].user)
         => c = d

UsersInv == Dense(users) /\ IsTable(users, Nat, Emails) /\ Unique(users)

EmployeesInv ==
  /\ Dense(employees) /\ IsTable(employees, Nat, EmployeeRow)
  /\ \A i \in DOMAIN employees : employees[i].user \in DOMAIN users
  /\ \A i, j \in DOMAIN employees : employees[i].user = employees[j].user => i = j

SalariesInv ==
  /\ salarySeq \in Nat /\ IsTable(salaries, 1 .. salarySeq, Salary)
  /\ \A s \in DOMAIN salaries : salaries[s].emp \in DOMAIN employees

HistoriesInv ==
  /\ Dense(histories) /\ IsTable(histories, Nat, History)
  /\ \A h \in DOMAIN histories : histories[h].emp \in DOMAIN employees

InsertingUser == {c \in DOMAIN calls : calls[c].pc = "insertUser"}

InsertingEmployee == {c \in DOMAIN calls : calls[c].pc = "insertEmployee"}

Recording == {c \in DOMAIN calls : calls[c].pc = "insertHistory"}

\* The rows there are and those that calls in flight may still insert.
BoundsInv ==
  /\ today \in 0 .. MaxDay /\ mishaps \in 0 .. MaxMishaps
  /\ Cardinality(DOMAIN users) + Cardinality(InsertingUser) <= MaxUsers
  /\ Cardinality(DOMAIN employees) + Cardinality(InsertingEmployee)
       <= Cardinality(DOMAIN users)
  /\ salarySeq + Cardinality(Paying \ Recording) <= MaxSalaries
  /\ Cardinality(DOMAIN histories) + Cardinality(Paying) <= MaxHistories

StaffInv ==
  CallsInv /\ UsersInv /\ EmployeesInv /\ SalariesInv /\ HistoriesInv /\ BoundsInv

-----------------------------------------------------------------------------
(* The invariant of the audit.                                             *)

\* The managers of those a walk has read.
ManagersIn(group, others) ==
  \A j \in group : j \in DOMAIN employees /\ employees[j].manager \in others

\* A walk down meets nobody it has read, unless it is in a cycle.
TreeHolds(read, pending) ==
  \/ ManagersIn(read \cup pending, read \cup pending)
  \/ /\ read \cap pending = {}
     /\ \E root \in read \cup pending :
          /\ root \in DOMAIN employees
          /\ ManagersIn((read \cup pending) \ {root}, read)

\* What a call has read is still so.
Holds(c) ==
  /\ At(c, "insertSalary") /\ calls[c].edit = << >> => Current(calls[c].row.emp) = {}
  /\ At(c, "insertSalary") /\ calls[c].edit # << >> =>
       (calls[c].row.emp \notin tangled => OpenEnded(calls[c].row.emp) = {})
  /\ At(c, "checkEmail") \/ At(c, "writeEmail") \/ At(c, "endOld") =>
       (calls[c].id \notin tangled => OpenEnded(calls[c].id) \subseteq {calls[c].old})
  /\ At(c, "chain") => ManagersIn(seen[c], seen[c] \cup {calls[c].at})
  /\ At(c, "tree") => TreeHolds(seen[c], calls[c].pending)

AloneInv == \A c \in Call : Alone(c) => InFlight = {c} /\ Holds(c)

TangledInv == \A i \in DOMAIN employees \ tangled : Cardinality(Current(i)) <= 1

AuditInv == StaffInv /\ AloneInv /\ TangledInv /\ DOMAIN seen = Walks

-----------------------------------------------------------------------------
(* Counting.                                                               *)

LEMMA NewRowIsNew ==
  ASSUME NEW t, Dense(t)
  PROVE  NewRow(t) \notin DOMAIN t
<1>1. PICK n : n = Cardinality(DOMAIN t)
  OBVIOUS
<1>2. n \in Nat /\ DOMAIN t = 1 .. n /\ NewRow(t) = n + 1
  BY <1>1, FS_CardinalityType DEF Dense, NewRow
<1>3. n + 1 \notin 1 .. n
  BY <1>2
<1> QED  BY <1>2, <1>3

LEMMA DenseGrows ==
  ASSUME NEW t, NEW u, NEW row, Dense(t), u = Put(t, NewRow(t), row)
  PROVE  /\ Cardinality(DOMAIN t) \in Nat
         /\ NewRow(t) \in Nat /\ Dense(u)
         /\ Cardinality(DOMAIN u) = Cardinality(DOMAIN t) + 1
         /\ DOMAIN u = DOMAIN t \cup {NewRow(t)}
<1>1. PICK n : n = Cardinality(DOMAIN t)
  OBVIOUS
<1>2. n \in Nat /\ IsFiniteSet(DOMAIN t) /\ DOMAIN t = 1 .. n /\ NewRow(t) = n + 1
  BY <1>1, FS_CardinalityType DEF Dense, NewRow
<1>3. n + 1 \notin DOMAIN t /\ DOMAIN t \cup {n + 1} = 1 .. n + 1
  <2>1. ASSUME NEW k \in Nat
        PROVE  k + 1 \notin 1 .. k /\ 1 .. k \cup {k + 1} = 1 .. k + 1
    OBVIOUS
  <2> QED  BY <1>2, <2>1
<1>4. DOMAIN u = DOMAIN t \cup {n + 1}
  BY <1>2, <1>3 DEF Put
<1>5. IsFiniteSet(DOMAIN u) /\ Cardinality(DOMAIN u) = n + 1
  <2>1. PICK x : x = n + 1
    OBVIOUS
  <2>2. /\ IsFiniteSet(DOMAIN t \cup {x})
        /\ Cardinality(DOMAIN t \cup {x}) = Cardinality(DOMAIN t) + 1
    BY <1>2, <1>3, <2>1, FS_AddElement
  <2> QED  BY <1>1, <1>4, <2>1, <2>2
<1>6. Dense(u)
  BY <1>3, <1>4, <1>5 DEF Dense
<1>7. Cardinality(DOMAIN t) \in Nat /\ NewRow(t) \in Nat
  <2>1. n \in Nat /\ n + 1 \in Nat
    BY <1>2
  <2> QED  BY <1>1, <1>2, <2>1, Zenon
<1>8. Cardinality(DOMAIN u) = Cardinality(DOMAIN t) + 1
  BY <1>1, <1>5
<1>9. DOMAIN u = DOMAIN t \cup {NewRow(t)}
  BY <1>2, <1>4
<1> QED  BY <1>6, <1>7, <1>8, <1>9, Zenon

LEMMA DenseStays ==
  ASSUME NEW t, NEW u, DOMAIN u = DOMAIN t
  PROVE  Dense(t) => Dense(u)
BY DEF Dense

\* Two sets that differ in one member at most.
LEMMA OneMoves ==
  ASSUME NEW S, NEW T, NEW x, IsFiniteSet(S), S \ {x} = T \ {x}
  PROVE  /\ IsFiniteSet(T) /\ Cardinality(S) \in Nat /\ Cardinality(T) \in Nat
         /\ x \in S => Cardinality(S) >= 1
         /\ (x \in S <=> x \in T) => Cardinality(T) = Cardinality(S)
         /\ x \in S /\ x \notin T => Cardinality(T) + 1 = Cardinality(S)
         /\ x \notin S /\ x \in T => Cardinality(T) = Cardinality(S) + 1
<1> DEFINE U == S \ {x}
<1>1. IsFiniteSet(U) /\ Cardinality(U) \in Nat /\ x \notin U
  BY FS_Subset, FS_CardinalityType
<1>2. IsFiniteSet(U \cup {x}) /\ Cardinality(U \cup {x}) = Cardinality(U) + 1
  BY <1>1, FS_AddElement
<1>3. /\ x \in S => S = U \cup {x}
      /\ x \notin S => S = U
      /\ x \in T => T = U \cup {x}
      /\ x \notin T => T = U
  OBVIOUS
<1> HIDE DEF U
<1>4. \/ x \in S /\ IsFiniteSet(S) /\ Cardinality(S) = Cardinality(U) + 1
      \/ x \notin S /\ Cardinality(S) = Cardinality(U)
  BY <1>2, <1>3
<1>5. \/ x \in T /\ IsFiniteSet(T) /\ Cardinality(T) = Cardinality(U) + 1
      \/ x \notin T /\ IsFiniteSet(T) /\ Cardinality(T) = Cardinality(U)
  BY <1>1, <1>2, <1>3
<1>6. PICK k, m, n : k = Cardinality(U) /\ m = Cardinality(S) /\ n = Cardinality(T)
  OBVIOUS
<1> QED  BY <1>1, <1>4, <1>5, <1>6

-----------------------------------------------------------------------------
(* The calls in flight.                                                    *)

\* What a call in flight remembers follows from where it is.
LEMMA CallShape ==
  ASSUME NEW call \in StaffCall
  PROVE  /\ call.pc = "insertUser" => call.email \in Emails /\ call.paid \in BOOLEAN
         /\ call.pc = "insertEmployee" => call.user \in Id /\ call.paid \in BOOLEAN
         /\ call.pc = "readPay" => call.id \in Id /\ call.edit \in EmployeeEdit
         /\ call.pc \in {"checkEmail", "writeEmail", "endOld"} =>
              /\ call.id \in Id /\ call.edit \in EmployeeEdit
              /\ call.old \in SalaryId \cup {None}
              /\ call = [pc |-> call.pc, id |-> call.id, edit |-> call.edit, old |-> call.old]
         /\ call.pc = "endCurrent" => call.row \in Salary /\ call.effective \in 0 .. MaxDay
         /\ call.pc = "insertSalary" =>
              /\ call.row \in Salary /\ call.type \in {"INITIAL", "ADJUSTMENT"}
              /\ call.edit \in EmployeeEdit \cup {<< >>}
         /\ call.pc = "insertHistory" =>
              /\ call.id \in Id /\ call.type \in {"INITIAL", "ADJUSTMENT"}
              /\ call.edit \in EmployeeEdit \cup {<< >>}
         /\ call.pc = "writeEmployee" => call.id \in Id /\ call.edit \in EmployeeEdit
         /\ call.pc = "writeDeleted" => call.id \in Id /\ call.deleted \in BOOLEAN
         /\ call.pc \in {"findManager", "writeManager"} =>
              /\ call.id \in Id /\ call.manager \in Id
              /\ call = [pc |-> call.pc, id |-> call.id, manager |-> call.manager]
         /\ call.pc = "updateSalary" => call.id \in SalaryId /\ call.edit \in SalaryEdit
         /\ call.pc = "deleteSalary" => call.id \in SalaryId
         /\ call.pc = "chain" => call.at \in Id /\ call = [pc |-> "chain", at |-> call.at]
         /\ call.pc = "tree" =>
              call.pending \subseteq Id /\ call = [pc |-> "tree", pending |-> call.pending]
BY DEF StaffCall

\* The types of what there is, within the bounds.
LEMMA StaffLimits ==
  ASSUME StaffingAssumption, StaffInv
  PROVE  /\ IsFiniteSet(DOMAIN calls) /\ IsFiniteSet(Paying)
         /\ MaxUsers \in Nat /\ MaxSalaries \in Nat /\ MaxHistories \in Nat
         /\ MaxDay \in Nat /\ MaxMishaps \in Nat
         /\ salarySeq \in 0 .. MaxSalaries /\ today \in 0 .. MaxDay
         /\ Cardinality(DOMAIN users) \in 0 .. MaxUsers
         /\ Cardinality(DOMAIN employees) \in 0 .. MaxUsers
         /\ Cardinality(DOMAIN histories) \in 0 .. MaxHistories
         /\ Cardinality(InsertingUser) \in Nat /\ Cardinality(InsertingEmployee) \in Nat
         /\ Cardinality(Paying) \in Nat /\ Cardinality(Paying \ Recording) \in Nat
         /\ IsFiniteSet(InsertingUser) /\ IsFiniteSet(InsertingEmployee)
         /\ IsFiniteSet(Paying \ Recording)
         /\ DOMAIN users \subseteq Id /\ DOMAIN employees \subseteq Id
         /\ DOMAIN salaries \subseteq SalaryId
         /\ \A i \in DOMAIN employees : employees[i] \in EmployeeRow
         /\ \A s \in DOMAIN salaries : salaries[s] \in Salary
<1>1. /\ IsFiniteSet(DOMAIN calls)
      /\ InsertingUser \subseteq DOMAIN calls /\ InsertingEmployee \subseteq DOMAIN calls
      /\ Paying \subseteq DOMAIN calls /\ Paying \ Recording \subseteq DOMAIN calls
  BY FS_Subset
     DEF StaffInv, CallsInv, IsTable, StaffingAssumption, InsertingUser, InsertingEmployee, Paying
<1>2. /\ IsFiniteSet(InsertingUser) /\ IsFiniteSet(InsertingEmployee)
      /\ IsFiniteSet(Paying) /\ IsFiniteSet(Paying \ Recording)
      /\ Cardinality(InsertingUser) \in Nat /\ Cardinality(InsertingEmployee) \in Nat
      /\ Cardinality(Paying) \in Nat /\ Cardinality(Paying \ Recording) \in Nat
  BY <1>1, FS_Subset, FS_CardinalityType
<1>3. /\ MaxUsers \in Nat /\ MaxSalaries \in Nat /\ MaxHistories \in Nat
      /\ MaxDay \in Nat /\ MaxMishaps \in Nat /\ salarySeq \in Nat
      /\ Cardinality(DOMAIN users) \in Nat /\ Cardinality(DOMAIN employees) \in Nat
      /\ Cardinality(DOMAIN histories) \in Nat
  BY FS_CardinalityType
     DEF StaffInv, StaffingAssumption, UsersInv, EmployeesInv, SalariesInv, HistoriesInv, Dense
<1>4. /\ salarySeq \in 0 .. MaxSalaries
      /\ Cardinality(DOMAIN users) \in 0 .. MaxUsers
      /\ Cardinality(DOMAIN employees) \in 0 .. MaxUsers
      /\ Cardinality(DOMAIN histories) \in 0 .. MaxHistories
  BY <1>2, <1>3 DEF StaffInv, BoundsInv
<1>5. DOMAIN users \subseteq Id /\ DOMAIN employees \subseteq Id
  BY <1>3, <1>4 DEF StaffInv, UsersInv, EmployeesInv, Dense, Id
<1>6. DOMAIN salaries \subseteq SalaryId
  BY <1>3, <1>4 DEF StaffInv, SalariesInv, IsTable, SalaryId
<1>7. /\ \A i \in DOMAIN employees : employees[i] \in EmployeeRow
      /\ \A s \in DOMAIN salaries : salaries[s] \in Salary
  BY RowOfTable DEF StaffInv, EmployeesInv, SalariesInv
<1> QED  BY <1>1, <1>2, <1>3, <1>4, <1>5, <1>6, <1>7 DEF StaffInv, BoundsInv

\* Whether a call may still insert a salary or its line in the history.
Pays(call) ==
  \/ call.pc \in {"insertUser", "insertEmployee"} /\ call.paid
  \/ call.pc \in {"endOld", "endCurrent", "insertSalary", "insertHistory"}
  \/ /\ call.pc \in {"readPay", "checkEmail", "writeEmail"}
     /\ "pay" \in DOMAIN call.edit

LEMMA PayingPays == Paying = {c \in DOMAIN calls : Pays(calls[c])}
BY DEF Paying, Pays

\* A handler starts by reading; there is room for the rows it may insert.
LEMMA NewCallMoves ==
  ASSUME StaffingAssumption, StaffInv, NEW c \in Call, NewStaffCall(c)
  PROVE  /\ Free(c) /\ UNCHANGED <<today, mishaps, staffTables>>
         /\ \E rec \in StaffCall :
              /\ Goto(c, rec) /\ Backed(rec)
              /\ rec.pc \notin {"insertEmployee", "insertHistory", "checkEmail", "writeEmail",
                                "endOld"}
              /\ rec.pc = "insertUser" =>
                   Cardinality(DOMAIN users) + Cardinality(Hiring) < MaxUsers
              /\ Pays(rec) => CanPay
              /\ rec.pc = "insertSalary" => rec.edit = << >> /\ Current(rec.row.emp) = {}
              /\ rec.pc = "tree" => \E i \in DOMAIN employees : rec.pending = {i}
<1>0. /\ Free(c) /\ UNCHANGED <<today, mishaps, staffTables>>
      /\ DOMAIN employees \subseteq Id /\ DOMAIN salaries \subseteq SalaryId
      /\ Present \subseteq DOMAIN employees /\ None \notin Id
  BY StaffLimits
     DEF NewStaffCall, CreateEmployee, UpdateEmployee, DeleteEmployee, RestoreEmployee, SetManager,
         GetManagementChain, GetOrganizationTree, CreateSalary, UpdateSalary, RemoveSalary,
         Quiet, Present, None, Id
<1>1. CASE CreateEmployee(c)
  <2>1. PICK body \in HireBody :
          /\ body.paid => CanPay
          /\ Goto(c, [pc |-> "insertUser", email |-> body.email, paid |-> body.paid])
    BY <1>1 DEF CreateEmployee
  <2>2. PICK rec : rec = [pc |-> "insertUser", email |-> body.email, paid |-> body.paid]
    OBVIOUS
  <2>3. rec \in StaffCall
    BY <2>2 DEF StaffCall, HireBody, Emails
  <2>4. Backed(rec) /\ (Pays(rec) => body.paid)
    BY <2>2 DEF Backed, Subjects, Pays
  <2>5. Cardinality(DOMAIN users) + Cardinality(Hiring) < MaxUsers
    BY <1>1 DEF CreateEmployee
  <2> QED  BY <1>0, <2>1, <2>2, <2>3, <2>4, <2>5
<1>2. CASE UpdateEmployee(c)
  <2>1. PICK i \in DOMAIN employees, ed \in EmployeeEdit :
          /\ "pay" \in DOMAIN ed => CanPay
          /\ Goto(c, [pc |-> "readPay", id |-> i, edit |-> ed])
    BY <1>0, <1>2 DEF UpdateEmployee
  <2>2. PICK rec : rec = [pc |-> "readPay", id |-> i, edit |-> ed]
    OBVIOUS
  <2>3. rec \in StaffCall
    BY <1>0, <2>2 DEF StaffCall
  <2>4. Backed(rec) /\ (Pays(rec) => "pay" \in DOMAIN ed)
    BY <2>2 DEF Backed, Subjects, Pays
  <2> QED  BY <1>0, <2>1, <2>2, <2>3, <2>4
<1>3. CASE DeleteEmployee(c) \/ RestoreEmployee(c)
  <2>1. PICK i \in DOMAIN employees, off \in BOOLEAN :
          Goto(c, [pc |-> "writeDeleted", id |-> i, deleted |-> off])
    BY <1>0, <1>3 DEF DeleteEmployee, RestoreEmployee
  <2>2. PICK rec : rec = [pc |-> "writeDeleted", id |-> i, deleted |-> off]
    OBVIOUS
  <2>3. rec \in StaffCall
    BY <1>0, <2>2 DEF StaffCall
  <2>4. Backed(rec) /\ ~Pays(rec)
    BY <2>2 DEF Backed, Subjects, Pays
  <2> QED  BY <1>0, <2>1, <2>2, <2>3, <2>4
<1>4. CASE SetManager(c)
  <2>1. PICK i \in DOMAIN employees, m \in Id :
          Goto(c, [pc |-> "findManager", id |-> i, manager |-> m])
    BY <1>0, <1>4 DEF SetManager
  <2>2. PICK rec : rec = [pc |-> "findManager", id |-> i, manager |-> m]
    OBVIOUS
  <2>3. rec \in StaffCall
    BY <1>0, <2>2 DEF StaffCall
  <2>4. Backed(rec) /\ ~Pays(rec)
    BY <2>2 DEF Backed, Subjects, Pays
  <2> QED  BY <1>0, <2>1, <2>2, <2>3, <2>4
<1>5. CASE GetManagementChain(c)
  <2>1. PICK i \in DOMAIN employees : Goto(c, [pc |-> "chain", at |-> i])
    BY <1>5 DEF GetManagementChain
  <2>2. PICK rec : rec = [pc |-> "chain", at |-> i]
    OBVIOUS
  <2>3. rec \in StaffCall
    BY <1>0, <2>2 DEF StaffCall
  <2>4. Backed(rec) /\ ~Pays(rec)
    BY <2>2 DEF Backed, Subjects, Pays
  <2> QED  BY <1>0, <2>1, <2>2, <2>3, <2>4
<1>6. CASE GetOrganizationTree(c)
  <2>1. PICK i \in DOMAIN employees : Goto(c, [pc |-> "tree", pending |-> {i}])
    BY <1>0, <1>6 DEF GetOrganizationTree
  <2>2. PICK rec : rec = [pc |-> "tree", pending |-> {i}]
    OBVIOUS
  <2>3. rec \in StaffCall
    BY <1>0, <2>2 DEF StaffCall
  <2>4. Backed(rec) /\ ~Pays(rec)
    BY <2>2 DEF Backed, Subjects, Pays
  <2> QED  BY <1>0, <2>1, <2>2, <2>3, <2>4
<1>7. CASE CreateSalary(c)
  <2>1. PICK i \in DOMAIN employees, body \in NewSalary :
          LET row == [emp |-> i, until |-> body.until, active |-> body.active]
          IN  IF Current(i) # {}
                THEN Goto(c, [pc |-> "endCurrent", row |-> row,
                              effective |-> body.effective])
                ELSE Goto(c, [pc |-> "insertSalary", row |-> row, type |-> "INITIAL",
                              edit |-> << >>])
    BY <1>7 DEF CreateSalary
  <2>2. PICK row : row = [emp |-> i, until |-> body.until, active |-> body.active]
    OBVIOUS
  <2>3. row \in Salary /\ row.emp = i /\ body.effective \in 0 .. MaxDay
    BY <1>0, <2>2 DEF Salary, StaffingAssumption
  <2>4. CanPay
    BY <1>7 DEF CreateSalary
  <2>5. CASE Current(i) # {}
    <3>1. PICK rec : rec = [pc |-> "endCurrent", row |-> row, effective |-> body.effective]
      OBVIOUS
    <3>2. rec \in StaffCall
      BY <2>3, <3>1 DEF StaffCall
    <3>3. Backed(rec)
      BY <2>3, <3>1 DEF Backed, Subjects
    <3>4. Goto(c, rec)
      BY <2>1, <2>2, <2>5, <3>1
    <3> QED  BY <1>0, <2>4, <3>1, <3>2, <3>3, <3>4
  <2>6. CASE Current(i) = {}
    <3>1. PICK rec : rec = [pc |-> "insertSalary", row |-> row, type |-> "INITIAL",
                            edit |-> << >>]
      OBVIOUS
    <3>2. rec \in StaffCall
      BY <2>3, <3>1 DEF StaffCall
    <3>3. Backed(rec)
      BY <2>3, <3>1 DEF Backed, Subjects
    <3>4. Goto(c, rec)
      BY <2>1, <2>2, <2>6, <3>1
    <3>5. rec.edit = << >> /\ Current(rec.row.emp) = {}
      BY <2>3, <2>6, <3>1
    <3> QED  BY <1>0, <2>4, <3>1, <3>2, <3>3, <3>4, <3>5
  <2> QED  BY <2>5, <2>6
<1>8. CASE UpdateSalary(c)
  <2>1. PICK s \in DOMAIN salaries, ed \in SalaryEdit :
          Goto(c, [pc |-> "updateSalary", id |-> s, edit |-> ed])
    BY <1>8 DEF UpdateSalary
  <2>2. PICK rec : rec = [pc |-> "updateSalary", id |-> s, edit |-> ed]
    OBVIOUS
  <2>3. rec \in StaffCall
    BY <1>0, <2>2 DEF StaffCall
  <2>4. Backed(rec) /\ ~Pays(rec)
    BY <2>2 DEF Backed, Subjects, Pays
  <2> QED  BY <1>0, <2>1, <2>2, <2>3, <2>4
<1>9. CASE RemoveSalary(c)
  <2>1. PICK s \in DOMAIN salaries : Goto(c, [pc |-> "deleteSalary", id |-> s])
    BY <1>9 DEF RemoveSalary
  <2>2. PICK rec : rec = [pc |-> "deleteSalary", id |-> s]
    OBVIOUS
  <2>3. rec \in StaffCall
    BY <1>0, <2>2 DEF StaffCall
  <2>4. Backed(rec) /\ ~Pays(rec)
    BY <2>2 DEF Backed, Subjects, Pays
  <2> QED  BY <1>0, <2>1, <2>2, <2>3, <2>4
<1> QED  BY <1>1, <1>2, <1>3, <1>4, <1>5, <1>6, <1>7, <1>8, <1>9 DEF NewStaffCall

-----------------------------------------------------------------------------
(* The tables.                                                             *)

\* Emails stay unique, and a user is not deleted.
LEMMA UsersKept ==
  ASSUME StaffingAssumption, StaffInv, NEW c,
         InsertUser(c) \/ WriteEmail(c) \/ UNCHANGED users
  PROVE  UsersInv' /\ DOMAIN users \subseteq DOMAIN users'
<1>0. /\ Dense(users) /\ IsTable(users, Nat, Emails) /\ Unique(users)
      /\ DOMAIN users \subseteq Id /\ None \notin DOMAIN users
  BY StaffLimits DEF StaffInv, UsersInv, Id, None
<1>1. CASE UNCHANGED users
  BY <1>0, <1>1 DEF UsersInv
<1>2. CASE InsertUser(c)
  <2>1. c \in DOMAIN calls /\ calls[c].email \in Emails
    BY <1>2, RowOfTable, CallShape DEF InsertUser, At, StaffInv, CallsInv
  <2>2. CASE ~Taken(calls[c].email, None) /\ users' = Put(users, NewRow(users), calls[c].email)
    <3>0. PICK email : email = calls[c].email
      OBVIOUS
    <3>2. users' = Put(users, NewRow(users), email)
      BY <2>2, <3>0
    <3>3. /\ NewRow(users) \in Nat /\ Dense(users') /\ NewRow(users) \notin DOMAIN users
          /\ DOMAIN users' = DOMAIN users \cup {NewRow(users)}
      BY <1>0, <3>2, DenseGrows, NewRowIsNew
    <3>7. /\ users'[NewRow(users)] = email
          /\ \A k \in DOMAIN users : users'[k] = users[k]
      BY <3>2, <3>3 DEF Put
    <3>4. IsTable(users', Nat, Emails)
      BY <1>0, <2>1, <3>0, <3>2, <3>3, PutIsTable
    <3>5. \A k \in DOMAIN users : users[k] # email
      BY <1>0, <2>2, <3>0 DEF Taken
    <3>6. Unique(users')
      BY <1>0, <3>3, <3>5, <3>7 DEF Unique
    <3> QED  BY <3>3, <3>4, <3>6 DEF UsersInv
  <2> QED  BY <1>1, <1>2, <2>2 DEF InsertUser
<1>3. CASE WriteEmail(c)
  <2> DEFINE u == UserOf(calls[c].id)
             email == calls[c].edit.email
  <2>1. u \in DOMAIN users /\ email \in Emails
    <3>1. c \in DOMAIN calls /\ calls[c].pc = "writeEmail" /\ Backed(calls[c])
          /\ calls[c].edit \in EmployeeEdit
      BY <1>3, RowOfTable, CallShape DEF WriteEmail, At, StaffInv, CallsInv
    <3>2. calls[c].id \in DOMAIN employees /\ "email" \in DOMAIN calls[c].edit
      BY <3>1 DEF Backed, Subjects
    <3> QED  BY <3>1, <3>2 DEF UserOf, StaffInv, EmployeesInv, StaffingAssumption
  <2>2. CASE ~Taken(email, u) /\ users' = [users EXCEPT ![u] = email]
    <3> HIDE DEF u, email
    <3>1. IsTable(users', Nat, Emails)
      BY <1>0, <2>1, <2>2, ExceptIsTable
    <3>2. DOMAIN users' = DOMAIN users /\ Dense(users')
      BY <1>0, <2>2, DenseStays
    <3>3. Unique(users')
      BY <1>0, <2>1, <2>2 DEF Unique, Taken
    <3> QED  BY <3>1, <3>2, <3>3 DEF UsersInv
  <2> QED  BY <1>1, <1>3, <2>2 DEF WriteEmail
<1> QED  BY <1>1, <1>2, <1>3

\* Every employee has a user of their own, and is not deleted.
LEMMA EmployeesKept ==
  ASSUME StaffingAssumption, StaffInv, NEW c, DOMAIN users \subseteq DOMAIN users',
         InsertEmployee(c) \/ WriteEmployee(c) \/ WriteDeleted(c) \/ WriteManager(c)
           \/ UNCHANGED employees
  PROVE  /\ EmployeesInv' /\ DOMAIN employees \subseteq DOMAIN employees'
         /\ \A i \in DOMAIN employees : employees'[i].user = employees[i].user
         /\ InsertEmployee(c) \/ DOMAIN employees' = DOMAIN employees
<1>0. /\ Dense(employees) /\ IsTable(employees, Nat, EmployeeRow)
      /\ \A i \in DOMAIN employees : employees[i].user \in DOMAIN users
      /\ \A i, j \in DOMAIN employees : employees[i].user = employees[j].user => i = j
      /\ \A i \in DOMAIN employees : employees[i] \in EmployeeRow
  BY StaffLimits DEF StaffInv, EmployeesInv
<1>1. CASE UNCHANGED employees
  BY <1>0, <1>1 DEF EmployeesInv
<1>2. ASSUME NEW i \in DOMAIN employees, NEW row \in EmployeeRow,
             row.user = employees[i].user, employees' = [employees EXCEPT ![i] = row]
      PROVE  /\ EmployeesInv' /\ DOMAIN employees' = DOMAIN employees
             /\ \A j \in DOMAIN employees : employees'[j].user = employees[j].user
  <2>1. IsTable(employees', Nat, EmployeeRow)
    BY <1>0, <1>2, ExceptIsTable
  <2>2. DOMAIN employees' = DOMAIN employees /\ Dense(employees')
    BY <1>0, <1>2, DenseStays
  <2>3. \A j \in DOMAIN employees : employees'[j].user = employees[j].user
    BY <1>2
  <2> QED  BY <1>0, <2>1, <2>2, <2>3 DEF EmployeesInv
<1>3. CASE InsertEmployee(c)
  <2>1. /\ c \in DOMAIN calls /\ calls[c].pc = "insertEmployee"
        /\ calls[c] \in StaffCall /\ Backed(calls[c])
    BY <1>3, RowOfTable DEF InsertEmployee, At, StaffInv, CallsInv
  <2>2. /\ calls[c].user \in Id /\ calls[c].user \in DOMAIN users
        /\ \A i \in DOMAIN employees : employees[i].user # calls[c].user
    BY <2>1, CallShape DEF Backed
  <2>3. PICK row : row = [user |-> calls[c].user, manager |-> None, deleted |-> FALSE,
                          active |-> TRUE]
    OBVIOUS
  <2>4. row \in EmployeeRow /\ row.user = calls[c].user
    BY <2>2, <2>3 DEF EmployeeRow
  <2>6. employees' = Put(employees, NewRow(employees), row)
    BY <1>3, <2>3 DEF InsertEmployee
  <2>5. NewRow(employees) \notin DOMAIN employees
    BY <1>0, NewRowIsNew
  <2>7. /\ NewRow(employees) \in Nat
        /\ Dense(employees') /\ DOMAIN employees' = DOMAIN employees \cup {NewRow(employees)}
    BY <1>0, <2>6, DenseGrows
  <2>9. /\ employees'[NewRow(employees)] = row
        /\ \A k \in DOMAIN employees : employees'[k] = employees[k]
    BY <2>5, <2>6 DEF Put
  <2>8. IsTable(employees', Nat, EmployeeRow)
    BY <1>0, <2>4, <2>6, <2>7, PutIsTable
  <2> QED  BY <1>0, <1>3, <2>2, <2>4, <2>7, <2>8, <2>9 DEF EmployeesInv
<1>4. CASE WriteEmployee(c)
  <2>1. /\ c \in DOMAIN calls /\ calls[c].pc = "writeEmployee"
        /\ calls[c] \in StaffCall /\ Backed(calls[c])
    BY <1>4, RowOfTable DEF WriteEmployee, At, StaffInv, CallsInv
  <2>2. calls[c].id \in DOMAIN employees /\ calls[c].edit \in EmployeeEdit
    BY <2>1, CallShape DEF Backed, Subjects
  <2> DEFINE i == calls[c].id
             ed == calls[c].edit
             row == [employees[i] EXCEPT !.manager = Setting(ed, "manager", @),
                                         !.active = Setting(ed, "active", @)]
  <2>3. CASE employees' = employees
    BY <1>1, <2>3
  <2>4. CASE employees' = [employees EXCEPT
                              ![i].manager = Setting(ed, "manager", @),
                              ![i].active = Setting(ed, "active", @)]
    <3>1. employees' = [employees EXCEPT ![i] = row]
      BY <2>2, <2>4
    <3>2. row \in EmployeeRow /\ row.user = employees[i].user
      <4>1. /\ Setting(ed, "manager", employees[i].manager) \in Id \cup {None}
            /\ Setting(ed, "active", employees[i].active) \in BOOLEAN
        BY <1>0, <2>2 DEF EmployeeRow, Setting, StaffingAssumption
      <4> QED  BY <1>0, <2>2, <4>1 DEF EmployeeRow
    <3> HIDE DEF row
    <3> QED  BY <1>2, <2>2, <3>1, <3>2
  <2> QED  BY <1>4, <2>3, <2>4 DEF WriteEmployee
<1>5. CASE WriteDeleted(c)
  <2>1. /\ c \in DOMAIN calls /\ calls[c].pc = "writeDeleted"
        /\ calls[c] \in StaffCall /\ Backed(calls[c])
    BY <1>5, RowOfTable DEF WriteDeleted, At, StaffInv, CallsInv
  <2>2. calls[c].id \in DOMAIN employees /\ calls[c].deleted \in BOOLEAN
    BY <2>1, CallShape DEF Backed, Subjects
  <2> DEFINE i == calls[c].id
             row == [employees[i] EXCEPT !.deleted = calls[c].deleted]
  <2>3. employees' = [employees EXCEPT ![i] = row]
    BY <1>5, <2>2 DEF WriteDeleted
  <2>4. row \in EmployeeRow /\ row.user = employees[i].user
    BY <1>0, <2>2 DEF EmployeeRow
  <2> HIDE DEF row
  <2> QED  BY <1>2, <2>2, <2>3, <2>4
<1>6. CASE WriteManager(c)
  <2>1. /\ c \in DOMAIN calls /\ calls[c].pc = "writeManager"
        /\ calls[c] \in StaffCall /\ Backed(calls[c])
    BY <1>6, RowOfTable DEF WriteManager, At, StaffInv, CallsInv
  <2>2. calls[c].id \in DOMAIN employees /\ calls[c].manager \in Id
    BY <2>1, CallShape DEF Backed, Subjects
  <2> DEFINE i == calls[c].id
             row == [employees[i] EXCEPT !.manager = calls[c].manager]
  <2>3. CASE employees' = employees
    BY <1>1, <2>3
  <2>4. CASE employees' = [employees EXCEPT ![i].manager = calls[c].manager]
    <3>1. employees' = [employees EXCEPT ![i] = row]
      BY <2>2, <2>4
    <3>2. row \in EmployeeRow /\ row.user = employees[i].user
      BY <1>0, <2>2 DEF EmployeeRow
    <3> HIDE DEF row
    <3> QED  BY <1>2, <2>2, <3>1, <3>2
  <2> QED  BY <1>6, <2>3, <2>4 DEF WriteManager
<1> QED  BY <1>1, <1>3, <1>4, <1>5, <1>6

\* No salary changes hands, and no id of a salary is used twice.
SalariesGrow ==
  /\ salarySeq \in Nat /\ salarySeq' \in Nat /\ salarySeq <= salarySeq'
  /\ \A s \in DOMAIN salaries' :
       s <= salarySeq => s \in DOMAIN salaries /\ salaries'[s].emp = salaries[s].emp

LEMMA SalariesKept ==
  ASSUME StaffingAssumption, StaffInv, NEW c, DOMAIN employees \subseteq DOMAIN employees',
         \/ EndOld(c) \/ EndCurrent(c) \/ InsertSalary(c) \/ WriteSalary(c) \/ DeleteSalary(c)
         \/ UNCHANGED <<salaries, salarySeq>>
  PROVE  SalariesInv' /\ SalariesGrow
<1>0. /\ salarySeq \in Nat /\ IsTable(salaries, 1 .. salarySeq, Salary)
      /\ \A s \in DOMAIN salaries : salaries[s] \in Salary /\ salaries[s].emp \in DOMAIN employees
      /\ MaxDay \in Nat /\ today \in 0 .. MaxDay
  BY StaffLimits DEF StaffInv, SalariesInv
<1>1. CASE UNCHANGED <<salaries, salarySeq>>
  BY <1>0, <1>1 DEF SalariesInv, SalariesGrow
<1>2. ASSUME NEW s \in DOMAIN salaries, NEW row \in Salary, row.emp = salaries[s].emp,
             salaries' = [salaries EXCEPT ![s] = row], salarySeq' = salarySeq
      PROVE  SalariesInv' /\ SalariesGrow
  <2>1. IsTable(salaries', 1 .. salarySeq', Salary)
    BY <1>0, <1>2, ExceptIsTable
  <2>2. DOMAIN salaries' = DOMAIN salaries
        /\ \A t \in DOMAIN salaries : salaries'[t].emp = salaries[t].emp
    BY <1>2
  <2> QED  BY <1>0, <1>2, <2>1, <2>2 DEF SalariesInv, SalariesGrow
<1>3. CASE EndOld(c)
  <2>1. salarySeq' = salarySeq
    BY <1>3 DEF EndOld
  <2> DEFINE s == calls[c].old
             row == [salaries[s] EXCEPT !.until = today, !.active = FALSE]
  <2>2. CASE salaries' = salaries
    BY <1>1, <2>1, <2>2
  <2>3. CASE s \in DOMAIN salaries
    <3>1. salaries' = [salaries EXCEPT ![s] = row]
      BY <1>3, <2>3 DEF EndOld
    <3>2. today \in -1 .. Endless
      BY <1>0 DEF Endless
    <3>3. row \in Salary /\ row.emp = salaries[s].emp
      BY <1>0, <2>3, <3>2 DEF Salary
    <3> HIDE DEF row, s
    <3> QED  BY <1>2, <2>1, <2>3, <3>1, <3>3
  <2> QED  BY <1>3, <2>2, <2>3 DEF EndOld
<1>4. CASE EndCurrent(c)
  <2>1. calls[c].effective \in 0 .. MaxDay
    BY <1>4, RowOfTable, CallShape DEF EndCurrent, At, StaffInv, CallsInv
  <2>2. PICK until : until = calls[c].effective - 1
    OBVIOUS
  <2>3. until \in -1 .. Endless
    BY <1>0, <2>1, <2>2 DEF Endless
  <2>4. /\ DOMAIN salaries' = DOMAIN salaries /\ salarySeq' = salarySeq
        /\ salaries' = [s \in DOMAIN salaries |->
             IF s \in Current(calls[c].row.emp)
               THEN [salaries[s] EXCEPT !.until = until, !.active = FALSE]
               ELSE salaries[s]]
    BY <1>4, <2>2 DEF EndCurrent
  <2>5. \A s \in DOMAIN salaries :
          salaries'[s] \in Salary /\ salaries'[s].emp = salaries[s].emp
    BY <1>0, <2>3, <2>4 DEF Salary
  <2>6. IsTable(salaries', 1 .. salarySeq', Salary)
    BY <1>0, <2>4, <2>5 DEF IsTable
  <2>7. DOMAIN salaries' = DOMAIN salaries /\ salarySeq' = salarySeq
    BY <2>4
  <2>8. SalariesGrow
    BY <1>0, <2>5, <2>7 DEF SalariesGrow
  <2>9. \A s \in DOMAIN salaries' : salaries'[s].emp \in DOMAIN employees'
    BY <1>0, <2>5, <2>7
  <2> QED  BY <1>0, <2>6, <2>7, <2>8, <2>9 DEF SalariesInv
<1>5. CASE InsertSalary(c)
  <2>1. /\ c \in DOMAIN calls /\ calls[c].pc = "insertSalary"
        /\ calls[c] \in StaffCall /\ Backed(calls[c])
    BY <1>5, RowOfTable DEF InsertSalary, At, StaffInv, CallsInv
  <2>2. calls[c].row \in Salary /\ calls[c].row.emp \in DOMAIN employees
    BY <2>1, CallShape DEF Backed, Subjects
  <2>3. salarySeq' = salarySeq + 1 /\ salaries' = Put(salaries, salarySeq + 1, calls[c].row)
    BY <1>5 DEF InsertSalary
  <2>4. /\ 1 .. salarySeq \subseteq 1 .. salarySeq' /\ salarySeq + 1 \in 1 .. salarySeq'
        /\ salarySeq' \in Nat /\ salarySeq <= salarySeq' /\ ~(salarySeq + 1 <= salarySeq)
    BY <1>0, <2>3
  <2>5. IsTable(salaries, 1 .. salarySeq', Salary)
    BY <1>0, <2>4 DEF IsTable
  <2>6. IsTable(salaries', 1 .. salarySeq', Salary)
    BY <2>2, <2>3, <2>4, <2>5, PutIsTable
  <2>7. /\ DOMAIN salaries' = DOMAIN salaries \cup {salarySeq + 1}
        /\ salaries'[salarySeq + 1] = calls[c].row
        /\ \A s \in DOMAIN salaries : s # salarySeq + 1 => salaries'[s] = salaries[s]
    BY <2>3 DEF Put
  <2>8. \A s \in DOMAIN salaries : s # salarySeq + 1
    BY <1>0, <2>4 DEF IsTable
  <2>9. \A s \in DOMAIN salaries' : salaries'[s].emp \in DOMAIN employees'
    BY <1>0, <2>2, <2>7, <2>8
  <2>10. SalariesGrow
    BY <1>0, <2>4, <2>7, <2>8 DEF SalariesGrow
  <2> QED  BY <2>4, <2>6, <2>9, <2>10 DEF SalariesInv
<1>6. CASE WriteSalary(c)
  <2>1. salarySeq' = salarySeq /\ calls[c].edit \in SalaryEdit
    BY <1>6, RowOfTable, CallShape DEF WriteSalary, At, StaffInv, CallsInv
  <2> DEFINE s == calls[c].id
             ed == calls[c].edit
             row == [salaries[s] EXCEPT !.until = Setting(ed, "until", @),
                                        !.active = Setting(ed, "active", @)]
  <2>2. CASE salaries' = salaries
    BY <1>1, <2>1, <2>2
  <2>3. CASE s \in DOMAIN salaries
    <3>1. salaries' = [salaries EXCEPT ![s] = row]
      BY <1>6, <2>3 DEF WriteSalary
    <3>2. row \in Salary /\ row.emp = salaries[s].emp
      BY <1>0, <2>1, <2>3 DEF Salary, Setting, StaffingAssumption
    <3> HIDE DEF row, s
    <3> QED  BY <1>2, <2>1, <2>3, <3>1, <3>2
  <2> QED  BY <1>6, <2>2, <2>3 DEF WriteSalary
<1>7. CASE DeleteSalary(c)
  <2>1. /\ salarySeq' = salarySeq
        /\ salaries' = [s \in DOMAIN salaries \ {calls[c].id} |-> salaries[s]]
    BY <1>7 DEF DeleteSalary
  <2>2. IsTable(salaries', 1 .. salarySeq', Salary)
    BY <1>0, <2>1 DEF IsTable
  <2> QED  BY <1>0, <2>1, <2>2 DEF SalariesInv, SalariesGrow
<1> QED  BY <1>1, <1>3, <1>4, <1>5, <1>6, <1>7

\* The history is only added to.
LEMMA HistoriesKept ==
  ASSUME StaffingAssumption, StaffInv, NEW c, DOMAIN employees \subseteq DOMAIN employees',
         InsertHistory(c) \/ AddHistory \/ UNCHANGED histories
  PROVE  /\ HistoriesInv'
         /\ InsertHistory(c) \/ AddHistory =>
              Cardinality(DOMAIN histories') = Cardinality(DOMAIN histories) + 1
<1>0. /\ Dense(histories) /\ IsTable(histories, Nat, History)
      /\ \A h \in DOMAIN histories : histories[h].emp \in DOMAIN employees
      /\ DOMAIN employees \subseteq Id
  BY StaffLimits DEF StaffInv, HistoriesInv
<1>1. ASSUME NEW emp \in DOMAIN employees, NEW type \in {"INITIAL", "ADJUSTMENT", "PROMOTION"},
             histories' = Put(histories, NewRow(histories), [emp |-> emp, type |-> type])
      PROVE  /\ HistoriesInv'
             /\ Cardinality(DOMAIN histories') = Cardinality(DOMAIN histories) + 1
  <2>1. PICK row : row = [emp |-> emp, type |-> type]
    OBVIOUS
  <2>2. row \in History /\ row.emp = emp
    BY <1>0, <2>1 DEF History
  <2>4. histories' = Put(histories, NewRow(histories), row)
    BY <1>1, <2>1
  <2>5. /\ NewRow(histories) \in Nat /\ Dense(histories')
        /\ Cardinality(DOMAIN histories') = Cardinality(DOMAIN histories) + 1
        /\ DOMAIN histories' = DOMAIN histories \cup {NewRow(histories)}
    BY <1>0, <2>4, DenseGrows
  <2>3. NewRow(histories) \notin DOMAIN histories
    BY <1>0, NewRowIsNew
  <2>7. /\ histories'[NewRow(histories)] = row
        /\ \A k \in DOMAIN histories : histories'[k] = histories[k]
    BY <2>3, <2>4 DEF Put
  <2>6. IsTable(histories', Nat, History)
    BY <1>0, <2>2, <2>4, <2>5, PutIsTable
  <2> QED  BY <1>0, <2>2, <2>5, <2>6, <2>7 DEF HistoriesInv
<1>2. CASE InsertHistory(c)
  <2>1. /\ c \in DOMAIN calls /\ calls[c].pc = "insertHistory"
        /\ calls[c] \in StaffCall /\ Backed(calls[c])
    BY <1>2, RowOfTable DEF InsertHistory, At, StaffInv, CallsInv
  <2>2. calls[c].id \in DOMAIN employees /\ calls[c].type \in {"INITIAL", "ADJUSTMENT"}
    BY <2>1, CallShape DEF Backed, Subjects
  <2> QED  BY <1>1, <1>2, <2>2 DEF InsertHistory
<1>3. CASE AddHistory
  BY <1>1, <1>3 DEF AddHistory
<1>4. CASE UNCHANGED histories /\ ~InsertHistory(c) /\ ~AddHistory
  BY <1>0, <1>4 DEF HistoriesInv
<1> QED  BY <1>2, <1>3, <1>4

-----------------------------------------------------------------------------
(* The steps of the calls.                                                 *)

\* Users, employees and ids stay; salaries are of whom they were.
TablesGrow ==
  /\ DOMAIN users \subseteq DOMAIN users'
  /\ DOMAIN employees \subseteq DOMAIN employees'
  /\ \A i \in DOMAIN employees : employees'[i].user = employees[i].user
  /\ SalariesGrow

LEMMA TablesKept ==
  ASSUME StaffingAssumption, StaffInv, NEW c,
         \/ StaffStep(c)
         \/ AddHistory
         \/ UNCHANGED staffTables
  PROVE  /\ UsersInv' /\ EmployeesInv' /\ SalariesInv' /\ HistoriesInv' /\ TablesGrow
         /\ InsertEmployee(c) \/ DOMAIN employees' = DOMAIN employees
<1>1. InsertUser(c) \/ WriteEmail(c) \/ UNCHANGED users
  BY Zenon
     DEF StaffStep, InsertEmployee, ReadPay, CheckEmail, EndOld, WriteEmployee,
         EndCurrent, InsertSalary, InsertHistory, WriteSalary, DeleteSalary, WriteDeleted,
         FindManager, WriteManager, ClimbChain, DescendTree, AddHistory, staffTables
<1>2. InsertEmployee(c) \/ WriteEmployee(c) \/ WriteDeleted(c) \/ WriteManager(c)
        \/ UNCHANGED employees
  BY Zenon
     DEF StaffStep, InsertUser, ReadPay, CheckEmail, WriteEmail, EndOld,
         EndCurrent, InsertSalary, InsertHistory, WriteSalary, DeleteSalary,
         FindManager, ClimbChain, DescendTree, AddHistory, staffTables
<1>3. \/ EndOld(c) \/ EndCurrent(c) \/ InsertSalary(c) \/ WriteSalary(c) \/ DeleteSalary(c)
      \/ UNCHANGED <<salaries, salarySeq>>
  BY Zenon
     DEF StaffStep, InsertUser, InsertEmployee, ReadPay, CheckEmail, WriteEmail,
         WriteEmployee, InsertHistory, WriteDeleted,
         FindManager, WriteManager, ClimbChain, DescendTree, AddHistory, staffTables
<1>4. InsertHistory(c) \/ AddHistory \/ UNCHANGED histories
  BY Zenon
     DEF StaffStep, InsertUser, InsertEmployee, ReadPay, CheckEmail, WriteEmail, EndOld,
         WriteEmployee, EndCurrent, InsertSalary, WriteSalary, DeleteSalary, WriteDeleted,
         FindManager, WriteManager, ClimbChain, DescendTree, staffTables
<1>5. UsersInv' /\ DOMAIN users \subseteq DOMAIN users'
  BY <1>1, UsersKept
<1>6. /\ EmployeesInv' /\ DOMAIN employees \subseteq DOMAIN employees'
      /\ \A i \in DOMAIN employees : employees'[i].user = employees[i].user
      /\ InsertEmployee(c) \/ DOMAIN employees' = DOMAIN employees
  BY <1>2, <1>5, EmployeesKept
<1>7. SalariesInv' /\ SalariesGrow
  BY <1>3, <1>6, SalariesKept
<1>8. HistoriesInv'
  BY <1>4, <1>6, HistoriesKept
<1> QED  BY <1>5, <1>6, <1>7, <1>8 DEF TablesGrow

\* What a call remembers stays there.
LEMMA BackedStays ==
  ASSUME StaffInv, TablesGrow, NEW call, Backed(call),
         call.pc = "insertEmployee" =>
           \A i \in DOMAIN employees' \ DOMAIN employees : employees'[i].user # call.user
  PROVE  Backed(call)'
<1>1. Subjects(call) \subseteq DOMAIN employees'
  BY DEF Backed, TablesGrow
<1>2. call.pc \in {"checkEmail", "writeEmail", "endOld"} =>
        /\ call.old \in 0 .. salarySeq'
        /\ call.old \in DOMAIN salaries' => salaries'[call.old].emp = call.id
  BY DEF Backed, TablesGrow, SalariesGrow
<1>3. call.pc = "insertEmployee" =>
        /\ call.user \in DOMAIN users'
        /\ \A i \in DOMAIN employees' : employees'[i].user # call.user
  BY DEF Backed, TablesGrow
<1> QED  BY <1>1, <1>2, <1>3 DEF Backed, Subjects

\* How a call goes on from where it is.
Follows(c, rec) ==
  /\ rec \in StaffCall /\ Goto(c, rec) /\ Backed(rec)'
  /\ rec.pc # "insertUser"
  /\ rec.pc = "insertEmployee" =>
       InsertUser(c) /\ rec.user = NewRow(users) /\ users' = Put(users, NewRow(users), calls[c].email)
  /\ rec.pc = "insertHistory" => InsertSalary(c)
  /\ Pays(rec) => Pays(calls[c]) /\ calls[c].pc # "insertHistory"

\* After the email, updateEmployee goes on to the salary or to the columns.
AfterEmailGoes(c, old, rec) ==
  /\ rec.pc \in {"endOld", "insertSalary", "writeEmployee"} /\ rec.edit = calls[c].edit
  /\ rec.pc = "endOld" => rec.old = old /\ rec.id = calls[c].id
  /\ rec.pc = "insertSalary" =>
       /\ old = None /\ rec.row.emp = calls[c].id /\ rec.edit # << >>

LEMMA AfterEmailMoves ==
  ASSUME StaffingAssumption, StaffInv, NEW c \in DOMAIN calls, NEW old,
         calls[c].pc \in {"readPay", "writeEmail"}, AfterEmail(c, old),
         UNCHANGED <<employees, salaries, salarySeq>>,
         old \in 0 .. salarySeq, old \in DOMAIN salaries => salaries[old].emp = calls[c].id
  PROVE  Return(c) \/ \E rec : Follows(c, rec) /\ AfterEmailGoes(c, old, rec)
<1> DEFINE i == calls[c].id
           ed == calls[c].edit
<1>1. /\ calls[c] \in StaffCall /\ Backed(calls[c])
      /\ MaxSalaries \in Nat /\ salarySeq \in 0 .. MaxSalaries
  BY RowOfTable, StaffLimits DEF StaffInv, CallsInv
<1>2. i \in Id /\ i \in DOMAIN employees /\ ed \in EmployeeEdit
  BY <1>1, CallShape DEF Backed, Subjects
<1>3. old \in SalaryId \cup {None}
  BY <1>1 DEF SalaryId, None
<1>4. "pay" \in DOMAIN ed => Pays(calls[c]) /\ ed # << >>
  <2>1. "pay" \notin DOMAIN << >>
    OBVIOUS
  <2> QED  BY <2>1 DEF Pays
<1>5. CASE "pay" \in DOMAIN ed /\ Goto(c, [pc |-> "endOld", id |-> i, edit |-> ed, old |-> old])
  <2>1. PICK rec : rec = [pc |-> "endOld", id |-> i, edit |-> ed, old |-> old]
    OBVIOUS
  <2>2. rec \in StaffCall
    BY <1>2, <1>3, <2>1 DEF StaffCall
  <2>3. Backed(rec)'
    BY <1>2, <1>5, <2>1 DEF Backed, Subjects
  <2>4. Goto(c, rec)
    BY <1>5, <2>1
  <2>5. Follows(c, rec) /\ AfterEmailGoes(c, old, rec)
    BY <1>4, <1>5, <2>1, <2>2, <2>3, <2>4 DEF Follows, AfterEmailGoes
  <2> QED  BY <2>5
<1>6. CASE /\ "pay" \in DOMAIN ed /\ old = None
           /\ Goto(c, [pc |-> "insertSalary",
                       row |-> [emp |-> i, until |-> Endless, active |-> TRUE],
                       type |-> "ADJUSTMENT", edit |-> ed])
  <2>0. PICK row : row = [emp |-> i, until |-> Endless, active |-> TRUE]
    OBVIOUS
  <2>1. PICK rec : rec = [pc |-> "insertSalary", row |-> row, type |-> "ADJUSTMENT", edit |-> ed]
    OBVIOUS
  <2>6. row \in Salary /\ row.emp = i
    BY <1>1, <1>2, <2>0, StaffLimits DEF Salary, Endless
  <2>2. rec \in StaffCall
    BY <1>2, <2>1, <2>6 DEF StaffCall
  <2>3. Backed(rec)'
    BY <1>2, <2>1, <2>6 DEF Backed, Subjects
  <2>4. Goto(c, rec)
    BY <1>6, <2>0, <2>1
  <2>5. Follows(c, rec) /\ AfterEmailGoes(c, old, rec)
    BY <1>4, <1>6, <2>1, <2>2, <2>3, <2>4, <2>6 DEF Follows, AfterEmailGoes
  <2> QED  BY <2>5
<1>7. CASE Goto(c, [pc |-> "writeEmployee", id |-> i, edit |-> ed])
  <2>1. PICK rec : rec = [pc |-> "writeEmployee", id |-> i, edit |-> ed]
    OBVIOUS
  <2>2. rec \in StaffCall
    BY <1>2, <2>1 DEF StaffCall
  <2>3. Backed(rec)' /\ ~Pays(rec)
    BY <1>2, <2>1 DEF Backed, Subjects, Pays
  <2>4. Goto(c, rec)
    BY <1>7, <2>1
  <2>5. Follows(c, rec) /\ AfterEmailGoes(c, old, rec)
    BY <2>1, <2>2, <2>3, <2>4 DEF Follows, AfterEmailGoes
  <2> QED  BY <2>5
<1> QED  BY <1>5, <1>6, <1>7 DEF AfterEmail

\* The steps that may let a call go on, and what it remembers then.
LEMMA HireMoves ==
  ASSUME StaffingAssumption, StaffInv, NEW c \in Call, InsertUser(c) \/ InsertEmployee(c)
  PROVE  /\ c \in DOMAIN calls
         /\ Return(c) \/ \E rec : Follows(c, rec) /\ (rec.pc = "insertSalary" =>
              InsertEmployee(c) /\ rec.edit = << >> /\ rec.row.emp = NewRow(employees))
<1>1. /\ c \in DOMAIN calls /\ calls[c] \in StaffCall /\ Backed(calls[c])
      /\ Dense(users) /\ Dense(employees) /\ UsersInv' /\ EmployeesInv'
      /\ \A i \in DOMAIN employees : employees[i].user \in DOMAIN users
      /\ DOMAIN users' \subseteq Nat /\ MaxDay \in Nat
  BY RowOfTable, TablesKept, StaffLimits
     DEF InsertUser, InsertEmployee, At, StaffStep, StaffInv, CallsInv, UsersInv, EmployeesInv,
         IsTable
<1>2. CASE InsertUser(c)
  <2>1. CASE Return(c)
    BY <1>1, <2>1
  <2>2. CASE /\ users' = Put(users, NewRow(users), calls[c].email)
             /\ Goto(c, [pc |-> "insertEmployee", user |-> NewRow(users), paid |-> calls[c].paid])
    <3>1. PICK rec : rec = [pc |-> "insertEmployee", user |-> NewRow(users), paid |-> calls[c].paid]
      OBVIOUS
    <3>2. calls[c].pc = "insertUser" /\ calls[c].paid \in BOOLEAN
      BY <1>1, <1>2, CallShape DEF InsertUser, At
    <3>7. PICK n : n = NewRow(users)
      OBVIOUS
    <3>3. n \in DOMAIN users' /\ n \notin DOMAIN users
      BY <1>1, <2>2, <3>7, NewRowIsNew DEF Put
    <3>4. n \in Id
      <4>1. Cardinality(DOMAIN users) + 1 \in 1 .. MaxUsers
        <5>1. Cardinality(InsertingUser) >= 1
          <6>1. InsertingUser # {}
            BY <1>1, <3>2 DEF InsertingUser
          <6>2. Cardinality(InsertingUser) # 0
            BY <6>1, StaffLimits, FS_EmptySet
          <6> QED  BY <6>2, StaffLimits
        <5> QED  BY <5>1, StaffLimits DEF StaffInv, BoundsInv
      <4> QED  BY <3>7, <4>1 DEF NewRow, Id
    <3>5. rec \in StaffCall
      BY <3>1, <3>2, <3>4, <3>7 DEF StaffCall
    <3>6. employees' = employees
      BY <1>2 DEF InsertUser
    <3>8. Backed(rec)'
      BY <1>1, <3>1, <3>3, <3>6, <3>7 DEF Backed, Subjects
    <3>9. Goto(c, rec)
      BY <2>2, <3>1
    <3>10. Pays(rec) => Pays(calls[c]) /\ calls[c].pc # "insertHistory"
      BY <3>1, <3>2 DEF Pays
    <3>11. Follows(c, rec) /\ rec.pc # "insertSalary"
      BY <1>2, <2>2, <3>1, <3>5, <3>8, <3>9, <3>10 DEF Follows
    <3> QED  BY <1>1, <3>11
  <2> QED  BY <1>2, <2>1, <2>2 DEF InsertUser
<1>3. CASE InsertEmployee(c)
  <2>1. CASE Return(c)
    BY <1>1, <2>1
  <2>2. CASE /\ calls[c].paid
             /\ Goto(c, [pc |-> "insertSalary", type |-> "INITIAL", edit |-> << >>,
                         row |-> [emp |-> NewRow(employees), until |-> Endless,
                                  active |-> TRUE]])
    <3>0. PICK row : row = [emp |-> NewRow(employees), until |-> Endless, active |-> TRUE]
      OBVIOUS
    <3>1. PICK rec : rec = [pc |-> "insertSalary", type |-> "INITIAL", edit |-> << >>,
                            row |-> row]
      OBVIOUS
    <3>2. calls[c].pc = "insertEmployee"
      BY <1>3 DEF InsertEmployee, At
    <3>7. PICK n : n = NewRow(employees)
      OBVIOUS
    <3>3. n \in DOMAIN employees'
      BY <1>3, <3>7 DEF Put, InsertEmployee
    <3>4. n \in Id
      <4>1. Cardinality(DOMAIN employees) + 1 \in 1 .. MaxUsers
        <5>1. Cardinality(InsertingEmployee) >= 1
          <6>1. InsertingEmployee # {}
            BY <1>1, <3>2 DEF InsertingEmployee
          <6>2. Cardinality(InsertingEmployee) # 0
            BY <6>1, StaffLimits, FS_EmptySet
          <6> QED  BY <6>2, StaffLimits
        <5> QED  BY <5>1, StaffLimits DEF StaffInv, BoundsInv
      <4> QED  BY <3>7, <4>1 DEF NewRow, Id
    <3>5. row \in Salary /\ row.emp = n
      BY <1>1, <3>0, <3>4, <3>7 DEF Salary, Endless
    <3>6. rec \in StaffCall
      BY <3>1, <3>5 DEF StaffCall
    <3>8. Backed(rec)'
      BY <3>1, <3>3, <3>5 DEF Backed, Subjects
    <3>9. Goto(c, rec)
      BY <2>2, <3>0, <3>1
    <3>10. Pays(calls[c]) /\ calls[c].pc # "insertHistory"
      BY <2>2, <3>2 DEF Pays
    <3>11. Follows(c, rec) /\ rec.edit = << >> /\ rec.row.emp = NewRow(employees)
      BY <3>1, <3>5, <3>6, <3>7, <3>8, <3>9, <3>10 DEF Follows
    <3> QED  BY <1>1, <1>3, <3>11
  <2> QED  BY <1>3, <2>1, <2>2 DEF InsertEmployee
<1> QED  BY <1>2, <1>3

LEMMA UpdateMoves ==
  ASSUME StaffingAssumption, StaffInv, NEW c \in Call,
         ReadPay(c) \/ CheckEmail(c) \/ WriteEmail(c)
  PROVE  /\ c \in DOMAIN calls
         /\ \/ Return(c)
            \/ \E rec, old :
                 /\ Follows(c, rec) /\ rec.edit = calls[c].edit
                 /\ rec.pc \in {"checkEmail", "writeEmail", "endOld"} =>
                      rec.old = old /\ rec.id = calls[c].id
                 /\ rec.pc = "insertSalary" =>
                      old = None /\ rec.row.emp = calls[c].id /\ rec.edit # << >>
                 /\ rec.pc \in {"checkEmail", "writeEmail", "endOld", "insertSalary",
                                "writeEmployee"}
                 /\ IF ReadPay(c)
                      THEN OpenEnded(calls[c].id) # {} => old \in OpenEnded(calls[c].id)
                      ELSE old = calls[c].old
<1>1. /\ c \in DOMAIN calls /\ calls[c] \in StaffCall /\ Backed(calls[c])
      /\ MaxSalaries \in Nat /\ salarySeq \in 0 .. MaxSalaries
      /\ DOMAIN salaries \subseteq 1 .. salarySeq
      /\ UNCHANGED <<employees, salaries, salarySeq>>
  BY RowOfTable, StaffLimits
     DEF ReadPay, CheckEmail, WriteEmail, At, StaffInv, CallsInv, SalariesInv, IsTable, staffTables
<1>2. ASSUME NEW rec, NEW old, Follows(c, rec), AfterEmailGoes(c, old, rec),
             IF ReadPay(c)
               THEN OpenEnded(calls[c].id) # {} => old \in OpenEnded(calls[c].id)
               ELSE old = calls[c].old
      PROVE  \E r, o :
                 /\ Follows(c, r) /\ r.edit = calls[c].edit
                 /\ r.pc \in {"checkEmail", "writeEmail", "endOld"} =>
                      r.old = o /\ r.id = calls[c].id
                 /\ r.pc = "insertSalary" =>
                      o = None /\ r.row.emp = calls[c].id /\ r.edit # << >>
                 /\ r.pc \in {"checkEmail", "writeEmail", "endOld", "insertSalary",
                              "writeEmployee"}
                 /\ IF ReadPay(c)
                      THEN OpenEnded(calls[c].id) # {} => o \in OpenEnded(calls[c].id)
                      ELSE o = calls[c].old
  BY <1>2 DEF AfterEmailGoes
<1>3. CASE ReadPay(c)
  <2>1. /\ calls[c].pc = "readPay" /\ calls[c].id \in Id /\ calls[c].edit \in EmployeeEdit
        /\ calls[c].id \in DOMAIN employees
    BY <1>1, <1>3, CallShape DEF ReadPay, At, Backed, Subjects
  <2>2. PICK old \in IF OpenEnded(calls[c].id) = {} THEN {None} ELSE OpenEnded(calls[c].id) :
          IF "email" \in DOMAIN calls[c].edit
            THEN Goto(c, [pc |-> "checkEmail", id |-> calls[c].id, edit |-> calls[c].edit,
                          old |-> old])
            ELSE AfterEmail(c, old)
    BY <1>3 DEF ReadPay
  <2>3. OpenEnded(calls[c].id) # {} => old \in OpenEnded(calls[c].id)
    BY <2>2
  <2>4. /\ old \in 0 .. salarySeq /\ old \in SalaryId \cup {None}
        /\ old \in DOMAIN salaries => salaries[old].emp = calls[c].id
    <3>1. CASE OpenEnded(calls[c].id) = {}
      BY <1>1, <2>2, <3>1 DEF None
    <3>2. CASE old \in OpenEnded(calls[c].id)
      BY <1>1, <3>2 DEF OpenEnded, Current, SalaryId
    <3> QED  BY <2>3, <3>1, <3>2
  <2>5. CASE AfterEmail(c, old)
    <3>1. Return(c) \/ \E rec : Follows(c, rec) /\ AfterEmailGoes(c, old, rec)
      BY <1>1, <2>1, <2>4, <2>5, AfterEmailMoves
    <3> QED  BY <1>1, <1>2, <1>3, <2>3, <3>1
  <2>6. CASE /\ "email" \in DOMAIN calls[c].edit
             /\ Goto(c, [pc |-> "checkEmail", id |-> calls[c].id, edit |-> calls[c].edit,
                         old |-> old])
    <3>1. PICK rec : rec = [pc |-> "checkEmail", id |-> calls[c].id, edit |-> calls[c].edit,
                            old |-> old]
      OBVIOUS
    <3>2. rec \in StaffCall
      BY <2>1, <2>4, <3>1 DEF StaffCall
    <3>3. Backed(rec)'
      BY <1>1, <2>1, <2>4, <2>6, <3>1 DEF Backed, Subjects
    <3>4. Pays(rec) => Pays(calls[c]) /\ calls[c].pc # "insertHistory"
      BY <2>1, <3>1 DEF Pays
    <3>5. Goto(c, rec)
      BY <2>6, <3>1
    <3>6. Follows(c, rec) /\ rec.pc = "checkEmail" /\ rec.edit = calls[c].edit
          /\ rec.old = old /\ rec.id = calls[c].id
      BY <3>1, <3>2, <3>3, <3>4, <3>5 DEF Follows
    <3> QED  BY <1>1, <1>3, <2>3, <3>6
  <2> QED  BY <2>2, <2>5, <2>6
<1>4. ASSUME CheckEmail(c) \/ WriteEmail(c)
      PROVE  ~ReadPay(c)
  BY <1>4 DEF CheckEmail, WriteEmail, ReadPay, At
<1>5. CASE CheckEmail(c)
  <2>1. /\ calls[c].pc = "checkEmail" /\ calls[c].id \in Id /\ calls[c].edit \in EmployeeEdit
        /\ calls[c].id \in DOMAIN employees /\ calls[c].old \in SalaryId \cup {None}
        /\ calls[c] = [pc |-> "checkEmail", id |-> calls[c].id, edit |-> calls[c].edit,
                       old |-> calls[c].old]
    BY <1>1, <1>5, CallShape DEF CheckEmail, At, Backed, Subjects
  <2>2. CASE Return(c)
    BY <1>1, <2>2
  <2>3. CASE Goto(c, [calls[c] EXCEPT !.pc = "writeEmail"])
    <3>1. PICK rec : rec = [pc |-> "writeEmail", id |-> calls[c].id, edit |-> calls[c].edit,
                            old |-> calls[c].old]
      OBVIOUS
    <3>2. rec \in StaffCall
      BY <2>1, <3>1 DEF StaffCall
    <3>3. Backed(rec)'
      BY <1>1, <2>1, <3>1 DEF Backed, Subjects
    <3>4. Pays(rec) => Pays(calls[c]) /\ calls[c].pc # "insertHistory"
      BY <2>1, <3>1 DEF Pays
    <3>7. [calls[c] EXCEPT !.pc = "writeEmail"] = rec
      BY <2>1, <3>1
    <3>5. Goto(c, rec)
      BY <2>3, <3>7
    <3>6. Follows(c, rec) /\ rec.pc = "writeEmail" /\ rec.edit = calls[c].edit
          /\ rec.old = calls[c].old /\ rec.id = calls[c].id
      BY <3>1, <3>2, <3>3, <3>4, <3>5 DEF Follows
    <3> QED  BY <1>1, <1>4, <1>5, <3>6
  <2> QED  BY <1>5, <2>2, <2>3 DEF CheckEmail
<1>6. CASE WriteEmail(c)
  <2>1. /\ calls[c].pc = "writeEmail" /\ calls[c].old \in 0 .. salarySeq
        /\ calls[c].old \in DOMAIN salaries => salaries[calls[c].old].emp = calls[c].id
    BY <1>1, <1>6 DEF WriteEmail, At, Backed
  <2>2. CASE Return(c)
    BY <1>1, <2>2
  <2>3. CASE AfterEmail(c, calls[c].old)
    <3>1. Return(c) \/ \E rec : Follows(c, rec) /\ AfterEmailGoes(c, calls[c].old, rec)
      BY <1>1, <2>1, <2>3, AfterEmailMoves
    <3> QED  BY <1>1, <1>2, <1>4, <1>6, <3>1
  <2> QED  BY <1>6, <2>2, <2>3 DEF WriteEmail
<1> QED  BY <1>3, <1>5, <1>6

LEMMA PayMoves ==
  ASSUME StaffingAssumption, StaffInv, NEW c \in Call,
         EndOld(c) \/ EndCurrent(c) \/ InsertSalary(c) \/ InsertHistory(c)
  PROVE  /\ c \in DOMAIN calls
         /\ \/ Return(c) /\ InsertHistory(c)
            \/ \E rec :
                 /\ Follows(c, rec) /\ rec.pc \in {"insertSalary", "insertHistory", "writeEmployee"}
                 /\ rec.pc = "insertHistory" <=> InsertSalary(c)
                 /\ rec.pc = "insertSalary" =>
                      \/ EndOld(c) /\ rec.row.emp = calls[c].id
                           /\ rec.edit = calls[c].edit /\ rec.edit # << >>
                      \/ EndCurrent(c) /\ rec.row.emp = calls[c].row.emp /\ rec.edit = << >>
<1>1. /\ c \in DOMAIN calls /\ calls[c] \in StaffCall /\ Backed(calls[c])
      /\ MaxDay \in Nat /\ DOMAIN employees \subseteq Id
      /\ UNCHANGED employees
  BY RowOfTable, StaffLimits
     DEF EndOld, EndCurrent, InsertSalary, InsertHistory, At, StaffInv, CallsInv
<1>2. CASE EndOld(c)
  <2>1. /\ calls[c].pc = "endOld" /\ calls[c].id \in DOMAIN employees
        /\ calls[c].edit \in EmployeeEdit /\ calls[c].id \in Id
    BY <1>1, <1>2, CallShape DEF EndOld, At, Backed, Subjects
  <2>11. calls[c].edit # << >>
    <3>1. "pay" \notin DOMAIN << >>
      OBVIOUS
    <3> QED  BY <1>1, <2>1, <3>1 DEF Backed
  <2>2. PICK row : row = [emp |-> calls[c].id, until |-> Endless, active |-> TRUE]
    OBVIOUS
  <2>3. row \in Salary /\ row.emp = calls[c].id
    BY <1>1, <2>1, <2>2 DEF Salary, Endless
  <2>4. PICK rec : rec = [pc |-> "insertSalary", type |-> "ADJUSTMENT", edit |-> calls[c].edit,
                          row |-> row]
    OBVIOUS
  <2>5. rec \in StaffCall
    BY <2>1, <2>3, <2>4 DEF StaffCall
  <2>6. Backed(rec)'
    BY <1>1, <2>1, <2>3, <2>4 DEF Backed, Subjects
  <2>7. Goto(c, rec)
    BY <1>2, <2>2, <2>4 DEF EndOld
  <2>8. Pays(calls[c]) /\ calls[c].pc # "insertHistory"
    BY <2>1 DEF Pays
  <2>9. Follows(c, rec)
    BY <2>4, <2>5, <2>6, <2>7, <2>8 DEF Follows
  <2>10. ~InsertSalary(c)
    BY <2>1 DEF InsertSalary, At
  <2> QED  BY <1>1, <1>2, <2>3, <2>4, <2>9, <2>10, <2>11
<1>3. CASE EndCurrent(c)
  <2>1. /\ calls[c].pc = "endCurrent" /\ calls[c].row.emp \in DOMAIN employees
        /\ calls[c].row \in Salary
    BY <1>1, <1>3, CallShape DEF EndCurrent, At, Backed, Subjects
  <2>4. PICK rec : rec = [pc |-> "insertSalary", row |-> calls[c].row, type |-> "ADJUSTMENT",
                          edit |-> << >>]
    OBVIOUS
  <2>5. rec \in StaffCall
    BY <2>1, <2>4 DEF StaffCall
  <2>6. Backed(rec)'
    BY <1>1, <2>1, <2>4 DEF Backed, Subjects
  <2>7. Goto(c, rec)
    BY <1>3, <2>4 DEF EndCurrent
  <2>8. Pays(calls[c]) /\ calls[c].pc # "insertHistory"
    BY <2>1 DEF Pays
  <2>9. Follows(c, rec)
    BY <2>4, <2>5, <2>6, <2>7, <2>8 DEF Follows
  <2>10. ~InsertSalary(c)
    BY <2>1 DEF InsertSalary, At
  <2> QED  BY <1>1, <1>3, <2>4, <2>9, <2>10
<1>4. CASE InsertSalary(c)
  <2>1. /\ calls[c].pc = "insertSalary" /\ calls[c].row.emp \in DOMAIN employees
        /\ calls[c].type \in {"INITIAL", "ADJUSTMENT"}
        /\ calls[c].edit \in EmployeeEdit \cup {<< >>}
    BY <1>1, <1>4, CallShape DEF InsertSalary, At, Backed, Subjects
  <2>4. PICK rec : rec = [pc |-> "insertHistory", id |-> calls[c].row.emp,
                          type |-> calls[c].type, edit |-> calls[c].edit]
    OBVIOUS
  <2>5. rec \in StaffCall
    BY <1>1, <2>1, <2>4 DEF StaffCall
  <2>6. Backed(rec)'
    BY <1>1, <2>1, <2>4 DEF Backed, Subjects
  <2>7. Goto(c, rec)
    BY <1>4, <2>4 DEF InsertSalary
  <2>8. Pays(calls[c]) /\ calls[c].pc # "insertHistory"
    BY <2>1 DEF Pays
  <2>9. Follows(c, rec)
    BY <1>4, <2>4, <2>5, <2>6, <2>7, <2>8 DEF Follows
  <2> QED  BY <1>1, <1>4, <2>4, <2>9
<1>5. CASE InsertHistory(c)
  <2>1. /\ calls[c].pc = "insertHistory" /\ calls[c].id \in DOMAIN employees
        /\ calls[c].edit \in EmployeeEdit \cup {<< >>}
    BY <1>1, <1>5, CallShape DEF InsertHistory, At, Backed, Subjects
  <2>2. CASE Return(c)
    BY <1>1, <1>5, <2>2
  <2>3. CASE /\ calls[c].edit # << >>
             /\ Goto(c, [pc |-> "writeEmployee", id |-> calls[c].id, edit |-> calls[c].edit])
    <3>4. PICK rec : rec = [pc |-> "writeEmployee", id |-> calls[c].id, edit |-> calls[c].edit]
      OBVIOUS
    <3>5. rec \in StaffCall
      BY <1>1, <2>1, <2>3, <3>4 DEF StaffCall
    <3>6. Backed(rec)'
      BY <1>1, <2>1, <3>4 DEF Backed, Subjects
    <3>7. Goto(c, rec)
      BY <2>3, <3>4
    <3>8. ~Pays(rec)
      BY <3>4 DEF Pays
    <3>9. Follows(c, rec)
      BY <3>4, <3>5, <3>6, <3>7, <3>8 DEF Follows
    <3>10. ~InsertSalary(c)
      BY <2>1 DEF InsertSalary, At
    <3> QED  BY <1>1, <3>4, <3>9, <3>10
  <2> QED  BY <1>5, <2>2, <2>3 DEF InsertHistory
<1> QED  BY <1>2, <1>3, <1>4, <1>5

LEMMA OrganisationMoves ==
  ASSUME StaffingAssumption, StaffInv, NEW c \in Call,
         FindManager(c) \/ ClimbChain(c) \/ DescendTree(c)
  PROVE  /\ c \in DOMAIN calls
         /\ \/ Return(c)
            \/ \E rec :
                 /\ Follows(c, rec) /\ rec.pc \in {"writeManager", "chain", "tree"}
                 /\ rec.pc = "chain" =>
                      ClimbChain(c) /\ rec.at = employees[calls[c].at].manager
                 /\ rec.pc = "tree" =>
                      /\ DescendTree(c)
                      /\ \E i \in calls[c].pending :
                           rec.pending = (calls[c].pending \ {i}) \cup Subordinates(i)
<1>1. /\ c \in DOMAIN calls /\ calls[c] \in StaffCall /\ Backed(calls[c])
      /\ DOMAIN employees \subseteq Id
      /\ UNCHANGED employees
  BY RowOfTable, StaffLimits
     DEF FindManager, ClimbChain, DescendTree, At, StaffInv, CallsInv, staffTables
<1>2. CASE Return(c)
  BY <1>1, <1>2
<1>3. CASE FindManager(c) /\ ~Return(c)
  <2>1. /\ calls[c].pc = "findManager" /\ calls[c].id \in Id /\ calls[c].manager \in Id
        /\ calls[c].id \in DOMAIN employees
        /\ calls[c] = [pc |-> "findManager", id |-> calls[c].id, manager |-> calls[c].manager]
    BY <1>1, <1>3, CallShape DEF FindManager, At, Backed, Subjects
  <2>2. PICK rec : rec = [pc |-> "writeManager", id |-> calls[c].id,
                          manager |-> calls[c].manager]
    OBVIOUS
  <2>3. [calls[c] EXCEPT !.pc = "writeManager"] = rec
    BY <2>1, <2>2
  <2>4. Goto(c, rec)
    BY <1>3, <2>3 DEF FindManager
  <2>5. rec \in StaffCall
    BY <2>1, <2>2 DEF StaffCall
  <2>6. Backed(rec)' /\ ~Pays(rec)
    BY <1>1, <2>1, <2>2 DEF Backed, Subjects, Pays
  <2>7. Follows(c, rec) /\ rec.pc = "writeManager"
    BY <2>2, <2>4, <2>5, <2>6 DEF Follows
  <2> QED  BY <1>1, <2>7
<1>4. CASE ClimbChain(c) /\ ~Return(c)
  <2>1. /\ calls[c].pc = "chain" /\ calls[c] = [pc |-> "chain", at |-> calls[c].at]
    BY <1>1, <1>4, CallShape DEF ClimbChain, At
  <2>0. PICK manager : manager = employees[calls[c].at].manager
    OBVIOUS
  <2>2. PICK rec : rec = [pc |-> "chain", at |-> manager]
    OBVIOUS
  <2>3. [calls[c] EXCEPT !.at = manager] = rec
    BY <2>1, <2>2
  <2>4. Goto(c, rec) /\ manager \in DOMAIN employees
    BY <1>4, <2>0, <2>3 DEF ClimbChain
  <2>5. rec \in StaffCall
    BY <1>1, <2>2, <2>4 DEF StaffCall
  <2>6. Backed(rec)' /\ ~Pays(rec)
    BY <1>1, <2>2, <2>4 DEF Backed, Subjects, Pays
  <2>7. Follows(c, rec) /\ rec.pc = "chain" /\ rec.at = employees[calls[c].at].manager
    BY <2>0, <2>2, <2>4, <2>5, <2>6 DEF Follows
  <2> QED  BY <1>1, <1>4, <2>7
<1>5. CASE DescendTree(c) /\ ~Return(c)
  <2>1. /\ calls[c].pc = "tree" /\ calls[c] = [pc |-> "tree", pending |-> calls[c].pending]
        /\ calls[c].pending \subseteq DOMAIN employees
    BY <1>1, <1>5, CallShape DEF DescendTree, At, Backed, Subjects
  <2>0. PICK i \in calls[c].pending :
          Goto(c, [calls[c] EXCEPT !.pending = (calls[c].pending \ {i}) \cup Subordinates(i)])
    BY <1>5 DEF DescendTree
  <2>8. PICK rest : rest = (calls[c].pending \ {i}) \cup Subordinates(i)
    OBVIOUS
  <2>2. PICK rec : rec = [pc |-> "tree", pending |-> rest]
    OBVIOUS
  <2>3. [calls[c] EXCEPT !.pending = rest] = rec
    BY <2>1, <2>2
  <2>4. Goto(c, rec)
    BY <2>0, <2>3, <2>8
  <2>9. rest \subseteq DOMAIN employees
    BY <2>1, <2>8 DEF Subordinates, Present
  <2>5. rec \in StaffCall
    BY <1>1, <2>2, <2>9 DEF StaffCall
  <2>6. Backed(rec)' /\ ~Pays(rec)
    BY <1>1, <2>2, <2>9 DEF Backed, Subjects, Pays
  <2>7. Follows(c, rec) /\ rec.pc = "tree"
        /\ rec.pending = (calls[c].pending \ {i}) \cup Subordinates(i)
    BY <2>2, <2>4, <2>5, <2>6, <2>8 DEF Follows
  <2> QED  BY <1>1, <1>5, <2>0, <2>7
<1> QED  BY <1>2, <1>3, <1>4, <1>5

LEMMA StepMoves ==
  ASSUME StaffingAssumption, StaffInv, NEW c \in Call, StaffStep(c)
  PROVE  /\ c \in DOMAIN calls /\ UNCHANGED <<today, mishaps>>
         /\ Return(c) \/ \E rec : Follows(c, rec)
<1>1. UNCHANGED <<today, mishaps>> /\ c \in DOMAIN calls
  BY DEF StaffStep, InsertUser, InsertEmployee, ReadPay, CheckEmail, WriteEmail, EndOld,
         WriteEmployee, EndCurrent, InsertSalary, InsertHistory, WriteSalary, DeleteSalary,
         WriteDeleted, FindManager, WriteManager, ClimbChain, DescendTree, Quiet, At
<1>2. CASE InsertUser(c) \/ InsertEmployee(c)
  BY <1>1, <1>2, HireMoves
<1>3. CASE ReadPay(c) \/ CheckEmail(c) \/ WriteEmail(c)
  BY <1>1, <1>3, UpdateMoves
<1>4. CASE EndOld(c) \/ EndCurrent(c) \/ InsertSalary(c) \/ InsertHistory(c)
  BY <1>1, <1>4, PayMoves
<1>5. CASE FindManager(c) \/ ClimbChain(c) \/ DescendTree(c)
  BY <1>1, <1>5, OrganisationMoves
<1>6. CASE WriteEmployee(c) \/ WriteSalary(c) \/ DeleteSalary(c) \/ WriteDeleted(c)
             \/ WriteManager(c)
  BY <1>1, <1>6 DEF WriteEmployee, WriteSalary, DeleteSalary, WriteDeleted, WriteManager
<1> QED  BY <1>2, <1>3, <1>4, <1>5, <1>6 DEF StaffStep

-----------------------------------------------------------------------------
(* The invariant about shapes is kept.                                     *)

\* Only the call of c is written.
OnlyCall(c) ==
  /\ DOMAIN calls \ {c} = DOMAIN calls' \ {c}
  /\ \A d \in DOMAIN calls \ {c} : calls'[d] = calls[d]

LEMMA CallMoves ==
  ASSUME NEW c
  PROVE  /\ Return(c) => OnlyCall(c) /\ DOMAIN calls' = DOMAIN calls \ {c}
         /\ \A rec : Goto(c, rec) =>
              OnlyCall(c) /\ DOMAIN calls' = DOMAIN calls \cup {c} /\ calls'[c] = rec
BY DEF Return, Goto, Drop, Put, OnlyCall

\* The calls, when one of them moves.
LEMMA OtherCallsStay ==
  ASSUME StaffInv, TablesGrow, NEW c \in Call, OnlyCall(c),
         IsTable(calls', Call, StaffCall),
         \A i \in DOMAIN employees' \ DOMAIN employees :
           \A d \in DOMAIN calls \ {c} :
             calls[d].pc = "insertEmployee" => employees'[i].user # calls[d].user,
         c \in DOMAIN calls' =>
           /\ Backed(calls[c])'
           /\ calls'[c].pc = "insertEmployee" =>
                \A d \in DOMAIN calls \ {c} :
                  calls[d].pc = "insertEmployee" => calls[d].user # calls'[c].user
  PROVE  CallsInv'
<1>1. ASSUME NEW d \in DOMAIN calls', d # c
      PROVE  Backed(calls[d])'
  <2>1. d \in DOMAIN calls /\ calls'[d] = calls[d]
    BY <1>1 DEF OnlyCall
  <2>2. PICK call : call = calls[d]
    OBVIOUS
  <2>3. Backed(call)
    BY <2>1, <2>2 DEF StaffInv, CallsInv
  <2>4. Backed(call)'
    BY <1>1, <2>1, <2>2, <2>3, BackedStays
  <2> QED  BY <2>1, <2>2, <2>4 DEF Backed, Subjects
<1>2. \A d \in DOMAIN calls' : Backed(calls[d])'
  BY <1>1
<1>3. ASSUME NEW d \in DOMAIN calls', NEW e \in DOMAIN calls',
             calls'[d].pc = "insertEmployee", calls'[e].pc = "insertEmployee",
             calls'[d].user = calls'[e].user
      PROVE  d = e
  <2>1. CASE d = c \/ e = c
    BY <1>3, <2>1 DEF OnlyCall
  <2>2. CASE d # c /\ e # c
    BY <1>3, <2>2 DEF OnlyCall, StaffInv, CallsInv, At
  <2> QED  BY <2>1, <2>2
<1> QED  BY <1>2, <1>3 DEF CallsInv, At

LEMMA NewCallKeepsCalls ==
  ASSUME StaffingAssumption, StaffInv, NEW c \in Call, NewStaffCall(c)
  PROVE  CallsInv'
<1>1. PICK rec \in StaffCall : Goto(c, rec) /\ Backed(rec) /\ rec.pc # "insertEmployee"
  BY NewCallMoves
<1>2. UNCHANGED staffTables /\ TablesGrow
  BY NewCallMoves, TablesKept
<1>3. IsTable(calls', Call, StaffCall)
  BY <1>1, PutIsTable DEF StaffInv, CallsInv, Goto
<1>4. OnlyCall(c) /\ calls'[c] = rec
  BY <1>1, CallMoves
<1>5. Backed(rec)'
  BY <1>1, <1>2, BackedStays DEF staffTables
<1>6. Backed(calls[c])'
  BY <1>4, <1>5 DEF Backed, Subjects
<1> QED  BY <1>1, <1>2, <1>3, <1>4, <1>6, OtherCallsStay DEF staffTables

LEMMA StepKeepsCalls ==
  ASSUME StaffingAssumption, StaffInv, NEW c \in Call, StaffStep(c)
  PROVE  CallsInv'
<1>1. c \in DOMAIN calls /\ (Return(c) \/ \E rec : Follows(c, rec))
  BY StepMoves
<1>2. TablesGrow /\ (InsertEmployee(c) \/ DOMAIN employees' = DOMAIN employees)
  BY TablesKept
<1>3. ASSUME NEW i \in DOMAIN employees' \ DOMAIN employees, NEW d \in DOMAIN calls \ {c},
             calls[d].pc = "insertEmployee"
      PROVE  employees'[i].user # calls[d].user
  <2>1. calls[c].pc = "insertEmployee" /\ employees'[i].user = calls[c].user
    BY <1>2 DEF InsertEmployee, Put, At
  <2> QED  BY <1>1, <1>3, <2>1 DEF StaffInv, CallsInv, At
<1>4. CASE Return(c)
  <2>1. IsTable(calls', Call, StaffCall)
    BY <1>4, DropIsTable DEF StaffInv, CallsInv, Return
  <2>2. OnlyCall(c) /\ c \notin DOMAIN calls'
    BY <1>4, CallMoves
  <2> QED  BY <1>2, <1>3, <2>1, <2>2, OtherCallsStay
<1>5. ASSUME NEW rec, Follows(c, rec)
      PROVE  CallsInv'
  <2>1. rec \in StaffCall /\ Goto(c, rec) /\ Backed(rec)'
        /\ (rec.pc = "insertEmployee" => rec.user = NewRow(users))
    BY <1>5 DEF Follows
  <2>2. IsTable(calls', Call, StaffCall)
    BY <2>1, PutIsTable DEF StaffInv, CallsInv, Goto
  <2>3. OnlyCall(c) /\ calls'[c] = rec
    BY <2>1, CallMoves
  <2>4. Backed(calls[c])'
    BY <2>1, <2>3 DEF Backed, Subjects
  <2>5. NewRow(users) \notin DOMAIN users
    BY NewRowIsNew DEF StaffInv, UsersInv
  <2>6. \A d \in DOMAIN calls : calls[d].pc = "insertEmployee" => calls[d].user \in DOMAIN users
    BY DEF StaffInv, CallsInv, Backed
  <2> QED  BY <1>2, <1>3, <2>1, <2>2, <2>3, <2>4, <2>5, <2>6, OtherCallsStay
<1> QED  BY <1>1, <1>4, <1>5

\* A call that fails, and the steps that are of no call.
LEMMA RestKeepsCalls ==
  ASSUME StaffingAssumption, StaffInv,
         StaffCrash \/ AddHistory \/ Midnight \/ (\E c \in Call : StaffFail(c)) \/ UNCHANGED staffVars
  PROVE  CallsInv'
<1>1. TablesGrow /\ DOMAIN employees' = DOMAIN employees
  <2>1. AddHistory \/ UNCHANGED staffTables
    BY DEF StaffCrash, Mishap, Midnight, StaffFail, staffVars
  <2>2. employees' = employees
    BY <2>1 DEF AddHistory, staffTables
  <2> QED  BY <2>1, <2>2, TablesKept
<1>2. CASE StaffCrash
  BY <1>2, EmptyTable DEF StaffCrash, Mishap, CallsInv, At
<1>3. CASE UNCHANGED calls
  <2>1. \A d \in DOMAIN calls : Backed(calls[d])'
    <3>1. ASSUME NEW d \in DOMAIN calls
          PROVE  Backed(calls[d])'
      <4>1. PICK call : call = calls[d]
        OBVIOUS
      <4>2. Backed(call)
        BY <4>1 DEF StaffInv, CallsInv
      <4>3. Backed(call)'
        BY <1>1, <4>2, BackedStays
      <4> QED  BY <1>3, <4>1, <4>3 DEF Backed, Subjects
    <3> QED  BY <3>1
  <2> QED  BY <1>3, <2>1 DEF StaffInv, CallsInv, At
<1>4. ASSUME NEW c \in Call, StaffFail(c)
      PROVE  CallsInv'
  <2>1. Return(c)
    BY <1>4 DEF StaffFail, Mishap
  <2>2. IsTable(calls', Call, StaffCall)
    BY <2>1, DropIsTable DEF StaffInv, CallsInv, Return
  <2>3. OnlyCall(c) /\ c \notin DOMAIN calls'
    BY <2>1, CallMoves
  <2> QED  BY <1>1, <2>2, <2>3, OtherCallsStay
<1> QED  BY <1>2, <1>3, <1>4 DEF AddHistory, Midnight, staffVars

\* The sets of calls the bounds count, when one call moves.
LEMMA CountsMove ==
  ASSUME NEW c, OnlyCall(c)
  PROVE  /\ InsertingUser \ {c} = InsertingUser' \ {c}
         /\ InsertingEmployee \ {c} = InsertingEmployee' \ {c}
         /\ Paying \ {c} = Paying' \ {c}
         /\ (Paying \ Recording) \ {c} = (Paying \ Recording)' \ {c}
         /\ Recording \ {c} = Recording' \ {c}
BY PayingPays DEF OnlyCall, InsertingUser, InsertingEmployee, Recording, Paying

LEMMA NewCallKeepsBounds ==
  ASSUME StaffingAssumption, StaffInv, NEW c \in Call, NewStaffCall(c)
  PROVE  BoundsInv'
<1>1. PICK rec \in StaffCall :
        /\ Goto(c, rec) /\ rec.pc \notin {"insertEmployee", "insertHistory"}
        /\ rec.pc = "insertUser" =>
             Cardinality(DOMAIN users) + Cardinality(Hiring) < MaxUsers
        /\ Pays(rec) => CanPay
  BY NewCallMoves
<1>2. Free(c) /\ UNCHANGED <<today, mishaps, staffTables>>
  BY NewCallMoves
<1>3. OnlyCall(c) /\ calls'[c] = rec /\ c \in DOMAIN calls' /\ c \notin DOMAIN calls
  BY <1>1, <1>2, CallMoves DEF Free
<1>4. /\ c \notin InsertingUser /\ c \notin InsertingEmployee /\ c \notin Paying
      /\ c \notin InsertingEmployee' /\ c \notin Recording'
      /\ (c \in InsertingUser' => rec.pc = "insertUser")
      /\ (c \in Paying' => Pays(rec))
  BY <1>1, <1>3, PayingPays DEF InsertingUser, InsertingEmployee, Recording, Paying, Pays
<1>5. Cardinality(Hiring) \in Nat /\ Cardinality(InsertingUser) <= Cardinality(Hiring)
  <2>1. Hiring \subseteq DOMAIN calls /\ InsertingUser \subseteq Hiring
    BY DEF Hiring, InsertingUser
  <2>2. IsFiniteSet(Hiring)
    BY <2>1, StaffLimits, FS_Subset
  <2> QED  BY <2>1, <2>2, FS_Subset, FS_CardinalityType
<1>6. Cardinality(Paying \ Recording) <= Cardinality(Paying)
  BY StaffLimits, FS_Subset
<1>7. /\ Cardinality(InsertingUser') \in Nat
      /\ \/ Cardinality(InsertingUser') = Cardinality(InsertingUser)
         \/ /\ rec.pc = "insertUser"
            /\ Cardinality(InsertingUser') = Cardinality(InsertingUser) + 1
  BY <1>3, <1>4, StaffLimits, CountsMove, OneMoves
<1>8. Cardinality(InsertingEmployee') = Cardinality(InsertingEmployee)
  BY <1>3, <1>4, StaffLimits, CountsMove, OneMoves
<1>9. /\ Cardinality(Paying') \in Nat
      /\ \/ Cardinality(Paying') = Cardinality(Paying)
         \/ Pays(rec) /\ Cardinality(Paying') = Cardinality(Paying) + 1
  BY <1>3, <1>4, StaffLimits, CountsMove, OneMoves
<1>10. /\ Cardinality((Paying \ Recording)') \in Nat
       /\ \/ Cardinality((Paying \ Recording)') = Cardinality(Paying \ Recording)
          \/ /\ Pays(rec)
             /\ Cardinality((Paying \ Recording)') = Cardinality(Paying \ Recording) + 1
  <2>1. PICK S, T : S = Paying \ Recording /\ T = (Paying \ Recording)'
    OBVIOUS
  <2>2. S \ {c} = T \ {c} /\ IsFiniteSet(S) /\ c \notin S /\ (c \in T => Pays(rec))
    BY <1>3, <1>4, <2>1, StaffLimits, CountsMove
  <2> QED  BY <2>1, <2>2, OneMoves
<1>11. Cardinality(DOMAIN users) + Cardinality(InsertingUser') <= MaxUsers
  BY <1>1, <1>5, <1>7, StaffLimits DEF StaffInv, BoundsInv
<1>12. Pays(rec) =>
         /\ salarySeq + Cardinality(Paying) + 1 <= MaxSalaries
         /\ Cardinality(DOMAIN histories) + Cardinality(Paying) + 1 <= MaxHistories
  BY <1>1, StaffLimits DEF CanPay
<1>13. salarySeq + Cardinality((Paying \ Recording)') <= MaxSalaries
  BY <1>6, <1>10, <1>12, StaffLimits DEF StaffInv, BoundsInv
<1>14. Cardinality(DOMAIN histories) + Cardinality(Paying') <= MaxHistories
  BY <1>9, <1>12, StaffLimits DEF StaffInv, BoundsInv
<1> QED  BY <1>2, <1>8, <1>11, <1>13, <1>14 DEF StaffInv, BoundsInv, staffTables

\* Where the call of a step is counted, before it and after.
LEMMA StepIsCounted ==
  ASSUME StaffingAssumption, StaffInv, NEW c \in Call, StaffStep(c)
  PROVE  /\ OnlyCall(c)
         /\ c \notin InsertingUser'
         /\ c \in InsertingEmployee' =>
              InsertUser(c) /\ users' = Put(users, NewRow(users), calls[c].email)
         /\ c \in Paying' => c \in Paying /\ c \notin Recording
         /\ InsertUser(c) => c \in InsertingUser
         /\ InsertEmployee(c) => c \in InsertingEmployee
         /\ InsertSalary(c) => c \in Paying \ Recording /\ c \in Recording'
         /\ InsertHistory(c) => c \in Recording /\ c \in Paying /\ c \notin Paying'
         /\ c \in Recording' => InsertSalary(c)
         /\ c \in Recording => InsertHistory(c)
<1>1. c \in DOMAIN calls /\ (Return(c) \/ \E rec : Follows(c, rec))
  BY StepMoves
<1>2. /\ OnlyCall(c) /\ c \notin InsertingUser'
      /\ c \in InsertingEmployee' =>
              InsertUser(c) /\ users' = Put(users, NewRow(users), calls[c].email)
      /\ c \in Paying' => c \in Paying /\ c \notin Recording
      /\ c \in Recording' => InsertSalary(c)
  <2>1. CASE Return(c)
    <3>1. OnlyCall(c) /\ c \notin DOMAIN calls'
      BY <2>1, CallMoves
    <3> QED  BY <3>1 DEF InsertingUser, InsertingEmployee, Paying, Recording
  <2>2. ASSUME NEW rec, Follows(c, rec)
        PROVE  /\ OnlyCall(c) /\ c \notin InsertingUser'
               /\ c \in InsertingEmployee' =>
                    InsertUser(c) /\ users' = Put(users, NewRow(users), calls[c].email)
               /\ c \in Paying' => c \in Paying /\ c \notin Recording
               /\ c \in Recording' => InsertSalary(c)
    <3>1. Goto(c, rec) /\ rec.pc # "insertUser"
          /\ (rec.pc = "insertEmployee" =>
                InsertUser(c) /\ users' = Put(users, NewRow(users), calls[c].email))
          /\ (rec.pc = "insertHistory" => InsertSalary(c))
          /\ (Pays(rec) => Pays(calls[c]) /\ calls[c].pc # "insertHistory")
      BY <2>2 DEF Follows
    <3>2. OnlyCall(c) /\ calls'[c] = rec
      BY <3>1, CallMoves
    <3>3. c \in Paying' => Pays(rec)
      BY <3>2, PayingPays DEF Paying, Pays
    <3>4. Pays(calls[c]) => c \in Paying
      BY <1>1, PayingPays
    <3> QED  BY <3>1, <3>2, <3>3, <3>4 DEF InsertingUser, InsertingEmployee, Recording
  <2> QED  BY <1>1, <2>1, <2>2
<1>3. /\ InsertUser(c) => c \in InsertingUser
      /\ InsertEmployee(c) => c \in InsertingEmployee
      /\ InsertHistory(c) => c \in Recording /\ c \in Paying
      /\ InsertSalary(c) => c \in Paying \ Recording
  BY DEF InsertUser, InsertEmployee, InsertSalary, InsertHistory, At, Paying, Recording,
         InsertingUser, InsertingEmployee
<1>4. InsertSalary(c) => c \in Recording'
  <2>1. ASSUME InsertSalary(c)
        PROVE  c \in Recording'
    <3>1. calls'[c].pc = "insertHistory" /\ c \in DOMAIN calls'
      BY <2>1 DEF InsertSalary, Goto, Put
    <3> QED  BY <3>1 DEF Recording
  <2> QED  BY <2>1
<1>5. c \in Recording => InsertHistory(c)
  BY DEF Recording, StaffStep, InsertUser, InsertEmployee, ReadPay, CheckEmail, WriteEmail,
         EndOld, WriteEmployee, EndCurrent, InsertSalary, WriteSalary, DeleteSalary,
         WriteDeleted, FindManager, WriteManager, ClimbChain, DescendTree, At
<1> QED  BY <1>2, <1>3, <1>4, <1>5

LEMMA StepKeepsBounds ==
  ASSUME StaffingAssumption, StaffInv, NEW c \in Call, StaffStep(c)
  PROVE  BoundsInv'
<1>1. UNCHANGED <<today, mishaps>> /\ OnlyCall(c)
  BY StepMoves, StepIsCounted
<1>2. \/ /\ c \in InsertingUser
         /\ Cardinality(DOMAIN users') = Cardinality(DOMAIN users) + 1
      \/ /\ c \notin InsertingEmployee' /\ DOMAIN users' = DOMAIN users
  <2>1. CASE users' = Put(users, NewRow(users), calls[c].email) /\ InsertUser(c)
    <3>1. c \in InsertingUser
      BY <2>1, StepIsCounted
    <3>2. Dense(users)
      BY DEF StaffInv, UsersInv
    <3>3. Cardinality(DOMAIN users') = Cardinality(DOMAIN users) + 1
      BY <2>1, <3>2, DenseGrows
    <3> QED  BY <3>1, <3>3
  <2>2. CASE ~(users' = Put(users, NewRow(users), calls[c].email) /\ InsertUser(c))
    <3>1. c \notin InsertingEmployee'
      BY <2>2, StepIsCounted
    <3>2. DOMAIN users' = DOMAIN users
      BY <2>2
         DEF StaffStep, InsertUser, InsertEmployee, ReadPay, CheckEmail, WriteEmail, EndOld,
             WriteEmployee, EndCurrent, InsertSalary, InsertHistory, WriteSalary,
             DeleteSalary, WriteDeleted, FindManager, WriteManager, ClimbChain, DescendTree,
             staffTables
    <3> QED  BY <3>1, <3>2
  <2> QED  BY <2>1, <2>2
<1>3. \/ /\ c \in InsertingEmployee /\ c \notin InsertingEmployee' /\ DOMAIN users' = DOMAIN users
         /\ Cardinality(DOMAIN employees') = Cardinality(DOMAIN employees) + 1
      \/ DOMAIN employees' = DOMAIN employees
  <2>1. CASE InsertEmployee(c)
    <3>1. PICK row : employees' = Put(employees, NewRow(employees), row)
      BY <2>1 DEF InsertEmployee
    <3>2. Cardinality(DOMAIN employees') = Cardinality(DOMAIN employees) + 1
      BY <3>1, DenseGrows DEF StaffInv, EmployeesInv
    <3>3. ~InsertUser(c) /\ DOMAIN users' = DOMAIN users
      BY <2>1 DEF InsertEmployee, InsertUser, At
    <3> QED  BY <2>1, <3>2, <3>3, StepIsCounted
  <2> QED  BY <2>1, TablesKept
<1>4. \/ c \in Paying \ Recording /\ c \in Recording' /\ salarySeq' = salarySeq + 1
      \/ salarySeq' = salarySeq
  <2>1. CASE InsertSalary(c)
    BY <2>1, StepIsCounted DEF InsertSalary
  <2>2. CASE ~InsertSalary(c)
    BY <2>2
       DEF StaffStep, InsertUser, InsertEmployee, ReadPay, CheckEmail, WriteEmail, EndOld,
           WriteEmployee, EndCurrent, InsertHistory, WriteSalary,
           DeleteSalary, WriteDeleted, FindManager, WriteManager, ClimbChain, DescendTree,
           staffTables
  <2> QED  BY <2>1, <2>2
<1>5. \/ /\ c \in Paying /\ c \notin Paying'
         /\ Cardinality(DOMAIN histories') = Cardinality(DOMAIN histories) + 1
      \/ histories' = histories
  <2>1. CASE InsertHistory(c)
    <3>1. DOMAIN employees \subseteq DOMAIN employees'
      BY <2>1 DEF InsertHistory
    <3> QED  BY <2>1, <3>1, HistoriesKept, StepIsCounted
  <2>2. CASE ~InsertHistory(c)
    BY <2>2
       DEF StaffStep, InsertUser, InsertEmployee, ReadPay, CheckEmail, WriteEmail, EndOld,
           WriteEmployee, EndCurrent, InsertSalary, WriteSalary,
           DeleteSalary, WriteDeleted, FindManager, WriteManager, ClimbChain, DescendTree,
           staffTables
  <2> QED  BY <2>1, <2>2
<1>6. /\ c \notin InsertingUser' /\ (c \in Paying' => c \in Paying /\ c \notin Recording)
  BY StepIsCounted
<1>7. /\ Cardinality(InsertingUser') \in Nat
      /\ Cardinality(InsertingUser') =
           IF c \in InsertingUser THEN Cardinality(InsertingUser) - 1
                                  ELSE Cardinality(InsertingUser)
  BY <1>1, <1>6, StaffLimits, CountsMove, OneMoves
<1>8. /\ Cardinality(InsertingEmployee') \in Nat
      /\ Cardinality(InsertingEmployee') <= Cardinality(InsertingEmployee) + 1
      /\ c \notin InsertingEmployee' =>
           Cardinality(InsertingEmployee') =
             IF c \in InsertingEmployee THEN Cardinality(InsertingEmployee) - 1
                                        ELSE Cardinality(InsertingEmployee)
  BY <1>1, StaffLimits, CountsMove, OneMoves
<1>9. /\ Cardinality(Paying') \in Nat
      /\ Cardinality(Paying') <= Cardinality(Paying)
      /\ c \in Paying /\ c \notin Paying' => Cardinality(Paying') = Cardinality(Paying) - 1
  BY <1>1, <1>6, StaffLimits, CountsMove, OneMoves
<1>10. /\ Cardinality((Paying \ Recording)') \in Nat
       /\ Cardinality((Paying \ Recording)') <= Cardinality(Paying \ Recording)
       /\ c \in Paying \ Recording /\ c \in Recording' =>
            Cardinality((Paying \ Recording)') = Cardinality(Paying \ Recording) - 1
  <2>1. PICK S, T : S = Paying \ Recording /\ T = (Paying \ Recording)'
    OBVIOUS
  <2>2. /\ S \ {c} = T \ {c} /\ IsFiniteSet(S) /\ (c \in T => c \in S)
        /\ c \in Recording' => c \notin T
    BY <1>1, <1>6, <2>1, StaffLimits, CountsMove
  <2>3. /\ Cardinality(S) \in Nat /\ Cardinality(T) \in Nat /\ Cardinality(T) <= Cardinality(S)
        /\ c \in S /\ c \notin T => Cardinality(T) = Cardinality(S) - 1
    BY <2>2, OneMoves
  <2> QED  BY <2>1, <2>2, <2>3
<1>11. Cardinality(DOMAIN users') + Cardinality(InsertingUser') <= MaxUsers
  BY <1>2, <1>7, StaffLimits DEF StaffInv, BoundsInv
<1>12. Cardinality(DOMAIN employees') + Cardinality(InsertingEmployee')
         <= Cardinality(DOMAIN users')
  BY <1>2, <1>3, <1>8, StaffLimits DEF StaffInv, BoundsInv
<1>13. salarySeq' + Cardinality((Paying \ Recording)') <= MaxSalaries
  BY <1>4, <1>10, StaffLimits DEF StaffInv, BoundsInv
<1>14. Cardinality(DOMAIN histories') + Cardinality(Paying') <= MaxHistories
  BY <1>5, <1>9, StaffLimits DEF StaffInv, BoundsInv
<1> QED  BY <1>1, <1>11, <1>12, <1>13, <1>14 DEF StaffInv, BoundsInv

LEMMA RestKeepsBounds ==
  ASSUME StaffingAssumption, StaffInv,
         StaffCrash \/ AddHistory \/ Midnight \/ (\E c \in Call : StaffFail(c)) \/ UNCHANGED staffVars
  PROVE  BoundsInv'
<1>1. CASE StaffCrash
  <2>1. /\ InsertingUser' = {} /\ InsertingEmployee' = {}
        /\ Paying' = {} /\ (Paying \ Recording)' = {}
    BY <1>1 DEF StaffCrash, Mishap, InsertingUser, InsertingEmployee, Paying
  <2>2. mishaps' \in 0 .. MaxMishaps
    <3>1. mishaps \in 0 .. MaxMishaps /\ mishaps < MaxMishaps /\ mishaps' = mishaps + 1
      BY <1>1 DEF StaffCrash, Mishap, StaffInv, BoundsInv
    <3> QED  BY <3>1, StaffLimits
  <2>3. Cardinality({}) = 0
    BY FS_EmptySet
  <2>4. /\ Cardinality(DOMAIN users) <= MaxUsers
        /\ Cardinality(DOMAIN employees) <= Cardinality(DOMAIN users)
        /\ salarySeq <= MaxSalaries /\ Cardinality(DOMAIN histories) <= MaxHistories
    BY StaffLimits DEF StaffInv, BoundsInv
  <2>5. /\ Cardinality(DOMAIN users) + Cardinality(InsertingUser') <= MaxUsers
        /\ Cardinality(DOMAIN employees) + Cardinality(InsertingEmployee')
             <= Cardinality(DOMAIN users)
        /\ salarySeq + Cardinality((Paying \ Recording)') <= MaxSalaries
        /\ Cardinality(DOMAIN histories) + Cardinality(Paying') <= MaxHistories
    BY <2>1, <2>3, <2>4, StaffLimits
  <2>6. UNCHANGED <<today, users, employees, salarySeq, histories>>
    BY <1>1 DEF StaffCrash, Mishap, staffTables
  <2> QED  BY <2>2, <2>5, <2>6 DEF StaffInv, BoundsInv
<1>2. CASE AddHistory
  <2>1. Cardinality(DOMAIN histories') = Cardinality(DOMAIN histories) + 1
    <3>1. DOMAIN employees \subseteq DOMAIN employees'
      BY <1>2 DEF AddHistory
    <3> QED  BY <1>2, <3>1, HistoriesKept
  <2>2. Cardinality(DOMAIN histories) + Cardinality(Paying) < MaxHistories
    BY <1>2 DEF AddHistory
  <2>3. Cardinality(DOMAIN histories') + Cardinality(Paying) <= MaxHistories
    BY <2>1, <2>2, StaffLimits
  <2>4. UNCHANGED <<today, mishaps, users, employees, salarySeq, calls>>
    BY <1>2 DEF AddHistory, Quiet
  <2>5. UNCHANGED <<InsertingUser, InsertingEmployee, Paying, Recording>>
    BY <2>4 DEF InsertingUser, InsertingEmployee, Paying, Recording
  <2> QED  BY <2>3, <2>4, <2>5 DEF StaffInv, BoundsInv
<1>3. CASE Midnight \/ UNCHANGED staffVars
  <2>1. UNCHANGED <<InsertingUser, InsertingEmployee, Paying, Recording>>
    BY <1>3 DEF Midnight, staffVars, InsertingUser, InsertingEmployee, Paying, Recording
  <2>2. today' \in 0 .. MaxDay
    BY <1>3, StaffLimits DEF Midnight, staffVars
  <2> QED  BY <1>3, <2>1, <2>2 DEF Midnight, staffVars, staffTables, StaffInv, BoundsInv
<1>4. ASSUME NEW c \in Call, StaffFail(c)
      PROVE  BoundsInv'
  <2>1. DOMAIN calls' \subseteq DOMAIN calls /\ \A d \in DOMAIN calls' : calls'[d] = calls[d]
    BY <1>4 DEF StaffFail, Mishap, Return, Drop
  <2>2. /\ InsertingUser' \subseteq InsertingUser
        /\ InsertingEmployee' \subseteq InsertingEmployee
        /\ Paying' \subseteq Paying /\ (Paying \ Recording)' \subseteq Paying \ Recording
    BY <2>1 DEF InsertingUser, InsertingEmployee, Paying, Recording
  <2>3. /\ Cardinality(InsertingUser') <= Cardinality(InsertingUser)
        /\ Cardinality(InsertingEmployee') <= Cardinality(InsertingEmployee)
        /\ Cardinality(Paying') <= Cardinality(Paying)
        /\ Cardinality((Paying \ Recording)') <= Cardinality(Paying \ Recording)
    BY <2>2, StaffLimits, FS_Subset
  <2>4. /\ Cardinality(InsertingUser') \in Nat /\ Cardinality(InsertingEmployee') \in Nat
        /\ Cardinality(Paying') \in Nat /\ Cardinality((Paying \ Recording)') \in Nat
    BY <2>2, StaffLimits, FS_Subset, FS_CardinalityType
  <2>5. /\ Cardinality(DOMAIN users) + Cardinality(InsertingUser') <= MaxUsers
        /\ Cardinality(DOMAIN employees) + Cardinality(InsertingEmployee')
             <= Cardinality(DOMAIN users)
        /\ salarySeq + Cardinality((Paying \ Recording)') <= MaxSalaries
        /\ Cardinality(DOMAIN histories) + Cardinality(Paying') <= MaxHistories
    BY <2>3, <2>4, StaffLimits DEF StaffInv, BoundsInv
  <2>6. mishaps' \in 0 .. MaxMishaps /\ UNCHANGED <<today, users, employees, salarySeq, histories>>
    BY <1>4, StaffLimits DEF StaffFail, Mishap, staffTables, StaffInv, BoundsInv
  <2> QED  BY <2>5, <2>6 DEF StaffInv, BoundsInv
<1> QED  BY <1>1, <1>2, <1>3, <1>4

LEMMA StaffStart == ASSUME StaffingAssumption PROVE StaffInit => StaffInv
<1> SUFFICES ASSUME StaffInit PROVE StaffInv
  OBVIOUS
<1>1. /\ MaxUsers \in Nat /\ MaxDay \in Nat /\ MaxMishaps \in Nat
      /\ MaxSalaries \in Nat \ {0} /\ MaxHistories \in Nat \ {0}
      /\ StartStaff \in Nat /\ StartStaff >= 1 /\ StartStaff <= MaxUsers
  BY DEF StaffingAssumption
<1>2. /\ IsFiniteSet(1 .. StartStaff) /\ Cardinality(1 .. StartStaff) = StartStaff
      /\ 1 .. StartStaff \subseteq Id /\ 1 .. StartStaff \subseteq Nat
      /\ 1 \in 1 .. StartStaff
  <2>1. PICK a \in Int, b \in Int : a = 1 /\ b = StartStaff
    BY <1>1
  <2>2. IsFiniteSet(a .. b) /\ Cardinality(a .. b) = IF a > b THEN 0 ELSE b - a + 1
    BY FS_Interval
  <2> QED  BY <1>1, <2>1, <2>2 DEF Id
<1>3. UsersInv
  BY <1>2 DEF StaffInit, UsersInv, Dense, IsTable, Unique, Emails
<1>4. EmployeesInv
  <2>1. /\ DOMAIN employees = 1 .. StartStaff /\ DOMAIN users = 1 .. StartStaff
        /\ employees = [i \in 1 .. StartStaff |->
             [user |-> i, manager |-> None, deleted |-> FALSE, active |-> TRUE]]
    BY DEF StaffInit
  <2>2. \A i \in 1 .. StartStaff : employees[i] \in EmployeeRow /\ employees[i].user = i
    BY <1>2, <2>1 DEF EmployeeRow
  <2>3. IsTable(employees, Nat, EmployeeRow)
    BY <1>2, <2>1, <2>2 DEF IsTable
  <2> QED  BY <1>2, <2>1, <2>2, <2>3 DEF EmployeesInv, Dense
<1>5. SalariesInv
  <2>1. PICK row : row = [emp |-> 1, until |-> Endless, active |-> TRUE]
    OBVIOUS
  <2>2. row \in Salary /\ row.emp = 1
    BY <1>1, <1>2, <2>1 DEF Salary, Endless
  <2>3. salaries = Put(<< >>, 1, row) /\ salarySeq = 1 /\ DOMAIN employees = 1 .. StartStaff
    BY <2>1 DEF StaffInit
  <2>6. IsTable(<< >>, 1 .. salarySeq, Salary) /\ 1 \in 1 .. salarySeq
    BY <2>3, EmptyTable
  <2>4. IsTable(salaries, 1 .. salarySeq, Salary)
    BY <2>2, <2>3, <2>6, PutIsTable
  <2>5. DOMAIN salaries = {1} /\ salaries[1] = row
    BY <2>3 DEF Put
  <2> QED  BY <1>2, <2>2, <2>3, <2>4, <2>5 DEF SalariesInv
<1>6. HistoriesInv /\ Cardinality(DOMAIN histories) = 1
  <2>1. PICK row : row = [emp |-> 1, type |-> "INITIAL"]
    OBVIOUS
  <2>2. row \in History /\ row.emp = 1
    BY <1>2, <2>1 DEF History
  <2>3. histories = Put(<< >>, 1, row) /\ DOMAIN employees = 1 .. StartStaff
    BY <2>1 DEF StaffInit
  <2>4. IsTable(histories, Nat, History)
    <3>1. IsTable(<< >>, Nat, History)
      BY EmptyTable
    <3> QED  BY <2>2, <2>3, <3>1, PutIsTable
  <2>5. DOMAIN histories = {1} /\ histories[1] = row
    BY <2>3 DEF Put
  <2>6. IsFiniteSet({1}) /\ Cardinality({1}) = 1 /\ {1} = 1 .. 1
    <3>1. {1} = 1 .. 1
      OBVIOUS
    <3> QED  BY <3>1, FS_Singleton
  <2> QED  BY <1>2, <2>2, <2>3, <2>4, <2>5, <2>6 DEF HistoriesInv, Dense
<1>7. CallsInv /\ InsertingUser = {} /\ InsertingEmployee = {} /\ Paying = {}
  BY EmptyTable DEF StaffInit, CallsInv, At, InsertingUser, InsertingEmployee, Paying
<1>8. BoundsInv
  <2>1. Cardinality({}) = 0 /\ Paying \ Recording = {}
    BY <1>7, FS_EmptySet
  <2>2. /\ Cardinality(DOMAIN users) = StartStaff /\ Cardinality(DOMAIN employees) = StartStaff
        /\ salarySeq = 1 /\ today = 0 /\ mishaps = 0
    BY <1>2 DEF StaffInit
  <2> QED  BY <1>1, <1>6, <1>7, <2>1, <2>2 DEF BoundsInv
<1> QED  BY <1>3, <1>4, <1>5, <1>6, <1>7, <1>8 DEF StaffInv

LEMMA StaffKept == ASSUME StaffingAssumption PROVE StaffInv /\ [StaffNext]_staffVars => StaffInv'
<1> SUFFICES ASSUME StaffInv, [StaffNext]_staffVars PROVE StaffInv'
  OBVIOUS
<1>1. ASSUME NEW c \in Call, NewStaffCall(c)
      PROVE  StaffInv'
  <2>1. UNCHANGED staffTables
    BY <1>1, NewCallMoves
  <2> QED  BY <1>1, <2>1, NewCallKeepsCalls, NewCallKeepsBounds, TablesKept DEF StaffInv
<1>2. ASSUME NEW c \in Call, StaffStep(c)
      PROVE  StaffInv'
  BY <1>2, StepKeepsCalls, StepKeepsBounds, TablesKept DEF StaffInv
<1>3. CASE StaffCrash \/ AddHistory \/ Midnight \/ (\E c \in Call : StaffFail(c)) \/ UNCHANGED staffVars
  <2>1. AddHistory \/ UNCHANGED staffTables
    BY <1>3 DEF StaffCrash, Mishap, Midnight, StaffFail, staffVars
  <2> QED  BY <1>3, <2>1, RestKeepsCalls, RestKeepsBounds, TablesKept DEF StaffInv
<1> QED  BY <1>1, <1>2, <1>3 DEF StaffNext

\* Whatever is hired, paid, moved or dismissed, and wherever a statement fails:
\* the emails are unique, every employee has a user of their own, salaries and
\* their history are of employees there are, and what a call in flight remembers
\* is of its type.
THEOREM StaffingTypes == StaffSpec => []StaffingTypeOK
<1>0. StaffingAssumption
  BY StaffingConstants
<1>1. StaffInit => StaffInv
  BY <1>0, StaffStart
<1>2. StaffInv /\ [StaffNext]_staffVars => StaffInv'
  BY <1>0, StaffKept
<1>3. StaffInv => StaffingTypeOK
  <2> SUFFICES ASSUME StaffInv PROVE StaffingTypeOK
    OBVIOUS
  <2>1. /\ IsTable(users, Id, Emails) /\ IsTable(employees, Id, EmployeeRow)
    BY <1>0, StaffLimits DEF StaffInv, UsersInv, EmployeesInv, IsTable
  <2>2. IsTable(histories, 1 .. MaxHistories, History)
    <3>1. DOMAIN histories = 1 .. Cardinality(DOMAIN histories)
      BY DEF StaffInv, HistoriesInv, Dense
    <3>2. DOMAIN histories \subseteq 1 .. MaxHistories
      BY <1>0, <3>1, StaffLimits
    <3> QED  BY <3>2 DEF StaffInv, HistoriesInv, IsTable
  <2> QED  BY <1>0, <2>1, <2>2, StaffLimits
           DEF StaffInv, UsersInv, EmployeesInv, SalariesInv, HistoriesInv, CallsInv, BoundsInv,
               StaffingTypeOK
<1> QED  BY <1>1, <1>2, <1>3, PTL DEF StaffSpec

-----------------------------------------------------------------------------
(* What failures leave half done.                                          *)

\* The lines of the history that tell of a salary.
Announced == {h \in DOMAIN histories : histories[h].type # "PROMOTION"}

Counted ==
  /\ IsFiniteSet(Stranded) /\ Cardinality(Stranded) \in Nat
  /\ IsFiniteSet(Announced) /\ Cardinality(Announced) \in Nat
  /\ IsFiniteSet(Recording) /\ Cardinality(Recording) \in Nat
  /\ salarySeq \in Nat /\ Cardinality(Call) \in Nat /\ mishaps \in Nat
  /\ Unrecorded = salarySeq - Cardinality(Announced) - Cardinality(Recording)

LEMMA CountsHold ==
  ASSUME StaffingAssumption
  PROVE  StaffInv => Counted
<1> SUFFICES ASSUME StaffInv PROVE Counted
  OBVIOUS
<1>1. /\ Stranded \subseteq DOMAIN users /\ IsFiniteSet(DOMAIN users)
      /\ Announced \subseteq DOMAIN histories /\ IsFiniteSet(DOMAIN histories)
      /\ Recording \subseteq DOMAIN calls /\ IsFiniteSet(DOMAIN calls) /\ IsFiniteSet(Call)
  BY StaffLimits
     DEF Stranded, Announced, Recording, StaffInv, UsersInv, HistoriesInv, Dense,
         StaffingAssumption
<1>2. Recording = {c \in InFlight : At(c, "insertHistory")}
  BY DEF Recording, InFlight, At
<1>3. Unrecorded = salarySeq - Cardinality(Announced) - Cardinality(Recording)
  BY <1>2, Zenon DEF Unrecorded, Announced
<1>4. salarySeq \in Nat /\ mishaps \in Nat
  BY StaffLimits DEF StaffInv, BoundsInv
<1> QED  BY <1>1, <1>3, <1>4, FS_Subset, FS_CardinalityType DEF Counted

\* The counts are numbers, in the state of a step and in the next.
LEMMA CountsAreNumbers ==
  ASSUME StaffingAssumption, StaffInv
  PROVE  /\ IsFiniteSet(Stranded) /\ Cardinality(Stranded) \in Nat
         /\ IsFiniteSet(Announced) /\ Cardinality(Announced) \in Nat
         /\ IsFiniteSet(Recording) /\ Cardinality(Recording) \in Nat
         /\ salarySeq \in Nat /\ Cardinality(Call) \in Nat /\ mishaps \in Nat
         /\ Unrecorded = salarySeq - Cardinality(Announced) - Cardinality(Recording)
BY CountsHold DEF Counted

LEMMA CountsStayNumbers ==
  ASSUME StaffingAssumption, StaffInv'
  PROVE  /\ Cardinality(Stranded') \in Nat
         /\ Cardinality(Announced') \in Nat /\ Cardinality(Recording') \in Nat
         /\ salarySeq' \in Nat
         /\ Unrecorded' = salarySeq' - Cardinality(Announced') - Cardinality(Recording')
<1>1. StaffInv' => Counted'
  BY CountsHold, PTL
<1> QED  BY <1>1 DEF Counted

\* The users that a call is about to give an employee.
Expecting == {calls[c].user : c \in InsertingEmployee}

LEMMA StrandedIs ==
  Stranded = {u \in DOMAIN users \ Expecting : ~ \E i \in DOMAIN employees : employees[i].user = u}
BY DEF Stranded, Expecting, InsertingEmployee, InFlight, At

LEMMA StrandedWillBe ==
  Stranded' = {u \in DOMAIN users' \ Expecting' :
                 ~ \E i \in DOMAIN employees' : employees'[i].user = u}
BY DEF Stranded, Expecting, InsertingEmployee, InFlight, At

\* A step of a handler leaves nothing half done.
LEMMA StepKeepsHalf ==
  ASSUME StaffingAssumption, StaffInv, StaffInv', NEW c \in Call, StaffStep(c)
  PROVE  Cardinality(Stranded') <= Cardinality(Stranded) /\ Unrecorded' = Unrecorded
<1>1. OnlyCall(c) /\ c \in DOMAIN calls /\ TablesGrow
  BY StepIsCounted, StepMoves, TablesKept
<1>2. Stranded' \subseteq Stranded
  <2> SUFFICES ASSUME NEW u \in Stranded' PROVE u \in Stranded
    OBVIOUS
  <2>1. /\ u \in DOMAIN users' /\ ~ \E i \in DOMAIN employees' : employees'[i].user = u
        /\ ~ \E d \in DOMAIN calls' : calls'[d].pc = "insertEmployee" /\ calls'[d].user = u
    BY DEF Stranded, InFlight, At
  <2>2. ~ \E i \in DOMAIN employees : employees[i].user = u
    BY <1>1, <2>1 DEF TablesGrow
  <2>3. ASSUME NEW d \in DOMAIN calls, calls[d].pc = "insertEmployee", calls[d].user = u
        PROVE  FALSE
    <3>1. CASE d # c
      BY <1>1, <2>1, <2>3, <3>1 DEF OnlyCall
    <3>2. CASE d = c
      <4>1. InsertEmployee(c)
        BY <2>3, <3>2
           DEF StaffStep, InsertUser, ReadPay, CheckEmail, WriteEmail, EndOld, WriteEmployee,
               EndCurrent, InsertSalary, InsertHistory, WriteSalary, DeleteSalary,
               WriteDeleted, FindManager, WriteManager, ClimbChain, DescendTree, At
      <4>2. PICK row : /\ employees' = Put(employees, NewRow(employees), row)
                       /\ row.user = calls[c].user
        BY <4>1 DEF InsertEmployee
      <4>3. NewRow(employees) \in DOMAIN employees' /\ employees'[NewRow(employees)] = row
        BY <4>2 DEF Put
      <4> QED  BY <2>1, <2>3, <3>2, <4>2, <4>3
    <3> QED  BY <3>1, <3>2
  <2>4. u \in DOMAIN users
    <3>1. CASE DOMAIN users' = DOMAIN users
      BY <2>1, <3>1
    <3>2. CASE DOMAIN users' # DOMAIN users
      <4>1. users' = Put(users, NewRow(users), calls[c].email) /\ InsertUser(c)
        <5>1. CASE ~(users' = Put(users, NewRow(users), calls[c].email) /\ InsertUser(c))
          <6>1. DOMAIN users' = DOMAIN users
            BY <5>1
               DEF StaffStep, InsertUser, InsertEmployee, ReadPay, CheckEmail, WriteEmail,
                   EndOld, WriteEmployee, EndCurrent, InsertSalary, InsertHistory,
                   WriteSalary, DeleteSalary, WriteDeleted, FindManager, WriteManager,
                   ClimbChain, DescendTree, staffTables
          <6> QED  BY <3>2, <6>1
        <5> QED  BY <5>1
      <4>2. Goto(c, [pc |-> "insertEmployee", user |-> NewRow(users), paid |-> calls[c].paid])
        BY <3>2, <4>1 DEF InsertUser
      <4>3. DOMAIN users' = DOMAIN users \cup {NewRow(users)}
        BY <4>1 DEF Put
      <4>4. /\ c \in DOMAIN calls' /\ calls'[c].pc = "insertEmployee"
            /\ calls'[c].user = NewRow(users)
        BY <4>2 DEF Goto, Put
      <4> QED  BY <2>1, <4>3, <4>4
    <3> QED  BY <3>1, <3>2
  <2> QED  BY <2>2, <2>3, <2>4 DEF Stranded, InFlight, At
<1>3. Cardinality(Stranded') <= Cardinality(Stranded)
  BY <1>2, CountsAreNumbers, FS_Subset
<1>4. /\ Recording \ {c} = Recording' \ {c}
      /\ c \in Recording' => InsertSalary(c)
      /\ c \in Recording => InsertHistory(c)
      /\ InsertHistory(c) => c \in Recording
      /\ InsertSalary(c) => c \in Recording' /\ c \notin Recording
  BY <1>1, CountsMove, StepIsCounted
<1>5. CASE InsertSalary(c)
  <2>1. salarySeq' = salarySeq + 1 /\ Announced' = Announced
    BY <1>5 DEF InsertSalary, Announced
  <2>2. Cardinality(Recording') = Cardinality(Recording) + 1
    BY <1>4, <1>5, CountsAreNumbers, OneMoves
  <2>3. Unrecorded' = salarySeq' - Cardinality(Announced') - Cardinality(Recording')
    BY CountsStayNumbers
  <2> QED  BY <1>3, <2>1, <2>2, <2>3, CountsAreNumbers
<1>6. CASE InsertHistory(c)
  <2>1. salarySeq' = salarySeq
    BY <1>6 DEF InsertHistory
  <2>2. c \in Recording /\ c \notin Recording'
    <3>1. ~InsertSalary(c)
      BY <1>6 DEF InsertSalary, InsertHistory, At
    <3> QED  BY <1>4, <1>6, <3>1
  <2>3. Cardinality(Recording') + 1 = Cardinality(Recording)
    BY <1>4, <2>2, CountsAreNumbers, OneMoves
  <2>4. Cardinality(Announced') = Cardinality(Announced) + 1
    <3>1. PICK row : /\ histories' = Put(histories, NewRow(histories), row)
                     /\ row.type = calls[c].type
      BY <1>6 DEF InsertHistory
    <3>2. calls[c].type # "PROMOTION"
      BY <1>6, RowOfTable, CallShape DEF InsertHistory, At, StaffInv, CallsInv
    <3>3. NewRow(histories) \notin DOMAIN histories
      BY NewRowIsNew DEF StaffInv, HistoriesInv
    <3>4. /\ DOMAIN histories' = DOMAIN histories \cup {NewRow(histories)}
          /\ histories'[NewRow(histories)] = row
          /\ \A h \in DOMAIN histories : histories'[h] = histories[h]
      BY <3>1, <3>3 DEF Put
    <3>5. Announced' = Announced \cup {NewRow(histories)} /\ NewRow(histories) \notin Announced
      BY <3>1, <3>2, <3>3, <3>4 DEF Announced
    <3> QED  BY <3>5, CountsAreNumbers, FS_AddElement
  <2>5. Unrecorded' = salarySeq' - Cardinality(Announced') - Cardinality(Recording')
    BY CountsStayNumbers
  <2>6. Unrecorded = salarySeq - Cardinality(Announced) - Cardinality(Recording)
    BY CountsAreNumbers
  <2>7. PICK q, m, n, k : /\ q = salarySeq /\ m = Cardinality(Announced)
                          /\ n = Cardinality(Recording) /\ k = Cardinality(Recording')
    OBVIOUS
  <2>8. q \in Nat /\ m \in Nat /\ n \in Nat /\ k \in Nat
    BY <2>7, CountsAreNumbers, CountsStayNumbers
  <2>9. k + 1 = n /\ Cardinality(Announced') = m + 1
    BY <2>3, <2>4, <2>7
  <2>10. q - m - n = q - (m + 1) - k
    BY <2>8, <2>9
  <2> QED  BY <1>3, <2>1, <2>5, <2>6, <2>7, <2>9, <2>10, Zenon
<1>7. CASE ~InsertSalary(c) /\ ~InsertHistory(c)
  <2>1. UNCHANGED <<salarySeq, histories>>
    BY <1>7, Zenon
       DEF StaffStep, InsertUser, InsertEmployee, ReadPay, CheckEmail, WriteEmail, EndOld,
           WriteEmployee, EndCurrent, WriteSalary, DeleteSalary, WriteDeleted, FindManager,
           WriteManager, ClimbChain, DescendTree, staffTables
  <2>2. Recording' = Recording
    BY <1>4, <1>7
  <2>3. Announced' = Announced
    BY <2>1 DEF Announced
  <2>4. Unrecorded' = salarySeq' - Cardinality(Announced') - Cardinality(Recording')
    BY CountsStayNumbers
  <2> QED  BY <1>3, <2>1, <2>2, <2>3, <2>4, CountsAreNumbers
<1> QED  BY <1>5, <1>6, <1>7

\* Nor does the start of one, a line somebody enters, or a midnight.
LEMMA RestKeepsHalf ==
  ASSUME StaffingAssumption, StaffInv, StaffInv',
         (\E c \in Call : NewStaffCall(c)) \/ AddHistory \/ Midnight \/ UNCHANGED staffVars
  PROVE  /\ Cardinality(Stranded') = Cardinality(Stranded) /\ Unrecorded' = Unrecorded
         /\ mishaps' = mishaps
<1>1. /\ UNCHANGED <<users, employees, salarySeq, mishaps>>
      /\ InsertingEmployee' = InsertingEmployee /\ Recording' = Recording
      /\ \A c \in InsertingEmployee : calls'[c] = calls[c]
      /\ AddHistory \/ UNCHANGED histories
  <2>1. ASSUME NEW c \in Call, NewStaffCall(c)
        PROVE  /\ UNCHANGED <<users, employees, salarySeq, mishaps, histories>>
               /\ InsertingEmployee' = InsertingEmployee /\ Recording' = Recording
               /\ \A d \in InsertingEmployee : calls'[d] = calls[d]
    <3>1. PICK rec \in StaffCall :
            Goto(c, rec) /\ rec.pc \notin {"insertEmployee", "insertHistory"}
      BY <2>1, NewCallMoves
    <3>2. Free(c) /\ UNCHANGED <<mishaps, staffTables>>
      BY <2>1, NewCallMoves
    <3>3. OnlyCall(c) /\ calls'[c] = rec /\ c \notin DOMAIN calls
      BY <3>1, <3>2, CallMoves DEF Free
    <3>4. InsertingEmployee' = InsertingEmployee /\ Recording' = Recording
      BY <3>1, <3>3, CountsMove DEF InsertingEmployee, Recording
    <3>5. \A d \in InsertingEmployee : calls'[d] = calls[d]
      BY <3>3 DEF OnlyCall, InsertingEmployee
    <3> QED  BY <3>2, <3>4, <3>5 DEF staffTables
  <2>2. CASE AddHistory \/ Midnight \/ UNCHANGED staffVars
    <3>1. UNCHANGED <<users, employees, salarySeq, mishaps, calls>>
          /\ (AddHistory \/ UNCHANGED histories)
      BY <2>2 DEF AddHistory, Midnight, staffVars, staffTables, Quiet
    <3> QED  BY <3>1 DEF InsertingEmployee, Recording
  <2> QED  BY <2>1, <2>2
<1>2. Expecting' = Expecting
  BY <1>1 DEF Expecting
<1>3. Stranded' = Stranded
  BY <1>1, <1>2, StrandedIs, StrandedWillBe
<1>4. Announced' = Announced
  <2>1. CASE UNCHANGED histories
    BY <2>1 DEF Announced
  <2>2. CASE AddHistory
    <3>1. PICK row : /\ histories' = Put(histories, NewRow(histories), row)
                     /\ row.type = "PROMOTION"
      BY <2>2 DEF AddHistory
    <3>3. NewRow(histories) \notin DOMAIN histories
      BY NewRowIsNew DEF StaffInv, HistoriesInv
    <3>4. /\ DOMAIN histories' = DOMAIN histories \cup {NewRow(histories)}
          /\ histories'[NewRow(histories)] = row
          /\ \A h \in DOMAIN histories : histories'[h] = histories[h]
      BY <3>1, <3>3 DEF Put
    <3> QED  BY <3>1, <3>4 DEF Announced
  <2> QED  BY <1>1, <2>1, <2>2
<1>5. Unrecorded' = salarySeq' - Cardinality(Announced') - Cardinality(Recording')
  BY CountsStayNumbers
<1>6. Unrecorded = salarySeq - Cardinality(Announced) - Cardinality(Recording)
  BY CountsAreNumbers
<1> QED  BY <1>1, <1>3, <1>4, <1>5, <1>6, Zenon

\* A failure leaves one thing half done at most, a crash one for every call.
LEMMA MishapLeaves ==
  ASSUME StaffingAssumption, StaffInv, StaffInv', StaffCrash \/ \E c \in Call : StaffFail(c)
  PROVE  /\ Cardinality(Stranded') + Unrecorded'
              <= Cardinality(Stranded) + Unrecorded + Cardinality(Call)
         /\ mishaps' = mishaps + 1
<1>1. mishaps' = mishaps + 1 /\ UNCHANGED staffTables
  BY DEF StaffCrash, Mishap, StaffFail
<1>2. /\ DOMAIN calls' \subseteq DOMAIN calls
      /\ \A c \in DOMAIN calls' : calls'[c] = calls[c]
      /\ DOMAIN calls \subseteq Call
  <2>1. DOMAIN calls \subseteq Call
    BY DEF StaffInv, CallsInv, IsTable
  <2>2. CASE StaffCrash
    BY <2>1, <2>2 DEF StaffCrash, Mishap
  <2>3. ASSUME NEW c, StaffFail(c)
        PROVE  /\ DOMAIN calls' \subseteq DOMAIN calls
               /\ \A d \in DOMAIN calls' : calls'[d] = calls[d]
    BY <2>3, CallMoves DEF StaffFail, Mishap, OnlyCall
  <2> QED  BY <2>1, <2>2, <2>3
<1>3. InsertingEmployee' \subseteq InsertingEmployee /\ Recording' \subseteq Recording
  BY <1>2 DEF InsertingEmployee, Recording
<1> DEFINE gone == InsertingEmployee \ InsertingEmployee'
           lost == {calls[c].user : c \in gone}
           left == Recording \ Recording'
<1>4. Stranded' \subseteq Stranded \cup lost
  <2>1. Expecting \subseteq Expecting' \cup lost
    BY <1>2, <1>3 DEF Expecting, InsertingEmployee
  <2> QED  BY <1>1, <2>1, StrandedIs, StrandedWillBe DEF staffTables
<1>5. /\ IsFiniteSet(gone) /\ IsFiniteSet(left) /\ gone \cap left = {}
      /\ gone \cup left \subseteq Call /\ IsFiniteSet(Call)
  <2>1. gone \subseteq InsertingEmployee /\ left \subseteq Recording
    OBVIOUS
  <2>2. InsertingEmployee \cap Recording = {} /\ InsertingEmployee \cup Recording \subseteq Call
    BY <1>2 DEF InsertingEmployee, Recording
  <2> QED  BY <2>1, <2>2, StaffLimits, CountsAreNumbers, FS_Subset DEF StaffingAssumption
<1>6. IsFiniteSet(lost) /\ Cardinality(lost) <= Cardinality(gone) /\ Cardinality(lost) \in Nat
  <2> DEFINE f == [c \in gone |-> calls[c].user]
  <2>1. f \in [gone -> lost]
    OBVIOUS
  <2>2. \A u \in lost : \E c \in gone : f[c] = u
    OBVIOUS
  <2>3. f \in Surjection(gone, lost)
    BY <2>1, <2>2 DEF Surjection
  <2> HIDE DEF f, gone, lost
  <2>4. IsFiniteSet(lost) /\ Cardinality(lost) <= Cardinality(gone)
    BY <1>5, <2>3, FS_Surjection
  <2> QED  BY <2>4, FS_CardinalityType
<1>7. Cardinality(Recording) = Cardinality(Recording') + Cardinality(left)
      /\ Cardinality(left) \in Nat /\ Cardinality(Recording') \in Nat
  <2>1. left = Recording \ Recording' /\ Recording \cap Recording' = Recording'
    BY <1>3
  <2>2. Cardinality(Recording \ Recording') = Cardinality(Recording) - Cardinality(Recording \cap Recording')
    BY CountsAreNumbers, FS_Difference
  <2>3. Cardinality(left) \in Nat /\ Cardinality(Recording') \in Nat
    BY <1>5, CountsStayNumbers, FS_CardinalityType
  <2>4. Cardinality(left) = Cardinality(Recording) - Cardinality(Recording')
    BY <2>1, <2>2, Zenon
  <2>5. Cardinality(Recording) \in Nat
    BY CountsAreNumbers
  <2> HIDE DEF left
  <2> QED  BY <2>3, <2>4, <2>5
<1> HIDE DEF gone, lost, left
<1>8. Cardinality(gone) + Cardinality(left) <= Cardinality(Call) /\ Cardinality(gone) \in Nat
  <2>1. Cardinality(gone \cup left) = Cardinality(gone) + Cardinality(left) - Cardinality({})
    BY <1>5, FS_Union
  <2>2. Cardinality(gone \cup left) <= Cardinality(Call)
    BY <1>5, FS_Subset
  <2>3. Cardinality({}) = 0 /\ Cardinality(gone) \in Nat /\ Cardinality(left) \in Nat
        /\ Cardinality(Call) \in Nat
    BY <1>5, FS_EmptySet, FS_CardinalityType
  <2> QED  BY <2>1, <2>2, <2>3
<1>9. Cardinality(Stranded') <= Cardinality(Stranded) + Cardinality(lost)
  BY <1>4, <1>6, CountsAreNumbers, SomeMore
<1>10. Unrecorded' = salarySeq - Cardinality(Announced) - Cardinality(Recording')
  <2>1. Unrecorded' = salarySeq' - Cardinality(Announced') - Cardinality(Recording')
    BY CountsStayNumbers
  <2>2. salarySeq' = salarySeq /\ Announced' = Announced
    BY <1>1 DEF staffTables, Announced
  <2> QED  BY <2>1, <2>2, Zenon
<1>11. Unrecorded = salarySeq - Cardinality(Announced) - Cardinality(Recording)
  BY CountsAreNumbers
<1>12. Cardinality(Stranded') \in Nat
  BY CountsStayNumbers
<1> QED  BY <1>1, <1>6, <1>7, <1>8, <1>9, <1>10, <1>11, <1>12, CountsAreNumbers

LEMMA HalfStart ==
  ASSUME StaffingAssumption, StaffInit
  PROVE  HalfHiredAreCounted
<1>1. StaffInv
  BY StaffStart
<1>2. Stranded = {}
  <2>1. DOMAIN users = DOMAIN employees /\ \A i \in DOMAIN employees : employees[i].user = i
    BY DEF StaffInit
  <2> QED  BY <2>1 DEF Stranded
<1>3. Announced = {1} /\ Recording = {} /\ salarySeq = 1 /\ mishaps = 0
  <2>1. PICK row : row.type = "INITIAL" /\ histories = Put(<< >>, 1, row)
    BY DEF StaffInit
  <2>2. DOMAIN histories = {1} /\ histories[1] = row
    BY <2>1 DEF Put
  <2> QED  BY <2>1, <2>2 DEF StaffInit, Announced, Recording
<1>4. Cardinality(Stranded) = 0 /\ Cardinality(Announced) = 1 /\ Cardinality(Recording) = 0
  BY <1>2, <1>3, FS_EmptySet, FS_Singleton
<1>5. Unrecorded = 0
  BY <1>1, <1>3, <1>4, CountsAreNumbers
<1>6. mishaps * Cardinality(Call) = 0
  BY <1>1, <1>3, CountsAreNumbers
<1> QED  BY <1>4, <1>5, <1>6 DEF HalfHiredAreCounted

LEMMA HalfKept ==
  ASSUME StaffingAssumption, StaffInv, HalfHiredAreCounted, [StaffNext]_staffVars
  PROVE  HalfHiredAreCounted'
<1>0. StaffInv'
  BY StaffKept
<1>1. /\ Cardinality(Stranded) \in Nat /\ Cardinality(Stranded') \in Nat
      /\ Unrecorded \in Int /\ Unrecorded' \in Int
      /\ mishaps \in Nat /\ Cardinality(Call) \in Nat
  <2>1. Cardinality(Stranded') \in Nat
    BY <1>0, CountsStayNumbers
  <2>2. Unrecorded' \in Int
    <3>1. /\ Unrecorded' = salarySeq' - Cardinality(Announced') - Cardinality(Recording')
          /\ salarySeq' \in Nat /\ Cardinality(Announced') \in Nat
          /\ Cardinality(Recording') \in Nat
      BY <1>0, CountsStayNumbers
    <3> QED  BY <3>1
  <2> QED  BY <2>1, <2>2, CountsAreNumbers
<1>2. PICK room : room = mishaps * Cardinality(Call)
  OBVIOUS
<1>3. room \in Nat /\ (mishaps + 1) * Cardinality(Call) = room + Cardinality(Call)
  BY <1>1, <1>2, OneUpsetMore
<1>4. Cardinality(Stranded) + Unrecorded <= room
  BY <1>2 DEF HalfHiredAreCounted
<1>5. ASSUME NEW c \in Call, StaffStep(c)
      PROVE  HalfHiredAreCounted'
  <2>1. Cardinality(Stranded') <= Cardinality(Stranded) /\ Unrecorded' = Unrecorded
    BY <1>0, <1>5, StepKeepsHalf
  <2>2. mishaps' = mishaps
    BY <1>5, StepMoves
  <2>3. Cardinality(Stranded') + Unrecorded' <= room
    BY <1>1, <1>3, <1>4, <2>1
  <2> QED  BY <1>2, <2>2, <2>3 DEF HalfHiredAreCounted
<1>6. CASE (\E c \in Call : NewStaffCall(c)) \/ AddHistory \/ Midnight \/ UNCHANGED staffVars
  <2>1. /\ Cardinality(Stranded') = Cardinality(Stranded) /\ Unrecorded' = Unrecorded
        /\ mishaps' = mishaps
    BY <1>0, <1>6, RestKeepsHalf
  <2> QED  BY <2>1, Zenon DEF HalfHiredAreCounted
<1>7. CASE StaffCrash \/ \E c \in Call : StaffFail(c)
  <2>1. /\ Cardinality(Stranded') + Unrecorded'
             <= Cardinality(Stranded) + Unrecorded + Cardinality(Call)
        /\ mishaps' = mishaps + 1
    BY <1>0, <1>7, MishapLeaves
  <2>2. Cardinality(Stranded') + Unrecorded' <= room + Cardinality(Call)
    BY <1>1, <1>3, <1>4, <2>1
  <2>3. Cardinality(Stranded') + Unrecorded' <= mishaps' * Cardinality(Call)
    BY <1>3, <2>1, <2>2, Zenon
  <2> QED  BY <2>3 DEF HalfHiredAreCounted
<1> QED  BY <1>5, <1>6, <1>7 DEF StaffNext

\* Whatever fails: the users without an employee and the salaries without a line
\* in the history are at most as many as a mishap can leave each time.
THEOREM HalfHired == StaffSpec => []HalfHiredAreCounted
<1>0. StaffingAssumption
  BY StaffingConstants
<1>1. StaffInit => StaffInv /\ HalfHiredAreCounted
  BY <1>0, StaffStart, HalfStart
<1>2. StaffInv /\ HalfHiredAreCounted /\ [StaffNext]_staffVars
        => StaffInv' /\ HalfHiredAreCounted'
  BY <1>0, StaffKept, HalfKept
<1> QED  BY <1>1, <1>2, PTL DEF StaffSpec

-----------------------------------------------------------------------------
(* A call that is alone.                                                   *)

LEMMA InFlightMoves ==
  ASSUME StaffingAssumption, StaffInv, NEW c \in Call
  PROVE  /\ NewStaffCall(c) => c \notin InFlight /\ InFlight' = InFlight \cup {c}
         /\ StaffStep(c) =>
              /\ c \in InFlight
              /\ InFlight' = InFlight \/ InFlight' = InFlight \ {c}
         /\ StaffFail(c) => c \in InFlight /\ InFlight' = InFlight \ {c}
<1>1. ASSUME NewStaffCall(c)
      PROVE  c \notin InFlight /\ InFlight' = InFlight \cup {c}
  BY <1>1, NewCallMoves, CallMoves DEF Free, InFlight
<1>2. ASSUME StaffStep(c)
      PROVE  /\ c \in InFlight
             /\ InFlight' = InFlight \/ InFlight' = InFlight \ {c}
  BY <1>2, StepMoves, CallMoves DEF InFlight, Follows
<1>3. ASSUME StaffFail(c)
      PROVE  c \in InFlight /\ InFlight' = InFlight \ {c}
  BY <1>3, CallMoves DEF InFlight, StaffFail, Mishap
<1> QED  BY <1>1, <1>2, <1>3

\* What the salary of an employee is, as long as nobody writes it.
LEMMA SalariesSame ==
  ASSUME UNCHANGED <<salaries, today>>, NEW emp
  PROVE  Current(emp)' = Current(emp) /\ OpenEnded(emp)' = OpenEnded(emp)
BY DEF Current, OpenEnded

\* A walk down goes on.
LEMMA TreeGoesOn ==
  ASSUME NEW read, NEW pending, NEW i \in pending, pending \subseteq DOMAIN employees,
         NEW next, next = (pending \ {i}) \cup Subordinates(i),
         TreeHolds(read, pending)
  PROVE  TreeHolds(read \cup (pending \ next), next)
<1> DEFINE W == read \cup pending
           N == read \cup (pending \ next)
<1>1. /\ N \cup next = W \cup Subordinates(i) /\ i \in W
      /\ N = IF i \in Subordinates(i) THEN read ELSE read \cup {i}
  OBVIOUS
<1>2. ManagersIn(Subordinates(i), {i})
  BY DEF ManagersIn, Subordinates, Present
<1>3. ASSUME ManagersIn(W, W \cup {i})
      PROVE  TreeHolds(N, next)
  <2>1. ManagersIn(W \cup Subordinates(i), W \cup Subordinates(i))
    BY <1>1, <1>2, <1>3 DEF ManagersIn
  <2> QED  BY <1>1, <2>1 DEF TreeHolds
<1>4. CASE ManagersIn(W, W)
  BY <1>3, <1>4 DEF ManagersIn
<1>5. ASSUME read \cap pending = {}, NEW root \in W, root \in DOMAIN employees,
             ManagersIn(W \ {root}, read)
      PROVE  TreeHolds(N, next)
  <2>1. CASE employees[root].manager = i
    <3>1. ManagersIn(W, W \cup {i})
      BY <1>5, <2>1 DEF ManagersIn
    <3> QED  BY <1>3, <3>1
  <2>2. CASE employees[root].manager # i
    <3>1. \A j \in Subordinates(i) : j \in DOMAIN employees /\ employees[j].manager = i
      BY DEF Subordinates, Present
    <3>2. i \notin read
      BY <1>5
    <3>3. Subordinates(i) \cap W = {}
      <4>1. ASSUME NEW j \in Subordinates(i), j \in W
            PROVE  FALSE
        <5>1. j # root
          BY <2>2, <3>1
        <5>2. employees[j].manager \in read
          BY <1>5, <4>1, <5>1 DEF ManagersIn
        <5> QED  BY <3>1, <3>2, <5>2
      <4> QED  BY <4>1
    <3>4. N = read \cup {i} /\ N \cap next = {}
      BY <1>1, <1>5, <3>3
    <3>5. ManagersIn((N \cup next) \ {root}, N)
      BY <1>1, <1>5, <3>1, <3>4 DEF ManagersIn
    <3> QED  BY <1>1, <1>5, <3>4, <3>5 DEF TreeHolds
  <2> QED  BY <2>1, <2>2
<1> QED  BY <1>4, <1>5 DEF TreeHolds

\* What the audit keeps of a walk.
LEMMA SeenMoves ==
  ASSUME StaffAuditNext, DOMAIN seen = Walks
  PROVE  /\ DOMAIN seen' = Walks'
         /\ \A c \in Walks' :
              /\ c \notin Walks => seen'[c] = {}
              /\ c \in Walks =>
                   \/ calls'[c] = calls[c] /\ seen'[c] = seen[c]
                   \/ calls'[c] # calls[c] /\ seen'[c] = seen[c] \cup ReadBy(c)
BY DEF StaffAuditNext

\* A handler starts with what it has just read.
LEMMA NewCallHolds ==
  ASSUME StaffingAssumption, StaffInv, DOMAIN seen = Walks, StaffAuditNext, NEW c \in Call, NewStaffCall(c)
  PROVE  Holds(c)'
<1>1. Free(c) /\ UNCHANGED <<today, mishaps, staffTables>>
  BY NewCallMoves
<1>2. PICK rec \in StaffCall :
        /\ Goto(c, rec) /\ Backed(rec)
        /\ rec.pc \notin {"checkEmail", "writeEmail", "endOld"}
        /\ rec.pc = "insertSalary" => rec.edit = << >> /\ Current(rec.row.emp) = {}
        /\ rec.pc = "tree" => \E i \in DOMAIN employees : rec.pending = {i}
  BY NewCallMoves
<1>3. c \in DOMAIN calls' /\ calls'[c] = rec /\ c \notin DOMAIN calls
  BY <1>1, <1>2, CallMoves DEF Free
<1>4. rec.pc \in {"chain", "tree"} => seen'[c] = {}
  <2>1. c \notin Walks /\ (rec.pc \in {"chain", "tree"} => c \in Walks')
    BY <1>3 DEF Walks, InFlight
  <2> QED  BY <2>1, SeenMoves
<1>5. rec.pc = "insertSalary" => rec.edit = << >> /\ Current(rec.row.emp)' = {}
  BY <1>1, <1>2, SalariesSame DEF staffTables
<1>6. rec.pc = "chain" => ManagersIn({}, {} \cup {rec.at})'
  BY DEF ManagersIn
<1>7. rec.pc = "tree" => TreeHolds({}, rec.pending)'
  <2>1. ASSUME NEW i \in DOMAIN employees
        PROVE  TreeHolds({}, {i})'
    BY <1>1 DEF staffTables, TreeHolds, ManagersIn
  <2> QED  BY <1>2, <2>1
<1> QED  BY <1>2, <1>3, <1>4, <1>5, <1>6, <1>7 DEF Holds, At

\* A set with one member at most.
LEMMA AtMostOne ==
  ASSUME NEW S, IsFiniteSet(S), Cardinality(S) <= 1, NEW x \in S
  PROVE  S = {x}
<1>1. SUFFICES ASSUME NEW y \in S, y # x PROVE FALSE
  OBVIOUS
<1>2. x \in S \ {y} /\ S \ {y} \subseteq S \ {y}
  BY <1>1
<1>3. /\ IsFiniteSet(S \ {y}) /\ Cardinality(S \ {y}) \in Nat /\ Cardinality(S) \in Nat
      /\ Cardinality(S \ {y}) + 1 <= Cardinality(S)
  BY <1>1, <1>2, OneLess
<1>4. Cardinality(S \ {y}) = 0
  BY <1>3
<1>5. S \ {y} = {}
  BY <1>3, <1>4, FS_EmptySet
<1> QED  BY <1>2, <1>5

LEMMA CurrentIsFinite ==
  ASSUME StaffingAssumption, StaffInv, NEW emp
  PROVE  /\ IsFiniteSet(Current(emp)) /\ Cardinality(Current(emp)) \in Nat
         /\ OpenEnded(emp) \subseteq Current(emp) /\ Current(emp) \subseteq DOMAIN salaries
         /\ None \notin DOMAIN salaries
<1>1. Current(emp) \subseteq DOMAIN salaries /\ DOMAIN salaries \subseteq 1 .. salarySeq
      /\ salarySeq \in Nat
  BY DEF Current, StaffInv, SalariesInv, IsTable
<1>2. IsFiniteSet(1 .. salarySeq)
  BY <1>1, IdsAreFinite
<1> QED  BY <1>1, <1>2, FS_Subset, FS_CardinalityType DEF OpenEnded, None

\* An update of an employee goes on with the salary it has read.
LEMMA UpdateHolds ==
  ASSUME StaffingAssumption, StaffInv, TangledInv, tangled \subseteq tangled',
         NEW c \in Call, ReadPay(c) \/ CheckEmail(c) \/ WriteEmail(c), Holds(c), ~Return(c)
  PROVE  Holds(c)'
<1>1. PICK rec, old :
         /\ Follows(c, rec) /\ rec.edit = calls[c].edit
         /\ rec.pc \in {"checkEmail", "writeEmail", "endOld"} =>
              rec.old = old /\ rec.id = calls[c].id
         /\ rec.pc = "insertSalary" =>
              old = None /\ rec.row.emp = calls[c].id /\ rec.edit # << >>
         /\ rec.pc \in {"checkEmail", "writeEmail", "endOld", "insertSalary",
                        "writeEmployee"}
         /\ IF ReadPay(c)
              THEN OpenEnded(calls[c].id) # {} => old \in OpenEnded(calls[c].id)
              ELSE old = calls[c].old
  BY UpdateMoves, Zenon
<1>2. /\ c \in DOMAIN calls /\ Backed(calls[c]) /\ UNCHANGED <<salaries, today>>
      /\ calls[c].pc \in {"readPay", "checkEmail", "writeEmail"}
      /\ ReadPay(c) \/ calls[c].pc \in {"checkEmail", "writeEmail"}
  BY DEF ReadPay, CheckEmail, WriteEmail, At, StaffInv, CallsInv, Quiet, staffTables
<1>3. calls[c].id \notin tangled => OpenEnded(calls[c].id) \subseteq {old}
  <2>1. CASE ReadPay(c)
    <3>1. ASSUME calls[c].id \notin tangled, NEW s \in OpenEnded(calls[c].id)
          PROVE  s = old
      <4>1. calls[c].id \in DOMAIN employees
        BY <1>2 DEF Backed, Subjects
      <4>2. Cardinality(Current(calls[c].id)) <= 1
        BY <3>1, <4>1 DEF TangledInv
      <4>3. old \in OpenEnded(calls[c].id)
        BY <1>1, <2>1, <3>1
      <4>4. s \in Current(calls[c].id) /\ old \in Current(calls[c].id)
        BY <3>1, <4>3, CurrentIsFinite
      <4>5. Current(calls[c].id) = {old}
        BY <4>2, <4>4, CurrentIsFinite, AtMostOne
      <4> QED  BY <4>4, <4>5
    <3> QED  BY <3>1
  <2>2. CASE ~ReadPay(c)
    BY <1>1, <1>2, <2>2 DEF Holds, At
  <2> QED  BY <2>1, <2>2
<1>4. old = None => (calls[c].id \notin tangled => OpenEnded(calls[c].id) = {})
  BY <1>3, CurrentIsFinite
<1>5. PICK id : id = calls[c].id
  OBVIOUS
<1>6. OpenEnded(id)' = OpenEnded(id)
  BY <1>2, SalariesSame
<1>7. /\ id \notin tangled' => OpenEnded(id)' \subseteq {old}
      /\ old = None => (id \notin tangled' => OpenEnded(id)' = {})
  BY <1>3, <1>4, <1>5, <1>6
<1>8. c \in DOMAIN calls' /\ calls'[c] = rec
  BY <1>1, CallMoves DEF Follows
<1> QED  BY <1>1, <1>5, <1>7, <1>8 DEF Holds, At

\* The old salary has ended when the next one is inserted.
LEMMA PayHolds ==
  ASSUME StaffingAssumption, StaffInv, tangled \subseteq tangled', NEW c \in Call,
         EndOld(c) \/ EndCurrent(c) \/ InsertSalary(c) \/ InsertHistory(c), Holds(c), ~Return(c)
  PROVE  Holds(c)'
<1>1. PICK rec :
        /\ Follows(c, rec) /\ rec.pc \in {"insertSalary", "insertHistory", "writeEmployee"}
        /\ rec.pc = "insertSalary" =>
             \/ EndOld(c) /\ rec.row.emp = calls[c].id
                  /\ rec.edit = calls[c].edit /\ rec.edit # << >>
             \/ EndCurrent(c) /\ rec.row.emp = calls[c].row.emp /\ rec.edit = << >>
  BY PayMoves, Zenon
<1>2. c \in DOMAIN calls' /\ calls'[c] = rec /\ MaxDay \in Nat /\ today \in 0 .. MaxDay
  BY <1>1, CallMoves, StaffLimits DEF Follows
<1>3. CASE EndOld(c) /\ rec.row.emp = calls[c].id /\ rec.edit # << >>
  <2>1. calls[c].id \notin tangled => OpenEnded(calls[c].id) \subseteq {calls[c].old}
    BY <1>3 DEF Holds, EndOld
  <2>2. PICK id, old : id = calls[c].id /\ old = calls[c].old
    OBVIOUS
  <2>3. /\ today' = today /\ DOMAIN salaries' = DOMAIN salaries
        /\ \A s \in DOMAIN salaries : s # old => salaries'[s] = salaries[s]
        /\ old \in DOMAIN salaries => ~salaries'[old].active
    <3>1. salaries \in [DOMAIN salaries -> Salary]
      BY DEF StaffInv, SalariesInv, IsTable
    <3>2. CASE old \notin DOMAIN salaries
      BY <1>3, <2>2, <3>2 DEF EndOld, Quiet
    <3>3. CASE old \in DOMAIN salaries
      <4>1. salaries[old] \in Salary
        BY <3>1, <3>3
      <4>2. PICK row : row = [salaries[old] EXCEPT !.until = today, !.active = FALSE]
        OBVIOUS
      <4>3. ~row.active
        BY <4>1, <4>2 DEF Salary
      <4>4. salaries' = [salaries EXCEPT ![old] = row] /\ today' = today
        BY <1>3, <2>2, <3>3, <4>2 DEF EndOld, Quiet
      <4> QED  BY <3>3, <4>3, <4>4
    <3> QED  BY <3>2, <3>3
  <2>4. OpenEnded(id)' \subseteq OpenEnded(id) \ {old}
    BY <2>3 DEF OpenEnded, Current
  <2>5. id \notin tangled' => OpenEnded(id)' = {}
    BY <2>1, <2>2, <2>4
  <2> QED  BY <1>1, <1>2, <1>3, <2>2, <2>5 DEF Holds, At
<1>4. CASE EndCurrent(c) /\ rec.row.emp = calls[c].row.emp /\ rec.edit = << >>
  <2>1. PICK id : id = calls[c].row.emp
    OBVIOUS
  <2>2. /\ today' = today /\ DOMAIN salaries' = DOMAIN salaries
        /\ \A s \in Current(id) : ~salaries'[s].active
        /\ \A s \in DOMAIN salaries \ Current(id) : salaries'[s] = salaries[s]
    <3>1. \A s \in DOMAIN salaries : salaries[s] \in Salary
      BY StaffLimits
    <3>2. PICK until : until = calls[c].effective - 1
      OBVIOUS
    <3>3. salaries' = [s \in DOMAIN salaries |->
            IF s \in Current(id)
              THEN [salaries[s] EXCEPT !.until = until, !.active = FALSE]
              ELSE salaries[s]]
      BY <1>4, <2>1, <3>2 DEF EndCurrent
    <3>4. \A s \in Current(id) : s \in DOMAIN salaries
      BY DEF Current
    <3>5. today' = today
      BY <1>4 DEF EndCurrent, Quiet
    <3> QED  BY <3>1, <3>3, <3>4, <3>5 DEF Salary
  <2>3. Current(id)' = {}
    BY <2>2 DEF Current
  <2> QED  BY <1>1, <1>2, <1>4, <2>1, <2>3 DEF Holds, At
<1>5. CASE rec.pc # "insertSalary"
  BY <1>1, <1>2, <1>5 DEF Holds, At
<1> QED  BY <1>1, <1>3, <1>4, <1>5

\* An employee who has just been inserted has no salary yet.
LEMMA HireHolds ==
  ASSUME StaffingAssumption, StaffInv, NEW c \in Call, InsertUser(c) \/ InsertEmployee(c),
         ~Return(c)
  PROVE  Holds(c)'
<1>1. PICK rec : Follows(c, rec) /\ (rec.pc = "insertSalary" =>
              InsertEmployee(c) /\ rec.edit = << >> /\ rec.row.emp = NewRow(employees))
  BY HireMoves, Zenon
<1>2. c \in DOMAIN calls' /\ calls'[c] = rec
  BY <1>1, CallMoves DEF Follows
<1>3. rec.pc \in {"insertEmployee", "insertSalary"}
  <2>1. CASE InsertUser(c)
    <3>1. rec.pc = "insertEmployee"
      BY <1>2, <2>1 DEF InsertUser, Goto, Put
    <3> QED  BY <3>1
  <2>2. CASE InsertEmployee(c)
    <3>1. rec.pc = "insertSalary"
      BY <1>2, <2>2 DEF InsertEmployee, Goto, Put
    <3> QED  BY <3>1
  <2> QED  BY <2>1, <2>2
<1>4. ASSUME rec.pc = "insertSalary"
      PROVE  Current(rec.row.emp)' = {}
  <2>1. PICK id : id = NewRow(employees)
    OBVIOUS
  <2>2. id \notin DOMAIN employees
    BY <2>1, NewRowIsNew DEF StaffInv, EmployeesInv
  <2>3. \A s \in DOMAIN salaries : salaries[s].emp # id
    BY <2>2 DEF StaffInv, SalariesInv
  <2>4. salaries' = salaries
    BY <1>1, <1>4 DEF InsertEmployee
  <2>5. Current(id)' = {}
    BY <2>3, <2>4 DEF Current
  <2> QED  BY <1>1, <1>4, <2>1, <2>5
<1> QED  BY <1>1, <1>2, <1>3, <1>4 DEF Holds, At

\* The walks through the organisation.
LEMMA WalkHolds ==
  ASSUME StaffingAssumption, StaffInv, DOMAIN seen = Walks, StaffAuditNext, NEW c \in Call,
         FindManager(c) \/ ClimbChain(c) \/ DescendTree(c), Holds(c), ~Return(c)
  PROVE  Holds(c)'
<1>1. PICK rec :
        /\ Follows(c, rec) /\ rec.pc \in {"writeManager", "chain", "tree"}
        /\ rec.pc = "chain" =>
             ClimbChain(c) /\ rec.at = employees[calls[c].at].manager
        /\ rec.pc = "tree" =>
             /\ DescendTree(c)
             /\ \E i \in calls[c].pending :
                  rec.pending = (calls[c].pending \ {i}) \cup Subordinates(i)
  BY OrganisationMoves, Zenon
<1>2. c \in DOMAIN calls' /\ calls'[c] = rec /\ rec \in StaffCall
  BY <1>1, CallMoves DEF Follows
<1>0. c \in DOMAIN calls /\ calls[c] \in StaffCall /\ Backed(calls[c]) /\ employees' = employees
  BY RowOfTable DEF FindManager, ClimbChain, DescendTree, At, StaffInv, CallsInv, staffTables
<1>3. CASE rec.pc = "chain"
  <2>1. /\ calls[c].pc = "chain" /\ calls[c].at \in DOMAIN employees
        /\ calls[c] = [pc |-> "chain", at |-> calls[c].at] /\ rec = [pc |-> "chain", at |-> rec.at]
    BY <1>0, <1>1, <1>2, <1>3, CallShape DEF ClimbChain, At, Backed, Subjects
  <2>2. c \in Walks /\ c \in Walks'
    BY <1>0, <1>2, <1>3, <2>1 DEF Walks, InFlight
  <2>3. ReadBy(c) = {calls[c].at}
    BY <1>0, <2>1 DEF ReadBy, At
  <2>4. ManagersIn(seen[c], seen[c] \cup {calls[c].at})
    BY <1>0, <2>1 DEF Holds, At
  <2>5. PICK read : read = seen'[c]
    OBVIOUS
  <2>6. ManagersIn(read, read \cup {rec.at})
    <3>1. CASE rec = calls[c] /\ read = seen[c]
      BY <2>4, <3>1
    <3>2. CASE read = seen[c] \cup {calls[c].at}
      BY <1>1, <1>3, <2>1, <2>4, <3>2 DEF ManagersIn
    <3> QED  BY <1>2, <2>2, <2>3, <2>5, <3>1, <3>2, SeenMoves
  <2>7. ManagersIn(read, read \cup {rec.at})'
    BY <1>0, <2>6 DEF ManagersIn
  <2> QED  BY <1>2, <1>3, <2>5, <2>7 DEF Holds, At
<1>4. CASE rec.pc = "tree"
  <2>1. /\ calls[c].pc = "tree" /\ calls[c].pending \subseteq DOMAIN employees
    BY <1>0, <1>1, <1>4 DEF DescendTree, At, Backed, Subjects
  <2>2. c \in Walks /\ c \in Walks'
    BY <1>0, <1>2, <1>4, <2>1 DEF Walks, InFlight
  <2>3. ReadBy(c) = calls[c].pending \ rec.pending
    BY <1>0, <1>2, <2>1 DEF ReadBy, At, Free
  <2>4. TreeHolds(seen[c], calls[c].pending)
    BY <1>0, <2>1 DEF Holds, At
  <2>5. PICK read : read = seen'[c]
    OBVIOUS
  <2>6. TreeHolds(read, rec.pending)
    <3>1. CASE rec = calls[c] /\ read = seen[c]
      BY <2>4, <3>1
    <3>2. CASE read = seen[c] \cup (calls[c].pending \ rec.pending)
      <4>1. PICK i \in calls[c].pending :
              rec.pending = (calls[c].pending \ {i}) \cup Subordinates(i)
        BY <1>1, <1>4
      <4> QED  BY <2>1, <2>4, <3>2, <4>1, TreeGoesOn
    <3> QED  BY <1>2, <2>2, <2>3, <2>5, <3>1, <3>2, SeenMoves
  <2>7. TreeHolds(read, rec.pending)'
    BY <1>0, <2>6 DEF TreeHolds, ManagersIn
  <2> QED  BY <1>2, <1>4, <2>5, <2>7 DEF Holds, At
<1>5. CASE rec.pc = "writeManager"
  BY <1>2, <1>5 DEF Holds, At
<1> QED  BY <1>1, <1>3, <1>4, <1>5

LEMMA StepHolds ==
  ASSUME StaffingAssumption, StaffInv, TangledInv, DOMAIN seen = Walks, StaffAuditNext,
         NEW c \in Call, StaffStep(c), Holds(c), c \in InFlight'
  PROVE  Holds(c)'
<1>1. ~Return(c) /\ tangled \subseteq tangled'
  BY CallMoves DEF InFlight, StaffAuditNext
<1>2. CASE InsertUser(c) \/ InsertEmployee(c)
  BY <1>1, <1>2, HireHolds
<1>3. CASE ReadPay(c) \/ CheckEmail(c) \/ WriteEmail(c)
  BY <1>1, <1>3, UpdateHolds
<1>4. CASE EndOld(c) \/ EndCurrent(c) \/ InsertSalary(c) \/ InsertHistory(c)
  BY <1>1, <1>4, PayHolds
<1>5. CASE FindManager(c) \/ ClimbChain(c) \/ DescendTree(c)
  BY <1>1, <1>5, WalkHolds
<1>6. CASE WriteEmployee(c) \/ WriteSalary(c) \/ DeleteSalary(c) \/ WriteDeleted(c)
             \/ WriteManager(c)
  BY <1>1, <1>6 DEF WriteEmployee, WriteSalary, DeleteSalary, WriteDeleted, WriteManager
<1> QED  BY <1>2, <1>3, <1>4, <1>5, <1>6 DEF StaffStep

\* A call that is alone is the only one there is and nobody else has written.
LEMMA AloneKept ==
  ASSUME StaffingAssumption, AuditInv, StaffAuditNext
  PROVE  AloneInv'
<1> SUFFICES ASSUME NEW d \in Call, Alone(d)'
             PROVE  InFlight' = {d} /\ Holds(d)'
  BY DEF AloneInv
<1>1. StaffInv /\ AloneInv /\ TangledInv /\ DOMAIN seen = Walks /\ StaffNext
  BY DEF AuditInv, StaffAuditNext
<1>2. /\ d \in InFlight' /\ today' = today /\ ~(Cardinality(InFlight') > 1)
      /\ d \in InFlight => d \notin overlapped
  BY DEF Alone, StaffAuditNext
<1>3. InFlight' = {d}
  <2>1. CallsInv'
    BY <1>1, StaffKept DEF StaffInv
  <2>2. IsFiniteSet(InFlight')
    BY <2>1, FS_Subset DEF CallsInv, IsTable, StaffingAssumption, InFlight
  <2>3. Cardinality(InFlight') \in Nat
    BY <2>2, FS_CardinalityType
  <2>4. Cardinality(InFlight') <= 1
    BY <1>2, <2>3
  <2> QED  BY <1>2, <2>2, <2>4, AtMostOne
<1>4. d \in InFlight => InFlight = {d} /\ Holds(d)
  BY <1>1, <1>2 DEF AloneInv, Alone
<1>5. ASSUME NEW c \in Call, NewStaffCall(c)
      PROVE  Holds(d)'
  <2>1. c = d
    BY <1>1, <1>3, <1>5, InFlightMoves
  <2> QED  BY <1>1, <1>5, <2>1, NewCallHolds
<1>6. ASSUME NEW c \in Call, StaffStep(c)
      PROVE  Holds(d)'
  <2>1. c = d /\ d \in InFlight
    BY <1>1, <1>2, <1>3, <1>4, <1>6, InFlightMoves
  <2> QED  BY <1>1, <1>2, <1>4, <1>6, <2>1, StepHolds
<1>7. ASSUME NEW c \in Call, StaffFail(c)
      PROVE  FALSE
  BY <1>1, <1>2, <1>4, <1>7, InFlightMoves
<1>8. CASE AddHistory
  <2>1. UNCHANGED <<salaries, employees, calls, today>>
    BY <1>8 DEF AddHistory, Quiet
  <2>2. d \in InFlight /\ Holds(d) /\ tangled \subseteq tangled'
    BY <1>2, <1>4, <2>1 DEF InFlight, StaffAuditNext
  <2>3. d \in Walks => seen'[d] = seen[d]
    BY <1>1, <2>1, SeenMoves DEF Walks, InFlight
  <2>4. (At(d, "chain") \/ At(d, "tree")) => d \in Walks
    BY DEF At, Walks, InFlight
  <2>5. PICK call, read : call = calls[d] /\ read = seen[d]
    OBVIOUS
  <2>6. /\ Current(call.row.emp)' = Current(call.row.emp)
        /\ OpenEnded(call.row.emp)' = OpenEnded(call.row.emp)
        /\ OpenEnded(call.id)' = OpenEnded(call.id)
    BY <2>1, SalariesSame
  <2>7. /\ ManagersIn(read, read \cup {call.at})' <=> ManagersIn(read, read \cup {call.at})
        /\ TreeHolds(read, call.pending)' <=> TreeHolds(read, call.pending)
    BY <2>1 DEF ManagersIn, TreeHolds
  <2>8. /\ call.pc = "insertSalary" /\ call.edit = << >> => Current(call.row.emp)' = {}
        /\ call.pc = "insertSalary" /\ call.edit # << >> =>
             (call.row.emp \notin tangled' => OpenEnded(call.row.emp)' = {})
        /\ call.pc \in {"checkEmail", "writeEmail", "endOld"} =>
             (call.id \notin tangled' => OpenEnded(call.id)' \subseteq {call.old})
    BY <2>2, <2>5, <2>6 DEF Holds, At, InFlight
  <2>9. /\ call.pc = "chain" => ManagersIn(read, read \cup {call.at})'
        /\ call.pc = "tree" => TreeHolds(read, call.pending)'
    BY <2>2, <2>5, <2>7 DEF Holds, At, InFlight
  <2>10. calls'[d] = call /\ (call.pc \in {"chain", "tree"} => seen'[d] = read)
    BY <2>1, <2>2, <2>3, <2>4, <2>5 DEF At, InFlight
  <2>11. Holds(d)'
    BY <2>8, <2>9, <2>10 DEF Holds, At
  <2> QED  BY <1>3, <2>11
<1>9. CASE Midnight \/ StaffCrash
  <2>1. CASE Midnight
    <3>1. today' = today + 1 /\ today \in Nat
      BY <1>1, <2>1, StaffLimits DEF Midnight
    <3> QED  BY <1>2, <3>1
  <2>2. CASE StaffCrash
    BY <1>2, <2>2 DEF StaffCrash, Mishap, InFlight
  <2> QED  BY <1>9, <2>1, <2>2
<1>10. (\E c \in Call : NewStaffCall(c) \/ StaffStep(c) \/ StaffFail(c)) \/ AddHistory \/ Midnight \/ StaffCrash
  BY <1>1 DEF StaffNext
<1>11. Holds(d)'
  BY <1>5, <1>6, <1>7, <1>8, <1>9, <1>10, Zenon
<1> QED  BY <1>3, <1>11

LEMMA AuditInvariant == ASSUME StaffingAssumption PROVE StaffAuditSpec => []AuditInv
<1>1. ASSUME StaffAuditInit
      PROVE  AuditInv
  <2>1. StaffInv
    BY <1>1, StaffStart DEF StaffAuditInit
  <2>2. InFlight = {} /\ DOMAIN seen = Walks
    BY <1>1 DEF StaffAuditInit, StaffInit, InFlight, Walks
  <2>3. AloneInv
    BY <2>2 DEF AloneInv, Alone
  <2>4. TangledInv
    <3>1. ASSUME NEW i
          PROVE  Cardinality(Current(i)) <= 1
      <4>1. DOMAIN salaries = {1}
        BY <1>1 DEF StaffAuditInit, StaffInit, Put
      <4>2. Current(i) \subseteq {1}
        BY <4>1 DEF Current
      <4>3. IsFiniteSet({1}) /\ Cardinality({1}) = 1
        BY FS_Singleton
      <4> QED  BY <4>2, <4>3, FS_Subset
    <3> QED  BY <3>1 DEF TangledInv
  <2> QED  BY <2>1, <2>2, <2>3, <2>4 DEF AuditInv
<1>2. ASSUME AuditInv, [StaffAuditNext]_staffAuditVars
      PROVE  AuditInv'
  <2>1. CASE StaffAuditNext
    <3>1. StaffInv'
      BY <1>2, <2>1, StaffKept DEF AuditInv, StaffAuditNext
    <3>2. AloneInv'
      BY <1>2, <2>1, AloneKept
    <3>3. TangledInv'
      <4>1. SUFFICES ASSUME NEW i \in DOMAIN employees' \ tangled'
                     PROVE  Cardinality(Current(i)') <= 1
        BY DEF TangledInv
      <4>2. ~(Cardinality(Current(i)') > 1)
        BY <2>1 DEF StaffAuditNext
      <4>3. Cardinality(Current(i)') \in Nat
        <5>1. Current(i)' \subseteq 1 .. salarySeq' /\ salarySeq' \in Nat
          BY <3>1 DEF Current, StaffInv, SalariesInv, IsTable
        <5>2. IsFiniteSet(1 .. salarySeq')
          BY <5>1, IdsAreFinite
        <5> QED  BY <5>1, <5>2, FS_Subset, FS_CardinalityType
      <4> QED  BY <4>2, <4>3
    <3>4. (DOMAIN seen = Walks)'
      BY <1>2, <2>1, SeenMoves DEF AuditInv
    <3> QED  BY <3>1, <3>2, <3>3, <3>4 DEF AuditInv
  <2>2. CASE UNCHANGED staffAuditVars
    <3>1. StaffInv'
      BY <1>2, <2>2, StaffKept DEF AuditInv, staffAuditVars
    <3>2. UNCHANGED <<today, employees, salaries, calls, overlapped, seen, tangled>>
      BY <2>2 DEF staffAuditVars, staffVars, staffTables
    <3>3. TangledInv' /\ (DOMAIN seen = Walks)'
      BY <1>2, <3>2 DEF AuditInv, TangledInv, Current, Walks, InFlight
    <3>4. \A c : (Alone(c)' <=> Alone(c)) /\ (Holds(c)' <=> Holds(c)) /\ InFlight' = InFlight
      BY <3>2 DEF Alone, InFlight, Holds, At, Current, OpenEnded, ManagersIn, TreeHolds
    <3>5. AloneInv'
      BY <1>2, <3>4 DEF AuditInv, AloneInv
    <3> QED  BY <3>1, <3>3, <3>5 DEF AuditInv
  <2> QED  BY <1>2, <2>1, <2>2
<1> QED  BY <1>1, <1>2, PTL DEF StaffAuditSpec

-----------------------------------------------------------------------------
(* How salaries follow each other.                                         *)

\* Who else writes salaries than the five that do.
LEMMA WhoWritesSalaries ==
  ASSUME NEW c, StaffStep(c),
         ~(EndOld(c) \/ EndCurrent(c) \/ InsertSalary(c) \/ WriteSalary(c) \/ DeleteSalary(c))
  PROVE  UNCHANGED <<salaries, salarySeq>>
BY Zenon
   DEF StaffStep, InsertUser, InsertEmployee, ReadPay, CheckEmail, WriteEmail,
       WriteEmployee, InsertHistory, WriteDeleted,
       FindManager, WriteManager, ClimbChain, DescendTree, staffTables

\* What an INSERT of a salary does to those that are current.
LEMMA InsertIsCurrent ==
  ASSUME StaffingAssumption, StaffInv, NEW c \in Call, InsertSalary(c), NEW i
  PROVE  /\ Current(i) \subseteq Current(i)'
         /\ i # calls[c].row.emp => Current(i)' = Current(i)
         /\ Current(i)' \subseteq Current(i) \cup {salarySeq + 1}
         /\ i = calls[c].row.emp /\ calls[c].row.active /\ ~(calls[c].row.until < today) =>
              Current(i)' # {}
<1>1. PICK row : row = calls[c].row
  OBVIOUS
<1>2. /\ salaries' = Put(salaries, salarySeq + 1, row) /\ today' = today
  BY <1>1 DEF InsertSalary, Quiet
<1>3. salarySeq + 1 \notin DOMAIN salaries
  <2>1. salarySeq \in Nat /\ DOMAIN salaries \subseteq 1 .. salarySeq
    BY DEF StaffInv, SalariesInv, IsTable
  <2> QED  BY <2>1
<1>4. /\ DOMAIN salaries' = DOMAIN salaries \cup {salarySeq + 1}
      /\ salaries'[salarySeq + 1] = row
      /\ \A s \in DOMAIN salaries : salaries'[s] = salaries[s]
  BY <1>2, <1>3 DEF Put
<1>5. row \in Salary /\ today \in 0 .. MaxDay /\ MaxDay \in Nat
  BY <1>1, RowOfTable, CallShape, StaffLimits DEF InsertSalary, At, StaffInv, CallsInv
<1>6. row.until \in Int
  BY <1>5 DEF Salary, Endless
<1>7. ~(row.until < today) => row.until >= today
  BY <1>5, <1>6
<1>8. row.active /\ row.until >= today /\ i = row.emp => salarySeq + 1 \in Current(i)'
  BY <1>2, <1>4 DEF Current
<1> QED  BY <1>1, <1>2, <1>3, <1>4, <1>7, <1>8 DEF Current

\* The other writes end salaries, of the employee the call is about.
LEMMA EndingEnds ==
  ASSUME StaffingAssumption, StaffInv, NEW c \in Call, NEW i
  PROVE  /\ EndOld(c) =>
              Current(i)' \subseteq Current(i) /\ (i # calls[c].id => Current(i)' = Current(i))
         /\ EndCurrent(c) =>
              /\ Current(i)' \subseteq Current(i)
              /\ i # calls[c].row.emp => Current(i)' = Current(i)
         /\ DeleteSalary(c) => Current(i)' \subseteq Current(i)
<1>1. /\ \A s \in DOMAIN salaries : salaries[s] \in Salary
      /\ today \in 0 .. MaxDay /\ MaxDay \in Nat
  BY StaffLimits
<1>2. ASSUME EndOld(c)
      PROVE  Current(i)' \subseteq Current(i) /\ (i # calls[c].id => Current(i)' = Current(i))
  <2>1. PICK old, id : old = calls[c].old /\ id = calls[c].id
    OBVIOUS
  <2>2. old \in DOMAIN salaries => salaries[old].emp = id
    BY <1>2, <2>1 DEF EndOld, At, StaffInv, CallsInv, Backed
  <2>3. /\ today' = today /\ DOMAIN salaries' = DOMAIN salaries
        /\ \A s \in DOMAIN salaries : s # old => salaries'[s] = salaries[s]
        /\ old \in DOMAIN salaries => ~salaries'[old].active /\ salaries'[old].emp = id
    <3>2. CASE old \notin DOMAIN salaries
      BY <1>2, <2>1, <3>2 DEF EndOld, Quiet
    <3>3. CASE old \in DOMAIN salaries
      <4>1. salaries[old] \in Salary
        BY <1>1, <3>3
      <4>2. PICK row : row = [salaries[old] EXCEPT !.until = today, !.active = FALSE]
        OBVIOUS
      <4>3. ~row.active /\ row.emp = id
        BY <2>2, <3>3, <4>1, <4>2 DEF Salary
      <4>4. salaries' = [salaries EXCEPT ![old] = row] /\ today' = today
        BY <1>2, <2>1, <3>3, <4>2 DEF EndOld, Quiet
      <4> QED  BY <3>3, <4>3, <4>4
    <3> QED  BY <3>2, <3>3
  <2> QED  BY <2>1, <2>2, <2>3 DEF Current
<1>3. ASSUME EndCurrent(c)
      PROVE  /\ Current(i)' \subseteq Current(i)
             /\ i # calls[c].row.emp => Current(i)' = Current(i)
  <2>1. PICK id : id = calls[c].row.emp
    OBVIOUS
  <2>2. /\ today' = today /\ DOMAIN salaries' = DOMAIN salaries
        /\ \A s \in Current(id) : ~salaries'[s].active /\ salaries[s].emp = id
             /\ salaries'[s].emp = id
        /\ \A s \in DOMAIN salaries \ Current(id) : salaries'[s] = salaries[s]
    <3>2. PICK until : until = calls[c].effective - 1
      OBVIOUS
    <3>3. salaries' = [s \in DOMAIN salaries |->
            IF s \in Current(id)
              THEN [salaries[s] EXCEPT !.until = until, !.active = FALSE]
              ELSE salaries[s]]
      BY <1>3, <2>1, <3>2 DEF EndCurrent
    <3>4. \A s \in Current(id) : s \in DOMAIN salaries /\ salaries[s].emp = id
      BY DEF Current
    <3>5. today' = today
      BY <1>3 DEF EndCurrent, Quiet
    <3> QED  BY <1>1, <3>3, <3>4, <3>5 DEF Salary
  <2> QED  BY <2>1, <2>2 DEF Current
<1>4. ASSUME DeleteSalary(c)
      PROVE  Current(i)' \subseteq Current(i)
  BY <1>4 DEF DeleteSalary, Current, Quiet
<1> QED  BY <1>2, <1>3, <1>4

LEMMA MidnightEnds ==
  ASSUME StaffingAssumption, StaffInv, Midnight, NEW i
  PROVE  Current(i)' \subseteq Current(i)
<1>1. /\ \A s \in DOMAIN salaries : salaries[s] \in Salary
      /\ today \in 0 .. MaxDay /\ MaxDay \in Nat
  BY StaffLimits
<1>2. salaries' = salaries /\ today' = today + 1
  BY DEF Midnight, staffTables
<1>3. \A s \in DOMAIN salaries : salaries[s].until \in Int
  BY <1>1 DEF Salary, Endless
<1>4. \A s \in DOMAIN salaries : salaries[s].until >= today + 1 => salaries[s].until >= today
  BY <1>1, <1>3
<1> QED  BY <1>2, <1>4 DEF Current

LEMMA TwoSalaries ==
  ASSUME StaffingAssumption, AuditInv, [StaffAuditNext]_staffAuditVars
  PROVE  TwoSalariesHaveACause
<1>0. StaffInv /\ AloneInv /\ TangledInv
  BY DEF AuditInv
<1> SUFFICES ASSUME NEW i \in DOMAIN employees \ tangled, Cardinality(Current(i)') > 1
             PROVE  \E c \in InFlight :
                      \/ At(c, "updateSalary")
                      \/ At(c, "insertSalary") /\ ~Alone(c)
                      \/ /\ At(c, "insertSalary") /\ calls[c].edit # << >>
                         /\ \E s \in Current(i) : salaries[s].until # Endless
  BY DEF TwoSalariesHaveACause
<1>1. /\ Cardinality(Current(i)) <= 1 /\ Cardinality(Current(i)) \in Nat
      /\ IsFiniteSet(Current(i))
  BY <1>0, CurrentIsFinite DEF TangledInv
<1>2. ASSUME Current(i)' \subseteq Current(i)
      PROVE  FALSE
  <2>1. Cardinality(Current(i)') <= Cardinality(Current(i)) /\ Cardinality(Current(i)') \in Nat
    BY <1>1, <1>2, FS_Subset, FS_CardinalityType
  <2> QED  BY <1>1, <2>1
<1>3. ASSUME UNCHANGED <<salaries, today>>
      PROVE  FALSE
  BY <1>2, <1>3, SalariesSame
<1>4. ASSUME NEW c \in Call, StaffStep(c)
      PROVE  \E d \in InFlight :
               \/ At(d, "updateSalary")
               \/ At(d, "insertSalary") /\ ~Alone(d)
               \/ /\ At(d, "insertSalary") /\ calls[d].edit # << >>
                  /\ \E s \in Current(i) : salaries[s].until # Endless
  <2>1. CASE WriteSalary(c)
    BY <2>1 DEF WriteSalary, At, InFlight
  <2>2. CASE InsertSalary(c)
    <3>1. At(c, "insertSalary") /\ c \in InFlight
      BY <2>2 DEF InsertSalary, At, InFlight
    <3>2. CASE ~Alone(c)
      BY <3>1, <3>2
    <3>3. CASE Alone(c)
      <4>1. Holds(c)
        BY <1>0, <3>3 DEF AloneInv
      <4>2. i = calls[c].row.emp
        BY <1>0, <1>2, <2>2, InsertIsCurrent
      <4>3. Current(i)' \subseteq Current(i) \cup {salarySeq + 1}
        BY <1>0, <2>2, InsertIsCurrent
      <4>4. Current(i) # {}
        <5>1. ASSUME Current(i) = {}
              PROVE  FALSE
          <6>1. Current(i)' \subseteq {salarySeq + 1}
            BY <4>3, <5>1
          <6>2. IsFiniteSet({salarySeq + 1}) /\ Cardinality({salarySeq + 1}) = 1
            BY FS_Singleton
          <6>3. Cardinality(Current(i)') <= 1 /\ Cardinality(Current(i)') \in Nat
            BY <6>1, <6>2, FS_Subset, FS_CardinalityType
          <6> QED  BY <6>3
        <5> QED  BY <5>1
      <4>5. calls[c].edit # << >> /\ OpenEnded(i) = {}
        BY <3>1, <4>1, <4>2, <4>4 DEF Holds
      <4>6. \E s \in Current(i) : salaries[s].until # Endless
        BY <4>4, <4>5 DEF OpenEnded
      <4> QED  BY <3>1, <4>5, <4>6
    <3> QED  BY <3>2, <3>3
  <2>3. CASE EndOld(c) \/ EndCurrent(c) \/ DeleteSalary(c)
    BY <1>0, <1>2, <2>3, EndingEnds
  <2>4. CASE ~(EndOld(c) \/ EndCurrent(c) \/ InsertSalary(c) \/ WriteSalary(c) \/ DeleteSalary(c))
    BY <1>0, <1>3, <1>4, <2>4, WhoWritesSalaries, StepMoves
  <2> QED  BY <2>1, <2>2, <2>3, <2>4
<1>5. ASSUME NEW c \in Call, NewStaffCall(c)
      PROVE  FALSE
  BY <1>0, <1>3, <1>5, NewCallMoves DEF staffTables
<1>6. ASSUME NEW c \in Call, StaffFail(c)
      PROVE  FALSE
  BY <1>3, <1>6 DEF StaffFail, Mishap, staffTables
<1>7. CASE AddHistory \/ StaffCrash \/ UNCHANGED staffAuditVars
  BY <1>3, <1>7 DEF AddHistory, StaffCrash, Mishap, staffAuditVars, staffVars, staffTables, Quiet
<1>8. CASE Midnight
  BY <1>0, <1>2, <1>8, MidnightEnds
<1>9. \/ \E c \in Call : NewStaffCall(c) \/ StaffStep(c) \/ StaffFail(c)
      \/ AddHistory \/ StaffCrash \/ UNCHANGED staffAuditVars \/ Midnight
  BY DEF StaffAuditNext, StaffNext
<1> QED  BY <1>4, <1>5, <1>6, <1>7, <1>8, <1>9, Zenon

LEMMA LostSalaries ==
  ASSUME StaffingAssumption, AuditInv, [StaffAuditNext]_staffAuditVars
  PROVE  LostSalariesHaveACause
<1>0. StaffInv
  BY DEF AuditInv
<1> DEFINE Cause == \/ mishaps' > mishaps
                    \/ today' > today
                    \/ \E c \in InFlight :
                         \/ At(c, "updateSalary") \/ At(c, "deleteSalary")
                         \/ /\ At(c, "insertSalary")
                            /\ ~calls[c].row.active \/ calls[c].row.until < today
<1> SUFFICES ASSUME NEW i \in DOMAIN employees, ~Unpaid(i), Unpaid(i)'
             PROVE  Cause
  BY DEF LostSalariesHaveACause
<1>1. /\ Current(i)' = {}
      /\ \A d \in DOMAIN calls' : ~(calls'[d].pc = "insertSalary" /\ calls'[d].row.emp = i)
  BY DEF Unpaid, InFlight, At
<1>2. \/ Current(i) # {}
      \/ \E d \in DOMAIN calls : calls[d].pc = "insertSalary" /\ calls[d].row.emp = i
  BY DEF Unpaid, InFlight, At
<1>3. ASSUME Current(i) \subseteq Current(i)', NEW c, OnlyCall(c),
             ~(c \in DOMAIN calls /\ calls[c].pc = "insertSalary" /\ calls[c].row.emp = i)
      PROVE  FALSE
  BY <1>1, <1>2, <1>3 DEF OnlyCall
<1>4. ASSUME UNCHANGED <<salaries, today, calls>>
      PROVE  FALSE
  BY <1>1, <1>2, <1>4, SalariesSame
<1>5. ASSUME NEW c \in Call, StaffStep(c)
      PROVE  Cause
  <2>0. OnlyCall(c) /\ today' = today
    BY <1>0, <1>5, StepIsCounted, StepMoves
  <2>1. CASE WriteSalary(c) \/ DeleteSalary(c)
    BY <2>1 DEF WriteSalary, DeleteSalary, At, InFlight
  <2>2. CASE InsertSalary(c)
    <3>1. At(c, "insertSalary") /\ c \in InFlight
      BY <2>2 DEF InsertSalary, At, InFlight
    <3>2. Current(i) \subseteq Current(i)'
      BY <1>0, <2>2, InsertIsCurrent
    <3>3. i = calls[c].row.emp
      BY <1>3, <2>0, <3>2
    <3>4. ~calls[c].row.active \/ calls[c].row.until < today
      BY <1>0, <1>1, <2>2, <3>3, InsertIsCurrent
    <3> QED  BY <3>1, <3>4
  <2>3. CASE EndOld(c)
    <3>1. calls[c].pc = "endOld"
      BY <2>3 DEF EndOld, At
    <3>2. /\ c \in DOMAIN calls' /\ calls'[c].pc = "insertSalary"
          /\ calls'[c].row.emp = calls[c].id
      BY <2>3 DEF EndOld, Goto, Put
    <3>3. i # calls[c].id
      BY <1>1, <3>2
    <3>4. Current(i)' = Current(i)
      BY <1>0, <2>3, <3>3, EndingEnds
    <3> QED  BY <1>3, <2>0, <3>1, <3>4
  <2>4. CASE EndCurrent(c)
    <3>1. calls[c].pc = "endCurrent"
      BY <2>4 DEF EndCurrent, At
    <3>2. /\ c \in DOMAIN calls' /\ calls'[c].pc = "insertSalary"
          /\ calls'[c].row.emp = calls[c].row.emp
      BY <2>4 DEF EndCurrent, Goto, Put
    <3>3. i # calls[c].row.emp
      BY <1>1, <3>2
    <3>4. Current(i)' = Current(i)
      BY <1>0, <2>4, <3>3, EndingEnds
    <3> QED  BY <1>3, <2>0, <3>1, <3>4
  <2>5. CASE ~(EndOld(c) \/ EndCurrent(c) \/ InsertSalary(c) \/ WriteSalary(c) \/ DeleteSalary(c))
    <3>1. Current(i)' = Current(i)
      BY <1>5, <2>0, <2>5, WhoWritesSalaries, SalariesSame
    <3>2. calls[c].pc # "insertSalary"
      BY <1>5, <2>5
         DEF StaffStep, InsertUser, InsertEmployee, ReadPay, CheckEmail, WriteEmail,
             WriteEmployee, InsertHistory, WriteDeleted, FindManager, WriteManager, ClimbChain,
             DescendTree, At
    <3> QED  BY <1>3, <2>0, <3>1, <3>2
  <2> QED  BY <2>1, <2>2, <2>3, <2>4, <2>5
<1>6. ASSUME NEW c \in Call, NewStaffCall(c)
      PROVE  FALSE
  <2>1. Free(c) /\ UNCHANGED <<today, staffTables>> /\ OnlyCall(c)
    BY <1>0, <1>6, NewCallMoves, CallMoves
  <2>2. Current(i)' = Current(i)
    BY <2>1, SalariesSame DEF staffTables
  <2> QED  BY <1>3, <2>1, <2>2 DEF Free
<1>7. CASE StaffCrash \/ \E c \in Call : StaffFail(c)
  <2>1. mishaps' = mishaps + 1 /\ mishaps \in Nat
    BY <1>0, <1>7 DEF StaffCrash, Mishap, StaffFail, StaffInv, BoundsInv
  <2> QED  BY <2>1
<1>8. CASE Midnight
  <2>1. today' = today + 1 /\ today \in Nat
    BY <1>0, <1>8, StaffLimits DEF Midnight
  <2> QED  BY <2>1
<1>9. CASE AddHistory \/ UNCHANGED staffAuditVars
  BY <1>4, <1>9 DEF AddHistory, staffAuditVars, staffVars, staffTables, Quiet
<1>10. \/ \E c \in Call : NewStaffCall(c) \/ StaffStep(c) \/ StaffFail(c)
       \/ AddHistory \/ StaffCrash \/ UNCHANGED staffAuditVars \/ Midnight
  BY DEF StaffAuditNext, StaffNext
<1> QED  BY <1>5, <1>6, <1>7, <1>8, <1>9, <1>10, Zenon

\* However calls overlap and wherever they fail: an employee comes to two current
\* salaries, or to none, only in the ways the audit names.
THEOREM SalariesFollow == StaffAuditSpec => SalariesFollowEachOther
<1>0. StaffingAssumption
  BY StaffingConstants
<1>1. AuditInv /\ [StaffAuditNext]_staffAuditVars =>
        [TwoSalariesHaveACause /\ LostSalariesHaveACause]_staffAuditVars
  BY <1>0, TwoSalaries, LostSalaries
<1> QED  BY <1>0, <1>1, AuditInvariant, PTL DEF StaffAuditSpec, SalariesFollowEachOther

-----------------------------------------------------------------------------
(* The walks.                                                              *)

LEMMA WalksRepeat ==
  ASSUME StaffingAssumption, AuditInv, [StaffAuditNext]_staffAuditVars, NEW c \in Walks, Alone(c),
         Free(c)' \/ calls'[c] # calls[c], mishaps' = mishaps, NEW i \in ReadBy(c) \cap seen[c]
  PROVE  GoesRound(i)
<1>1. /\ StaffInv /\ c \in DOMAIN calls /\ c \in Call
      /\ calls[c].pc \in {"chain", "tree"} /\ Backed(calls[c])
  BY DEF AuditInv, StaffInv, CallsInv, IsTable, Walks, InFlight
<1>2. Holds(c)
  BY <1>1 DEF AuditInv, AloneInv
<1>3. CASE calls[c].pc = "chain"
  <2>1. i = calls[c].at /\ i \in seen[c]
    BY <1>1, <1>3 DEF ReadBy, At
  <2>2. ManagersIn(seen[c], seen[c] \cup {calls[c].at})
    BY <1>1, <1>2, <1>3 DEF Holds, At
  <2>3. seen[c] \subseteq DOMAIN employees /\ \A j \in seen[c] : employees[j].manager \in seen[c]
    BY <2>1, <2>2 DEF ManagersIn
  <2> QED  BY <2>1, <2>3 DEF GoesRound
<1>4. CASE calls[c].pc = "tree"
  <2>1. i \in calls[c].pending /\ i \in seen[c]
    BY <1>1, <1>4 DEF ReadBy, At
  <2>2. TreeHolds(seen[c], calls[c].pending)
    BY <1>1, <1>2, <1>4 DEF Holds, At
  <2>3. PICK group : group = seen[c] \cup calls[c].pending
    OBVIOUS
  <2>4. i \in group /\ ManagersIn(group, group)
    BY <2>1, <2>2, <2>3 DEF TreeHolds
  <2>5. group \subseteq DOMAIN employees /\ \A j \in group : employees[j].manager \in group
    BY <2>4 DEF ManagersIn
  <2> QED  BY <2>4, <2>5 DEF GoesRound
<1> QED  BY <1>1, <1>3, <1>4

\* A walk up or down the organisation that nobody disturbs reads an employee for
\* the second time only where the managers go round.
THEOREM WalksGoRound == StaffAuditSpec => WalksRepeatOnlyInCycles
<1>0. StaffingAssumption
  BY StaffingConstants
<1> DEFINE Repeats == \A c \in Walks :
       (Alone(c) /\ (Free(c)' \/ calls'[c] # calls[c]) /\ mishaps' = mishaps) =>
         \A i \in ReadBy(c) \cap seen[c] : GoesRound(i)
<1>1. AuditInv /\ [StaffAuditNext]_staffAuditVars => [Repeats]_staffAuditVars
  BY <1>0, WalksRepeat
<1> HIDE DEF Repeats
<1>2. StaffAuditSpec => [][Repeats]_staffAuditVars
  BY <1>0, <1>1, AuditInvariant, PTL DEF StaffAuditSpec
<1> QED  BY <1>2 DEF Repeats, WalksRepeatOnlyInCycles
=============================================================================
