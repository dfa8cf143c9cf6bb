------------------------ MODULE LeaveAdministration ------------------------
(***************************************************************************)
(* The leave periods and leave types of one tenant: LeavePeriodService and *)
(* LeaveTypeService, beside the statements of submitRequest that refer to  *)
(* what they administer.                                                   *)
(*                                                                         *)
(* One action is one SQL statement with the code up to the next await; the *)
(* lookup a handler begins with is part of the action that starts it.  Of  *)
(* balances and requests only the foreign keys are kept, those of one      *)
(* employee; quotas, days and overlaps are those of module LeaveRequests.  *)
(***************************************************************************)
EXTENDS Sequences, Mishaps

CONSTANTS
  Kind,          \* the enum LeaveType
  DefaultTypes,  \* the kinds setupDefaultLeaveTypes makes, in its order
  PeriodBody,    \* the dates of POST leave-periods
  PeriodPatch,   \* the bodies of PATCH leave-periods/:id
  MaxLeavePeriods,    \* BOUND on the ids leave_period hands out
  MaxTypes       \* BOUND on the ids leave_type_config hands out

Date == Int

LeavePeriodId == 1 .. MaxLeavePeriods

TypeId == 1 .. MaxTypes

\* A row of leave_period.
LeavePeriodRow == [from : Date, to : Date, active : BOOLEAN]

\* The columns an UPDATE of leave_period sets, if any: both dates or neither.
Columns ==
  {<< >>} \cup [active : BOOLEAN] \cup [from : Date, to : Date] \cup LeavePeriodRow

\* A row of leave_type_config, unique on period and type.
TypeRow == [period : LeavePeriodId, kind : Kind, active : BOOLEAN]

\* The foreign keys of a row of leave_balance or leave_request.
Reference == [period : LeavePeriodId, type : TypeId]

AdministrationAssumption ==
  /\ {MaxLeavePeriods, MaxTypes, MaxMishaps} \subseteq Nat
  /\ IsFiniteSet(Call)
  /\ DefaultTypes \in Seq(Kind) \ {<< >>}
  /\ PeriodBody \subseteq [from : Date, to : Date]
  /\ \A patch \in PeriodPatch :
       /\ DOMAIN patch \subseteq DOMAIN [from |-> 0, to |-> 0, active |-> TRUE]
       /\ \A k \in DOMAIN patch : patch[k] \in IF k = "active" THEN BOOLEAN ELSE Date

ASSUME AdministrationConstants == AdministrationAssumption

VARIABLES
  leavePeriods,    \* the table leave_period
  leavePeriodSeq,  \* the last id it has handed out
  types,      \* the table leave_type_config
  typeSeq,    \* the last id it has handed out
  balances,   \* leave_balance, unique on its foreign keys
  requests    \* what the rows of leave_request refer to

adminTables == <<leavePeriods, leavePeriodSeq, types, typeSeq, balances, requests>>

adminVars == <<adminTables, calls, mishaps>>

CallRecord ==
       [pc : {"insertLeavePeriod"}, row : LeavePeriodRow]
  \cup [pc : {"writeLeavePeriod"}, id : LeavePeriodId, columns : Columns]
  \cup [pc : {"deleteLeavePeriod"}, id : LeavePeriodId]
  \cup [pc : {"insertType"}, row : TypeRow]
  \cup [pc : {"writeType"}, id : TypeId, active : BOOLEAN]
  \cup [pc : {"isUsed", "deleteType"}, id : TypeId]
  \cup [pc : {"findDefault", "insertDefault"}, period : LeavePeriodId,
        at : DOMAIN DefaultTypes]
  \cup [pc : {"readBalance", "initPeriod", "insertRequest"}, ref : Reference]
  \cup [pc : {"readType", "upsert", "reread"}, ref : Reference, target : LeavePeriodId]

UniqueTypes ==
  \A s, t \in DOMAIN types :
    types[s].period = types[t].period /\ types[s].kind = types[t].kind => s = t

References(refs) ==
  \A r \in refs : r.period \in DOMAIN leavePeriods /\ r.type \in DOMAIN types

AdministrationTypeOK ==
  /\ leavePeriodSeq \in 0 .. MaxLeavePeriods
  /\ IsTable(leavePeriods, 1 .. leavePeriodSeq, LeavePeriodRow)
  /\ \A p \in DOMAIN leavePeriods : leavePeriods[p].from < leavePeriods[p].to
  /\ typeSeq \in 0 .. MaxTypes /\ IsTable(types, 1 .. typeSeq, TypeRow)
  /\ UniqueTypes
  /\ \A t \in DOMAIN types : types[t].period \in DOMAIN leavePeriods
  /\ balances \subseteq Reference /\ References(balances)
  /\ requests \subseteq Reference /\ References(requests)
  /\ IsTable(calls, Call, CallRecord)
  /\ mishaps \in 0 .. MaxMishaps

AdminInit ==
  /\ leavePeriods = << >> /\ leavePeriodSeq = 0
  /\ types = << >> /\ typeSeq = 0
  /\ balances = {} /\ requests = {}
  /\ calls = << >>
  /\ mishaps = 0

-----------------------------------------------------------------------------
(* Helpers.                                                                *)

NoMishap == UNCHANGED mishaps

LeavePeriodsStay == UNCHANGED <<leavePeriods, leavePeriodSeq>>

TypesStay == UNCHANGED <<types, typeSeq>>

UsesStay == UNCHANGED <<balances, requests>>

ReadOnly == LeavePeriodsStay /\ TypesStay /\ UsesStay /\ NoMishap

\* The calls that may still draw an id, for the bounds on ids.
Opening == {c \in DOMAIN calls : calls[c].pc = "insertLeavePeriod"}

\* Most ids that a call may still take from leave_type_config.
Draws(call) ==
  IF call.pc = "insertType" THEN 1
  ELSE IF call.pc \in {"findDefault", "insertDefault"} THEN Len(DefaultTypes) + 1 - call.at
  ELSE 0

Drawing == [c \in DOMAIN calls |-> Draws(calls[c])]

RoomForTypes(n) == typeSeq + SumOf(Drawing) + n <= MaxTypes

\* findActivePeriod: the latest start; ties are left open.
ActiveLeavePeriods ==
  LET on == {p \in DOMAIN leavePeriods : leavePeriods[p].active}
  IN  {p \in on : \A q \in on : leavePeriods[q].from <= leavePeriods[p].from}

TypesOf(p) == {t \in DOMAIN types : types[t].period = p}

-----------------------------------------------------------------------------
(* Leave periods.                                                          *)

\* Mutant: the overlap is looked for and then forgotten.
CreateAnyLeavePeriod(c) ==
  /\ Free(c)
  /\ leavePeriodSeq + Cardinality(Opening) < MaxLeavePeriods
  /\ \E body \in PeriodBody :
       /\ body.from < body.to
       /\ Goto(c, [pc |-> "insertLeavePeriod",
                   row |-> [from |-> body.from, to |-> body.to, active |-> FALSE]])
  /\ ReadOnly

\* "Check for overlapping periods": the repository knows no filter on dates,
\* so any period that is there is in the way.
CreateLeavePeriod(c) ==
  /\ Free(c)
  /\ leavePeriodSeq + Cardinality(Opening) < MaxLeavePeriods
  /\ DOMAIN leavePeriods = {}
  /\ \E body \in PeriodBody :
       /\ body.from < body.to
       /\ Goto(c, [pc |-> "insertLeavePeriod",
                   row |-> [from |-> body.from, to |-> body.to, active |-> FALSE]])
  /\ ReadOnly

\* The INSERT, which the handler does not wait for; the new period is inactive.
InsertLeavePeriod(c) ==
  /\ At(c, "insertLeavePeriod")
  /\ leavePeriodSeq' = leavePeriodSeq + 1
  /\ leavePeriods' = Put(leavePeriods, leavePeriodSeq', calls[c].row)
  /\ Return(c)
  /\ TypesStay /\ UsesStay /\ NoMishap

\* The dates not given are those the handler has read.
UpdateLeavePeriod(c) ==
  /\ Free(c)
  /\ \E p \in DOMAIN leavePeriods, patch \in PeriodPatch :
       LET row     == [leavePeriods[p] EXCEPT !.from = Setting(patch, "from", @),
                                         !.to = Setting(patch, "to", @),
                                         !.active = Setting(patch, "active", @)]
           dates   == {"from", "to"}
           columns == IF DOMAIN patch \cap dates = {} THEN DOMAIN patch
                                                      ELSE DOMAIN patch \cup dates
       IN  /\ dates \subseteq columns => row.from < row.to
           /\ Goto(c, [pc |-> "writeLeavePeriod", id |-> p,
                       columns |-> [column \in columns |-> row[column]]])
  /\ ReadOnly

WriteLeavePeriod(c) ==
  /\ At(c, "writeLeavePeriod")
  /\ LET p   == calls[c].id
         new == calls[c].columns
     IN  leavePeriods' = IF p \notin DOMAIN leavePeriods
                      THEN leavePeriods
                      ELSE [leavePeriods EXCEPT
                              ![p].from = Setting(new, "from", @),
                              ![p].to = Setting(new, "to", @),
                              ![p].active = Setting(new, "active", @)]
  /\ Return(c)
  /\ UNCHANGED leavePeriodSeq /\ TypesStay /\ UsesStay /\ NoMishap

\* "Cannot delete period with existing leave balances"
RemoveLeavePeriod(c) ==
  /\ Free(c)
  /\ \E p \in DOMAIN leavePeriods :
       /\ ~ \E b \in balances : b.period = p
       /\ Goto(c, [pc |-> "deleteLeavePeriod", id |-> p])
  /\ ReadOnly

\* DELETE takes types and balances along; a request that refers to the period
\* or to one of its types forbids it.
DeleteLeavePeriod(c) ==
  /\ At(c, "deleteLeavePeriod")
  /\ LET p == calls[c].id
         Gone(r) == r.period = p \/ r.type \in TypesOf(p)
     IN  IF \E r \in requests : Gone(r)
           THEN UNCHANGED <<leavePeriods, types, balances>>
           ELSE /\ leavePeriods' = Drop(leavePeriods, p)
                /\ types' = [t \in DOMAIN types \ TypesOf(p) |-> types[t]]
                /\ balances' = {b \in balances : ~Gone(b)}
  /\ Return(c)
  /\ UNCHANGED <<leavePeriodSeq, typeSeq, requests>> /\ NoMishap

-----------------------------------------------------------------------------
(* Leave types.                                                            *)

CreateType(c) ==
  /\ Free(c)
  /\ RoomForTypes(1)
  /\ \E p \in DOMAIN leavePeriods, k \in Kind, on \in BOOLEAN :
       Goto(c, [pc |-> "insertType", row |-> [period |-> p, kind |-> k, active |-> on]])
  /\ ReadOnly

\* unique_leave_type_per_period and the foreign key.
Insertable(row) ==
  /\ row.period \in DOMAIN leavePeriods
  /\ ~ \E t \in TypesOf(row.period) : types[t].kind = row.kind

\* An INSERT that is refused has drawn its id all the same; that is left out.
AddType(row) ==
  /\ typeSeq' = typeSeq + 1
  /\ types' = Put(types, typeSeq', row)

InsertType(c) ==
  /\ At(c, "insertType")
  /\ IF Insertable(calls[c].row) THEN AddType(calls[c].row) ELSE TypesStay
  /\ Return(c)
  /\ LeavePeriodsStay /\ UsesStay /\ NoMishap

\* PATCH leave-types/:id, of which only isActive matters here.
UpdateType(c) ==
  /\ Free(c)
  /\ \E t \in DOMAIN types, on \in BOOLEAN :
       Goto(c, [pc |-> "writeType", id |-> t, active |-> on])
  /\ ReadOnly

WriteType(c) ==
  /\ At(c, "writeType")
  /\ types' = IF calls[c].id \in DOMAIN types
                THEN [types EXCEPT ![calls[c].id].active = calls[c].active]
                ELSE types
  /\ Return(c)
  /\ UNCHANGED typeSeq /\ LeavePeriodsStay /\ UsesStay /\ NoMishap

\* DELETE leave-types/:id, "... not found"
RemoveType(c) ==
  /\ Free(c)
  /\ \E t \in DOMAIN types : Goto(c, [pc |-> "isUsed", id |-> t])
  /\ ReadOnly

\* "Cannot delete leave type configuration that is being used"
IsUsed(c) ==
  /\ At(c, "isUsed")
  /\ IF \E r \in balances \cup requests : r.type = calls[c].id
       THEN Return(c)
       ELSE Goto(c, [pc |-> "deleteType", id |-> calls[c].id])
  /\ ReadOnly

DeleteType(c) ==
  /\ At(c, "deleteType")
  /\ LET t == calls[c].id
     IN  IF \E r \in requests : r.type = t
           THEN UNCHANGED <<types, balances>>
           ELSE /\ types' = Drop(types, t)
                /\ balances' = {b \in balances : b.type # t}
  /\ Return(c)
  /\ UNCHANGED <<typeSeq, requests>> /\ LeavePeriodsStay /\ NoMishap

\* POST leave-periods/:id/setup-default-types
SetupDefaultTypes(c) ==
  /\ Free(c)
  /\ RoomForTypes(Len(DefaultTypes))
  /\ \E p \in DOMAIN leavePeriods : Goto(c, [pc |-> "findDefault", period |-> p, at |-> 1])
  /\ ReadOnly

\* The loop goes on with the next kind, or the call returns.
NextDefault(c) ==
  IF calls[c].at < Len(DefaultTypes)
    THEN Goto(c, [pc |-> "findDefault", period |-> calls[c].period,
                  at |-> calls[c].at + 1])
    ELSE Return(c)

\* "Check if this type already exists for this period": findByTypeAndPeriod
\* sees the active ones only.
FindDefault(c) ==
  /\ At(c, "findDefault")
  /\ IF \E t \in TypesOf(calls[c].period) :
          types[t].kind = DefaultTypes[calls[c].at] /\ types[t].active
       THEN NextDefault(c)
       ELSE Goto(c, [calls[c] EXCEPT !.pc = "insertDefault"])
  /\ ReadOnly

\* A kind that is there but inactive makes the INSERT fail, and the setup.
InsertDefault(c) ==
  /\ At(c, "insertDefault")
  /\ LET row == [period |-> calls[c].period, kind |-> DefaultTypes[calls[c].at],
                 active |-> TRUE]
     IN  IF Insertable(row)
           THEN AddType(row) /\ NextDefault(c)
           ELSE Return(c) /\ TypesStay
  /\ LeavePeriodsStay /\ UsesStay /\ NoMishap

-----------------------------------------------------------------------------
(* submitRequest, as far as it refers to periods and types.                *)

\* findActivePeriod; the type is any the client names.
Submit(c) ==
  /\ Free(c)
  /\ \E p \in ActiveLeavePeriods, t \in DOMAIN types :
       Goto(c, [pc |-> "readBalance", ref |-> [period |-> p, type |-> t]])
  /\ ReadOnly

ReadBalance(c) ==
  /\ At(c, "readBalance")
  /\ Goto(c, [pc |-> IF calls[c].ref \in balances THEN "insertRequest" ELSE "initPeriod",
              ref |-> calls[c].ref])
  /\ ReadOnly

\* initializeBalance, findActivePeriod: it may be another one by now.
InitPeriod(c) ==
  /\ At(c, "initPeriod")
  /\ \/ ActiveLeavePeriods = {} /\ Return(c)
     \/ \E p \in ActiveLeavePeriods :
          Goto(c, [pc |-> "readType", ref |-> calls[c].ref, target |-> p])
  /\ ReadOnly

\* "Leave type config not found"
ReadType(c) ==
  /\ At(c, "readType")
  /\ IF calls[c].ref.type \in DOMAIN types
       THEN Goto(c, [calls[c] EXCEPT !.pc = "upsert"])
       ELSE Return(c)
  /\ ReadOnly

TargetRef(c) == [period |-> calls[c].target, type |-> calls[c].ref.type]

Upsert(c) ==
  /\ At(c, "upsert")
  /\ IF References({TargetRef(c)})
       THEN /\ balances' = balances \cup {TargetRef(c)}
            /\ Goto(c, [calls[c] EXCEPT !.pc = "reread"])
       ELSE Return(c) /\ UNCHANGED balances
  /\ UNCHANGED requests /\ LeavePeriodsStay /\ TypesStay /\ NoMishap

\* "Failed to initialize leave balance"
Reread(c) ==
  /\ At(c, "reread")
  /\ IF TargetRef(c) \in balances
       THEN Goto(c, [pc |-> "insertRequest", ref |-> calls[c].ref])
       ELSE Return(c)
  /\ ReadOnly

\* Quota, notice, length and overlap may refuse the request; then the INSERT,
\* with its foreign keys.
InsertRequest(c) ==
  /\ At(c, "insertRequest")
  /\ \/ UNCHANGED requests
     \/ /\ References({calls[c].ref})
        /\ requests' = requests \cup {calls[c].ref}
  /\ Return(c)
  /\ UNCHANGED balances /\ LeavePeriodsStay /\ TypesStay /\ NoMishap

-----------------------------------------------------------------------------
\* A statement fails: the call ends.  Nobody awaits the INSERT of a period, so
\* its failure is an unhandled rejection and ends the process: see Crash.
AdminFail(c) ==
  /\ c \in DOMAIN calls /\ calls[c].pc # "insertLeavePeriod"
  /\ Mishap
  /\ Return(c)
  /\ UNCHANGED adminTables

AdminCrash ==
  /\ Mishap
  /\ calls' = << >>
  /\ UNCHANGED adminTables

NewAdminCall(c) ==
  \/ CreateLeavePeriod(c) \/ UpdateLeavePeriod(c) \/ RemoveLeavePeriod(c)
  \/ CreateType(c) \/ UpdateType(c) \/ RemoveType(c) \/ SetupDefaultTypes(c)
  \/ Submit(c)

AdministrationStep(c) ==
  \/ InsertLeavePeriod(c) \/ WriteLeavePeriod(c) \/ DeleteLeavePeriod(c)
  \/ InsertType(c) \/ WriteType(c) \/ IsUsed(c) \/ DeleteType(c)
  \/ FindDefault(c) \/ InsertDefault(c)
  \/ ReadBalance(c) \/ InitPeriod(c) \/ ReadType(c) \/ Upsert(c) \/ Reread(c)
  \/ InsertRequest(c)

AdminNext ==
  \/ \E c \in Call : NewAdminCall(c) \/ AdministrationStep(c) \/ AdminFail(c)
  \/ AdminCrash

AdminSpec == AdminInit /\ [][AdminNext]_adminVars
=============================================================================
