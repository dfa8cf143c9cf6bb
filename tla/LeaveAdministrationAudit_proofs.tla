------------------ MODULE LeaveAdministrationAudit_proofs ------------------
(***************************************************************************)
(* Proofs about LeaveAdministration and LeaveAdministrationAudit, for any  *)
(* kinds of leave, default types, bodies, ids and calls: the types with    *)
(* the foreign and unique keys, and what the checks of the handlers        *)
(* promise a call that is alone.                                           *)
(***************************************************************************)
EXTENDS LeaveAdministrationAudit, Tables_proofs, FiniteSetTheorems, TLAPS

-----------------------------------------------------------------------------
(* The invariant about shapes.                                             *)

\* A call writes the dates of a period together and in order.
WellDated(call) ==
  /\ call.pc = "insertLeavePeriod" => call.row.from < call.row.to
  /\ call.pc = "writeLeavePeriod" /\ {"from", "to"} \cap DOMAIN call.columns # {} =>
       {"from", "to"} \subseteq DOMAIN call.columns /\ call.columns.from < call.columns.to

CallsInv ==
  /\ IsTable(calls, Call, CallRecord)
  /\ \A c \in DOMAIN calls : WellDated(calls[c])

PeriodsInv ==
  /\ leavePeriodSeq \in Nat /\ IsTable(leavePeriods, 1 .. leavePeriodSeq, LeavePeriodRow)
  /\ \A p \in DOMAIN leavePeriods : leavePeriods[p].from < leavePeriods[p].to

TypesInv ==
  /\ typeSeq \in Nat /\ IsTable(types, 1 .. typeSeq, TypeRow)
  /\ UniqueTypes
  /\ \A t \in DOMAIN types : types[t].period \in DOMAIN leavePeriods

UsesInv ==
  /\ balances \subseteq Reference /\ References(balances)
  /\ requests \subseteq Reference /\ References(requests)

\* The ids handed out and those that calls in flight may still take.
BoundsInv ==
  /\ leavePeriodSeq + Cardinality(Opening) <= MaxLeavePeriods
  /\ typeSeq + SumOf(Drawing) <= MaxTypes
  /\ mishaps \in 0 .. MaxMishaps

AdminInv == CallsInv /\ PeriodsInv /\ TypesInv /\ UsesInv /\ BoundsInv

-----------------------------------------------------------------------------
(* The calls in flight.                                                    *)

\* What a call in flight remembers follows from where it is.
LEMMA CallShape ==
  ASSUME CallsInv, NEW c \in DOMAIN calls
  PROVE  /\ c \in Call /\ calls[c] \in CallRecord /\ WellDated(calls[c])
         /\ At(c, "insertLeavePeriod") => calls[c].row \in LeavePeriodRow
         /\ At(c, "writeLeavePeriod") => calls[c].id \in LeavePeriodId /\ calls[c].columns \in Columns
         /\ At(c, "deleteLeavePeriod") => calls[c].id \in LeavePeriodId
         /\ At(c, "insertType") => calls[c].row \in TypeRow
         /\ At(c, "writeType") => calls[c].id \in TypeId /\ calls[c].active \in BOOLEAN
         /\ At(c, "isUsed") \/ At(c, "deleteType") => calls[c].id \in TypeId
         /\ At(c, "findDefault") \/ At(c, "insertDefault") =>
              calls[c].period \in LeavePeriodId /\ calls[c].at \in DOMAIN DefaultTypes
         /\ At(c, "readBalance") \/ At(c, "initPeriod") \/ At(c, "insertRequest") =>
              calls[c].ref \in Reference
         /\ At(c, "readType") \/ At(c, "upsert") \/ At(c, "reread") =>
              calls[c].ref \in Reference /\ calls[c].target \in LeavePeriodId
<1>1. c \in Call /\ calls[c] \in CallRecord /\ WellDated(calls[c])
  BY RowOfTable DEF CallsInv
<1>2. PICK call \in CallRecord : call = calls[c]
  BY <1>1
<1> QED  BY <1>1, <1>2 DEF CallRecord, At

\* A call that begins, goes on or returns leaves the others alone.
LEMMA GotoKeepsCalls ==
  ASSUME CallsInv, NEW c \in Call, NEW rec \in CallRecord, WellDated(rec), Goto(c, rec)
  PROVE  CallsInv'
<1>1. IsTable(calls', Call, CallRecord)
  BY PutIsTable DEF CallsInv, Goto
<1>2. \A d \in DOMAIN calls' : WellDated(calls'[d])
  BY DEF CallsInv, Goto, Put
<1> QED  BY <1>1, <1>2 DEF CallsInv, WellDated

LEMMA ReturnKeepsCalls ==
  ASSUME CallsInv, NEW c, Return(c)
  PROVE  CallsInv'
<1>1. IsTable(calls', Call, CallRecord)
  BY DropIsTable DEF CallsInv, Return
<1>2. \A d \in DOMAIN calls' : WellDated(calls'[d])
  BY DEF CallsInv, Return, Drop
<1> QED  BY <1>1, <1>2 DEF CallsInv, WellDated

\* No id is beyond its bound.
LEMMA AdminLimits ==
  ASSUME AdministrationAssumption, AdminInv
  PROVE  /\ leavePeriodSeq \in 0 .. MaxLeavePeriods /\ typeSeq \in 0 .. MaxTypes
         /\ IsFiniteSet(DOMAIN calls) /\ IsFiniteSet(Opening) /\ Cardinality(Opening) \in Nat
         /\ IsColumn(Drawing) /\ SumOf(Drawing) \in Nat
<1>1. IsFiniteSet(DOMAIN calls) /\ Opening \subseteq DOMAIN calls
  BY FS_Subset DEF AdminInv, CallsInv, IsTable, AdministrationAssumption, Opening
<1>2. IsFiniteSet(Opening) /\ Cardinality(Opening) \in Nat
  BY <1>1, FS_Subset, FS_CardinalityType
<1>3. \A c \in DOMAIN calls : Draws(calls[c]) \in Nat
  <2>1. Len(DefaultTypes) \in Nat /\ DOMAIN DefaultTypes = 1 .. Len(DefaultTypes)
    BY DEF AdministrationAssumption
  <2>2. \A c \in DOMAIN calls :
          calls[c].pc \in {"findDefault", "insertDefault"} => calls[c].at \in DOMAIN DefaultTypes
    BY CallShape DEF AdminInv, At
  <2> QED  BY <2>1, <2>2 DEF Draws
<1>4. IsColumn(Drawing)
  BY <1>1, <1>3 DEF IsColumn, Drawing
<1>5. SumOf(Drawing) \in Nat
  <2>1. \A c : Term(Drawing, c) >= 0
    BY <1>3 DEF Term, Drawing
  <2> DEFINE none == [c \in {} |-> 0]
  <2>2. /\ IsColumn(none) /\ SumOf(none) = 0
        /\ \A c : Term(none, c) = 0
    BY FS_EmptySet, SumOfEmpty DEF IsColumn, Term
  <2> HIDE DEF none
  <2>3. \A c : Term(none, c) <= Term(Drawing, c)
    BY <2>1, <2>2
  <2> QED  BY <1>4, <2>2, <2>3, SumOfMonotonic, SumOfIsInt
<1>6. /\ MaxLeavePeriods \in Nat /\ MaxTypes \in Nat /\ leavePeriodSeq \in Nat /\ typeSeq \in Nat
  BY DEF AdministrationAssumption, AdminInv, PeriodsInv, TypesInv
<1> QED  BY <1>1, <1>2, <1>4, <1>5, <1>6 DEF AdminInv, BoundsInv

\* A handler starts by reading; there is room for the ids it may take.
LEMMA NewCallMoves ==
  ASSUME AdministrationAssumption, AdminInv, NEW c \in Call, NewAdminCall(c)
  PROVE  /\ Free(c) /\ ReadOnly
         /\ \E rec \in CallRecord :
              /\ WellDated(rec) /\ Goto(c, rec)
              /\ rec.pc = "insertLeavePeriod" => leavePeriodSeq + Cardinality(Opening) < MaxLeavePeriods
              /\ Draws(rec) = 0 \/ RoomForTypes(Draws(rec))
<1>0. /\ Free(c) /\ ReadOnly
      /\ \A p \in DOMAIN leavePeriods : p \in LeavePeriodId /\ leavePeriods[p] \in LeavePeriodRow
      /\ \A t \in DOMAIN types : t \in TypeId
  <2>0. leavePeriodSeq \in 0 .. MaxLeavePeriods /\ typeSeq \in 0 .. MaxTypes
    BY AdminLimits
  <2>1. Free(c) /\ ReadOnly
    BY DEF NewAdminCall, CreateLeavePeriod, UpdateLeavePeriod, RemoveLeavePeriod, CreateType, UpdateType,
           RemoveType, SetupDefaultTypes, Submit
  <2>2. leavePeriodSeq \in Nat /\ typeSeq \in Nat /\ MaxLeavePeriods \in Nat /\ MaxTypes \in Nat
    BY DEF AdminInv, PeriodsInv, TypesInv, AdministrationAssumption
  <2>3. 1 .. leavePeriodSeq \subseteq LeavePeriodId /\ 1 .. typeSeq \subseteq TypeId
    BY <2>0, <2>2 DEF LeavePeriodId, TypeId
  <2> QED
    BY <2>1, <2>3, RowOfTable DEF AdminInv, PeriodsInv, TypesInv
<1>1. CASE CreateLeavePeriod(c)
  <2>1. PICK body \in PeriodBody :
          /\ body.from < body.to
          /\ Goto(c, [pc |-> "insertLeavePeriod",
                      row |-> [from |-> body.from, to |-> body.to, active |-> FALSE]])
    BY <1>1 DEF CreateLeavePeriod
  <2> DEFINE row == [from |-> body.from, to |-> body.to, active |-> FALSE]
  <2>2. row \in LeavePeriodRow /\ row.from < row.to
    BY <2>1 DEF AdministrationAssumption, LeavePeriodRow
  <2> HIDE DEF row
  <2>3. /\ [pc |-> "insertLeavePeriod", row |-> row] \in CallRecord
        /\ WellDated([pc |-> "insertLeavePeriod", row |-> row])
        /\ Draws([pc |-> "insertLeavePeriod", row |-> row]) = 0
    BY <2>2 DEF CallRecord, WellDated, Draws
  <2>4. leavePeriodSeq + Cardinality(Opening) < MaxLeavePeriods
    BY <1>1 DEF CreateLeavePeriod
  <2> QED  BY <1>0, <2>1, <2>3, <2>4 DEF row
<1>2. CASE UpdateLeavePeriod(c)
  <2> DEFINE New(p, patch) == [leavePeriods[p] EXCEPT !.from = Setting(patch, "from", @),
                                                 !.to = Setting(patch, "to", @),
                                                 !.active = Setting(patch, "active", @)]
             Names(patch) == IF DOMAIN patch \cap {"from", "to"} = {}
                               THEN DOMAIN patch ELSE DOMAIN patch \cup {"from", "to"}
  <2>0. PICK p \in DOMAIN leavePeriods, patch \in PeriodPatch :
          /\ {"from", "to"} \subseteq Names(patch) => New(p, patch).from < New(p, patch).to
          /\ Goto(c, [pc |-> "writeLeavePeriod", id |-> p,
                      columns |-> [column \in Names(patch) |-> New(p, patch)[column]]])
    BY <1>2 DEF UpdateLeavePeriod
  <2> DEFINE row == New(p, patch)
             columns == Names(patch)
  <2>1. /\ row = [leavePeriods[p] EXCEPT !.from = Setting(patch, "from", @),
                                    !.to = Setting(patch, "to", @),
                                    !.active = Setting(patch, "active", @)]
        /\ columns = IF DOMAIN patch \cap {"from", "to"} = {}
                       THEN DOMAIN patch ELSE DOMAIN patch \cup {"from", "to"}
        /\ {"from", "to"} \subseteq columns => row.from < row.to
        /\ Goto(c, [pc |-> "writeLeavePeriod", id |-> p,
                    columns |-> [column \in columns |-> row[column]]])
    BY <2>0
  <2> HIDE DEF row, columns, New, Names
  <2>2. p \in LeavePeriodId /\ leavePeriods[p] \in LeavePeriodRow
    BY <1>0
  <2>3. /\ DOMAIN patch \subseteq {"from", "to", "active"}
        /\ "from" \in DOMAIN patch => patch.from \in Int
        /\ "to" \in DOMAIN patch => patch.to \in Int
        /\ "active" \in DOMAIN patch => patch.active \in BOOLEAN
    BY DEF AdministrationAssumption, Date
  <2>4. row \in LeavePeriodRow
    BY <2>1, <2>2, <2>3 DEF LeavePeriodRow, Date, Setting
  <2>5. PICK new : new = [column \in columns |-> row[column]]
    OBVIOUS
  <2>6. /\ new \in Columns /\ DOMAIN new = columns
        /\ {"from", "to"} \cap columns # {} =>
             {"from", "to"} \subseteq columns /\ new.from < new.to
    <3>1. \/ columns = {} \/ columns = {"active"} \/ columns = {"from", "to"}
          \/ columns = {"from", "to", "active"}
      BY <2>1, <2>3
    <3>2. CASE columns = {}
      <4>1. new = << >>
        BY <2>5, <3>2
      <4> QED  BY <2>5, <3>2, <4>1 DEF Columns
    <3>3. CASE columns = {"active"}
      BY <2>4, <2>5, <3>3 DEF Columns, LeavePeriodRow
    <3>4. CASE columns = {"from", "to"}
      BY <2>1, <2>4, <2>5, <3>4 DEF Columns, LeavePeriodRow
    <3>5. CASE columns = {"from", "to", "active"}
      BY <2>1, <2>4, <2>5, <3>5 DEF Columns, LeavePeriodRow
    <3> QED  BY <3>1, <3>2, <3>3, <3>4, <3>5
  <2>7. /\ [pc |-> "writeLeavePeriod", id |-> p, columns |-> new] \in CallRecord
        /\ WellDated([pc |-> "writeLeavePeriod", id |-> p, columns |-> new])
        /\ Draws([pc |-> "writeLeavePeriod", id |-> p, columns |-> new]) = 0
    BY <2>2, <2>6 DEF CallRecord, WellDated, Draws
  <2> QED  BY <1>0, <2>1, <2>5, <2>7
<1>3. CASE RemoveLeavePeriod(c)
  <2>1. PICK p \in LeavePeriodId : Goto(c, [pc |-> "deleteLeavePeriod", id |-> p])
    BY <1>0, <1>3 DEF RemoveLeavePeriod
  <2>2. /\ [pc |-> "deleteLeavePeriod", id |-> p] \in CallRecord
        /\ WellDated([pc |-> "deleteLeavePeriod", id |-> p])
        /\ Draws([pc |-> "deleteLeavePeriod", id |-> p]) = 0
    BY DEF CallRecord, WellDated, Draws
  <2> QED  BY <1>0, <2>1, <2>2
<1>4. CASE CreateType(c)
  <2>1. PICK p \in LeavePeriodId, k \in Kind, on \in BOOLEAN :
          Goto(c, [pc |-> "insertType", row |-> [period |-> p, kind |-> k, active |-> on]])
    BY <1>0, <1>4 DEF CreateType
  <2>2. PICK row \in TypeRow : row = [period |-> p, kind |-> k, active |-> on]
    BY DEF TypeRow
  <2>3. /\ [pc |-> "insertType", row |-> row] \in CallRecord
        /\ WellDated([pc |-> "insertType", row |-> row])
        /\ Draws([pc |-> "insertType", row |-> row]) = 1
    BY DEF CallRecord, WellDated, Draws
  <2>4. RoomForTypes(1)
    BY <1>4 DEF CreateType
  <2> QED  BY <1>0, <2>1, <2>2, <2>3, <2>4
<1>5. CASE UpdateType(c)
  <2>1. PICK t \in TypeId, on \in BOOLEAN :
          Goto(c, [pc |-> "writeType", id |-> t, active |-> on])
    BY <1>0, <1>5 DEF UpdateType
  <2>2. /\ [pc |-> "writeType", id |-> t, active |-> on] \in CallRecord
        /\ WellDated([pc |-> "writeType", id |-> t, active |-> on])
        /\ Draws([pc |-> "writeType", id |-> t, active |-> on]) = 0
    BY DEF CallRecord, WellDated, Draws
  <2> QED  BY <1>0, <2>1, <2>2
<1>6. CASE RemoveType(c)
  <2>1. PICK t \in TypeId : Goto(c, [pc |-> "isUsed", id |-> t])
    BY <1>0, <1>6 DEF RemoveType
  <2>2. /\ [pc |-> "isUsed", id |-> t] \in CallRecord
        /\ WellDated([pc |-> "isUsed", id |-> t]) /\ Draws([pc |-> "isUsed", id |-> t]) = 0
    BY DEF CallRecord, WellDated, Draws
  <2> QED  BY <1>0, <2>1, <2>2
<1>7. CASE SetupDefaultTypes(c)
  <2>1. PICK p \in LeavePeriodId : Goto(c, [pc |-> "findDefault", period |-> p, at |-> 1])
    BY <1>0, <1>7 DEF SetupDefaultTypes
  <2>2. 1 \in DOMAIN DefaultTypes /\ Len(DefaultTypes) \in Nat
    BY DEF AdministrationAssumption
  <2>3. /\ [pc |-> "findDefault", period |-> p, at |-> 1] \in CallRecord
        /\ WellDated([pc |-> "findDefault", period |-> p, at |-> 1])
        /\ Draws([pc |-> "findDefault", period |-> p, at |-> 1]) = Len(DefaultTypes)
    BY <2>2 DEF CallRecord, WellDated, Draws
  <2>4. RoomForTypes(Len(DefaultTypes))
    BY <1>7 DEF SetupDefaultTypes
  <2> QED  BY <1>0, <2>1, <2>3, <2>4
<1>8. CASE Submit(c)
  <2>1. PICK p \in LeavePeriodId, t \in TypeId :
          Goto(c, [pc |-> "readBalance", ref |-> [period |-> p, type |-> t]])
    BY <1>0, <1>8 DEF Submit, ActiveLeavePeriods
  <2>2. PICK ref \in Reference : ref = [period |-> p, type |-> t]
    BY DEF Reference
  <2>3. /\ [pc |-> "readBalance", ref |-> ref] \in CallRecord
        /\ WellDated([pc |-> "readBalance", ref |-> ref])
        /\ Draws([pc |-> "readBalance", ref |-> ref]) = 0
    BY DEF CallRecord, WellDated, Draws
  <2> QED  BY <1>0, <2>1, <2>2, <2>3
<1> QED  BY <1>1, <1>2, <1>3, <1>4, <1>5, <1>6, <1>7, <1>8 DEF NewAdminCall

\* The loop over the default types goes on, or the call returns.
LEMMA NextDefaultMoves ==
  ASSUME AdministrationAssumption, CallsInv, NEW c, At(c, "findDefault") \/ At(c, "insertDefault"),
         NextDefault(c)
  PROVE  \/ Return(c) /\ calls[c].at = Len(DefaultTypes)
         \/ \E rec \in CallRecord :
              /\ Goto(c, rec) /\ WellDated(rec)
              /\ rec = [pc |-> "findDefault", period |-> calls[c].period, at |-> calls[c].at + 1]
              /\ Draws(rec) + 1 = Draws(calls[c])
<1>1. /\ calls[c].period \in LeavePeriodId /\ calls[c].at \in DOMAIN DefaultTypes
      /\ DOMAIN DefaultTypes = 1 .. Len(DefaultTypes) /\ Len(DefaultTypes) \in Nat
  BY CallShape DEF At, AdministrationAssumption
<1>2. CASE calls[c].at < Len(DefaultTypes)
  <2>0. calls[c].at + 1 \in DOMAIN DefaultTypes
    <3>1. PICK at \in 1 .. Len(DefaultTypes) : at = calls[c].at
      BY <1>1
    <3>2. at < Len(DefaultTypes) => at + 1 \in 1 .. Len(DefaultTypes)
      BY <1>1
    <3> QED  BY <1>1, <1>2, <3>1, <3>2
  <2>1. PICK p \in LeavePeriodId, n \in DOMAIN DefaultTypes :
          p = calls[c].period /\ n = calls[c].at + 1
    BY <1>1, <2>0
  <2>2. /\ [pc |-> "findDefault", period |-> p, at |-> n] \in CallRecord
        /\ WellDated([pc |-> "findDefault", period |-> p, at |-> n])
        /\ Draws([pc |-> "findDefault", period |-> p, at |-> n]) = Len(DefaultTypes) + 1 - n
    BY DEF CallRecord, WellDated, Draws
  <2>3. Draws(calls[c]) = Len(DefaultTypes) + 1 - calls[c].at
    BY DEF Draws, At
  <2> QED  BY <1>1, <1>2, <2>1, <2>2, <2>3 DEF NextDefault
<1>3. CASE ~(calls[c].at < Len(DefaultTypes))
  BY <1>1, <1>3 DEF NextDefault
<1> QED  BY <1>2, <1>3

\* A handler that goes on, returns or fails takes no more ids than it may.
LEMMA StepMoves ==
  ASSUME AdministrationAssumption, AdminInv, NEW c, AdministrationStep(c) \/ AdminFail(c)
  PROVE  /\ c \in DOMAIN calls
         /\ \/ Return(c) /\ typeSeq' <= typeSeq + Draws(calls[c])
            \/ \E rec \in CallRecord :
                 /\ Goto(c, rec) /\ WellDated(rec) /\ rec.pc # "insertLeavePeriod"
                 /\ typeSeq' + Draws(rec) <= typeSeq + Draws(calls[c])
<1>0. /\ typeSeq \in Nat /\ CallsInv
      /\ c \in DOMAIN calls => Draws(calls[c]) \in Nat
  <2>1. c \in DOMAIN calls => Drawing[c] \in Int /\ Drawing[c] = Draws(calls[c])
    BY AdminLimits DEF IsColumn, Drawing
  <2>2. Len(DefaultTypes) \in Nat /\ DOMAIN DefaultTypes = 1 .. Len(DefaultTypes)
    BY DEF AdministrationAssumption
  <2>3. c \in DOMAIN calls =>
          (calls[c].pc \in {"findDefault", "insertDefault"} => calls[c].at \in DOMAIN DefaultTypes)
    BY CallShape DEF AdminInv, At
  <2> QED  BY <2>2, <2>3 DEF AdminInv, TypesInv, Draws
<1>1. CASE InsertLeavePeriod(c) \/ WriteLeavePeriod(c) \/ DeleteLeavePeriod(c) \/ WriteType(c)
           \/ DeleteType(c) \/ InsertRequest(c) \/ AdminFail(c)
  <2>1. c \in DOMAIN calls /\ Return(c) /\ typeSeq' = typeSeq
    BY <1>1 DEF InsertLeavePeriod, WriteLeavePeriod, DeleteLeavePeriod, WriteType, DeleteType,
       InsertRequest, AdminFail, TypesStay, adminTables, At
  <2>2. typeSeq <= typeSeq + Draws(calls[c])
    BY <1>0, <2>1
  <2> QED  BY <2>1, <2>2
<1>2. CASE InsertType(c)
  <2>1. Draws(calls[c]) = 1 /\ c \in DOMAIN calls
    BY <1>2 DEF InsertType, Draws, At
  <2> QED  BY <1>0, <1>2, <2>1 DEF InsertType, AddType, TypesStay
<1>3. CASE IsUsed(c)
  <2>1. c \in DOMAIN calls /\ calls[c].id \in TypeId /\ typeSeq' = typeSeq
    BY <1>0, <1>3, CallShape DEF IsUsed, At, ReadOnly, TypesStay
  <2>2. PICK t \in TypeId : t = calls[c].id
    BY <2>1
  <2>3. /\ [pc |-> "deleteType", id |-> t] \in CallRecord
        /\ WellDated([pc |-> "deleteType", id |-> t])
        /\ Draws([pc |-> "deleteType", id |-> t]) = 0
    BY DEF CallRecord, WellDated, Draws
  <2> QED  BY <1>0, <1>3, <2>1, <2>2, <2>3 DEF IsUsed
<1>4. CASE FindDefault(c)
  <2>1. c \in DOMAIN calls /\ At(c, "findDefault") /\ typeSeq' = typeSeq
    BY <1>4 DEF FindDefault, At, ReadOnly, TypesStay
  <2>2. CASE NextDefault(c)
    <3>1. CASE Return(c)
      BY <1>0, <2>1, <3>1
    <3>2. ASSUME NEW rec \in CallRecord, Goto(c, rec), WellDated(rec),
                 rec = [pc |-> "findDefault", period |-> calls[c].period,
                        at |-> calls[c].at + 1],
                 Draws(rec) + 1 = Draws(calls[c])
          PROVE  typeSeq' + Draws(rec) <= typeSeq + Draws(calls[c]) /\ rec.pc # "insertLeavePeriod"
      <4>1. PICK n \in Nat : n = Draws(calls[c])
        BY <1>0, <2>1
      <4>2. Draws(rec) \in Int
        BY <1>0, <3>2, CallShape, <2>1 DEF Draws, AdministrationAssumption
      <4> QED  BY <1>0, <2>1, <3>2, <4>1, <4>2
    <3> QED  BY <1>0, <2>1, <2>2, <3>1, <3>2, NextDefaultMoves
  <2>3. CASE Goto(c, [calls[c] EXCEPT !.pc = "insertDefault"])
    <3>1. PICK p \in LeavePeriodId, n \in DOMAIN DefaultTypes :
            calls[c] = [pc |-> "findDefault", period |-> p, at |-> n]
      BY <1>0, <2>1, CallShape DEF CallRecord, At
    <3>2. [calls[c] EXCEPT !.pc = "insertDefault"]
            = [pc |-> "insertDefault", period |-> p, at |-> n]
      BY <3>1
    <3>3. /\ [pc |-> "insertDefault", period |-> p, at |-> n] \in CallRecord
          /\ WellDated([pc |-> "insertDefault", period |-> p, at |-> n])
          /\ Draws([pc |-> "insertDefault", period |-> p, at |-> n]) = Draws(calls[c])
      BY <3>1 DEF CallRecord, WellDated, Draws
    <3> QED  BY <1>0, <2>1, <2>3, <3>2, <3>3
  <2> QED  BY <1>4, <2>2, <2>3 DEF FindDefault
<1>5. CASE InsertDefault(c)
  <2>1. c \in DOMAIN calls /\ At(c, "insertDefault")
    BY <1>5 DEF InsertDefault, At
  <2>2. CASE Return(c) /\ TypesStay
    BY <1>0, <2>1, <2>2 DEF TypesStay
  <2>3. CASE typeSeq' = typeSeq + 1 /\ NextDefault(c)
    <3>1. CASE Return(c) /\ calls[c].at = Len(DefaultTypes)
      <4>1. Draws(calls[c]) = 1
        BY <2>1, <3>1, CallShape, <1>0 DEF Draws, At, AdministrationAssumption
      <4> QED  BY <1>0, <2>1, <2>3, <3>1, <4>1
    <3>2. ASSUME NEW rec \in CallRecord, Goto(c, rec), WellDated(rec),
                 rec = [pc |-> "findDefault", period |-> calls[c].period,
                        at |-> calls[c].at + 1],
                 Draws(rec) + 1 = Draws(calls[c])
          PROVE  typeSeq' + Draws(rec) <= typeSeq + Draws(calls[c]) /\ rec.pc # "insertLeavePeriod"
      <4>1. PICK n \in Nat : n = Draws(calls[c])
        BY <1>0, <2>1
      <4>2. Draws(rec) \in Int
        BY <1>0, <3>2, CallShape, <2>1 DEF Draws, AdministrationAssumption
      <4> QED  BY <1>0, <2>1, <2>3, <3>2, <4>1, <4>2
    <3> QED  BY <1>0, <2>1, <2>3, <3>1, <3>2, NextDefaultMoves
  <2> QED  BY <1>5, <2>2, <2>3 DEF InsertDefault, AddType
<1>6. CASE ReadBalance(c) \/ InitPeriod(c) \/ ReadType(c) \/ Upsert(c) \/ Reread(c)
  <2>1. /\ c \in DOMAIN calls /\ typeSeq' = typeSeq
        /\ calls[c].pc \in {"readBalance", "initPeriod", "readType", "upsert", "reread"}
    BY <1>6 DEF ReadBalance, InitPeriod, ReadType, Upsert, Reread, At, ReadOnly, TypesStay
  <2>2. \A p \in DOMAIN leavePeriods : p \in LeavePeriodId
    BY AdminLimits, RowOfTable DEF AdminInv, PeriodsInv, LeavePeriodId, AdministrationAssumption
  <2>3. PICK ref \in Reference : ref = calls[c].ref
    BY <1>0, <2>1, CallShape DEF At
  <2>4. calls[c].pc \in {"readType", "upsert", "reread"} =>
          \E p \in LeavePeriodId : calls[c] = [pc |-> calls[c].pc, ref |-> ref, target |-> p]
    BY <1>0, <2>1, <2>3, CallShape DEF CallRecord
  <2>5. \/ Return(c)
        \/ \E p \in LeavePeriodId, l \in {"readType", "upsert", "reread"} :
             Goto(c, [pc |-> l, ref |-> ref, target |-> p])
        \/ \E l \in {"initPeriod", "insertRequest"} : Goto(c, [pc |-> l, ref |-> ref])
    <3>1. CASE ReadBalance(c) \/ Reread(c)
      BY <2>3, <3>1 DEF ReadBalance, Reread
    <3>2. CASE InitPeriod(c)
      BY <2>2, <2>3, <3>2 DEF InitPeriod, ActiveLeavePeriods
    <3>3. CASE ReadType(c)
      <4>1. CASE Return(c)
        BY <4>1
      <4>2. CASE Goto(c, [calls[c] EXCEPT !.pc = "upsert"])
        <5>1. calls[c].pc = "readType"
          BY <3>3 DEF ReadType, At
        <5>2. PICK p \in LeavePeriodId : calls[c] = [pc |-> "readType", ref |-> ref, target |-> p]
          BY <2>4, <5>1
        <5>3. [calls[c] EXCEPT !.pc = "upsert"] = [pc |-> "upsert", ref |-> ref, target |-> p]
          BY <5>2
        <5> QED  BY <4>2, <5>3
      <4> QED  BY <3>3, <4>1, <4>2 DEF ReadType
    <3>4. CASE Upsert(c)
      <4>1. CASE Return(c)
        BY <4>1
      <4>2. CASE Goto(c, [calls[c] EXCEPT !.pc = "reread"])
        <5>1. calls[c].pc = "upsert"
          BY <3>4 DEF Upsert, At
        <5>2. PICK p \in LeavePeriodId : calls[c] = [pc |-> "upsert", ref |-> ref, target |-> p]
          BY <2>4, <5>1
        <5>3. [calls[c] EXCEPT !.pc = "reread"] = [pc |-> "reread", ref |-> ref, target |-> p]
          BY <5>2
        <5> QED  BY <4>2, <5>3
      <4> QED  BY <3>4, <4>1, <4>2 DEF Upsert
    <3> QED  BY <1>6, <3>1, <3>2, <3>3, <3>4
  <2>6. \A p \in LeavePeriodId, l \in {"readType", "upsert", "reread"} :
          /\ [pc |-> l, ref |-> ref, target |-> p] \in CallRecord
          /\ WellDated([pc |-> l, ref |-> ref, target |-> p])
          /\ Draws([pc |-> l, ref |-> ref, target |-> p]) = 0
    BY DEF CallRecord, WellDated, Draws
  <2>7. \A l \in {"initPeriod", "insertRequest"} :
          /\ [pc |-> l, ref |-> ref] \in CallRecord
          /\ WellDated([pc |-> l, ref |-> ref]) /\ Draws([pc |-> l, ref |-> ref]) = 0
    BY DEF CallRecord, WellDated, Draws
  <2>8. typeSeq' <= typeSeq + Draws(calls[c]) /\ typeSeq' + 0 <= typeSeq + Draws(calls[c])
    BY <1>0, <2>1
  <2>9. CASE Return(c)
    BY <2>1, <2>8, <2>9
  <2>10. ASSUME NEW p \in LeavePeriodId, NEW l \in {"readType", "upsert", "reread"},
                Goto(c, [pc |-> l, ref |-> ref, target |-> p])
         PROVE  \E rec \in CallRecord :
                  /\ Goto(c, rec) /\ WellDated(rec) /\ rec.pc # "insertLeavePeriod"
                  /\ typeSeq' + Draws(rec) <= typeSeq + Draws(calls[c])
    BY <2>6, <2>8, <2>10
  <2>11. ASSUME NEW l \in {"initPeriod", "insertRequest"}, Goto(c, [pc |-> l, ref |-> ref])
         PROVE  \E rec \in CallRecord :
                  /\ Goto(c, rec) /\ WellDated(rec) /\ rec.pc # "insertLeavePeriod"
                  /\ typeSeq' + Draws(rec) <= typeSeq + Draws(calls[c])
    BY <2>7, <2>8, <2>11
  <2> QED  BY <2>1, <2>5, <2>9, <2>10, <2>11
<1> QED  BY <1>1, <1>2, <1>3, <1>4, <1>5, <1>6 DEF AdministrationStep

-----------------------------------------------------------------------------
(* The tables.                                                             *)

\* Dates are changed together, to dates in order.
LEMMA PeriodsKept ==
  ASSUME AdminInv, NEW c,
         InsertLeavePeriod(c) \/ WriteLeavePeriod(c) \/ DeleteLeavePeriod(c) \/ UNCHANGED <<leavePeriods, leavePeriodSeq>>
  PROVE  PeriodsInv'
<1>0. /\ leavePeriodSeq \in Nat /\ IsTable(leavePeriods, 1 .. leavePeriodSeq, LeavePeriodRow)
      /\ \A p \in DOMAIN leavePeriods : leavePeriods[p].from < leavePeriods[p].to
  BY DEF AdminInv, PeriodsInv
<1>1. CASE InsertLeavePeriod(c)
  <2>1. /\ calls[c].row \in LeavePeriodRow /\ calls[c].row.from < calls[c].row.to
        /\ leavePeriodSeq' = leavePeriodSeq + 1 /\ leavePeriods' = Put(leavePeriods, leavePeriodSeq + 1, calls[c].row)
    BY <1>1, CallShape DEF InsertLeavePeriod, At, AdminInv, WellDated
  <2>2. 1 .. leavePeriodSeq \subseteq 1 .. leavePeriodSeq' /\ leavePeriodSeq + 1 \in 1 .. leavePeriodSeq'
        /\ leavePeriodSeq' \in Nat
    BY <1>0, <2>1
  <2>3. IsTable(leavePeriods, 1 .. leavePeriodSeq', LeavePeriodRow)
    BY <1>0, <2>2 DEF IsTable
  <2>4. IsTable(leavePeriods', 1 .. leavePeriodSeq', LeavePeriodRow)
    BY <2>1, <2>2, <2>3, PutIsTable
  <2> QED  BY <1>0, <2>1, <2>2, <2>4 DEF PeriodsInv, Put
<1>2. CASE WriteLeavePeriod(c)
  <2> DEFINE p == calls[c].id
             new == calls[c].columns
             row == [leavePeriods[p] EXCEPT !.from = Setting(new, "from", @),
                                       !.to = Setting(new, "to", @),
                                       !.active = Setting(new, "active", @)]
  <2>1. c \in DOMAIN calls /\ new \in Columns /\ WellDated(calls[c])
        /\ calls[c].pc = "writeLeavePeriod"
    BY <1>2, CallShape DEF WriteLeavePeriod, At, AdminInv
  <2>2. leavePeriodSeq' = leavePeriodSeq
    BY <1>2 DEF WriteLeavePeriod
  <2>3. CASE p \notin DOMAIN leavePeriods
    BY <1>0, <1>2, <2>2, <2>3 DEF WriteLeavePeriod, PeriodsInv
  <2>4. CASE p \in DOMAIN leavePeriods
    <3>1. leavePeriods' = [leavePeriods EXCEPT ![p] = row]
      BY <1>2, <2>4 DEF WriteLeavePeriod
    <3>2. leavePeriods[p] \in LeavePeriodRow /\ leavePeriods[p].from < leavePeriods[p].to
      BY <1>0, <2>4, RowOfTable
    <3>3. /\ "from" \in DOMAIN new => new.from \in Int
          /\ "to" \in DOMAIN new => new.to \in Int
          /\ "active" \in DOMAIN new => new.active \in BOOLEAN
      BY <2>1 DEF Columns, LeavePeriodRow, Date
    <3>4. "from" \in DOMAIN new \/ "to" \in DOMAIN new =>
            "from" \in DOMAIN new /\ "to" \in DOMAIN new /\ new.from < new.to
      BY <2>1 DEF WellDated
    <3>5. row \in LeavePeriodRow /\ row.from < row.to
      BY <3>2, <3>3, <3>4 DEF LeavePeriodRow, Date, Setting
    <3> HIDE DEF row
    <3>6. IsTable(leavePeriods', 1 .. leavePeriodSeq', LeavePeriodRow)
      BY <1>0, <2>2, <2>4, <3>1, <3>5, ExceptIsTable
    <3> QED  BY <1>0, <2>2, <3>1, <3>5, <3>6 DEF PeriodsInv
  <2> QED  BY <2>3, <2>4
<1>3. CASE DeleteLeavePeriod(c)
  <2>1. leavePeriodSeq' = leavePeriodSeq /\ (leavePeriods' = leavePeriods \/ leavePeriods' = Drop(leavePeriods, calls[c].id))
    BY <1>3 DEF DeleteLeavePeriod
  <2>2. IsTable(leavePeriods', 1 .. leavePeriodSeq', LeavePeriodRow)
    BY <1>0, <2>1, DropIsTable
  <2> QED  BY <1>0, <2>1, <2>2 DEF PeriodsInv, Drop
<1>4. CASE UNCHANGED <<leavePeriods, leavePeriodSeq>>
  BY <1>0, <1>4 DEF PeriodsInv
<1> QED  BY <1>1, <1>2, <1>3, <1>4

\* A type is added where the unique key and the foreign key allow it.
LEMMA AddTypeKept ==
  ASSUME TypesInv, NEW row \in TypeRow, Insertable(row), AddType(row),
         DOMAIN leavePeriods' = DOMAIN leavePeriods
  PROVE  TypesInv' /\ DOMAIN types \subseteq DOMAIN types'
<1>0. /\ typeSeq \in Nat /\ IsTable(types, 1 .. typeSeq, TypeRow) /\ UniqueTypes
      /\ \A t \in DOMAIN types : types[t].period \in DOMAIN leavePeriods
  BY DEF TypesInv
<1>1. typeSeq' = typeSeq + 1 /\ types' = Put(types, typeSeq + 1, row)
  BY DEF AddType
<1>2. 1 .. typeSeq \subseteq 1 .. typeSeq' /\ typeSeq + 1 \in 1 .. typeSeq' /\ typeSeq' \in Nat
      /\ typeSeq + 1 \notin 1 .. typeSeq
  BY <1>0, <1>1
<1>3. IsTable(types, 1 .. typeSeq', TypeRow)
  BY <1>0, <1>2 DEF IsTable
<1>4. IsTable(types', 1 .. typeSeq', TypeRow)
  BY <1>1, <1>2, <1>3, PutIsTable
<1>5. /\ DOMAIN types' = DOMAIN types \cup {typeSeq + 1}
      /\ types'[typeSeq + 1] = row
      /\ \A t \in DOMAIN types : t # typeSeq + 1 /\ types'[t] = types[t]
  BY <1>0, <1>1, <1>2 DEF Put, IsTable
<1>6. \A t \in DOMAIN types : ~ (types[t].period = row.period /\ types[t].kind = row.kind)
  BY DEF Insertable, TypesOf
<1>7. UniqueTypes'
  BY <1>0, <1>5, <1>6 DEF UniqueTypes
<1>8. \A t \in DOMAIN types' : types'[t].period \in DOMAIN leavePeriods'
  BY <1>0, <1>5 DEF Insertable
<1> QED  BY <1>2, <1>4, <1>5, <1>7, <1>8 DEF TypesInv

\* What the deletion of a period leaves.
LEMMA PeriodDeleted ==
  ASSUME NEW c, DeleteLeavePeriod(c)
  PROVE  \/ UNCHANGED <<adminTables>>
         \/ /\ DOMAIN leavePeriods' = DOMAIN leavePeriods \ {calls[c].id}
            /\ DOMAIN types' = DOMAIN types \ TypesOf(calls[c].id)
            /\ \A t \in DOMAIN types' : types'[t] = types[t]
            /\ typeSeq' = typeSeq /\ requests' = requests
            /\ balances' = {b \in balances : ~ (b.period = calls[c].id
                                                \/ b.type \in TypesOf(calls[c].id))}
            /\ \A r \in requests : ~ (r.period = calls[c].id \/ r.type \in TypesOf(calls[c].id))
            /\ types' = [t \in DOMAIN types \ TypesOf(calls[c].id) |-> types[t]]
BY DEF DeleteLeavePeriod, adminTables, Drop

\* Kinds stay unique in a period, and no type outlives its period.
LEMMA TypesKept ==
  ASSUME AdministrationAssumption, AdminInv, NEW c,
         \/ InsertType(c) \/ InsertDefault(c) \/ WriteType(c) \/ DeleteType(c) \/ DeleteLeavePeriod(c)
         \/ UNCHANGED <<types, typeSeq>> /\ DOMAIN leavePeriods \subseteq DOMAIN leavePeriods'
  PROVE  TypesInv'
<1>0. /\ typeSeq \in Nat /\ IsTable(types, 1 .. typeSeq, TypeRow) /\ UniqueTypes
      /\ \A t \in DOMAIN types : types[t] \in TypeRow /\ types[t].period \in DOMAIN leavePeriods
  BY RowOfTable DEF AdminInv, TypesInv
<1>1. ASSUME UNCHANGED <<types, typeSeq>>, DOMAIN leavePeriods \subseteq DOMAIN leavePeriods'
      PROVE  TypesInv'
  BY <1>0, <1>1 DEF TypesInv, UniqueTypes
<1>2. CASE InsertType(c)
  <2>1. calls[c].row \in TypeRow /\ DOMAIN leavePeriods' = DOMAIN leavePeriods
    BY <1>2, CallShape DEF InsertType, At, AdminInv, LeavePeriodsStay
  <2> QED  BY <1>1, <1>2, <2>1, AddTypeKept DEF InsertType, AdminInv, TypesStay
<1>3. CASE InsertDefault(c)
  <2> DEFINE row == [period |-> calls[c].period, kind |-> DefaultTypes[calls[c].at],
                     active |-> TRUE]
  <2>1. DOMAIN leavePeriods' = DOMAIN leavePeriods
    BY <1>3 DEF InsertDefault, LeavePeriodsStay
  <2>2. CASE UNCHANGED <<types, typeSeq>>
    BY <1>1, <2>1, <2>2
  <2>3. CASE Insertable(row) /\ AddType(row)
    <3>1. row.period \in LeavePeriodId
      BY <1>3, CallShape DEF InsertDefault, At, AdminInv
    <3>2. calls[c].at \in DOMAIN DefaultTypes
      BY <1>3, CallShape DEF InsertDefault, At, AdminInv
    <3>3. DefaultTypes[calls[c].at] \in Kind
      BY <3>2 DEF AdministrationAssumption
    <3>4. row \in TypeRow
      BY <3>1, <3>3 DEF TypeRow
    <3> HIDE DEF row
    <3> QED  BY <2>1, <2>3, <3>4, AddTypeKept DEF AdminInv
  <2> QED  BY <1>3, <2>2, <2>3 DEF InsertDefault, TypesStay
<1>4. CASE WriteType(c)
  <2>1. typeSeq' = typeSeq /\ DOMAIN leavePeriods' = DOMAIN leavePeriods /\ calls[c].active \in BOOLEAN
    BY <1>4, CallShape DEF WriteType, At, AdminInv, LeavePeriodsStay
  <2>2. CASE types' = types
    BY <1>1, <2>1, <2>2
  <2>3. CASE calls[c].id \in DOMAIN types
    <3> DEFINE t == calls[c].id
               row == [types[t] EXCEPT !.active = calls[c].active]
    <3>1. types' = [types EXCEPT ![t] = row]
      BY <1>4, <2>3 DEF WriteType
    <3>2. row \in TypeRow /\ row.period = types[t].period /\ row.kind = types[t].kind
      BY <1>0, <2>1, <2>3 DEF TypeRow
    <3> HIDE DEF row
    <3>3. IsTable(types', 1 .. typeSeq', TypeRow)
      BY <1>0, <2>1, <2>3, <3>1, <3>2, ExceptIsTable
    <3>4. /\ DOMAIN types' = DOMAIN types
          /\ \A s \in DOMAIN types :
               types'[s].period = types[s].period /\ types'[s].kind = types[s].kind
      BY <3>1, <3>2
    <3> QED  BY <1>0, <2>1, <3>3, <3>4 DEF TypesInv, UniqueTypes
  <2> QED  BY <1>4, <2>2, <2>3 DEF WriteType
<1>5. CASE DeleteType(c)
  <2>1. /\ typeSeq' = typeSeq /\ DOMAIN leavePeriods' = DOMAIN leavePeriods
        /\ types' = types \/ types' = Drop(types, calls[c].id)
    BY <1>5 DEF DeleteType, LeavePeriodsStay
  <2>2. CASE types' = types
    BY <1>1, <2>1, <2>2
  <2>3. CASE types' = Drop(types, calls[c].id)
    <3>1. IsTable(types', 1 .. typeSeq', TypeRow)
      BY <1>0, <2>1, <2>3, DropIsTable
    <3> QED  BY <1>0, <2>1, <2>3, <3>1 DEF TypesInv, UniqueTypes, Drop
  <2> QED  BY <2>1, <2>2, <2>3
<1>6. CASE DeleteLeavePeriod(c)
  <2>1. CASE UNCHANGED <<adminTables>>
    BY <1>1, <2>1 DEF adminTables
  <2>2. CASE /\ DOMAIN leavePeriods' = DOMAIN leavePeriods \ {calls[c].id}
             /\ DOMAIN types' = DOMAIN types \ TypesOf(calls[c].id)
             /\ \A t \in DOMAIN types' : types'[t] = types[t]
             /\ typeSeq' = typeSeq
             /\ types' = [t \in DOMAIN types \ TypesOf(calls[c].id) |-> types[t]]
    <3>1. IsTable(types', 1 .. typeSeq', TypeRow)
      BY <1>0, <2>2 DEF IsTable
    <3>2. \A t \in DOMAIN types' : types[t].period # calls[c].id
      BY <2>2 DEF TypesOf
    <3> QED  BY <1>0, <2>2, <3>1, <3>2 DEF TypesInv, UniqueTypes
  <2> QED  BY <1>6, <2>1, <2>2, PeriodDeleted
<1> QED  BY <1>1, <1>2, <1>3, <1>4, <1>5, <1>6

\* No balance and no request refers to what is not there.
LEMMA UsesKept ==
  ASSUME AdminInv, NEW c,
         \/ Upsert(c) \/ InsertRequest(c) \/ DeleteType(c) \/ DeleteLeavePeriod(c)
         \/ /\ UNCHANGED <<balances, requests>>
            /\ DOMAIN leavePeriods \subseteq DOMAIN leavePeriods' /\ DOMAIN types \subseteq DOMAIN types'
  PROVE  UsesInv'
<1>0. /\ balances \subseteq Reference /\ requests \subseteq Reference
      /\ \A r \in balances \cup requests : r.period \in DOMAIN leavePeriods /\ r.type \in DOMAIN types
  BY DEF AdminInv, UsesInv, References
<1>1. ASSUME UNCHANGED <<balances, requests>>,
             DOMAIN leavePeriods \subseteq DOMAIN leavePeriods', DOMAIN types \subseteq DOMAIN types'
      PROVE  UsesInv'
  BY <1>0, <1>1 DEF UsesInv, References
<1>2. CASE Upsert(c)
  <2>1. TargetRef(c) \in Reference
    BY <1>2, CallShape DEF Upsert, At, AdminInv, TargetRef, Reference
  <2>2. UNCHANGED <<leavePeriods, types, requests>>
    BY <1>2 DEF Upsert, LeavePeriodsStay, TypesStay
  <2>3. CASE UNCHANGED balances
    BY <1>1, <2>2, <2>3
  <2>4. CASE References({TargetRef(c)}) /\ balances' = balances \cup {TargetRef(c)}
    BY <1>0, <2>1, <2>2, <2>4 DEF UsesInv, References
  <2> QED  BY <1>2, <2>3, <2>4 DEF Upsert
<1>3. CASE InsertRequest(c)
  <2>1. calls[c].ref \in Reference
    BY <1>3, CallShape DEF InsertRequest, At, AdminInv
  <2>2. UNCHANGED <<leavePeriods, types, balances>>
    BY <1>3 DEF InsertRequest, LeavePeriodsStay, TypesStay
  <2>3. CASE UNCHANGED requests
    BY <1>1, <2>2, <2>3
  <2>4. CASE References({calls[c].ref}) /\ requests' = requests \cup {calls[c].ref}
    BY <1>0, <2>1, <2>2, <2>4 DEF UsesInv, References
  <2> QED  BY <1>3, <2>3, <2>4 DEF InsertRequest
<1>4. CASE DeleteType(c)
  <2>1. UNCHANGED <<leavePeriods, requests>>
    BY <1>4 DEF DeleteType, LeavePeriodsStay
  <2>2. CASE UNCHANGED <<types, balances>>
    BY <1>1, <2>1, <2>2
  <2>3. CASE /\ ~ \E r \in requests : r.type = calls[c].id
             /\ types' = Drop(types, calls[c].id)
             /\ balances' = {b \in balances : b.type # calls[c].id}
    BY <1>0, <2>1, <2>3 DEF UsesInv, References, Drop
  <2> QED  BY <1>4, <2>2, <2>3 DEF DeleteType
<1>5. CASE DeleteLeavePeriod(c)
  <2>1. CASE UNCHANGED <<adminTables>>
    BY <1>1, <2>1 DEF adminTables
  <2>2. CASE /\ DOMAIN leavePeriods' = DOMAIN leavePeriods \ {calls[c].id}
             /\ DOMAIN types' = DOMAIN types \ TypesOf(calls[c].id)
             /\ requests' = requests
             /\ balances' = {b \in balances : ~ (b.period = calls[c].id
                                                 \/ b.type \in TypesOf(calls[c].id))}
             /\ \A r \in requests : ~ (r.period = calls[c].id \/ r.type \in TypesOf(calls[c].id))
    BY <1>0, <2>2 DEF UsesInv, References
  <2> QED  BY <1>5, <2>1, <2>2, PeriodDeleted
<1> QED  BY <1>1, <1>2, <1>3, <1>4, <1>5

-----------------------------------------------------------------------------
(* The bounds.                                                             *)

\* What the calls may still draw is a column of numbers.
LEMMA DrawsAreNumbers ==
  ASSUME AdministrationAssumption, NEW f, IsTable(f, Call, CallRecord)
  PROVE  /\ IsColumn([c \in DOMAIN f |-> Draws(f[c])])
         /\ \A c \in DOMAIN f : Draws(f[c]) \in Nat
<1>1. \A call \in CallRecord : Draws(call) \in Nat
  <2>1. DOMAIN DefaultTypes = 1 .. Len(DefaultTypes) /\ Len(DefaultTypes) \in Nat
    BY DEF AdministrationAssumption
  <2>2. \A at \in DOMAIN DefaultTypes : Len(DefaultTypes) + 1 - at \in Nat
    BY <2>1
  <2>3. \A call \in CallRecord :
          call.pc \in {"findDefault", "insertDefault"} => call.at \in DOMAIN DefaultTypes
    BY DEF CallRecord
  <2> QED  BY <2>2, <2>3 DEF Draws
<1>2. IsFiniteSet(DOMAIN f) /\ \A c \in DOMAIN f : Draws(f[c]) \in Nat
  BY <1>1, RowOfTable, FS_Subset DEF AdministrationAssumption, IsTable
<1> QED  BY <1>2 DEF IsColumn

\* A call moves: what all calls may draw changes by what it may draw.
LEMMA DrawingChanges ==
  ASSUME AdministrationAssumption, CallsInv, CallsInv', NEW c, OnlyRow(calls, calls', c)
  PROVE  /\ SumOf(Drawing) \in Int /\ SumOf(Drawing') \in Int
         /\ Term(Drawing, c) \in Int /\ Term(Drawing', c) \in Int
         /\ SumOf(Drawing') = SumOf(Drawing) + Term(Drawing', c) - Term(Drawing, c)
         /\ c \in DOMAIN calls => Term(Drawing, c) = Draws(calls[c])
         /\ c \notin DOMAIN calls => Term(Drawing, c) = 0
         /\ c \in DOMAIN calls' => Term(Drawing', c) = Draws(calls'[c])
         /\ c \notin DOMAIN calls' => Term(Drawing', c) = 0
<1>1. IsColumn(Drawing) /\ IsColumn(Drawing')
  BY DrawsAreNumbers DEF Drawing, CallsInv
<1>2. /\ DOMAIN Drawing = DOMAIN calls /\ DOMAIN Drawing' = DOMAIN calls'
      /\ \A d \in DOMAIN calls : Drawing[d] = Draws(calls[d])
      /\ \A d \in DOMAIN calls' : Drawing'[d] = Draws(calls'[d])
  BY DEF Drawing
<1>3. /\ \A d : d # c => (d \in DOMAIN Drawing <=> d \in DOMAIN Drawing')
      /\ \A d \in DOMAIN Drawing : d # c => Drawing[d] = Drawing'[d]
  <2>1. \A d \in DOMAIN Drawing : d # c => d \in DOMAIN calls' /\ calls'[d] = calls[d]
    BY <1>2 DEF OnlyRow
  <2> QED  BY <1>2, <2>1 DEF OnlyRow
<1>4. /\ SumOf(Drawing) \in Int /\ SumOf(Drawing') \in Int
      /\ Term(Drawing, c) \in Int /\ Term(Drawing', c) \in Int
      /\ SumOf(Drawing') = SumOf(Drawing) + Term(Drawing', c) - Term(Drawing, c)
  BY <1>1, <1>3, SumOfChange
<1> QED  BY <1>2, <1>4 DEF Term

\* No step takes an id beyond its bound.
LEMMA BoundsKept ==
  ASSUME AdministrationAssumption, AdminInv, CallsInv', NEW c \in Call,
         NewAdminCall(c) \/ AdministrationStep(c) \/ AdminFail(c)
  PROVE  BoundsInv'
<1>0. /\ leavePeriodSeq \in Nat /\ typeSeq \in Nat /\ mishaps \in 0 .. MaxMishaps
      /\ MaxLeavePeriods \in Nat /\ MaxTypes \in Nat /\ MaxMishaps \in Nat
      /\ IsFiniteSet(Opening) /\ Cardinality(Opening) \in Nat
      /\ leavePeriodSeq + Cardinality(Opening) <= MaxLeavePeriods
      /\ typeSeq + SumOf(Drawing) <= MaxTypes
      /\ CallsInv
  BY AdminLimits DEF AdminInv, PeriodsInv, TypesInv, BoundsInv, AdministrationAssumption
<1>1. mishaps' \in 0 .. MaxMishaps
  <2>1. CASE mishaps' = mishaps
    BY <1>0, <2>1
  <2>2. CASE mishaps < MaxMishaps /\ mishaps' = mishaps + 1
    BY <1>0, <2>2
  <2>3. NewAdminCall(c) => mishaps' = mishaps
    BY NewCallMoves DEF ReadOnly, NoMishap
  <2>4. AdministrationStep(c) => mishaps' = mishaps
    BY DEF AdministrationStep, InsertLeavePeriod, WriteLeavePeriod, DeleteLeavePeriod, InsertType, WriteType,
           IsUsed, DeleteType, FindDefault, InsertDefault, ReadBalance, InitPeriod, ReadType,
           Upsert, Reread, InsertRequest, ReadOnly, NoMishap
  <2> QED  BY <2>1, <2>2, <2>3, <2>4 DEF AdminFail, Mishap
<1>2. CASE NewAdminCall(c)
  <2>1. PICK rec \in CallRecord :
          /\ Goto(c, rec)
          /\ rec.pc = "insertLeavePeriod" => leavePeriodSeq + Cardinality(Opening) < MaxLeavePeriods
          /\ Draws(rec) = 0 \/ RoomForTypes(Draws(rec))
    BY <1>2, NewCallMoves
  <2>2. c \notin DOMAIN calls /\ leavePeriodSeq' = leavePeriodSeq /\ typeSeq' = typeSeq
    BY <1>2, NewCallMoves DEF Free, ReadOnly, LeavePeriodsStay, TypesStay
  <2>3. /\ DOMAIN calls' = DOMAIN calls \cup {c} /\ calls'[c] = rec
        /\ \A d \in DOMAIN calls : d # c => calls'[d] = calls[d]
        /\ OnlyRow(calls, calls', c)
    BY <2>1, WritesOneRow DEF Goto, Put
  <2>4. typeSeq' + SumOf(Drawing') <= MaxTypes
    <3>1. /\ SumOf(Drawing) \in Int /\ SumOf(Drawing') \in Int /\ Draws(rec) \in Int
          /\ SumOf(Drawing') = SumOf(Drawing) + Draws(rec) - 0
      BY <1>0, <2>2, <2>3, DrawingChanges
    <3>2. CASE Draws(rec) = 0
      BY <1>0, <2>2, <3>1, <3>2
    <3>3. CASE RoomForTypes(Draws(rec))
      BY <1>0, <2>2, <3>1, <3>3 DEF RoomForTypes
    <3> QED  BY <2>1, <3>2, <3>3
  <2>5. leavePeriodSeq' + Cardinality(Opening') <= MaxLeavePeriods
    <3>1. CASE rec.pc = "insertLeavePeriod"
      <4>1. Opening' \subseteq Opening \cup {c}
        BY <2>3 DEF Opening
      <4>2. Cardinality(Opening') \in Nat /\ Cardinality(Opening') <= Cardinality(Opening) + 1
        BY <1>0, <4>1, OneMore
      <4> QED  BY <1>0, <2>1, <2>2, <3>1, <4>2
    <3>2. CASE rec.pc # "insertLeavePeriod"
      <4>1. Opening' = Opening
        BY <2>2, <2>3, <3>2 DEF Opening
      <4> QED  BY <1>0, <2>2, <4>1
    <3> QED  BY <3>1, <3>2
  <2> QED  BY <1>1, <2>4, <2>5 DEF BoundsInv
<1>3. CASE AdministrationStep(c) \/ AdminFail(c)
  <2>0. /\ c \in DOMAIN calls
        /\ \/ Return(c) /\ typeSeq' <= typeSeq + Draws(calls[c])
           \/ \E rec \in CallRecord :
                /\ Goto(c, rec) /\ rec.pc # "insertLeavePeriod"
                /\ typeSeq' + Draws(rec) <= typeSeq + Draws(calls[c])
    BY <1>3, StepMoves
  <2>1. /\ OnlyRow(calls, calls', c)
        /\ DOMAIN calls' \subseteq DOMAIN calls
        /\ \A d \in DOMAIN calls' : d # c => calls'[d] = calls[d]
        /\ c \in DOMAIN calls' => calls'[c].pc # "insertLeavePeriod"
    BY <2>0, WritesOneRow DEF Goto, Return, Put, Drop
  <2>2. typeSeq' \in Nat
    <3>1. CASE InsertType(c) \/ InsertDefault(c)
      <4>1. typeSeq' = typeSeq \/ typeSeq' = typeSeq + 1
        BY <3>1 DEF InsertType, InsertDefault, AddType, TypesStay
      <4> QED  BY <1>0, <4>1
    <3>2. CASE ~(InsertType(c) \/ InsertDefault(c))
      <4>1. typeSeq' = typeSeq
        BY <1>3, <3>2
           DEF AdministrationStep, InsertLeavePeriod, WriteLeavePeriod, DeleteLeavePeriod, WriteType,
               IsUsed, DeleteType, FindDefault, ReadBalance, InitPeriod, ReadType,
               Upsert, Reread, InsertRequest, ReadOnly, TypesStay, AdminFail, Mishap, adminTables
      <4> QED  BY <1>0, <4>1
    <3> QED  BY <3>1, <3>2
  <2>3. typeSeq' + SumOf(Drawing') <= MaxTypes
    <3>1. /\ SumOf(Drawing) \in Int /\ SumOf(Drawing') \in Int
          /\ Term(Drawing', c) \in Int /\ Draws(calls[c]) \in Int
          /\ SumOf(Drawing') = SumOf(Drawing) + Term(Drawing', c) - Draws(calls[c])
      BY <1>0, <2>0, <2>1, DrawingChanges
    <3>2. typeSeq' + Term(Drawing', c) <= typeSeq + Draws(calls[c])
      <4>1. CASE Return(c) /\ typeSeq' <= typeSeq + Draws(calls[c])
        <5>1. c \notin DOMAIN calls'
          BY <4>1 DEF Return, Drop
        <5>2. Term(Drawing', c) = 0
          BY <1>0, <2>1, <5>1, DrawingChanges
        <5> QED  BY <1>0, <2>2, <3>1, <4>1, <5>2
      <4>2. ASSUME NEW rec \in CallRecord, Goto(c, rec),
                   typeSeq' + Draws(rec) <= typeSeq + Draws(calls[c])
            PROVE  typeSeq' + Term(Drawing', c) <= typeSeq + Draws(calls[c])
        <5>1. c \in DOMAIN calls' /\ calls'[c] = rec
          BY <4>2 DEF Goto, Put
        <5>2. Term(Drawing', c) = Draws(rec)
          BY <1>0, <2>1, <5>1, DrawingChanges
        <5> QED  BY <4>2, <5>2
      <4> QED  BY <2>0, <4>1, <4>2
    <3> QED  BY <1>0, <2>2, <3>1, <3>2
  <2>4. leavePeriodSeq' + Cardinality(Opening') <= MaxLeavePeriods
    <3>1. CASE InsertLeavePeriod(c)
      <4>1. leavePeriodSeq' = leavePeriodSeq + 1 /\ c \in Opening /\ Opening' \subseteq Opening \ {c}
        BY <2>1, <3>1 DEF InsertLeavePeriod, Opening, At
      <4>2. Cardinality(Opening') \in Nat /\ Cardinality(Opening') + 1 <= Cardinality(Opening)
        BY <1>0, <4>1, OneLess
      <4> QED  BY <1>0, <4>1, <4>2
    <3>2. CASE ~InsertLeavePeriod(c)
      <4>1. leavePeriodSeq' = leavePeriodSeq /\ Opening' \subseteq Opening
        BY <1>3, <2>1, <3>2
           DEF AdministrationStep, WriteLeavePeriod, DeleteLeavePeriod, InsertType, WriteType,
               IsUsed, DeleteType, FindDefault, InsertDefault, ReadBalance, InitPeriod, ReadType,
               Upsert, Reread, InsertRequest, ReadOnly, LeavePeriodsStay, AdminFail, Mishap, adminTables, Opening
      <4>2. Cardinality(Opening') \in Nat /\ Cardinality(Opening') <= Cardinality(Opening)
        BY <1>0, <4>1, FS_Subset, FS_CardinalityType
      <4> QED  BY <1>0, <4>1, <4>2
    <3> QED  BY <3>1, <3>2
  <2> QED  BY <1>1, <2>3, <2>4 DEF BoundsInv
<1> QED  BY <1>2, <1>3

LEMMA CrashKeepsAdmin ==
  ASSUME AdministrationAssumption, AdminInv, AdminCrash
  PROVE  AdminInv'
<1>0. /\ leavePeriodSeq \in 0 .. MaxLeavePeriods /\ typeSeq \in 0 .. MaxTypes
      /\ MaxLeavePeriods \in Nat /\ MaxTypes \in Nat /\ MaxMishaps \in Nat
      /\ mishaps \in 0 .. MaxMishaps
  BY AdminLimits DEF AdminInv, BoundsInv, AdministrationAssumption
<1>1. calls' = << >> /\ mishaps' = mishaps + 1 /\ mishaps < MaxMishaps /\ UNCHANGED adminTables
  BY DEF AdminCrash, Mishap
<1>2. CallsInv'
  BY <1>1, EmptyTable DEF CallsInv
<1>3. PeriodsInv' /\ TypesInv' /\ UsesInv'
  BY <1>1 DEF AdminInv, PeriodsInv, TypesInv, UsesInv, UniqueTypes, References, adminTables
<1>4. BoundsInv'
  <2>1. Opening' = {} /\ DOMAIN Drawing' = {}
    BY <1>1 DEF Opening, Drawing
  <2>2. Cardinality(Opening') = 0 /\ SumOf(Drawing') = 0
    BY <2>1, FS_EmptySet, SumOfEmpty
  <2>3. mishaps' \in 0 .. MaxMishaps /\ leavePeriodSeq' = leavePeriodSeq /\ typeSeq' = typeSeq
    BY <1>0, <1>1 DEF adminTables
  <2> QED  BY <1>0, <2>2, <2>3 DEF BoundsInv
<1> QED  BY <1>2, <1>3, <1>4 DEF AdminInv

LEMMA StepKeepsAdmin ==
  ASSUME AdministrationAssumption, AdminInv, NEW c \in Call,
         NewAdminCall(c) \/ AdministrationStep(c) \/ AdminFail(c)
  PROVE  AdminInv'
<1>1. CallsInv'
  BY NewCallMoves, StepMoves, GotoKeepsCalls, ReturnKeepsCalls DEF AdminInv
<1>2. BoundsInv'
  BY <1>1, BoundsKept
<1>3. CASE NewAdminCall(c) \/ AdminFail(c)
  <2>1. UNCHANGED <<leavePeriods, leavePeriodSeq, types, typeSeq, balances, requests>>
    BY <1>3, NewCallMoves
       DEF ReadOnly, LeavePeriodsStay, TypesStay, UsesStay, AdminFail, Mishap, adminTables
  <2> QED  BY <1>1, <1>2, <2>1, PeriodsKept, TypesKept, UsesKept DEF AdminInv
<1>4. CASE AdministrationStep(c)
  <2>1. PeriodsInv'
    BY <1>4, PeriodsKept
       DEF AdministrationStep, InsertType, WriteType,
           IsUsed, DeleteType, FindDefault, InsertDefault, ReadBalance, InitPeriod, ReadType,
           Upsert, Reread, InsertRequest, ReadOnly, LeavePeriodsStay
  <2>2. TypesInv'
    <3>1. CASE InsertLeavePeriod(c) \/ WriteLeavePeriod(c)
      <4>1. UNCHANGED <<types, typeSeq>> /\ DOMAIN leavePeriods \subseteq DOMAIN leavePeriods'
        BY <3>1 DEF InsertLeavePeriod, WriteLeavePeriod, TypesStay, Put
      <4> QED  BY <4>1, TypesKept
    <3>2. CASE ~(InsertLeavePeriod(c) \/ WriteLeavePeriod(c))
      BY <1>4, <3>2, TypesKept
         DEF AdministrationStep, IsUsed, FindDefault, ReadBalance, InitPeriod, ReadType,
             Upsert, Reread, InsertRequest, ReadOnly, LeavePeriodsStay, TypesStay
    <3> QED  BY <3>1, <3>2
  <2>3. UsesInv'
    <3>1. CASE Upsert(c) \/ InsertRequest(c) \/ DeleteType(c) \/ DeleteLeavePeriod(c)
      BY <3>1, UsesKept
    <3>2. CASE InsertLeavePeriod(c) \/ WriteLeavePeriod(c) \/ InsertType(c) \/ WriteType(c)
                 \/ InsertDefault(c)
      <4>1. /\ UNCHANGED <<balances, requests>>
            /\ DOMAIN leavePeriods \subseteq DOMAIN leavePeriods' /\ DOMAIN types \subseteq DOMAIN types'
        BY <3>2 DEF InsertLeavePeriod, WriteLeavePeriod, InsertType, WriteType, InsertDefault, UsesStay,
                    LeavePeriodsStay, TypesStay, AddType, Put
      <4> QED  BY <4>1, UsesKept
    <3>3. CASE IsUsed(c) \/ FindDefault(c) \/ ReadBalance(c) \/ InitPeriod(c) \/ ReadType(c)
                 \/ Reread(c)
      <4>1. UNCHANGED <<leavePeriods, types, balances, requests>>
        BY <3>3 DEF IsUsed, FindDefault, ReadBalance, InitPeriod, ReadType, Reread, ReadOnly,
                    LeavePeriodsStay, TypesStay, UsesStay
      <4> QED  BY <4>1, UsesKept
    <3> QED  BY <1>4, <3>1, <3>2, <3>3 DEF AdministrationStep
  <2> QED  BY <1>1, <1>2, <2>1, <2>2, <2>3 DEF AdminInv
<1> QED  BY <1>3, <1>4

LEMMA AdminStart ==
  ASSUME AdministrationAssumption, AdminInit
  PROVE  AdminInv
<1>1. CallsInv /\ PeriodsInv /\ TypesInv /\ UsesInv
  BY EmptyTable
     DEF AdminInit, CallsInv, PeriodsInv, TypesInv, UsesInv, UniqueTypes, References
<1>2. Opening = {} /\ DOMAIN Drawing = {}
  BY DEF AdminInit, Opening, Drawing
<1>3. Cardinality(Opening) = 0 /\ SumOf(Drawing) = 0
  BY <1>2, FS_EmptySet, SumOfEmpty
<1> QED  BY <1>1, <1>3 DEF AdminInv, BoundsInv, AdminInit, AdministrationAssumption

LEMMA AdminKept ==
  ASSUME AdministrationAssumption, AdminInv, [AdminNext]_adminVars
  PROVE  AdminInv'
<1>1. CASE AdminNext
  BY <1>1, StepKeepsAdmin, CrashKeepsAdmin DEF AdminNext
<1>2. CASE UNCHANGED adminVars
  BY <1>2
     DEF adminVars, adminTables, AdminInv, CallsInv, PeriodsInv, TypesInv, UsesInv, BoundsInv,
         UniqueTypes, References, Opening, Drawing, Draws
<1> QED  BY <1>1, <1>2

\* Dates in order, kinds unique in a period, every key pointing at a row: for
\* any bodies and any number of calls.
THEOREM AdministrationTypes == AdminSpec => []AdministrationTypeOK
<1>0. AdministrationAssumption
  BY AdministrationConstants
<1>1. AdminInit => AdminInv
  BY <1>0, AdminStart
<1>2. AdminInv /\ [AdminNext]_adminVars => AdminInv'
  BY <1>0, AdminKept
<1>3. AdminInv => AdministrationTypeOK
  BY <1>0, AdminLimits DEF AdminInv, CallsInv, PeriodsInv, TypesInv, UsesInv, BoundsInv,
                     AdministrationTypeOK
<1> QED  BY <1>1, <1>2, <1>3, PTL DEF AdminSpec

-----------------------------------------------------------------------------
(* A call that is alone.                                                   *)

\* The kinds a setup has already gone through.
Passed(call) == {DefaultTypes[i] : i \in {j \in DOMAIN DefaultTypes : j < call.at}}

\* What a call has checked is still so.
Holds(c) ==
  /\ At(c, "insertLeavePeriod") => DOMAIN leavePeriods = {}
  /\ At(c, "deleteLeavePeriod") => ~ \E b \in balances : b.period = calls[c].id
  /\ At(c, "deleteType") => ~ \E r \in balances \cup requests : r.type = calls[c].id
  /\ At(c, "findDefault") \/ At(c, "insertDefault") =>
       Passed(calls[c]) \subseteq SetUp(calls[c].period)
  /\ At(c, "insertDefault") =>
       ~ \E t \in TypesOf(calls[c].period) :
           types[t].kind = DefaultTypes[calls[c].at] /\ types[t].active

AloneInv == \A c \in Call : Alone(c) => InFlight = {c} /\ Holds(c)

AuditInv == AdminInv /\ AloneInv

\* Who is in flight after a step.
LEMMA InFlightMoves ==
  ASSUME AdministrationAssumption, AdminInv, NEW c \in Call
  PROVE  /\ NewAdminCall(c) => c \notin InFlight /\ InFlight' = InFlight \cup {c}
         /\ AdministrationStep(c) \/ AdminFail(c) =>
              /\ c \in InFlight
              /\ InFlight' = InFlight \/ InFlight' = InFlight \ {c}
<1>1. ASSUME NewAdminCall(c)
      PROVE  c \notin InFlight /\ InFlight' = InFlight \cup {c}
  BY <1>1, NewCallMoves DEF Free, InFlight, Goto, Put
<1>2. ASSUME AdministrationStep(c) \/ AdminFail(c)
      PROVE  /\ c \in InFlight
             /\ InFlight' = InFlight \/ InFlight' = InFlight \ {c}
  BY <1>2, StepMoves DEF InFlight, Goto, Put, Return, Drop
<1> QED  BY <1>1, <1>2

\* A handler starts with what it has just read.
LEMMA NewCallHolds ==
  ASSUME AdministrationAssumption, AdminInv, NEW c \in Call, NewAdminCall(c)
  PROVE  Holds(c)'
<1>1. UNCHANGED <<leavePeriods, types, balances, requests>>
  BY NewCallMoves DEF ReadOnly, LeavePeriodsStay, TypesStay, UsesStay
<1>2. CASE CreateLeavePeriod(c)
  <2>1. calls'[c].pc = "insertLeavePeriod" /\ DOMAIN leavePeriods = {}
    BY <1>2 DEF CreateLeavePeriod, Goto, Put
  <2> QED  BY <1>1, <2>1 DEF Holds, At
<1>3. CASE RemoveLeavePeriod(c)
  <2>1. calls'[c].pc = "deleteLeavePeriod" /\ ~ \E b \in balances : b.period = calls'[c].id
    BY <1>3 DEF RemoveLeavePeriod, Goto, Put
  <2> QED  BY <1>1, <2>1 DEF Holds, At
<1>4. CASE SetupDefaultTypes(c)
  <2>1. calls'[c].pc = "findDefault" /\ calls'[c].at = 1
    BY <1>4 DEF SetupDefaultTypes, Goto, Put
  <2>2. Passed(calls'[c]) = {}
    BY <2>1 DEF Passed, AdministrationAssumption
  <2> QED  BY <2>1, <2>2 DEF Holds, At
<1>5. CASE UpdateLeavePeriod(c)
  <2>1. calls'[c].pc = "writeLeavePeriod"
    BY <1>5 DEF UpdateLeavePeriod, Goto, Put
  <2> QED  BY <2>1 DEF Holds, At
<1>6. CASE CreateType(c) \/ UpdateType(c) \/ RemoveType(c) \/ Submit(c)
  <2>1. calls'[c].pc \in {"insertType", "writeType", "isUsed", "readBalance"}
    BY <1>6 DEF CreateType, UpdateType, RemoveType, Submit, Goto, Put
  <2> QED  BY <2>1 DEF Holds, At
<1> QED  BY <1>2, <1>3, <1>4, <1>5, <1>6 DEF NewAdminCall

\* The kinds that are switched on, after the INSERT of one.
LEMMA SetUpGrows ==
  ASSUME TypesInv, NEW p, NEW k, AddType([period |-> p, kind |-> k, active |-> TRUE])
  PROVE  SetUp(p) \cup {k} \subseteq SetUp(p)'
<1>1. /\ DOMAIN types' = DOMAIN types \cup {typeSeq + 1}
      /\ types'[typeSeq + 1] = [period |-> p, kind |-> k, active |-> TRUE]
  BY DEF AddType, Put
<1>2. \A t \in DOMAIN types : types'[t] = types[t]
  <2>1. typeSeq + 1 \notin 1 .. typeSeq
    BY DEF TypesInv
  <2> QED  BY <2>1 DEF AddType, Put, TypesInv, IsTable
<1> QED  BY <1>1, <1>2 DEF SetUp, TypesOf

\* One kind further in the loop.
LEMMA PassedGrows ==
  ASSUME AdministrationAssumption, NEW call, NEW next, call.at \in DOMAIN DefaultTypes,
         next.at = call.at + 1
  PROVE  Passed(next) \subseteq Passed(call) \cup {DefaultTypes[call.at]}
<1>1. DOMAIN DefaultTypes = 1 .. Len(DefaultTypes) /\ Len(DefaultTypes) \in Nat
  BY DEF AdministrationAssumption
<1>2. ASSUME NEW j \in DOMAIN DefaultTypes, j < call.at + 1
      PROVE  j < call.at \/ j = call.at
  BY <1>1, <1>2
<1> QED  BY <1>2 DEF Passed

LEMMA StepHolds ==
  ASSUME AdministrationAssumption, AdminInv, NEW c \in Call, Holds(c),
         AdministrationStep(c), c \in InFlight'
  PROVE  Holds(c)'
<1>0. CallsInv /\ TypesInv
  BY DEF AdminInv
<1>1. CASE InsertLeavePeriod(c) \/ WriteLeavePeriod(c) \/ DeleteLeavePeriod(c) \/ InsertType(c)
           \/ WriteType(c) \/ DeleteType(c) \/ InsertRequest(c)
  BY <1>1 DEF InsertLeavePeriod, WriteLeavePeriod, DeleteLeavePeriod, InsertType, WriteType, DeleteType,
              InsertRequest, Return, Drop, InFlight
<1>2. CASE IsUsed(c)
  BY <1>2 DEF IsUsed, ReadOnly, TypesStay, UsesStay, LeavePeriodsStay, Return, Drop, InFlight,
              Goto, Put, At, Holds
<1>3. CASE ReadBalance(c) \/ InitPeriod(c) \/ ReadType(c) \/ Upsert(c) \/ Reread(c)
  <2>1. c \in DOMAIN calls
        /\ calls[c].pc \in {"readBalance", "initPeriod", "readType", "upsert", "reread"}
    BY <1>3 DEF ReadBalance, InitPeriod, ReadType, Upsert, Reread, At
  <2>2. calls'[c].pc \in {"insertRequest", "initPeriod", "readType", "upsert", "reread"}
    <3>1. CASE ReadBalance(c) \/ InitPeriod(c) \/ Reread(c)
      BY <3>1 DEF ReadBalance, InitPeriod, Reread, Goto, Put, Return, Drop, InFlight
    <3>2. CASE ReadType(c) \/ Upsert(c)
      <4>1. PICK ref \in Reference, p \in LeavePeriodId, l \in {"readType", "upsert", "reread"} :
              calls[c] = [pc |-> l, ref |-> ref, target |-> p]
        BY <1>0, <2>1, <3>2, CallShape DEF CallRecord, ReadType, Upsert, At
      <4> QED  BY <3>2, <4>1 DEF ReadType, Upsert, Goto, Put, Return, Drop, InFlight
    <3> QED  BY <1>3, <3>1, <3>2
  <2> QED  BY <2>2 DEF Holds, At
<1>4. CASE FindDefault(c)
  <2>1. /\ c \in DOMAIN calls /\ At(c, "findDefault") /\ UNCHANGED types
        /\ calls[c].at \in DOMAIN DefaultTypes
        /\ Passed(calls[c]) \subseteq SetUp(calls[c].period)
    BY <1>0, <1>4, CallShape DEF FindDefault, At, ReadOnly, TypesStay, Holds
  <2>2. \A p : SetUp(p)' = SetUp(p) /\ TypesOf(p)' = TypesOf(p)
    BY <2>1 DEF SetUp, TypesOf
  <2>3. CASE /\ NextDefault(c)
             /\ \E t \in TypesOf(calls[c].period) :
                  types[t].kind = DefaultTypes[calls[c].at] /\ types[t].active
    <3>1. calls'[c] = [pc |-> "findDefault", period |-> calls[c].period,
                       at |-> calls[c].at + 1]
      BY <2>3 DEF NextDefault, Goto, Put, Return, Drop, InFlight
    <3>2. DefaultTypes[calls[c].at] \in SetUp(calls[c].period)
      BY <2>3 DEF SetUp
    <3>3. Passed(calls'[c]) \subseteq Passed(calls[c]) \cup {DefaultTypes[calls[c].at]}
      BY <2>1, <3>1, PassedGrows
    <3> QED  BY <2>1, <2>2, <3>1, <3>2, <3>3 DEF Holds, At
  <2>4. CASE /\ Goto(c, [calls[c] EXCEPT !.pc = "insertDefault"])
             /\ ~ \E t \in TypesOf(calls[c].period) :
                    types[t].kind = DefaultTypes[calls[c].at] /\ types[t].active
    <3>1. PICK p \in LeavePeriodId, n \in DOMAIN DefaultTypes :
            calls[c] = [pc |-> "findDefault", period |-> p, at |-> n]
      BY <1>0, <2>1, CallShape DEF CallRecord, At
    <3>2. calls'[c] = [pc |-> "insertDefault", period |-> p, at |-> n]
      BY <2>4, <3>1 DEF Goto, Put
    <3>3. Passed(calls'[c]) = Passed(calls[c])
      BY <3>1, <3>2 DEF Passed
    <3> QED  BY <2>1, <2>2, <2>4, <3>1, <3>2, <3>3 DEF Holds, At
  <2> QED  BY <1>4, <2>3, <2>4 DEF FindDefault
<1>5. CASE InsertDefault(c)
  <2>1. /\ c \in DOMAIN calls /\ At(c, "insertDefault")
        /\ calls[c].at \in DOMAIN DefaultTypes
        /\ Passed(calls[c]) \subseteq SetUp(calls[c].period)
    BY <1>0, <1>5, CallShape DEF InsertDefault, At, Holds
  <2>2. /\ AddType([period |-> calls[c].period, kind |-> DefaultTypes[calls[c].at],
                    active |-> TRUE])
        /\ NextDefault(c)
    BY <1>5 DEF InsertDefault, Return, Drop, InFlight
  <2>3. calls'[c] = [pc |-> "findDefault", period |-> calls[c].period,
                     at |-> calls[c].at + 1]
    BY <2>2 DEF NextDefault, Goto, Put, Return, Drop, InFlight
  <2>4. SetUp(calls[c].period) \cup {DefaultTypes[calls[c].at]} \subseteq SetUp(calls[c].period)'
    <3>1. PICK p, k : p = calls[c].period /\ k = DefaultTypes[calls[c].at]
      OBVIOUS
    <3>2. AddType([period |-> p, kind |-> k, active |-> TRUE])
      BY <2>2, <3>1
    <3>3. SetUp(p) \cup {k} \subseteq SetUp(p)'
      BY <1>0, <3>2, SetUpGrows
    <3> QED  BY <2>3, <3>1, <3>3 DEF SetUp, TypesOf
  <2>5. Passed(calls'[c]) \subseteq Passed(calls[c]) \cup {DefaultTypes[calls[c].at]}
    BY <2>1, <2>3, PassedGrows
  <2> QED  BY <2>1, <2>3, <2>4, <2>5 DEF Holds, At, SetUp, TypesOf
<1> QED  BY <1>1, <1>2, <1>3, <1>4, <1>5 DEF AdministrationStep

LEMMA FailHolds ==
  ASSUME NEW c, AdminFail(c)
  PROVE  c \notin InFlight'
BY DEF AdminFail, Mishap, Return, Drop, InFlight

\* A call that is alone after a step has taken that step itself.
LEMMA AloneKept ==
  ASSUME AdministrationAssumption, AuditInv, AdminInv', AdminAuditNext, NEW c \in Call,
         NewAdminCall(c) \/ AdministrationStep(c) \/ AdminFail(c)
  PROVE  AloneInv'
<1>1. IsFiniteSet(InFlight')
  BY FS_Subset DEF AdminInv, CallsInv, IsTable, AdministrationAssumption, InFlight
<1>2. SUFFICES ASSUME NEW d \in Call, Alone(d)'
               PROVE  InFlight' = {d} /\ Holds(d)'
  BY DEF AloneInv
<1>3. d \in InFlight' /\ d \notin overlapped'
  BY <1>2 DEF Alone
<1>4. InFlight' = {d}
  <2>1. ~(Cardinality(InFlight') > 1)
    BY <1>3 DEF AdminAuditNext
  <2>2. Cardinality(InFlight') \in Nat /\ Cardinality(InFlight') # 0
    BY <1>1, <1>3, FS_CardinalityType, FS_EmptySet
  <2>3. Cardinality(InFlight') = 1
    BY <2>1, <2>2
  <2>4. PICK x : InFlight' = {x}
    BY <1>1, <2>3, FS_Singleton
  <2> QED  BY <1>3, <2>4
<1>5. CASE NewAdminCall(c)
  <2>1. d = c
    BY <1>4, <1>5, InFlightMoves DEF AuditInv
  <2> QED  BY <1>4, <1>5, <2>1, NewCallHolds DEF AuditInv
<1>6. CASE AdministrationStep(c) \/ AdminFail(c)
  <2>1. d \in InFlight /\ d \notin overlapped
    BY <1>3, <1>4, <1>6, InFlightMoves, FS_Singleton DEF AdminAuditNext, AuditInv
  <2>2. InFlight = {d} /\ Holds(d)
    BY <2>1 DEF AuditInv, AloneInv, Alone
  <2>3. d = c
    BY <1>6, <2>2, InFlightMoves DEF AuditInv
  <2> QED  BY <1>3, <1>4, <1>6, <2>2, <2>3, StepHolds, FailHolds DEF AuditInv
<1> QED  BY <1>5, <1>6

LEMMA AuditInvariant == ASSUME AdministrationAssumption PROVE AdminAuditSpec => []AuditInv
<1>1. AdminAuditInit => AuditInv
  BY AdminStart DEF AdminAuditInit, AdminInit, AuditInv, AloneInv, Alone, InFlight
<1>2. AuditInv /\ [AdminAuditNext]_adminAuditVars => AuditInv'
  <2> SUFFICES ASSUME AuditInv, [AdminAuditNext]_adminAuditVars
               PROVE  AuditInv'
    OBVIOUS
  <2>1. CASE AdminAuditNext
    <3>1. AdminInv'
      BY <2>1, AdminKept DEF AuditInv, AdminAuditNext
    <3>2. CASE \E c \in Call : NewAdminCall(c) \/ AdministrationStep(c) \/ AdminFail(c)
      BY <2>1, <3>1, <3>2, AloneKept DEF AuditInv
    <3>3. CASE AdminCrash
      <4>1. InFlight' = {}
        BY <3>3 DEF AdminCrash, Mishap, InFlight
      <4> QED  BY <3>1, <4>1 DEF AuditInv, AloneInv, Alone
    <3> QED  BY <2>1, <3>2, <3>3 DEF AdminAuditNext, AdminNext
  <2>2. CASE UNCHANGED adminAuditVars
    <3>1. AdminInv'
      BY <2>2, AdminKept DEF AuditInv, adminAuditVars
    <3>2. AloneInv'
      <4>1. UNCHANGED <<calls, leavePeriods, types, balances, requests, overlapped>>
        BY <2>2 DEF adminAuditVars, adminVars, adminTables
      <4>2. \A p : SetUp(p)' = SetUp(p) /\ TypesOf(p)' = TypesOf(p)
        BY <4>1 DEF SetUp, TypesOf
      <4>3. \A c \in Call : Holds(c) => Holds(c)'
        BY <4>1, <4>2 DEF Holds, At
      <4> QED  BY <4>1, <4>3 DEF AuditInv, AloneInv, Alone, InFlight
    <3> QED  BY <3>1, <3>2 DEF AuditInv
  <2> QED  BY <2>1, <2>2
<1> QED  BY <1>1, <1>2, PTL DEF AdminAuditSpec

\* Only the INSERT of a period makes periods more.
LEMMA SecondPeriod ==
  ASSUME AdministrationAssumption, AuditInv, AdminAuditNext
  PROVE  SecondPeriodNeedsARace
<1> SUFFICES ASSUME DOMAIN leavePeriods # {},
                    Cardinality(DOMAIN leavePeriods') > Cardinality(DOMAIN leavePeriods)
             PROVE  \E c \in InFlight : At(c, "insertLeavePeriod") /\ ~Alone(c)
  BY DEF SecondPeriodNeedsARace
<1>1. IsFiniteSet(DOMAIN leavePeriods)
  BY IdsAreFinite, FS_Subset DEF AuditInv, AdminInv, PeriodsInv, IsTable
<1>2. ~ (DOMAIN leavePeriods' \subseteq DOMAIN leavePeriods)
  <2>1. ASSUME DOMAIN leavePeriods' \subseteq DOMAIN leavePeriods
        PROVE  /\ Cardinality(DOMAIN leavePeriods') <= Cardinality(DOMAIN leavePeriods)
               /\ Cardinality(DOMAIN leavePeriods') \in Nat /\ Cardinality(DOMAIN leavePeriods) \in Nat
    BY <1>1, <2>1, FS_Subset, FS_CardinalityType
  <2> QED  BY <2>1
<1>3. PICK c \in Call : InsertLeavePeriod(c)
  <2>1. AdminCrash => DOMAIN leavePeriods' \subseteq DOMAIN leavePeriods
    BY DEF AdminCrash, Mishap, adminTables
  <2>2. \A c \in Call : NewAdminCall(c) => DOMAIN leavePeriods' \subseteq DOMAIN leavePeriods
    BY NewCallMoves DEF ReadOnly, LeavePeriodsStay, AuditInv
  <2>3. \A c \in Call : AdminFail(c) => DOMAIN leavePeriods' \subseteq DOMAIN leavePeriods
    BY DEF AdminFail, Mishap, adminTables
  <2>4. \A c \in Call : AdministrationStep(c) =>
          InsertLeavePeriod(c) \/ DOMAIN leavePeriods' \subseteq DOMAIN leavePeriods
    BY DEF AdministrationStep, WriteLeavePeriod, DeleteLeavePeriod, InsertType, WriteType,
           IsUsed, DeleteType, FindDefault, InsertDefault, ReadBalance, InitPeriod, ReadType,
           Upsert, Reread, InsertRequest, ReadOnly, LeavePeriodsStay, Drop
  <2> QED  BY <1>2, <2>1, <2>2, <2>3, <2>4 DEF AdminAuditNext, AdminNext
<1>4. c \in InFlight /\ At(c, "insertLeavePeriod")
  BY <1>3 DEF InsertLeavePeriod, At, InFlight
<1> QED  BY <1>4 DEF AuditInv, AloneInv, Holds

\* A setup that returns has gone through all the kinds, or met one switched off.
LEMMA SetupCompletes ==
  ASSUME AdministrationAssumption, AuditInv, AdminAuditNext
  PROVE  SetupIsComplete
<1> SUFFICES ASSUME NEW c \in InFlight, NEW p \in DOMAIN leavePeriods,
                    At(c, "findDefault") \/ At(c, "insertDefault"),
                    calls[c].period = p, Alone(c), Free(c)', mishaps' = mishaps
             PROVE  \/ Defaults \subseteq SetUp(p)'
                    \/ \E t \in TypesOf(p) :
                         types[t].kind = DefaultTypes[calls[c].at] /\ ~types[t].active
  BY DEF SetupIsComplete
<1>0. /\ CallsInv /\ TypesInv /\ c \in Call /\ c \in DOMAIN calls /\ c \notin DOMAIN calls'
      /\ calls[c].at \in DOMAIN DefaultTypes
      /\ DOMAIN DefaultTypes = 1 .. Len(DefaultTypes) /\ Len(DefaultTypes) \in Nat
      /\ mishaps \in Nat
  BY CallShape
     DEF AuditInv, AdminInv, BoundsInv, InFlight, Free, AdministrationAssumption
<1>1. InFlight = {c} /\ Holds(c)
  BY <1>0 DEF AuditInv, AloneInv
<1>2. AdministrationStep(c)
  <2>1. ~AdminCrash
    BY <1>0 DEF AdminCrash, Mishap
  <2>2. PICK d \in Call : NewAdminCall(d) \/ AdministrationStep(d) \/ AdminFail(d)
    BY <2>1 DEF AdminAuditNext, AdminNext
  <2>3. ~AdminFail(d)
    BY <1>0 DEF AdminFail, Mishap
  <2>4. ~NewAdminCall(d)
    BY <1>0, InFlightMoves DEF AuditInv, InFlight
  <2> QED  BY <1>1, <2>2, <2>3, <2>4, InFlightMoves DEF AuditInv
<1>3. CASE FindDefault(c)
  <2>1. /\ calls[c].at = Len(DefaultTypes) /\ UNCHANGED types
        /\ DefaultTypes[calls[c].at] \in SetUp(p)
    <3>1. /\ \E t \in TypesOf(p) :
                types[t].kind = DefaultTypes[calls[c].at] /\ types[t].active
          /\ NextDefault(c) /\ UNCHANGED types
      BY <1>0, <1>3 DEF FindDefault, Goto, Put, ReadOnly, TypesStay
    <3>2. calls[c].at = Len(DefaultTypes)
      BY <1>0, <3>1 DEF NextDefault, Goto, Put
    <3> QED  BY <3>1, <3>2 DEF SetUp
  <2>2. Defaults \subseteq Passed(calls[c]) \cup {DefaultTypes[calls[c].at]}
    BY <1>0, <2>1 DEF Defaults, Passed
  <2>3. Passed(calls[c]) \subseteq SetUp(p)
    BY <1>1, <1>3 DEF Holds, FindDefault
  <2>4. SetUp(p)' = SetUp(p)
    BY <2>1 DEF SetUp, TypesOf
  <2> QED  BY <2>1, <2>2, <2>3, <2>4
<1>4. CASE InsertDefault(c)
  <2>1. PICK k : k = DefaultTypes[calls[c].at]
    OBVIOUS
  <2>2. CASE Insertable([period |-> p, kind |-> k, active |-> TRUE])
    <3>1. AddType([period |-> p, kind |-> k, active |-> TRUE]) /\ NextDefault(c)
      BY <1>4, <2>1, <2>2 DEF InsertDefault
    <3>2. calls[c].at = Len(DefaultTypes)
      BY <1>0, <3>1 DEF NextDefault, Goto, Put
    <3>3. Defaults \subseteq Passed(calls[c]) \cup {k}
      BY <1>0, <2>1, <3>2 DEF Defaults, Passed
    <3>4. Passed(calls[c]) \subseteq SetUp(p)
      BY <1>1, <1>4 DEF Holds, InsertDefault
    <3>5. SetUp(p) \cup {k} \subseteq SetUp(p)'
      BY <1>0, <3>1, SetUpGrows
    <3> QED  BY <3>3, <3>4, <3>5
  <2>3. CASE ~Insertable([period |-> p, kind |-> k, active |-> TRUE])
    <3>1. PICK t \in TypesOf(p) : types[t].kind = k
      BY <2>3 DEF Insertable
    <3>2. types[t].active = FALSE
      <4>1. ~ types[t].active
        BY <1>1, <1>4, <2>1, <3>1 DEF Holds, InsertDefault
      <4>2. types[t] \in TypeRow
        BY <1>0, RowOfTable DEF TypesInv, TypesOf
      <4> QED  BY <4>1, <4>2 DEF TypeRow
    <3> QED  BY <2>1, <3>1, <3>2
  <2> QED  BY <2>2, <2>3
<1> QED
  BY <1>2, <1>3, <1>4
     DEF AdministrationStep, At, InsertLeavePeriod, WriteLeavePeriod, DeleteLeavePeriod, InsertType, WriteType,
         IsUsed, DeleteType, ReadBalance, InitPeriod, ReadType, Upsert, Reread, InsertRequest

\* Only the two deletions take balances, and not those they look for.
LEMMA DeletionsSpare ==
  ASSUME AdministrationAssumption, AuditInv, AdminAuditNext
  PROVE  DeletionsSpareBalances
<1> SUFFICES ASSUME NEW b \in balances \ balances'
             PROVE  /\ b \notin requests
                    /\ \E c \in InFlight :
                         \/ ~Alone(c)
                         \/ /\ At(c, "deleteLeavePeriod") /\ types[b.type].period = calls[c].id
                            /\ b.period # calls[c].id
  BY DEF DeletionsSpareBalances
<1>1. PICK c \in Call : DeleteLeavePeriod(c) \/ DeleteType(c)
  <2>1. ~AdminCrash
    BY DEF AdminCrash, Mishap, adminTables
  <2>2. \A c \in Call : ~NewAdminCall(c)
    BY NewCallMoves DEF ReadOnly, UsesStay, AuditInv
  <2>3. \A c \in Call : ~AdminFail(c)
    BY DEF AdminFail, Mishap, adminTables
  <2>4. \A c \in Call : AdministrationStep(c) => DeleteLeavePeriod(c) \/ DeleteType(c)
    BY DEF AdministrationStep, InsertLeavePeriod, WriteLeavePeriod, InsertType, WriteType,
           IsUsed, FindDefault, InsertDefault, ReadBalance, InitPeriod, ReadType,
           Upsert, Reread, InsertRequest, ReadOnly, UsesStay
  <2> QED  BY <2>1, <2>2, <2>3, <2>4 DEF AdminAuditNext, AdminNext
<1>2. c \in InFlight /\ (Alone(c) => Holds(c))
  BY <1>1 DEF DeleteLeavePeriod, DeleteType, At, InFlight, AuditInv, AloneInv
<1>3. CASE DeleteLeavePeriod(c)
  <2>1. /\ b.period = calls[c].id \/ b.type \in TypesOf(calls[c].id)
        /\ b \notin requests
    BY <1>3, PeriodDeleted DEF adminTables
  <2>2. Alone(c) => b.period # calls[c].id
    BY <1>2, <1>3 DEF Holds, DeleteLeavePeriod
  <2> QED  BY <1>2, <1>3, <2>1, <2>2 DEF DeleteLeavePeriod, TypesOf
<1>4. CASE DeleteType(c)
  <2>1. b.type = calls[c].id /\ b \notin requests
    BY <1>4 DEF DeleteType
  <2>2. ~Alone(c)
    BY <1>2, <1>4, <2>1 DEF Holds, DeleteType
  <2> QED  BY <1>2, <2>1, <2>2
<1> QED  BY <1>1, <1>3, <1>4

\* What POST and DELETE leave-periods, setup-default-types and DELETE
\* leave-types look for before they write still holds when they write, as long
\* as no other call interferes.
THEOREM AdministrationHolds == AdminAuditSpec => LeaveAdministrationHoldsAlone
<1>0. AdministrationAssumption
  BY AdministrationConstants
<1>1. AuditInv /\ [AdminAuditNext]_adminAuditVars =>
        [SecondPeriodNeedsARace /\ SetupIsComplete /\ DeletionsSpareBalances]_adminAuditVars
  BY <1>0, SecondPeriod, SetupCompletes, DeletionsSpare
<1> QED  BY <1>0, <1>1, AuditInvariant, PTL DEF AdminAuditSpec, LeaveAdministrationHoldsAlone
=============================================================================
