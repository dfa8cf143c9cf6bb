------------------------- MODULE OvertimeAudit_proofs -------------------------
(***************************************************************************)
(* Proofs about OvertimeRequests and OvertimeAudit, for any number of      *)
(* employees, approvers, dates, rows and calls and for every edit that     *)
(* names known columns: the types, and the action properties.              *)
(*                                                                         *)
(* The argument for the latter: a call that never met another one is the   *)
(* only one in flight, so the tables have not changed since it read them   *)
(* and what it has read is still true when it writes.                      *)
(***************************************************************************)
EXTENDS OvertimeAudit, Tables_proofs, FiniteSetTheorems, TLAPS

-----------------------------------------------------------------------------
(* The calls in flight.                                                    *)

\* What a call in flight remembers follows from where it is.
LEMMA CallShape ==
  ASSUME TypeOK, NEW c \in DOMAIN calls
  PROVE  /\ At(c, "insertRequest") => calls[c].emp \in Employee /\ calls[c].day \in Day
         /\ At(c, "editRequest") => calls[c].req \in RequestId /\ calls[c].edit \in Edit
         /\ At(c, "deleteRequest") => calls[c].req \in RequestId
         /\ At(c, "insertApproval") => calls[c].row \in Approval
         /\ At(c, "updateApproval") =>
              /\ calls[c].req \in RequestId /\ calls[c].id \in ApprovalId
              /\ calls[c].status \in Verdict \cup {NoStatus}
         /\ At(c, "deleteApproval") => calls[c].req \in RequestId
         /\ At(c, "readApprovals") => calls[c].req \in RequestId
         /\ At(c, "writeStatus") =>
              calls[c].req \in RequestId /\ calls[c].status \in Status
<1>1. calls[c] \in CallRecord
  BY RowOfTable DEF TypeOK
<1> QED  BY <1>1 DEF CallRecord, At

\* A call that ends, or goes on to recompute the status, keeps the types.
LEMMA ReturnKeepsTypes ==
  ASSUME TypeOK, NEW c, Return(c)
  PROVE  IsTable(calls', Call, CallRecord)
BY DropIsTable DEF Return, TypeOK

LEMMA MoveKeepsTypes ==
  ASSUME TypeOK, NEW c \in DOMAIN calls, NEW rec \in CallRecord,
         calls' = [calls EXCEPT ![c] = rec]
  PROVE  IsTable(calls', Call, CallRecord)
BY ExceptIsTable DEF TypeOK

LEMMA GoRecomputeKeepsTypes ==
  ASSUME TypeOK, NEW c \in DOMAIN calls, NEW r \in RequestId, GoRecompute(c, r)
  PROVE  IsTable(calls', Call, CallRecord)
<1>1. [pc |-> "readApprovals", req |-> r] \in CallRecord
  BY DEF CallRecord
<1> QED  BY <1>1, MoveKeepsTypes DEF GoRecompute

\* A call that only reads touches no table.
LEMMA StartKeepsTypes ==
  ASSUME TypeOK, NEW c \in Call, NEW rec \in CallRecord, Start(c, rec)
  PROVE  TypeOK'
<1>1. IsTable(calls', Call, CallRecord)
  BY PutIsTable DEF Start, TypeOK
<1> QED  BY <1>1 DEF Start, TypeOK

-----------------------------------------------------------------------------
(* The rows.                                                               *)

\* An edit leaves a request a request.
LEMMA OverlayIsRequest ==
  ASSUME NEW ed \in Edit, NEW row \in Request
  PROVE  Overlay(ed, row) \in Request
<1>1. /\ DOMAIN row = {"emp", "day", "status"}
      /\ row.emp \in Employee /\ row.day \in Day /\ row.status \in Status
      /\ row = [emp |-> row.emp, day |-> row.day, status |-> row.status]
  BY DEF Request
<1> DEFINE o == Overlay(ed, row)
<1>2. o = [f \in {"emp", "day", "status"} |-> IF f \in DOMAIN ed THEN ed[f] ELSE row[f]]
  BY <1>1 DEF Overlay
<1>3. o["emp"] \in Employee /\ o["day"] \in Day /\ o["status"] \in Status
  BY <1>1, <1>2, EditAssumption
<1>4. o = [emp |-> o["emp"], day |-> o["day"], status |-> o["status"]]
  BY <1>2
<1> QED  BY <1>3, <1>4 DEF Request

\* Whatever the approvals are, what they call for is a status.
LEMMA ComputedIsStatus ==
  ASSUME NEW r
  PROVE  Computed(r) \in Status
BY DEF Computed, Status

\* A status that is written by itself leaves the request a request.
LEMMA StatusIsRequest ==
  ASSUME NEW row \in Request, NEW st \in Status
  PROVE  [row EXCEPT !.status = st] \in Request
BY DEF Request

\* The same for an approval, and its key does not change.
LEMMA VerdictIsApproval ==
  ASSUME NEW row \in Approval, NEW st \in Verdict
  PROVE  /\ [row EXCEPT !.status = st] \in Approval
         /\ [row EXCEPT !.status = st].req = row.req
         /\ ApprovalKey([row EXCEPT !.status = st]) = ApprovalKey(row)
BY DEF Approval, ApprovalKey

\* Requests that are changed, none added and none removed.
LEMMA RequestsOnly ==
  ASSUME TypeOK, IsTable(requests', 1 .. requestSeq, Request),
         DOMAIN requests' = DOMAIN requests,
         IsTable(calls', Call, CallRecord),
         UNCHANGED <<approvals, requestSeq, approvalSeq>>
  PROVE  TypeOK'
BY DEF TypeOK

-----------------------------------------------------------------------------
(* Type correctness.                                                       *)

LEMMA TypeInit == Init => TypeOK
BY EmptyTable, BoundAssumption DEF Init, TypeOK

LEMMA NewCallKeepsTypes ==
  ASSUME TypeOK, NEW c \in Call, NewCall(c)
  PROVE  TypeOK'
<1>1. ASSUME NEW e \in Employee, NEW d \in Day, Create(c, e, d)
      PROVE  TypeOK'
  <2>1. [pc |-> "insertRequest", emp |-> e, day |-> d] \in CallRecord
    BY DEF CallRecord
  <2> QED  BY <1>1, <2>1, StartKeepsTypes DEF Create
<1>2. ASSUME NEW r \in RequestId, NEW ed \in Edit, Update(c, r, ed)
      PROVE  TypeOK'
  <2>1. [pc |-> "editRequest", req |-> r, edit |-> ed] \in CallRecord
    BY DEF CallRecord
  <2> QED  BY <1>2, <2>1, StartKeepsTypes DEF Update
<1>3. ASSUME NEW r \in RequestId, Remove(c, r)
      PROVE  TypeOK'
  <2>1. [pc |-> "deleteRequest", req |-> r] \in CallRecord
    BY DEF CallRecord
  <2> QED  BY <1>3, <2>1, StartKeepsTypes DEF Remove
<1>4. ASSUME NEW r \in RequestId, NEW a \in Approver, NEW lvl \in {"MANAGER", "HR"},
             NEW st \in Verdict, CreateApproval(c, r, a, lvl, st)
      PROVE  TypeOK'
  <2> DEFINE row == [req |-> r, approver |-> a, level |-> lvl, status |-> st]
  <2>1. row \in Approval
    BY DEF Approval
  <2>2. [pc |-> "insertApproval", row |-> row] \in CallRecord
    BY <2>1 DEF CallRecord
  <2> QED  BY <1>4, <2>2, StartKeepsTypes DEF CreateApproval
<1>5. ASSUME NEW i \in ApprovalId, NEW st \in Verdict \cup {NoStatus},
             UpdateApproval(c, i, st)
      PROVE  TypeOK'
  <2>1. approvals[i] \in Approval
    BY <1>5, RowOfTable DEF UpdateApproval, TypeOK
  <2>2. approvals[i].req \in RequestId
    BY <2>1 DEF Approval
  <2> DEFINE rec == [pc |-> "updateApproval", req |-> approvals[i].req, id |-> i,
                     status |-> st]
  <2>3. rec \in CallRecord
    BY <2>2 DEF CallRecord
  <2> QED  BY <1>5, <2>3, StartKeepsTypes DEF UpdateApproval
<1>6. ASSUME NEW r \in RequestId, NEW a \in Approver, NEW lvl \in {"MANAGER", "HR"},
             NEW st \in Verdict, ProcessApproval(c, r, a, lvl, st)
      PROVE  TypeOK'
  <2>1. \A i \in Existing(r, a, lvl) : i \in ApprovalId
    BY BoundAssumption DEF Existing, TypeOK, IsTable, ApprovalId
  <2> QED  BY <1>4, <1>5, <1>6, <2>1 DEF ProcessApproval
<1>7. ASSUME NEW i \in ApprovalId, RemoveApproval(c, i)
      PROVE  TypeOK'
  <2>1. approvals[i] \in Approval
    BY <1>7, RowOfTable DEF RemoveApproval, TypeOK
  <2>2. approvals[i].req \in RequestId
    BY <2>1 DEF Approval
  <2> DEFINE rec == [pc |-> "deleteApproval", req |-> approvals[i].req, id |-> i]
  <2>3. rec \in CallRecord
    BY <2>2 DEF CallRecord
  <2> QED  BY <1>7, <2>3, StartKeepsTypes DEF RemoveApproval
<1> QED  BY <1>1, <1>2, <1>3, <1>4, <1>5, <1>6, <1>7 DEF NewCall

LEMMA StepKeepsTypes ==
  ASSUME TypeOK, NEW c \in Call, Step(c)
  PROVE  TypeOK'
<1>0. /\ c \in DOMAIN calls
      /\ IsTable(requests, 1 .. requestSeq, Request)
      /\ IsTable(approvals, 1 .. approvalSeq, Approval)
  BY DEF Step, InsertRequest, EditRequest, DeleteRequest, InsertApproval,
         WriteApproval, DeleteApproval, ReadApprovals, WriteStatus, At, TypeOK
<1>1. CASE InsertRequest(c)
  <2> DEFINE row == [emp |-> calls[c].emp, day |-> calls[c].day, status |-> "PENDING"]
  <2>1. row \in Request
    BY <1>0, <1>1, CallShape DEF InsertRequest, Request, Status
  <2>2. requestSeq' = requestSeq + 1 /\ requestSeq' \in 0 .. MaxRows
    BY <1>1, BoundAssumption DEF InsertRequest, RoomForRow, TypeOK
  <2>3. requests' = Put(requests, requestSeq', row)
    BY <1>1 DEF InsertRequest
  <2>4. IsTable(requests, 1 .. requestSeq', Request) /\ requestSeq' \in 1 .. requestSeq'
    BY <1>0, <2>2 DEF IsTable, TypeOK
  <2> HIDE DEF row
  <2>5. IsTable(requests', 1 .. requestSeq', Request)
    BY <2>1, <2>3, <2>4, PutIsTable
  <2>6. DOMAIN requests \subseteq DOMAIN requests'
    BY <2>3 DEF Put
  <2> QED  BY <1>1, <2>2, <2>5, <2>6, ReturnKeepsTypes DEF InsertRequest, TypeOK
<1>2. CASE EditRequest(c)
  <2> DEFINE r == calls[c].req
  <2>1. IsTable(calls', Call, CallRecord)
    BY <1>2, ReturnKeepsTypes DEF EditRequest
  <2>2. CASE r \in DOMAIN requests
    <3>1. requests[r] \in Request /\ calls[c].edit \in Edit
      BY <1>0, <1>2, <2>2, RowOfTable, CallShape DEF EditRequest
    <3>2. Overlay(calls[c].edit, requests[r]) \in Request
      BY <3>1, OverlayIsRequest
    <3>3. requests' = [requests EXCEPT ![r] = Overlay(calls[c].edit, requests[r])]
      BY <1>2, <2>2 DEF EditRequest
    <3>4. IsTable(requests', 1 .. requestSeq, Request) /\ DOMAIN requests' = DOMAIN requests
      BY <1>0, <2>2, <3>2, <3>3, ExceptIsTable
    <3> QED  BY <1>2, <2>1, <3>4, RequestsOnly DEF EditRequest
  <2>3. CASE r \notin DOMAIN requests
    BY <1>0, <1>2, <2>1, <2>3, RequestsOnly DEF EditRequest
  <2> QED  BY <2>2, <2>3
<1>3. CASE DeleteRequest(c)
  <2> DEFINE r == calls[c].req
  <2>1. IsTable(calls', Call, CallRecord)
    BY <1>3, ReturnKeepsTypes DEF DeleteRequest
  <2>2. IsTable(requests', 1 .. requestSeq, Request)
    BY <1>0, <1>3, DropIsTable DEF DeleteRequest
  <2>3. DOMAIN requests' = DOMAIN requests \ {r}
    BY <1>3 DEF DeleteRequest, Drop
  <2>4. /\ DOMAIN approvals' = DOMAIN approvals \ ApprovalsOf(r)
        /\ \A i \in DOMAIN approvals' : approvals'[i] = approvals[i]
        /\ approvals' = [i \in DOMAIN approvals' |-> approvals'[i]]
    BY <1>3 DEF DeleteRequest
  <2>5. IsTable(approvals', 1 .. approvalSeq, Approval)
    BY <1>0, <2>4 DEF IsTable
  <2>6. \A i \in DOMAIN approvals' : approvals[i].req # r /\ i \in DOMAIN approvals
    BY <2>4 DEF ApprovalsOf
  <2>7. \A i \in DOMAIN approvals' : approvals'[i].req \in DOMAIN requests'
    BY <2>3, <2>4, <2>6 DEF TypeOK
  <2> QED  BY <1>3, <2>1, <2>2, <2>4, <2>5, <2>6, <2>7 DEF DeleteRequest, TypeOK
<1>4. CASE InsertApproval(c)
  <2> DEFINE row == calls[c].row
  <2>1. row \in Approval
    BY <1>0, <1>4, CallShape DEF InsertApproval
  <2>2. CASE /\ row.req \in DOMAIN requests
             /\ Existing(row.req, row.approver, row.level) = {}
    <3>1. approvalSeq' = approvalSeq + 1 /\ approvalSeq' \in 0 .. MaxRows
      BY <1>4, <2>2, BoundAssumption DEF InsertApproval, RoomForRow, TypeOK
    <3>2. approvals' = Put(approvals, approvalSeq', row)
      BY <1>4, <2>2 DEF InsertApproval
    <3>3. /\ IsTable(approvals, 1 .. approvalSeq', Approval)
          /\ approvalSeq' \in 1 .. approvalSeq' /\ approvalSeq' \notin DOMAIN approvals
      BY <1>0, <3>1 DEF IsTable, TypeOK
    <3>4. IsTable(approvals', 1 .. approvalSeq', Approval)
      BY <2>1, <3>2, <3>3, PutIsTable
    <3>5. row.req \in RequestId
      BY <2>1 DEF Approval
    <3>6. IsTable(calls', Call, CallRecord)
      BY <1>0, <1>4, <2>2, <3>5, GoRecomputeKeepsTypes DEF InsertApproval
    <3>7. /\ DOMAIN approvals' = DOMAIN approvals \cup {approvalSeq'}
          /\ approvals'[approvalSeq'] = row
          /\ \A i \in DOMAIN approvals : approvals'[i] = approvals[i]
      BY <3>2, <3>3 DEF Put
    <3>8. \A i \in DOMAIN approvals : ApprovalKey(approvals[i]) # ApprovalKey(row)
      BY <2>2 DEF Existing, ApprovalKey
    <3>9. \A i \in DOMAIN approvals' : approvals'[i].req \in DOMAIN requests
      BY <2>2, <3>7 DEF TypeOK
    <3>10. \A i, j \in DOMAIN approvals' :
             ApprovalKey(approvals'[i]) = ApprovalKey(approvals'[j]) => i = j
      BY <3>7, <3>8 DEF TypeOK
    <3> QED  BY <1>4, <3>1, <3>4, <3>6, <3>9, <3>10 DEF InsertApproval, TypeOK, ApprovalKey
  <2>3. CASE ~(/\ row.req \in DOMAIN requests
               /\ Existing(row.req, row.approver, row.level) = {})
    BY <1>4, <2>3, ReturnKeepsTypes DEF InsertApproval, TypeOK
  <2> QED  BY <2>2, <2>3
<1>5. CASE WriteApproval(c)
  <2> DEFINE i == calls[c].id
  <2>1. IsTable(calls', Call, CallRecord)
    BY <1>0, <1>5, CallShape, GoRecomputeKeepsTypes DEF WriteApproval
  <2>2. CASE i \in DOMAIN approvals /\ calls[c].status # NoStatus
    <3> DEFINE row == [approvals[i] EXCEPT !.status = calls[c].status]
    <3>1. approvals[i] \in Approval /\ calls[c].status \in Verdict
      BY <1>0, <1>5, <2>2, RowOfTable, CallShape DEF WriteApproval
    <3>2. /\ row \in Approval /\ row.req = approvals[i].req
          /\ ApprovalKey(row) = ApprovalKey(approvals[i])
      BY <3>1, VerdictIsApproval
    <3>3. approvals' = [approvals EXCEPT ![i] = row]
      BY <1>5, <2>2 DEF WriteApproval
    <3> HIDE DEF row
    <3>4. IsTable(approvals', 1 .. approvalSeq, Approval)
      BY <1>0, <2>2, <3>2, <3>3, ExceptIsTable
    <3>5. /\ DOMAIN approvals' = DOMAIN approvals
          /\ \A j \in DOMAIN approvals : approvals'[j] = IF j = i THEN row ELSE approvals[j]
      BY <3>3
    <3>6. \A j \in DOMAIN approvals : /\ approvals'[j].req = approvals[j].req
                                      /\ ApprovalKey(approvals'[j]) = ApprovalKey(approvals[j])
      BY <3>2, <3>5
    <3> QED  BY <1>5, <2>1, <3>4, <3>5, <3>6 DEF WriteApproval, TypeOK
  <2>3. CASE ~(i \in DOMAIN approvals /\ calls[c].status # NoStatus)
    BY <1>5, <2>1, <2>3 DEF WriteApproval, TypeOK
  <2> QED  BY <2>2, <2>3
<1>6. CASE DeleteApproval(c)
  <2>1. IsTable(calls', Call, CallRecord)
    BY <1>0, <1>6, CallShape, GoRecomputeKeepsTypes DEF DeleteApproval
  <2>2. IsTable(approvals', 1 .. approvalSeq, Approval)
    BY <1>0, <1>6, DropIsTable DEF DeleteApproval
  <2>3. \A i \in DOMAIN approvals' : i \in DOMAIN approvals /\ approvals'[i] = approvals[i]
    BY <1>6 DEF DeleteApproval, Drop
  <2> QED  BY <1>6, <2>1, <2>2, <2>3 DEF DeleteApproval, TypeOK
<1>7. CASE ReadApprovals(c)
  <2> DEFINE r == calls[c].req
  <2>1. r \in RequestId /\ Computed(r) \in Status
    BY <1>0, <1>7, CallShape, ComputedIsStatus DEF ReadApprovals
  <2>2. [pc |-> "writeStatus", req |-> r, status |-> Computed(r)] \in CallRecord
    BY <2>1 DEF CallRecord
  <2>3. IsTable(calls', Call, CallRecord)
    BY <1>0, <1>7, <2>2, MoveKeepsTypes DEF ReadApprovals
  <2> QED  BY <1>7, <2>3 DEF ReadApprovals, TypeOK
<1>8. CASE WriteStatus(c)
  <2> DEFINE r == calls[c].req
  <2>1. IsTable(calls', Call, CallRecord)
    BY <1>8, ReturnKeepsTypes DEF WriteStatus
  <2>2. CASE r \in DOMAIN requests
    <3>1. requests[r] \in Request /\ calls[c].status \in Status
      BY <1>0, <1>8, <2>2, RowOfTable, CallShape DEF WriteStatus
    <3>2. [requests[r] EXCEPT !.status = calls[c].status] \in Request
      BY <3>1, StatusIsRequest
    <3>3. requests' = [requests EXCEPT ![r] = [requests[r] EXCEPT !.status = calls[c].status]]
      BY <1>8, <2>2 DEF WriteStatus
    <3>4. IsTable(requests', 1 .. requestSeq, Request) /\ DOMAIN requests' = DOMAIN requests
      BY <1>0, <2>2, <3>2, <3>3, ExceptIsTable
    <3> QED  BY <1>8, <2>1, <3>4, RequestsOnly DEF WriteStatus
  <2>3. CASE r \notin DOMAIN requests
    BY <1>0, <1>8, <2>1, <2>3, RequestsOnly DEF WriteStatus
  <2> QED  BY <2>2, <2>3
<1> QED  BY <1>1, <1>2, <1>3, <1>4, <1>5, <1>6, <1>7, <1>8 DEF Step

LEMMA FailKeepsTypes ==
  ASSUME TypeOK, NEW c, Fail(c)
  PROVE  TypeOK'
BY ReturnKeepsTypes DEF Fail, TypeOK

\* Every row and every call in flight keeps its shape, each approval belongs
\* to a request, and no approver decides a request twice at a level, whatever
\* the interleaving of the handlers and the failures.
THEOREM OvertimeTypeCorrect == Spec => []TypeOK
<1>1. TypeOK /\ [Next]_vars => TypeOK'
  <2> SUFFICES ASSUME TypeOK, [Next]_vars
               PROVE  TypeOK'
    OBVIOUS
  <2>1. ASSUME NEW c \in Call, NewCall(c) \/ Step(c)
        PROVE  TypeOK'
    BY <2>1, NewCallKeepsTypes, StepKeepsTypes
  <2>2. ASSUME NEW c \in Mortal, Fail(c)
        PROVE  TypeOK'
    BY <2>2, FailKeepsTypes
  <2>3. CASE UNCHANGED vars
    BY <2>3 DEF vars, TypeOK
  <2> QED  BY <2>1, <2>2, <2>3 DEF Next
<1> QED  BY <1>1, TypeInit, PTL DEF Spec

-----------------------------------------------------------------------------
(* What the calls that do not move see of a step.                          *)

\* A handler starts, and so far has only read.
LEMMA NewCallFrame ==
  ASSUME NEW c \in Call, NewCall(c)
  PROVE  /\ Free(c) /\ InFlight' = InFlight \cup {c}
         /\ \A d \in InFlight : calls'[d] = calls[d]
         /\ UNCHANGED <<requests, approvals, requestSeq, approvalSeq>>
<1>1. \E rec : Start(c, rec)
  <2>1. \A e, d : Create(c, e, d) => \E rec : Start(c, rec)
    BY DEF Create
  <2>2. \A r, ed : Update(c, r, ed) => \E rec : Start(c, rec)
    BY DEF Update
  <2>3. \A r : Remove(c, r) => \E rec : Start(c, rec)
    BY DEF Remove
  <2>4. \A r, a, lvl, st : CreateApproval(c, r, a, lvl, st) => \E rec : Start(c, rec)
    BY DEF CreateApproval
  <2>5. \A i, st : UpdateApproval(c, i, st) => \E rec : Start(c, rec)
    BY DEF UpdateApproval
  <2>6. \A i : RemoveApproval(c, i) => \E rec : Start(c, rec)
    BY DEF RemoveApproval
  <2>7. \A r, a, lvl, st : ProcessApproval(c, r, a, lvl, st) => \E rec : Start(c, rec)
    BY <2>4, <2>5 DEF ProcessApproval
  <2> QED  BY <2>1, <2>2, <2>3, <2>4, <2>5, <2>6, <2>7 DEF NewCall
<1> QED  BY <1>1 DEF Start, Free, Put, InFlight

\* A handler goes on, or fails: it was in flight, and no other call is touched.
LEMMA StepFrame ==
  ASSUME NEW c \in Call, Step(c) \/ Fail(c)
  PROVE  /\ c \in InFlight /\ InFlight' \subseteq InFlight
         /\ InFlight \ {c} \subseteq InFlight'
         /\ \A d \in InFlight \ {c} : calls'[d] = calls[d]
<1>1. CASE Return(c) /\ c \in InFlight
  BY <1>1 DEF Return, Drop, InFlight
<1>2. CASE c \in InFlight /\ \E rec : calls' = [calls EXCEPT ![c] = rec]
  BY <1>2 DEF InFlight
<1> QED
  BY <1>1, <1>2
     DEF Step, Fail, Free, At, InFlight, InsertRequest, EditRequest, DeleteRequest,
         InsertApproval, WriteApproval, DeleteApproval, ReadApprovals, WriteStatus,
         GoRecompute

\* The call that is gone after a step is the one that has taken it.
LEMMA ReturnedIsTheStep ==
  ASSUME NEW c \in Call, NewCall(c) \/ Step(c) \/ Fail(c),
         NEW d \in InFlight, Free(d)'
  PROVE  d = c /\ (Step(c) \/ Fail(c))
BY NewCallFrame, StepFrame DEF InFlight, Free

-----------------------------------------------------------------------------
(* The status that the approvals call for.                                 *)

\* approvals.find finds one when there is one, and it is the first.
LEMMA OldestIsOne ==
  ASSUME NEW n \in Nat, NEW ids \in SUBSET (1 .. n), ids # {}
  PROVE  Oldest(ids) \in ids
<1> DEFINE Older(i) == {j \in ids : j < i}
           T == {Older(i) : i \in ids}
<1>1. IsWellFoundedOn(StrictSubsetOrdering(1 .. n), SUBSET (1 .. n))
  <2>1. IsFiniteSet(1 .. n)
    BY FS_Interval
  <2> QED  BY <2>1, FS_StrictSubsetOrderingWellFounded, FS_FiniteSubsetsOfFinite
<1>2. T \subseteq SUBSET (1 .. n) /\ T # {}
  OBVIOUS
<1>3. PICK U \in T : \A V \in T : <<V, U>> \notin StrictSubsetOrdering(1 .. n)
  <2> HIDE DEF T
  <2> QED  BY <1>1, <1>2, WFMin
<1>4. PICK i \in ids : U = Older(i)
  BY <1>3
<1>5. ASSUME NEW j \in Older(i)
      PROVE  FALSE
  <2>1. Older(j) \subseteq Older(i) /\ j \notin Older(j) /\ j \in ids
    <3>1. j \in ids /\ j < i /\ i \in Int /\ j \in Int
      OBVIOUS
    <3>2. \A x \in ids : x < j => x < i
      BY <3>1
    <3>3. ~(j < j)
      BY <3>1
    <3> QED  BY <3>1, <3>2, <3>3
  <2>2. <<Older(j), U>> \in StrictSubsetOrdering(1 .. n)
    BY <1>4, <1>5, <2>1 DEF StrictSubsetOrdering
  <2>3. Older(j) \in T
    BY <2>1
  <2> QED  BY <1>3, <2>2, <2>3
<1>6. \A j \in ids : i <= j
  BY <1>5
<1> QED  BY <1>6 DEF Oldest

\* It depends on the approvals of the request and on nothing else.
LEMMA SameApprovals ==
  ASSUME TypeOK, NEW r, ApprovalsOf(r)' = ApprovalsOf(r),
         \A i \in ApprovalsOf(r) : approvals'[i] = approvals[i]
  PROVE  Computed(r)' = Computed(r)
<1>1. ASSUME NEW lvl
      PROVE  VerdictOf(r, lvl)' = VerdictOf(r, lvl)
  <2> DEFINE ids == {i \in ApprovalsOf(r) : approvals[i].level = lvl}
             new == {i \in ApprovalsOf(r)' : approvals'[i].level = lvl}
  <2>1. new = ids
    OBVIOUS
  <2>2. ids # {} => Oldest(ids) \in ids
    <3>1. approvalSeq \in Nat /\ ids \in SUBSET (1 .. approvalSeq)
      BY BoundAssumption DEF TypeOK, IsTable, ApprovalsOf
    <3> QED  BY <3>1, OldestIsOne
  <2>3. ids # {} => approvals'[Oldest(ids)] = approvals[Oldest(ids)]
    BY <2>2
  <2>4. VerdictOf(r, lvl) = IF ids = {} THEN "none" ELSE approvals[Oldest(ids)].status
    BY DEF VerdictOf
  <2>5. VerdictOf(r, lvl)' = IF new = {} THEN "none" ELSE approvals'[Oldest(new)].status
    BY DEF VerdictOf, Oldest
  <2> HIDE DEF ids, new
  <2> QED  BY <2>1, <2>3, <2>4, <2>5
<1> QED  BY <1>1 DEF Computed

-----------------------------------------------------------------------------
(* The invariant.                                                          *)

\* A call about to change an approval knows which request the approval is of.
Knows ==
  \A c \in InFlight :
    calls[c].pc \in {"updateApproval", "deleteApproval"} =>
      /\ calls[c].id \in 1 .. approvalSeq
      /\ calls[c].id \in DOMAIN approvals => approvals[calls[c].id].req = calls[c].req

\* What the handler has found before its last statement is still so.
StillTrue(c) ==
  /\ At(c, "insertRequest") =>
       ~\E r \in DOMAIN requests :
          requests[r].emp = calls[c].emp /\ requests[r].day = calls[c].day /\ IsLive(r)
  /\ At(c, "editRequest") \/ At(c, "deleteRequest") =>
       (calls[c].req \in DOMAIN requests => requests[calls[c].req].status = "PENDING")
  /\ At(c, "writeStatus") =>
       \A r \in RequestId : calls[c].req = r => calls[c].status = Computed(r)

AloneInv == \A c \in Call : Alone(c) => InFlight = {c} /\ StillTrue(c)

AuditInv == TypeOK /\ IsFiniteSet(InFlight) /\ Knows /\ AloneInv

\* No step moves an approval to another request or hands out an old id again,
\* and a handler that has written goes on to the status.
LEMMA ApprovalsStay ==
  ASSUME TypeOK, NEW c \in Call, Step(c) \/ Fail(c)
  PROVE  /\ approvalSeq \in Nat /\ approvalSeq' \in {approvalSeq, approvalSeq + 1}
         /\ \A i \in (1 .. approvalSeq) \cap DOMAIN approvals' :
              i \in DOMAIN approvals /\ approvals'[i].req = approvals[i].req
         /\ c \in InFlight' => calls'[c].pc \in {"readApprovals", "writeStatus"}
<1>1. /\ approvalSeq \in Nat
      /\ \A i \in DOMAIN approvals : approvals[i] \in Approval
  BY BoundAssumption, RowOfTable DEF TypeOK
<1>2. Return(c) => c \notin InFlight'
  BY DEF Return, Drop, InFlight
<1>3. \A r : GoRecompute(c, r) /\ c \in InFlight' => calls'[c].pc = "readApprovals"
  BY DEF GoRecompute, InFlight
<1>4. CASE InsertApproval(c)
  <2>1. CASE UNCHANGED <<approvals, approvalSeq>> /\ Return(c)
    BY <1>1, <1>2, <2>1
  <2>2. CASE /\ approvalSeq' = approvalSeq + 1
             /\ approvals' = Put(approvals, approvalSeq', calls[c].row)
             /\ GoRecompute(c, calls[c].row.req)
    BY <1>1, <1>3, <2>2 DEF Put
  <2> QED  BY <1>4, <2>1, <2>2 DEF InsertApproval
<1>5. CASE WriteApproval(c)
  <2>1. \A i \in DOMAIN approvals : \A st :
          [approvals[i] EXCEPT !.status = st].req = approvals[i].req
    BY <1>1 DEF Approval
  <2> QED  BY <1>1, <1>3, <1>5, <2>1 DEF WriteApproval
<1>6. CASE DeleteApproval(c) \/ DeleteRequest(c)
  BY <1>1, <1>2, <1>3, <1>6 DEF DeleteApproval, DeleteRequest, Drop
<1>7. CASE ReadApprovals(c)
  BY <1>1, <1>7 DEF ReadApprovals, InFlight
<1>8. CASE InsertRequest(c) \/ EditRequest(c) \/ WriteStatus(c) \/ Fail(c)
  BY <1>1, <1>2, <1>8 DEF InsertRequest, EditRequest, WriteStatus, Fail
<1> QED  BY <1>4, <1>5, <1>6, <1>7, <1>8 DEF Step

LEMMA KnowsKept ==
  ASSUME TypeOK, Knows, NEW c \in Call, NewCall(c) \/ Step(c) \/ Fail(c)
  PROVE  Knows'
<1>1. CASE Step(c) \/ Fail(c)
  BY <1>1, ApprovalsStay, StepFrame DEF Knows
<1>2. CASE NewCall(c)
  <2>1. /\ InFlight' = InFlight \cup {c}
        /\ \A d \in InFlight : calls'[d] = calls[d]
        /\ UNCHANGED <<approvals, approvalSeq>>
    BY <1>2, NewCallFrame
  <2>2. calls'[c].pc \in {"updateApproval", "deleteApproval"} =>
          \E i \in DOMAIN approvals :
            calls'[c].id = i /\ calls'[c].req = approvals[i].req
    BY <1>2 DEF NewCall, Create, Update, Remove, CreateApproval, ProcessApproval,
                UpdateApproval, RemoveApproval, Start, Put, Existing
  <2>3. DOMAIN approvals \subseteq 1 .. approvalSeq
    BY DEF TypeOK, IsTable
  <2> QED  BY <2>1, <2>2, <2>3 DEF Knows
<1> QED  BY <1>1, <1>2

\* A handler that has the database to itself when it starts finds what it
\* needs, and its last statement finds the same.
LEMMA NewCallStillTrue ==
  ASSUME TypeOK, NEW c \in Call, NewCall(c)
  PROVE  StillTrue(c)'
<1>1. UNCHANGED requests /\ At(c, "writeStatus")' = FALSE
  BY DEF NewCall, Create, Update, Remove, CreateApproval, ProcessApproval,
         UpdateApproval, RemoveApproval, Start, Put, At
<1>2. At(c, "insertRequest")' =>
        ~\E r \in DOMAIN requests :
           requests[r].emp = calls'[c].emp /\ requests[r].day = calls'[c].day /\ IsLive(r)
  BY DEF NewCall, Create, Update, Remove, CreateApproval, ProcessApproval,
         UpdateApproval, RemoveApproval, Start, Put, At
<1>3. At(c, "editRequest")' \/ At(c, "deleteRequest")' =>
        (calls'[c].req \in DOMAIN requests => requests[calls'[c].req].status = "PENDING")
  BY DEF NewCall, Create, Update, Remove, CreateApproval, ProcessApproval,
         UpdateApproval, RemoveApproval, Start, Put, At, IsPending
<1> QED  BY <1>1, <1>2, <1>3 DEF StillTrue, IsLive

LEMMA StepStillTrue ==
  ASSUME TypeOK, NEW c \in Call, Step(c) \/ Fail(c), c \in InFlight'
  PROVE  StillTrue(c)'
<1>1. calls'[c].pc \in {"readApprovals", "writeStatus"}
  BY ApprovalsStay
<1>2. CASE ReadApprovals(c)
  <2>1. UNCHANGED approvals /\ calls'[c] = [pc |-> "writeStatus", req |-> calls[c].req,
                                           status |-> Computed(calls[c].req)]
    BY <1>2 DEF ReadApprovals, At
  <2>2. \A r : Computed(r)' = Computed(r)
    BY <2>1, SameApprovals DEF ApprovalsOf
  <2> QED  BY <1>1, <2>1, <2>2 DEF StillTrue, At
<1>3. CASE ~ReadApprovals(c)
  <2>1. calls'[c].pc = "readApprovals"
    BY <1>3 DEF Step, Fail, Free, At, InFlight, InsertRequest, EditRequest, DeleteRequest,
                InsertApproval, WriteApproval, DeleteApproval, WriteStatus, GoRecompute,
                Return, Drop
  <2> QED  BY <2>1 DEF StillTrue, At
<1> QED  BY <1>2, <1>3

\* A call that is alone after a step has taken that step itself.
LEMMA AloneKept ==
  ASSUME AuditInv, AuditNext, NEW c \in Call, NewCall(c) \/ Step(c) \/ Fail(c)
  PROVE  IsFiniteSet(InFlight') /\ AloneInv'
<1>1. IsFiniteSet(InFlight')
  <2>1. IsFiniteSet(InFlight \cup {c}) /\ InFlight' \subseteq InFlight \cup {c}
    BY NewCallFrame, StepFrame, FS_AddElement DEF AuditInv
  <2> QED  BY <2>1, FS_Subset
<1>2. SUFFICES ASSUME NEW d \in Call, Alone(d)'
               PROVE  InFlight' = {d} /\ StillTrue(d)'
  BY <1>1 DEF AloneInv
<1>3. d \in InFlight' /\ d \notin overlapped'
  BY <1>2 DEF Alone
<1>4. InFlight' = {d}
  <2>1. ~(Cardinality(InFlight') > 1)
    BY <1>3 DEF AuditNext
  <2>2. Cardinality(InFlight') \in Nat /\ Cardinality(InFlight') # 0
    BY <1>1, <1>3, FS_CardinalityType, FS_EmptySet
  <2>3. Cardinality(InFlight') = 1
    BY <2>1, <2>2
  <2>4. PICK x : InFlight' = {x}
    BY <1>1, <2>3, FS_Singleton
  <2> QED  BY <1>3, <2>4
<1>5. d = c
  <2>1. CASE NewCall(c)
    BY <1>4, <2>1, NewCallFrame
  <2>2. CASE Step(c) \/ Fail(c)
    <3>1. d \in InFlight /\ d \notin overlapped
      BY <1>3, <1>4, <2>2, StepFrame, FS_Singleton DEF AuditNext
    <3>2. InFlight = {d}
      BY <3>1 DEF AuditInv, AloneInv, Alone
    <3> QED  BY <2>2, <3>2, StepFrame
  <2> QED  BY <2>1, <2>2
<1>6. StillTrue(c)'
  BY <1>3, <1>5, NewCallStillTrue, StepStillTrue DEF AuditInv
<1> QED  BY <1>4, <1>5, <1>6

LEMMA AuditInvariant == AuditSpec => []AuditInv
<1>1. AuditInit => AuditInv
  BY TypeInit, FS_EmptySet
     DEF AuditInit, Init, AuditInv, Knows, AloneInv, Alone, InFlight
<1>2. AuditInv /\ [AuditNext]_auditVars => AuditInv'
  <2> SUFFICES ASSUME AuditInv, [AuditNext]_auditVars
               PROVE  AuditInv'
    OBVIOUS
  <2>1. CASE AuditNext
    <3>1. PICK c \in Call : NewCall(c) \/ Step(c) \/ Fail(c)
      BY <2>1, BoundAssumption DEF AuditNext, Next
    <3>2. TypeOK'
      BY <3>1, NewCallKeepsTypes, StepKeepsTypes, FailKeepsTypes DEF AuditInv
    <3> QED  BY <2>1, <3>1, <3>2, KnowsKept, AloneKept DEF AuditInv
  <2>2. CASE UNCHANGED auditVars
    <3>1. TypeOK' /\ Knows' /\ UNCHANGED <<InFlight, overlapped>>
      BY <2>2 DEF AuditInv, TypeOK, Knows, auditVars, vars, InFlight
    <3>2. \A r : Computed(r)' = Computed(r)
      BY <2>2, SameApprovals DEF AuditInv, ApprovalsOf, auditVars, vars
    <3>3. AloneInv'
      BY <2>2, <3>1, <3>2
         DEF AuditInv, AloneInv, Alone, StillTrue, At, IsLive, auditVars, vars
    <3> QED  BY <3>1, <3>3 DEF AuditInv
  <2> QED  BY <2>1, <2>2
<1> QED  BY <1>1, <1>2, PTL DEF AuditSpec

-----------------------------------------------------------------------------
(* The status follows the approvals.                                       *)

\* A step that leaves the approvals and the status of r alone, and is not the
\* one that was going to settle r, leaves r settled.
LEMMA SettledFrame ==
  ASSUME NEW c \in Call, NewCall(c) \/ Step(c) \/ Fail(c),
         NEW r, Settled(r), Computed(r)' = Computed(r),
         requests'[r].status = requests[r].status,
         WillSettle(c, r) => WillSettle(c, r)'
  PROVE  Settled(r)'
<1>1. CASE requests[r].status = Computed(r)
  BY <1>1 DEF Settled
<1>2. ASSUME NEW d \in Call, WillSettle(d, r)
      PROVE  WillSettle(d, r)'
  <2>1. CASE d = c
    BY <1>2, <2>1
  <2>2. CASE d # c
    <3>1. d \in InFlight /\ d \in InFlight' /\ calls'[d] = calls[d]
      BY <1>2, <2>2, NewCallFrame, StepFrame DEF WillSettle, At, InFlight
    <3> QED  BY <1>2, <3>1 DEF WillSettle, At, InFlight
  <2> QED  BY <2>1, <2>2
<1> QED  BY <1>1, <1>2 DEF Settled

\* Approvals of other requests do not matter.
LEMMA OtherApprovals ==
  ASSUME TypeOK, NEW r,
         \A i \in DOMAIN approvals \cup DOMAIN approvals' :
           \/ /\ i \in DOMAIN approvals /\ i \in DOMAIN approvals'
              /\ approvals'[i] = approvals[i]
           \/ /\ i \in DOMAIN approvals => approvals[i].req # r
              /\ i \in DOMAIN approvals' => approvals'[i].req # r
  PROVE  Computed(r)' = Computed(r)
<1>1. ApprovalsOf(r)' = ApprovalsOf(r)
  BY DEF ApprovalsOf
<1>2. \A i \in ApprovalsOf(r) : approvals'[i] = approvals[i]
  BY DEF ApprovalsOf
<1> QED  BY <1>1, <1>2, SameApprovals

LEMMA SettledStep ==
  ASSUME AuditInv, NEW c \in Call, Step(c),
         NEW r \in DOMAIN requests \cap DOMAIN requests', Settled(r),
         ~StaleWrite(c, r), ~SetsStatus(c, r)
  PROVE  Settled(r)'
<1>0. /\ c \in DOMAIN calls /\ r \in RequestId
      /\ \A i \in DOMAIN approvals : approvals[i] \in Approval
      /\ \A q \in DOMAIN requests : requests[q] \in Request
  BY StepFrame, RowOfTable, BoundAssumption DEF AuditInv, TypeOK, InFlight, RequestId
<1>1. ASSUME UNCHANGED approvals
      PROVE  Computed(r)' = Computed(r)
  BY <1>1, OtherApprovals DEF AuditInv
<1>2. CASE InsertRequest(c)
  <2>1. requests'[r] = requests[r] /\ UNCHANGED approvals /\ ~WillSettle(c, r)
    BY <1>2 DEF InsertRequest, Put, WillSettle, At, AuditInv, TypeOK, IsTable
  <2> QED  BY <1>1, <2>1, SettledFrame
<1>3. CASE EditRequest(c)
  <2>1. UNCHANGED approvals /\ ~WillSettle(c, r)
    BY <1>3 DEF EditRequest, WillSettle, At
  <2>2. requests'[r].status = requests[r].status
    <3>1. CASE calls[c].req = r
      <4>1. "status" \notin DOMAIN calls[c].edit
        BY <1>3, <3>1 DEF SetsStatus, EditRequest, Return, Drop, Free
      <4>2. requests'[r] = Overlay(calls[c].edit, requests[r])
        BY <1>3, <3>1 DEF EditRequest
      <4> QED  BY <1>0, <4>1, <4>2 DEF Overlay, Request
    <3>2. CASE calls[c].req # r
      BY <1>3, <3>2 DEF EditRequest
    <3> QED  BY <3>1, <3>2
  <2> QED  BY <1>1, <2>1, <2>2, SettledFrame
<1>4. CASE DeleteRequest(c)
  <2>1. calls[c].req # r /\ requests'[r] = requests[r] /\ ~WillSettle(c, r)
    BY <1>4 DEF DeleteRequest, Drop, WillSettle, At
  <2>2. Computed(r)' = Computed(r)
    BY <1>4, <2>1, OtherApprovals DEF DeleteRequest, ApprovalsOf, AuditInv
  <2> QED  BY <2>1, <2>2, SettledFrame
<1>5. CASE InsertApproval(c)
  <2>1. UNCHANGED requests /\ ~WillSettle(c, r)
    BY <1>5 DEF InsertApproval, WillSettle, At
  <2>2. CASE UNCHANGED approvals
    BY <1>1, <2>1, <2>2, SettledFrame
  <2>3. CASE /\ approvals' = Put(approvals, approvalSeq', calls[c].row)
             /\ approvalSeq' = approvalSeq + 1
             /\ GoRecompute(c, calls[c].row.req)
    <3>1. CASE calls[c].row.req = r
      BY <1>0, <2>3, <3>1 DEF GoRecompute, Settled, WillSettle, At
    <3>2. CASE calls[c].row.req # r
      <4>1. Computed(r)' = Computed(r)
        BY <2>3, <3>2, OtherApprovals DEF Put, AuditInv, TypeOK, IsTable
      <4> QED  BY <2>1, <4>1, SettledFrame
    <3> QED  BY <3>1, <3>2
  <2> QED  BY <1>5, <2>2, <2>3 DEF InsertApproval
<1>6. CASE WriteApproval(c) \/ DeleteApproval(c)
  <2>1. /\ UNCHANGED requests /\ ~WillSettle(c, r)
        /\ calls[c].pc \in {"updateApproval", "deleteApproval"}
        /\ GoRecompute(c, calls[c].req)
    BY <1>6 DEF WriteApproval, DeleteApproval, WillSettle, At
  <2>2. CASE calls[c].req = r
    BY <1>0, <2>1, <2>2 DEF GoRecompute, Settled, WillSettle, At
  <2>3. CASE calls[c].req # r
    <3>1. calls[c].id \in DOMAIN approvals => approvals[calls[c].id].req # r
      BY <1>0, <2>1, <2>3 DEF AuditInv, Knows, InFlight
    <3>2. ASSUME WriteApproval(c)
          PROVE  Computed(r)' = Computed(r)
      <4>1. /\ DOMAIN approvals' = DOMAIN approvals
            /\ \A i \in DOMAIN approvals :
                 approvals'[i] = approvals[i] \/ calls[c].id = i
            /\ \A i \in DOMAIN approvals : approvals'[i].req = approvals[i].req
        <5>1. \A i \in DOMAIN approvals : \A st :
                [approvals[i] EXCEPT !.status = st].req = approvals[i].req
          BY <1>0 DEF Approval
        <5> QED  BY <3>2, <5>1 DEF WriteApproval
      <4> QED  BY <3>1, <4>1, OtherApprovals DEF AuditInv
    <3>3. ASSUME DeleteApproval(c)
          PROVE  Computed(r)' = Computed(r)
      <4>1. /\ DOMAIN approvals' = DOMAIN approvals \ {calls[c].id}
            /\ \A i \in DOMAIN approvals' : approvals'[i] = approvals[i]
        BY <3>3 DEF DeleteApproval, Drop
      <4> QED  BY <3>1, <4>1, OtherApprovals DEF AuditInv
    <3>4. Computed(r)' = Computed(r)
      BY <1>6, <3>2, <3>3
    <3> QED  BY <2>1, <3>4, SettledFrame
  <2> QED  BY <2>2, <2>3
<1>7. CASE ReadApprovals(c)
  <2>1. UNCHANGED <<requests, approvals>>
    BY <1>7 DEF ReadApprovals
  <2>2. WillSettle(c, r) => WillSettle(c, r)'
    <3>1. ASSUME calls[c].req = r
          PROVE  At(c, "writeStatus")' /\ calls'[c].req = r /\ calls'[c].status = Computed(r)
      BY <1>0, <1>7, <3>1 DEF ReadApprovals, At
    <3> QED  BY <1>1, <2>1, <3>1 DEF WillSettle
  <2> QED  BY <1>1, <2>1, <2>2, SettledFrame
<1>8. CASE WriteStatus(c)
  <2>1. UNCHANGED approvals /\ Free(c)' /\ At(c, "writeStatus")
    BY <1>8 DEF WriteStatus, Return, Drop, Free
  <2>2. CASE calls[c].req = r
    <3>1. calls[c].status = Computed(r)
      BY <1>0, <2>1, <2>2 DEF StaleWrite, AuditInv, AloneInv, StillTrue
    <3>2. requests'[r].status = calls[c].status
      BY <1>0, <1>8, <2>2 DEF WriteStatus, Request
    <3> QED  BY <1>1, <2>1, <3>1, <3>2 DEF Settled
  <2>3. CASE calls[c].req # r
    <3>1. requests'[r] = requests[r] /\ ~WillSettle(c, r)
      BY <1>8, <2>3 DEF WriteStatus, WillSettle
    <3> QED  BY <1>1, <2>1, <3>1, SettledFrame
  <2> QED  BY <2>2, <2>3
<1> QED  BY <1>2, <1>3, <1>4, <1>5, <1>6, <1>7, <1>8 DEF Step

\* A request whose status follows from its approvals, or is about to, stays so
\* except at the three steps that StatusFollowsApprovals names.
THEOREM StatusFollows == AuditSpec => StatusFollowsApprovals
<1> DEFINE A == \A r \in DOMAIN requests \cap DOMAIN requests' :
                  (Settled(r) /\ ~Settled(r)') =>
                    \E c \in Call :
                      \/ StaleWrite(c, r)
                      \/ SetsStatus(c, r)
                      \/ WillSettle(c, r) /\ Fail(c)
<1>1. AuditInv /\ [AuditNext]_auditVars => [A]_auditVars
  <2> SUFFICES ASSUME AuditInv, AuditNext,
                      NEW r \in DOMAIN requests \cap DOMAIN requests',
                      Settled(r), ~Settled(r)'
               PROVE  \E c \in Call :
                        \/ StaleWrite(c, r)
                        \/ SetsStatus(c, r)
                        \/ WillSettle(c, r) /\ Fail(c)
    OBVIOUS
  <2>1. PICK c \in Call : NewCall(c) \/ Step(c) \/ Fail(c)
    BY BoundAssumption DEF AuditNext, Next
  <2>2. CASE Step(c)
    BY <2>2, SettledStep
  <2>3. CASE NewCall(c) \/ Fail(c)
    <3>1. UNCHANGED <<requests, approvals>>
      BY <2>3, NewCallFrame DEF Fail
    <3>2. Computed(r)' = Computed(r)
      BY <3>1, OtherApprovals DEF AuditInv
    <3>3. NewCall(c) => ~WillSettle(c, r)
      BY NewCallFrame DEF WillSettle, At, Free
    <3> QED  BY <2>3, <3>1, <3>2, <3>3, SettledFrame
  <2> QED  BY <2>1, <2>2, <2>3
<1> QED  BY <1>1, AuditInvariant, PTL DEF AuditSpec, StatusFollowsApprovals

-----------------------------------------------------------------------------
(* What a handler that met no other one does.                              *)

\* A handler that met no other one never edits or deletes a decided request.
THEOREM DecidedAreKept == AuditSpec => DecidedRequestsAreKept
<1> DEFINE A == \A r \in DOMAIN requests :
                  (requests[r].status # "PENDING"
                     /\ \E c \in Call : /\ Alone(c) /\ Free(c)'
                                        /\ At(c, "editRequest") \/ At(c, "deleteRequest"))
                  => r \in DOMAIN requests' /\ requests'[r] = requests[r]
<1>1. AuditInv /\ [AuditNext]_auditVars => [A]_auditVars
  <2> SUFFICES ASSUME AuditInv, AuditNext, NEW r \in DOMAIN requests,
                      requests[r].status # "PENDING",
                      NEW c \in Call, Alone(c), Free(c)',
                      At(c, "editRequest") \/ At(c, "deleteRequest")
               PROVE  r \in DOMAIN requests' /\ requests'[r] = requests[r]
    OBVIOUS
  <2>1. PICK d \in Call : NewCall(d) \/ Step(d) \/ Fail(d)
    BY BoundAssumption DEF AuditNext, Next
  <2>2. Step(c) \/ Fail(c)
    BY <2>1, ReturnedIsTheStep DEF Alone
  <2>3. calls[c].req # r
    BY DEF AuditInv, AloneInv, StillTrue
  <2>4. EditRequest(c) \/ DeleteRequest(c) \/ Fail(c)
    BY <2>2 DEF Step, At, InsertRequest, InsertApproval, WriteApproval,
                DeleteApproval, ReadApprovals, WriteStatus
  <2> QED  BY <2>3, <2>4 DEF EditRequest, DeleteRequest, Drop, Fail
<1> QED  BY <1>1, AuditInvariant, PTL DEF AuditSpec, DecidedRequestsAreKept

\* Only an approval of HR, and no rejection, calls for APPROVED.
LEMMA ApprovedComputed ==
  ASSUME TypeOK, NEW r, Computed(r) = "APPROVED"
  PROVE  /\ \E i \in ApprovalsOf(r) :
              approvals[i].level = "HR" /\ approvals[i].status = "APPROVED"
         /\ \A i \in ApprovalsOf(r) : approvals[i].status # "REJECTED"
<1>1. \A i \in ApprovalsOf(r) : approvals[i].status # "REJECTED"
  BY DEF Computed
<1>2. VerdictOf(r, "HR") = "APPROVED"
  BY <1>1 DEF Computed
<1> DEFINE ids == {i \in ApprovalsOf(r) : approvals[i].level = "HR"}
<1>3. ids # {} /\ approvals[Oldest(ids)].status = "APPROVED"
  BY <1>2 DEF VerdictOf
<1>4. Oldest(ids) \in ids
  <2>1. approvalSeq \in Nat /\ ids \in SUBSET (1 .. approvalSeq)
    BY BoundAssumption DEF TypeOK, IsTable, ApprovalsOf
  <2> QED  BY <1>3, <2>1, OldestIsOne
<1> QED  BY <1>1, <1>3, <1>4

\* A handler that met no other one makes a request APPROVED only with an
\* approval of HR among its approvals and no rejection.
THEOREM ApprovalTakesHR == AuditSpec => ApprovalNeedsHR
<1> DEFINE A == \A r \in DOMAIN requests \cap DOMAIN requests' :
       (/\ requests'[r].status = "APPROVED" /\ requests[r].status # "APPROVED"
        /\ \E c \in Call : Alone(c) /\ Free(c)' /\ At(c, "writeStatus"))
       => /\ \E i \in ApprovalsOf(r) :
               approvals[i].level = "HR" /\ approvals[i].status = "APPROVED"
          /\ \A i \in ApprovalsOf(r) : approvals[i].status # "REJECTED"
<1>1. AuditInv /\ [AuditNext]_auditVars => [A]_auditVars
  <2> SUFFICES ASSUME AuditInv, AuditNext,
                      NEW r \in DOMAIN requests \cap DOMAIN requests',
                      requests'[r].status = "APPROVED", requests[r].status # "APPROVED",
                      NEW c \in Call, Alone(c), Free(c)', At(c, "writeStatus")
               PROVE  Computed(r) = "APPROVED"
    BY ApprovedComputed DEF AuditInv
  <2>1. PICK d \in Call : NewCall(d) \/ Step(d) \/ Fail(d)
    BY BoundAssumption DEF AuditNext, Next
  <2>2. Step(c) \/ Fail(c)
    BY <2>1, ReturnedIsTheStep DEF Alone
  <2>3. WriteStatus(c)
    BY <2>2 DEF Step, Fail, At, InsertRequest, EditRequest, DeleteRequest, InsertApproval,
                WriteApproval, DeleteApproval, ReadApprovals
  <2>4. requests[r] \in Request /\ r \in RequestId
    BY RowOfTable, BoundAssumption DEF AuditInv, TypeOK, RequestId
  <2>5. calls[c].req = r /\ calls[c].status = "APPROVED"
    BY <2>3, <2>4 DEF WriteStatus, Request
  <2> QED  BY <2>4, <2>5 DEF AuditInv, AloneInv, StillTrue
<1> QED  BY <1>1, AuditInvariant, PTL DEF AuditSpec, ApprovalNeedsHR

\* A second live request for a date comes from an overlap, from a PATCH, or
\* from the revival of an old one, never from create alone.
THEOREM SecondHasACause == AuditSpec => SecondRequestHasACause
<1> DEFINE A == (Clashes' \ Clashes # {}) =>
                  \E c \in Call :
                    /\ c \in InFlight /\ Free(c)'
                    /\ At(c, "editRequest") \/ Revives(c) \/ ~Alone(c)
<1>1. AuditInv /\ [AuditNext]_auditVars => [A]_auditVars
  <2> SUFFICES ASSUME AuditInv, AuditNext,
                      NEW p \in Clashes' \ Clashes,
                      \A c \in Call : c \in InFlight /\ Free(c)' =>
                        ~At(c, "editRequest") /\ ~Revives(c) /\ Alone(c)
               PROVE  FALSE
    OBVIOUS
  <2>1. PICK c \in Call : NewCall(c) \/ Step(c) \/ Fail(c)
    BY BoundAssumption DEF AuditNext, Next
  <2>2. DOMAIN requests \subseteq 1 .. requestSeq /\ requestSeq \in Nat
    BY BoundAssumption DEF AuditInv, TypeOK, IsTable
  <2>3. ASSUME DOMAIN requests' \subseteq DOMAIN requests,
               \A r \in DOMAIN requests' :
                 /\ requests'[r].emp = requests[r].emp /\ requests'[r].day = requests[r].day
                 /\ IsLive(r)' => IsLive(r)
        PROVE  FALSE
    BY <2>3 DEF Clashes
  <2>4. CASE UNCHANGED requests
    BY <2>3, <2>4 DEF IsLive
  <2>5. CASE InsertRequest(c)
    <3> DEFINE new == requestSeq + 1
    <3>1. c \in InFlight /\ Free(c)' /\ At(c, "insertRequest")
      BY <2>5 DEF InsertRequest, InFlight, At, Return, Drop, Free
    <3>2. ~\E r \in DOMAIN requests :
             requests[r].emp = calls[c].emp /\ requests[r].day = calls[c].day /\ IsLive(r)
      BY <3>1 DEF AuditInv, AloneInv, StillTrue
    <3>3. /\ DOMAIN requests' = DOMAIN requests \cup {new}
          /\ \A r \in DOMAIN requests : r # new /\ r < new /\ requests'[r] = requests[r]
          /\ requests'[new].emp = calls[c].emp /\ requests'[new].day = calls[c].day
      BY <2>2, <2>5 DEF InsertRequest, Put
    <3> HIDE DEF new
    <3>4. CASE p[1] \in DOMAIN requests /\ p[2] \in DOMAIN requests
      BY <3>3, <3>4 DEF Clashes, IsLive
    <3>5. CASE p[2] = new /\ p[1] \in DOMAIN requests
      BY <3>2, <3>3, <3>5 DEF Clashes, IsLive
    <3>6. CASE p[1] = new
      <4>1. p[1] < p[2] /\ p[2] \in DOMAIN requests'
        BY DEF Clashes
      <4> QED  BY <2>2, <3>3, <3>6, <4>1 DEF new
    <3>7. p[1] \in DOMAIN requests' /\ p[2] \in DOMAIN requests'
      BY DEF Clashes
    <3> QED  BY <3>3, <3>4, <3>5, <3>6, <3>7
  <2>6. CASE EditRequest(c)
    BY <2>6 DEF EditRequest, InFlight, At, Return, Drop, Free
  <2>7. CASE DeleteRequest(c)
    BY <2>3, <2>7 DEF DeleteRequest, Drop, IsLive
  <2>8. CASE WriteStatus(c)
    <3>1. ~Revives(c)
      BY <2>8 DEF WriteStatus, InFlight, At, Return, Drop, Free
    <3>2. CASE calls[c].req \notin DOMAIN requests
      BY <2>4, <2>8, <3>2 DEF WriteStatus
    <3>3. CASE calls[c].req \in DOMAIN requests /\ IsLive(calls[c].req)
      <4>1. \A r \in DOMAIN requests : requests[r] \in Request
        BY RowOfTable DEF AuditInv, TypeOK
      <4>2. \A r \in DOMAIN requests :
              /\ requests'[r].emp = requests[r].emp /\ requests'[r].day = requests[r].day
              /\ r # calls[c].req => requests'[r] = requests[r]
        BY <2>8, <3>3, <4>1 DEF WriteStatus, Request
      <4>3. DOMAIN requests' = DOMAIN requests
        BY <2>8, <3>3 DEF WriteStatus
      <4> QED  BY <2>3, <3>3, <4>2, <4>3 DEF IsLive
    <3> QED  BY <2>8, <3>1, <3>2, <3>3 DEF Revives, WriteStatus
  <2>9. CASE NewCall(c) \/ Fail(c) \/ InsertApproval(c) \/ WriteApproval(c)
               \/ DeleteApproval(c) \/ ReadApprovals(c)
    BY <2>4, <2>9, NewCallFrame
       DEF Fail, InsertApproval, WriteApproval, DeleteApproval, ReadApprovals
  <2> QED  BY <2>1, <2>5, <2>6, <2>7, <2>8, <2>9 DEF Step
<1> QED  BY <1>1, AuditInvariant, PTL DEF AuditSpec, SecondRequestHasACause
=============================================================================
