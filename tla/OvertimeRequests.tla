-------------------------- MODULE OvertimeRequests --------------------------
(***************************************************************************)
(* Overtime requests of one tenant and the approvals they collect.         *)
(*                                                                         *)
(* The status of a request is derived data: every handler that touches an  *)
(* approval reads all approvals of the request afterwards and writes the   *)
(* status computed from them, in two statements with no transaction around *)
(* them.  As in LeaveRequests, one action is one SQL statement with the    *)
(* code up to the next await, and a call in flight is a program counter    *)
(* with the variables its handler still needs.                             *)
(***************************************************************************)
EXTENDS Handlers

CONSTANTS
  Employee,           \* rows of employees that file overtime
  Approver,           \* rows of employees that approve it
  Day,                \* dates
  Edit,               \* the bodies PATCH /overtime-requests/:id is called with
  MaxRows,            \* BOUND on the ids the two tables hand out together
  Mortal,             \* the calls that may die between two statements
  HasAttendanceTable  \* whether the table attendance exists, which create and
                      \* every findUnique of a request read

Status ==
  {"PENDING", "MANAGER_APPROVED", "HR_APPROVED", "APPROVED", "REJECTED", "CANCELLED"}

Verdict == {"PENDING", "APPROVED", "REJECTED"}

NoStatus == "unset"  \* an approval is updated without a status

RequestId == 1 .. MaxRows

ApprovalId == 1 .. MaxRows

Request == [emp : Employee, day : Day, status : Status]

Approval ==
  [req : RequestId, approver : Approver, level : {"MANAGER", "HR"}, status : Verdict]

ASSUME BoundAssumption ==
  /\ MaxRows \in Nat
  /\ Mortal \subseteq Call
  /\ HasAttendanceTable \in BOOLEAN

\* An edit names the columns it sets and leaves the others out.
ASSUME EditAssumption ==
  \A ed \in Edit :
    /\ DOMAIN ed \subseteq {"emp", "day", "status"}
    /\ "emp" \in DOMAIN ed => ed["emp"] \in Employee
    /\ "day" \in DOMAIN ed => ed["day"] \in Day
    /\ "status" \in DOMAIN ed => ed["status"] \in Status

VARIABLES
  requests,     \* overtime_request
  approvals,    \* overtime_approval, in the order of createdAt
  requestSeq,   \* the last id handed out by overtime_request.id
  approvalSeq   \* the last id handed out by overtime_approval.id

vars == <<requests, approvals, requestSeq, approvalSeq, calls>>

CallRecord ==
       [pc : {"insertRequest"}, emp : Employee, day : Day]
  \cup [pc : {"editRequest"}, req : RequestId, edit : Edit]
  \cup [pc : {"deleteRequest"}, req : RequestId]
  \cup [pc : {"insertApproval"}, row : Approval]
  \cup [pc : {"updateApproval"}, req : RequestId, id : ApprovalId,
        status : Verdict \cup {NoStatus}]
  \cup [pc : {"deleteApproval"}, req : RequestId, id : ApprovalId]
  \cup [pc : {"readApprovals"}, req : RequestId]
  \cup [pc : {"writeStatus"}, req : RequestId, status : Status]

\* The unique key of overtime_approval.
ApprovalKey(row) == <<row.req, row.approver, row.level>>

TypeOK ==
  /\ requestSeq \in 0 .. MaxRows
  /\ approvalSeq \in 0 .. MaxRows
  /\ IsTable(requests, 1 .. requestSeq, Request)
  /\ IsTable(approvals, 1 .. approvalSeq, Approval)
  /\ IsTable(calls, Call, CallRecord)
  /\ \A i \in DOMAIN approvals : approvals[i].req \in DOMAIN requests
  /\ \A i, j \in DOMAIN approvals :
       ApprovalKey(approvals[i]) = ApprovalKey(approvals[j]) => i = j

Init ==
  /\ requests = << >>
  /\ approvals = << >>
  /\ requestSeq = 0
  /\ approvalSeq = 0
  /\ calls = << >>

-----------------------------------------------------------------------------
(* Helpers.                                                                *)

Start(c, record) ==
  /\ Free(c)
  /\ calls' = Put(calls, c, record)
  /\ UNCHANGED <<requests, approvals, requestSeq, approvalSeq>>

RoomForRow == requestSeq + approvalSeq < MaxRows

\* updateOvertimeRequestStatus, which every approval handler goes on with.
GoRecompute(c, r) ==
  calls' = [calls EXCEPT ![c] = [pc |-> "readApprovals", req |-> r]]

ApprovalsOf(r) == {i \in DOMAIN approvals : approvals[i].req = r}

\* approvals.find(a => a.approverType === level): the oldest one.
Oldest(ids) == CHOOSE i \in ids : \A j \in ids : i <= j

\* Its status, "none" when there is no such approval.
VerdictOf(r, level) ==
  LET ids == {i \in ApprovalsOf(r) : approvals[i].level = level}
  IN  IF ids = {} THEN "none" ELSE approvals[Oldest(ids)].status

\* Mutant: an approval counts although somebody else rejected.
ComputedLenient(r) ==
  LET manager == VerdictOf(r, "MANAGER")
      hr      == VerdictOf(r, "HR")
  IN  CASE hr = "APPROVED"      -> "APPROVED"
        [] manager = "APPROVED" /\ hr # "APPROVED" -> "MANAGER_APPROVED"
        [] OTHER                -> "PENDING"

\* The status that the approvals of r call for.
Computed(r) ==
  LET manager == VerdictOf(r, "MANAGER")
      hr      == VerdictOf(r, "HR")
  IN  IF \E i \in ApprovalsOf(r) : approvals[i].status = "REJECTED"
        THEN "REJECTED"
        ELSE CASE hr = "APPROVED" /\ manager \in {"APPROVED", "none"} -> "APPROVED"
               [] manager = "APPROVED" /\ hr = "none"     -> "MANAGER_APPROVED"
               [] hr = "APPROVED" /\ manager = "PENDING"  -> "HR_APPROVED"
               [] OTHER                                   -> "PENDING"

IsLive(r) == requests[r].status \notin {"REJECTED", "CANCELLED"}

-----------------------------------------------------------------------------
(* OvertimeRequestService                                                  *)

\* Mutant: a request the manager has approved no longer blocks the date.
CreatePendingOnly(c, e, d) ==
  /\ HasAttendanceTable
  /\ RoomForRow
  /\ ~\E r \in DOMAIN requests :
       requests[r].emp = e /\ requests[r].day = d /\ requests[r].status = "PENDING"
  /\ Start(c, [pc |-> "insertRequest", emp |-> e, day |-> d])

\* create up to the INSERT: checkExistingRequest has found nothing, and
\* findAttendanceByDate has not thrown.
Create(c, e, d) ==
  /\ HasAttendanceTable
  /\ RoomForRow
  /\ ~\E r \in DOMAIN requests :
       requests[r].emp = e /\ requests[r].day = d /\ IsLive(r)
  /\ Start(c, [pc |-> "insertRequest", emp |-> e, day |-> d])

\* The INSERT; createApprovalWorkflow writes nothing.
InsertRequest(c) ==
  /\ At(c, "insertRequest")
  /\ RoomForRow
  /\ requestSeq' = requestSeq + 1
  /\ requests' = Put(requests, requestSeq',
       [emp |-> calls[c].emp, day |-> calls[c].day, status |-> "PENDING"])
  /\ Return(c)
  /\ UNCHANGED <<approvals, approvalSeq>>

\* findUnique and the status check that update and remove share.
IsPending(r) ==
  /\ HasAttendanceTable
  /\ r \in DOMAIN requests
  /\ requests[r].status = "PENDING"

Update(c, r, ed) ==
  /\ IsPending(r)
  /\ Start(c, [pc |-> "editRequest", req |-> r, edit |-> ed])

\* The columns an edit leaves out keep the value they have by now.
Overlay(ed, row) ==
  [f \in DOMAIN row |-> IF f \in DOMAIN ed THEN ed[f] ELSE row[f]]

EditRequest(c) ==
  LET r == calls[c].req
  IN  /\ At(c, "editRequest")
      /\ requests' = IF r \in DOMAIN requests
                       THEN [requests EXCEPT ![r] = Overlay(calls[c].edit, @)]
                       ELSE requests
      /\ Return(c)
      /\ UNCHANGED <<approvals, requestSeq, approvalSeq>>

\* Mutant: a request that was decided may be removed.
RemoveAny(c, r) ==
  /\ r \in DOMAIN requests
  /\ Start(c, [pc |-> "deleteRequest", req |-> r])

Remove(c, r) ==
  /\ IsPending(r)
  /\ Start(c, [pc |-> "deleteRequest", req |-> r])

\* Mutant: the foreign key does not cascade.
DeleteRequestOnly(c) ==
  /\ At(c, "deleteRequest")
  /\ requests' = Drop(requests, calls[c].req)
  /\ Return(c)
  /\ UNCHANGED <<approvals, requestSeq, approvalSeq>>

\* The DELETE cascades to the approvals.
DeleteRequest(c) ==
  LET r == calls[c].req
  IN  /\ At(c, "deleteRequest")
      /\ requests' = Drop(requests, r)
      /\ approvals' = [i \in DOMAIN approvals \ ApprovalsOf(r) |-> approvals[i]]
      /\ Return(c)
      /\ UNCHANGED <<requestSeq, approvalSeq>>

-----------------------------------------------------------------------------
(* OvertimeApprovalService                                                 *)

\* findExisting
Existing(r, a, lvl) ==
  {i \in DOMAIN approvals : ApprovalKey(approvals[i]) = <<r, a, lvl>>}

\* create: the request exists, this approver has not decided it yet.
CreateApproval(c, r, a, lvl, st) ==
  /\ HasAttendanceTable
  /\ RoomForRow
  /\ r \in DOMAIN requests
  /\ Existing(r, a, lvl) = {}
  /\ Start(c, [pc |-> "insertApproval",
               row |-> [req |-> r, approver |-> a, level |-> lvl, status |-> st]])

\* The INSERT throws when the request is gone or the approval is there.
InsertApproval(c) ==
  LET row == calls[c].row
  IN  /\ At(c, "insertApproval")
      /\ RoomForRow
      /\ IF /\ row.req \in DOMAIN requests
            /\ Existing(row.req, row.approver, row.level) = {}
           THEN /\ approvalSeq' = approvalSeq + 1
                /\ approvals' = Put(approvals, approvalSeq', row)
                /\ GoRecompute(c, row.req)
           ELSE /\ Return(c)
                /\ UNCHANGED <<approvals, approvalSeq>>
      /\ UNCHANGED <<requests, requestSeq>>

UpdateApproval(c, i, st) ==
  /\ i \in DOMAIN approvals
  /\ Start(c, [pc |-> "updateApproval", req |-> approvals[i].req, id |-> i,
               status |-> st])

\* Mutant: the handler answers before the status is recomputed.
WriteApprovalOnly(c) ==
  LET i == calls[c].id
  IN  /\ At(c, "updateApproval")
      /\ approvals' = IF i \in DOMAIN approvals /\ calls[c].status # NoStatus
                        THEN [approvals EXCEPT ![i].status = calls[c].status]
                        ELSE approvals
      /\ Return(c)
      /\ UNCHANGED <<requests, requestSeq, approvalSeq>>

WriteApproval(c) ==
  LET i == calls[c].id
  IN  /\ At(c, "updateApproval")
      /\ approvals' = IF i \in DOMAIN approvals /\ calls[c].status # NoStatus
                        THEN [approvals EXCEPT ![i].status = calls[c].status]
                        ELSE approvals
      /\ GoRecompute(c, calls[c].req)
      /\ UNCHANGED <<requests, requestSeq, approvalSeq>>

\* processApproval looks the approval up and goes on with create or update,
\* which look it up again: what changed in between ends the call unharmed.
ProcessApproval(c, r, a, lvl, st) ==
  IF Existing(r, a, lvl) = {}
    THEN CreateApproval(c, r, a, lvl, st)
    ELSE \E i \in Existing(r, a, lvl) : UpdateApproval(c, i, st)

RemoveApproval(c, i) ==
  /\ i \in DOMAIN approvals
  /\ Start(c, [pc |-> "deleteApproval", req |-> approvals[i].req, id |-> i])

DeleteApproval(c) ==
  /\ At(c, "deleteApproval")
  /\ approvals' = Drop(approvals, calls[c].id)
  /\ GoRecompute(c, calls[c].req)
  /\ UNCHANGED <<requests, requestSeq, approvalSeq>>

\* updateOvertimeRequestStatus: findByRequest, and the status it leads to
ReadApprovals(c) ==
  LET r == calls[c].req
  IN  /\ At(c, "readApprovals")
      /\ calls' = [calls EXCEPT ![c] =
           [pc |-> "writeStatus", req |-> r, status |-> Computed(r)]]
      /\ UNCHANGED <<requests, approvals, requestSeq, approvalSeq>>

\* ... and the UPDATE, whatever the status of the request is by now.
WriteStatus(c) ==
  LET r == calls[c].req
  IN  /\ At(c, "writeStatus")
      /\ requests' = IF r \in DOMAIN requests
                       THEN [requests EXCEPT ![r].status = calls[c].status]
                       ELSE requests
      /\ Return(c)
      /\ UNCHANGED <<approvals, requestSeq, approvalSeq>>

\* The process dies, or a statement fails.
Fail(c) ==
  /\ ~Free(c)
  /\ Return(c)
  /\ UNCHANGED <<requests, approvals, requestSeq, approvalSeq>>

-----------------------------------------------------------------------------
NewCall(c) ==
  \/ \E e \in Employee, d \in Day : Create(c, e, d)
  \/ \E r \in RequestId, ed \in Edit : Update(c, r, ed)
  \/ \E r \in RequestId : Remove(c, r)
  \/ \E r \in RequestId, a \in Approver, lvl \in {"MANAGER", "HR"}, st \in Verdict :
       CreateApproval(c, r, a, lvl, st) \/ ProcessApproval(c, r, a, lvl, st)
  \/ \E i \in ApprovalId, st \in Verdict \cup {NoStatus} : UpdateApproval(c, i, st)
  \/ \E i \in ApprovalId : RemoveApproval(c, i)

Step(c) ==
  \/ InsertRequest(c) \/ EditRequest(c) \/ DeleteRequest(c)
  \/ InsertApproval(c) \/ WriteApproval(c) \/ DeleteApproval(c)
  \/ ReadApprovals(c) \/ WriteStatus(c)

Next ==
  \/ \E c \in Call : NewCall(c) \/ Step(c)
  \/ \E c \in Mortal : Fail(c)

Spec == Init /\ [][Next]_vars
=============================================================================
