---------------------------- MODULE LeaveRequests ----------------------------
(***************************************************************************)
(* Leave requests and leave balances of one tenant.                        *)
(*                                                                         *)
(* Every HTTP call of LeaveRequestController runs a handler of             *)
(* LeaveRequestService that issues its SQL statements one at a time, with  *)
(* an await, no transaction and no lock between them.  A call in flight is *)
(* a program counter and the local variables it still needs; one action is *)
(* one statement together with the code up to the next await, so handlers  *)
(* interleave between any two statements.  The one transaction of the      *)
(* service, approve/reject in the repository, is one action.               *)
(***************************************************************************)
EXTENDS Integers, FiniteSets, Tables

CONSTANTS
  Employee,          \* rows of employees
  HR,                \* those whose token carries the role HR or SUPER
  ManagerOf,         \* managerId, as the lookup in approve/reject returns it
  NoManager,         \* managerId is NULL, or the lookup finds no row
  LeaveType,         \* rows of leave_type_config
  DefaultQuota,      \* leave_type_config.defaultQuota
  MaxConsecutive,    \* leave_type_config.maxConsecutiveDays, 0 when unset
  NoticeDays,        \* leave_type_config.advanceNoticeDays
  Period,            \* rows of leave_period, numbered in order of startDate
  InitiallyActive,   \* the periods whose isActive is set at the start
  Switchable,        \* the periods an administrator may (de)activate
  DateRange,         \* the date ranges asked for; day 0 is today
  RequestId,         \* ids of leave_request: BOUND on the requests submitted
  Call,              \* BOUND on the calls in flight at a time
  Mortal,            \* the calls that may die between two statements
  HasApprovalModels  \* whether the Prisma client has the models leaveRequest
                     \* and leaveApproval that approve and reject go through

NoPeriod == 0

ASSUME EmployeeAssumption ==
  /\ HR \subseteq Employee
  /\ NoManager \notin Employee
  /\ ManagerOf \in [Employee -> Employee \cup {NoManager}]

ASSUME TypeConfigAssumption ==
  /\ DefaultQuota \in [LeaveType -> Nat]
  /\ MaxConsecutive \in [LeaveType -> Nat]
  /\ NoticeDays \in [LeaveType -> Nat]

ASSUME PeriodAssumption ==
  /\ Period \subseteq Nat \ {NoPeriod} /\ IsFiniteSet(Period)
  /\ InitiallyActive \subseteq Period
  /\ Switchable \subseteq Period

\* submitRequest refuses at once a range that ends before it starts or that
\* starts before now, so no such range is enumerated.
ASSUME RangeAssumption ==
  /\ DateRange \subseteq [first : Nat \ {0}, last : Nat]
  /\ \A rg \in DateRange : rg.first <= rg.last

ASSUME BoundAssumption ==
  /\ IsFiniteSet(RequestId)
  /\ IsFiniteSet(Call)
  /\ Mortal \subseteq Call
  /\ HasApprovalModels \in BOOLEAN

VARIABLES
  active,     \* leave_period: the periods with isActive = true
  balance,    \* leave_balance, unique on employee, period, type
  requests,   \* leave_request
  approvals,  \* leave_approval
  submits,    \* the calls of submitRequest in flight
  decisions   \* the calls of cancel-, approve- and rejectRequest in flight

vars == <<active, balance, requests, approvals, submits, decisions>>

Key == Employee \X Period \X LeaveType

Row == [total : Int, used : Int, remaining : Int]

Status == {"PENDING", "MANAGER_APPROVED", "APPROVED", "REJECTED", "CANCELLED"}

Request == [emp : Employee, period : Period, type : LeaveType, range : DateRange,
            status : Status]

Approval == [req : RequestId, approver : Employee,
             level : {"MANAGER", "HR"}, status : {"APPROVED", "REJECTED"}]

SubmitCall ==
  [pc : {"readBalance", "initPeriod", "upsert", "rereadBalance",
         "checkOverlap", "insert", "charge"},
   emp : Employee, type : LeaveType, range : DateRange,
   period : Period, target : Period \cup {NoPeriod}]

DecisionCall ==
  [pc : {"write", "refundPeriod", "refundLookup", "refundBalance", "refund"},
   actor : Employee, req : RequestId,
   outcome : {"MANAGER_APPROVED", "APPROVED", "REJECTED", "CANCELLED"},
   period : Period \cup {NoPeriod}, target : Period \cup {NoPeriod}]

TypeOK ==
  /\ active \subseteq Period
  /\ IsTable(balance, Key, Row)
  /\ IsTable(requests, RequestId, Request)
  /\ approvals \subseteq Approval
  /\ IsTable(submits, Call, SubmitCall)
  /\ IsTable(decisions, Call, DecisionCall)
  /\ DOMAIN submits \cap DOMAIN decisions = {}
  /\ \A c \in DOMAIN decisions : decisions[c].req \in DOMAIN requests

Init ==
  /\ active = InitiallyActive
  /\ balance = << >>
  /\ requests = << >>
  /\ approvals = {}
  /\ submits = << >>
  /\ decisions = << >>

-----------------------------------------------------------------------------
(* Helpers.                                                                *)

\* findActivePeriod: several periods may be active; the latest one is taken.
Latest(ps) == CHOOSE p \in ps : \A q \in ps : q <= p

Days(rg) == rg.last - rg.first + 1

KeyOf(r) == <<r.emp, r.period, r.type>>

Overlaps(a, b) == a.first <= b.last /\ b.first <= a.last

Live == {"PENDING", "MANAGER_APPROVED", "APPROVED"}

\* The row that createOrUpdate writes: whatever was used is forgotten.
FreshRow(t) ==
  [total |-> DefaultQuota[t], used |-> 0, remaining |-> DefaultQuota[t]]

\* Mutant: one of the two columns is left out of the UPDATE.
AddUsedOnly(row, d) == [row EXCEPT !.used = @ + d]

\* updateQuotas, one atomic UPDATE; d is negative when a request is undone.
AddUsed(row, d) ==
  [row EXCEPT !.used = @ + d, !.remaining = @ - d]

\* Mutant: the days already used are not taken off.
AdmissibleInTotal(s, row) ==
  /\ Days(s.range) <= row.total
  /\ s.range.first > NoticeDays[s.type]
  /\ MaxConsecutive[s.type] = 0 \/ Days(s.range) <= MaxConsecutive[s.type]

\* balance, notice and length checks, against the row that was just read.
Admissible(s, row) ==
  /\ Days(s.range) <= row.total - row.used
  /\ s.range.first > NoticeDays[s.type]
  /\ MaxConsecutive[s.type] = 0 \/ Days(s.range) <= MaxConsecutive[s.type]

\* Mutant: only pending requests conflict.
ConflictingPending(s) ==
  {r \in DOMAIN requests :
     /\ requests[r].emp = s.emp
     /\ requests[r].status = "PENDING"
     /\ Overlaps(requests[r].range, s.range)}

\* findConflicting
Conflicting(s) ==
  {r \in DOMAIN requests :
     /\ requests[r].emp = s.emp
     /\ requests[r].status \in Live
     /\ Overlaps(requests[r].range, s.range)}

Free(c) == c \notin DOMAIN submits \cup DOMAIN decisions

SubmitAt(c, label) == c \in DOMAIN submits /\ submits[c].pc = label

DecisionAt(c, label) == c \in DOMAIN decisions /\ decisions[c].pc = label

-----------------------------------------------------------------------------
(* submitRequest                                                           *)

\* The date checks have passed and findActivePeriod has returned a period.
Submit(c, e, t, rg) ==
  /\ Free(c)
  /\ Cardinality(DOMAIN requests) + Cardinality(DOMAIN submits)
       < Cardinality(RequestId)
  /\ active # {}
  /\ submits' = Put(submits, c,
       [pc |-> "readBalance", emp |-> e, type |-> t, range |-> rg,
        period |-> Latest(active), target |-> NoPeriod])
  /\ UNCHANGED <<active, balance, requests, approvals, decisions>>

Goto(c, label) == submits' = [submits EXCEPT ![c].pc = label]

\* The checks on a balance row just read: go on, or answer 400.
Judge(c, row) ==
  IF Admissible(submits[c], row)
    THEN Goto(c, "checkOverlap")
    ELSE submits' = Drop(submits, c)

\* findSpecific on the active period found before
ReadBalance(c) ==
  /\ SubmitAt(c, "readBalance")
  /\ LET k == KeyOf(submits[c])
     IN  IF k \in DOMAIN balance
           THEN Judge(c, balance[k])
           ELSE Goto(c, "initPeriod")
  /\ UNCHANGED <<active, balance, requests, approvals, decisions>>

\* Mutant: wait for a period to become active instead of giving up.
InitPeriodWaits(c) ==
  /\ SubmitAt(c, "initPeriod")
  /\ active # {}
  /\ submits' = [submits EXCEPT ![c].pc = "upsert", ![c].target = Latest(active)]
  /\ UNCHANGED <<active, balance, requests, approvals, decisions>>

\* initializeBalance looks the active period up once more.
InitPeriod(c) ==
  /\ SubmitAt(c, "initPeriod")
  /\ submits' = IF active = {}
                  THEN Drop(submits, c)
                  ELSE [submits EXCEPT ![c].pc = "upsert",
                                       ![c].target = Latest(active)]
  /\ UNCHANGED <<active, balance, requests, approvals, decisions>>

\* The balance row that initializeBalance writes and then reads back.
TargetKey(s) == <<s.emp, s.target, s.type>>

\* createOrUpdate: INSERT ... ON CONFLICT DO UPDATE
Upsert(c) ==
  /\ SubmitAt(c, "upsert")
  /\ balance' = Put(balance, TargetKey(submits[c]), FreshRow(submits[c].type))
  /\ Goto(c, "rereadBalance")
  /\ UNCHANGED <<active, requests, approvals, decisions>>

\* findSpecific on the row just written
RereadBalance(c) ==
  /\ SubmitAt(c, "rereadBalance")
  /\ Judge(c, balance[TargetKey(submits[c])])
  /\ UNCHANGED <<active, balance, requests, approvals, decisions>>

CheckOverlap(c) ==
  /\ SubmitAt(c, "checkOverlap")
  /\ IF Conflicting(submits[c]) = {}
       THEN Goto(c, "insert")
       ELSE submits' = Drop(submits, c)
  /\ UNCHANGED <<active, balance, requests, approvals, decisions>>

\* Mutant: a status the workflow does not know.
NewDraft(s) ==
  [emp |-> s.emp, period |-> s.period, type |-> s.type, range |-> s.range,
   status |-> "DRAFT"]

NewRequest(s) ==
  [emp |-> s.emp, period |-> s.period, type |-> s.type, range |-> s.range,
   status |-> "PENDING"]

Insert(c) ==
  /\ SubmitAt(c, "insert")
  /\ \E r \in RequestId \ DOMAIN requests :
       requests' = Put(requests, r, NewRequest(submits[c]))
  /\ Goto(c, "charge")
  /\ UNCHANGED <<active, balance, approvals, decisions>>

\* updateQuotas: touches no row when the period has none for this key.
Adjust(k, d) ==
  balance' = IF k \in DOMAIN balance
               THEN [balance EXCEPT ![k] = AddUsed(@, d)]
               ELSE balance

\* Mutant: the days are charged again with the notification.
ChargeTwice(c) ==
  /\ SubmitAt(c, "charge")
  /\ Adjust(KeyOf(submits[c]), 2 * Days(submits[c].range))
  /\ submits' = Drop(submits, c)
  /\ UNCHANGED <<active, requests, approvals, decisions>>

Charge(c) ==
  /\ SubmitAt(c, "charge")
  /\ Adjust(KeyOf(submits[c]), Days(submits[c].range))
  /\ submits' = Drop(submits, c)
  /\ UNCHANGED <<active, requests, approvals, decisions>>

-----------------------------------------------------------------------------
(* cancelRequest, approveRequest, rejectRequest                            *)

Managed(e) == ManagerOf[e] # NoManager

Decide(c, a, r, outcome) ==
  /\ Free(c)
  /\ decisions' = Put(decisions, c,
       [pc |-> "write", actor |-> a, req |-> r, outcome |-> outcome,
        period |-> NoPeriod, target |-> NoPeriod])
  /\ UNCHANGED <<active, balance, requests, approvals, submits>>

\* findById and the checks of the owner
Cancel(c, r) ==
  /\ r \in DOMAIN requests
  /\ requests[r].status = "PENDING"
  /\ Decide(c, requests[r].emp, r, "CANCELLED")

\* Mutant: HR need not wait for the manager.
MayApproveAlone(a, r) ==
  a \in HR /\ requests[r].status \in {"PENDING", "MANAGER_APPROVED"}

\* HR: after the manager, or directly when there is none.
MayApproveAsHR(a, r) ==
  /\ a \in HR
  /\ requests[r].status = IF Managed(requests[r].emp)
                            THEN "MANAGER_APPROVED" ELSE "PENDING"

\* Everybody else: the request of a subordinate.
MayApproveAsManager(a, r) ==
  /\ a \notin HR
  /\ requests[r].status = "PENDING"
  /\ ManagerOf[requests[r].emp] = a

Approve(c, a, r) ==
  /\ r \in DOMAIN requests
  /\ \/ MayApproveAsHR(a, r) /\ Decide(c, a, r, "APPROVED")
     \/ MayApproveAsManager(a, r) /\ Decide(c, a, r, "MANAGER_APPROVED")

Reject(c, a, r) ==
  /\ r \in DOMAIN requests
  /\ IF a \in HR
       THEN requests[r].status = "MANAGER_APPROVED"
       ELSE /\ requests[r].status = "PENDING"
            /\ ManagerOf[requests[r].emp] = a
  /\ Decide(c, a, r, "REJECTED")

\* Mutant: a cancelled request is not refunded.
WriteCancelOnly(c) ==
  /\ DecisionAt(c, "write")
  /\ decisions[c].outcome = "CANCELLED"
  /\ requests' = [requests EXCEPT ![decisions[c].req].status = "CANCELLED"]
  /\ decisions' = Drop(decisions, c)
  /\ UNCHANGED <<active, balance, approvals, submits>>

\* repository.update: the status read before is not looked at again.
WriteCancel(c) ==
  /\ DecisionAt(c, "write")
  /\ decisions[c].outcome = "CANCELLED"
  /\ requests' = [requests EXCEPT ![decisions[c].req].status = "CANCELLED"]
  /\ decisions' = [decisions EXCEPT ![c].pc = "refundPeriod"]
  /\ UNCHANGED <<active, balance, approvals, submits>>

\* The leave_approval row; every rejection is recorded as the manager's.
ApprovalRow(d) ==
  [req |-> d.req, approver |-> d.actor,
   level |-> IF d.outcome = "APPROVED" THEN "HR" ELSE "MANAGER",
   status |-> IF d.outcome = "REJECTED" THEN "REJECTED" ELSE "APPROVED"]

\* The transaction of approveRequest and rejectRequest in the repository.
WriteDecision(c) ==
  LET d == decisions[c]
  IN  /\ DecisionAt(c, "write")
      /\ d.outcome # "CANCELLED"
      /\ HasApprovalModels
      /\ requests' = [requests EXCEPT ![d.req].status = d.outcome]
      /\ approvals' = approvals \cup {ApprovalRow(d)}
      /\ decisions' = IF d.outcome = "REJECTED"
                        THEN [decisions EXCEPT ![c].pc = "refundPeriod"]
                        ELSE Drop(decisions, c)
      /\ UNCHANGED <<active, balance, submits>>

\* tx.leaveRequest is undefined: the transaction throws and the call ends.
DecisionThrows(c) ==
  /\ DecisionAt(c, "write")
  /\ decisions[c].outcome # "CANCELLED"
  /\ ~HasApprovalModels
  /\ decisions' = Drop(decisions, c)
  /\ UNCHANGED <<active, balance, requests, approvals, submits>>

\* After CANCELLED or REJECTED: the period whose balance will be updated is
\* the one that is active now.
RefundPeriod(c) ==
  /\ DecisionAt(c, "refundPeriod")
  /\ decisions' = IF active = {}
                    THEN Drop(decisions, c)
                    ELSE [decisions EXCEPT ![c].pc = "refundLookup",
                                           ![c].period = Latest(active)]
  /\ UNCHANGED <<active, balance, requests, approvals, submits>>

\* findByEmployeeAndType looks the active period up by itself ...
RefundLookup(c) ==
  /\ DecisionAt(c, "refundLookup")
  /\ decisions' = IF active = {}
                    THEN Drop(decisions, c)
                    ELSE [decisions EXCEPT ![c].pc = "refundBalance",
                                           ![c].target = Latest(active)]
  /\ UNCHANGED <<active, balance, requests, approvals, submits>>

RefundKey(d, p) == <<requests[d.req].emp, p, requests[d.req].type>>

\* ... and reads the row there.
RefundBalance(c) ==
  /\ DecisionAt(c, "refundBalance")
  /\ decisions' =
       IF RefundKey(decisions[c], decisions[c].target) \in DOMAIN balance
         THEN [decisions EXCEPT ![c].pc = "refund"]
         ELSE Drop(decisions, c)
  /\ UNCHANGED <<active, balance, requests, approvals, submits>>

\* Mutant: the sign of the days is forgotten.
RefundUnsigned(c) ==
  LET d == decisions[c]
  IN  /\ DecisionAt(c, "refund")
      /\ Adjust(RefundKey(d, d.period), Days(requests[d.req].range))
      /\ decisions' = Drop(decisions, c)
      /\ UNCHANGED <<active, requests, approvals, submits>>

Refund(c) ==
  LET d == decisions[c]
  IN  /\ DecisionAt(c, "refund")
      /\ Adjust(RefundKey(d, d.period), -Days(requests[d.req].range))
      /\ decisions' = Drop(decisions, c)
      /\ UNCHANGED <<active, requests, approvals, submits>>

-----------------------------------------------------------------------------
(* The rest of the world.                                                  *)

\* LeavePeriodService.update with isActive: no check of the other periods.
SetPeriodActive(p) ==
  /\ active' = IF p \in active THEN active \ {p} ELSE active \cup {p}
  /\ UNCHANGED <<balance, requests, approvals, submits, decisions>>

\* The process dies, or a statement fails: what was written stays written.
Fail(c) ==
  /\ ~Free(c)
  /\ submits' = Drop(submits, c)
  /\ decisions' = Drop(decisions, c)
  /\ UNCHANGED <<active, balance, requests, approvals>>

SubmitStep(c) ==
  \/ ReadBalance(c) \/ InitPeriod(c) \/ Upsert(c) \/ RereadBalance(c)
  \/ CheckOverlap(c) \/ Insert(c) \/ Charge(c)

DecisionStep(c) ==
  \/ WriteCancel(c) \/ WriteDecision(c) \/ DecisionThrows(c)
  \/ RefundPeriod(c) \/ RefundLookup(c) \/ RefundBalance(c) \/ Refund(c)

Step(c) == SubmitStep(c) \/ DecisionStep(c)

NewDecision(c) ==
  \E r \in RequestId :
    \/ Cancel(c, r)
    \/ \E a \in Employee : Approve(c, a, r) \/ Reject(c, a, r)

Next ==
  \/ \E c \in Call, e \in Employee, t \in LeaveType, rg \in DateRange :
       Submit(c, e, t, rg)
  \/ \E c \in Call : NewDecision(c)
  \/ \E c \in Call : Step(c)
  \/ \E c \in Mortal : Fail(c)
  \/ \E p \in Switchable : SetPeriodActive(p)

Spec == Init /\ [][Next]_vars

\* Node runs every pending continuation and PostgreSQL answers every
\* statement: no handler waits for another one.  Clients are not fair.
FairSpec == Spec /\ \A c \in Call : WF_vars(Step(c))

-----------------------------------------------------------------------------
(* Properties.                                                             *)

\* The two columns that every statement of LeaveBalanceRepository writes
\* together never contradict the third.
RemainingIsTotalMinusUsed ==
  \A k \in DOMAIN balance :
    balance[k].remaining = balance[k].total - balance[k].used

Signed(r, e, lvl, st) ==
  [req |-> r, approver |-> e, level |-> lvl, status |-> st] \in approvals

\* Two-level approval, whatever the races between decisions: a request of a
\* managed employee is APPROVED only if that manager and somebody of HR both
\* signed it, one of an unmanaged employee only if somebody of HR did; it is
\* MANAGER_APPROVED only with the signature of the manager, and REJECTED only
\* by the manager or by somebody of HR.
ManagerSigned(r) == Signed(r, ManagerOf[requests[r].emp], "MANAGER", "APPROVED")

HRSigned(r) == \E a \in HR : Signed(r, a, "HR", "APPROVED")

TwoLevelApproval ==
  \A r \in DOMAIN requests :
    /\ requests[r].status = "APPROVED" =>
         HRSigned(r) /\ (Managed(requests[r].emp) => ManagerSigned(r))
    /\ requests[r].status = "MANAGER_APPROVED" => ManagerSigned(r)
    /\ requests[r].status = "REJECTED" =>
         \E a \in HR \cup {ManagerOf[requests[r].emp]} :
           Signed(r, a, "MANAGER", "REJECTED")

\* Every submitRequest, cancelRequest, approveRequest and rejectRequest that
\* was accepted returns, whatever the others do.
HandlersReturn == \A c \in Call : ~Free(c) ~> Free(c)
=============================================================================
