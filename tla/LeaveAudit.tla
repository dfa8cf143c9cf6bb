----------------------------- MODULE LeaveAudit -----------------------------
(***************************************************************************)
(* What the days booked on leave_balance have to do with the requests in   *)
(* leave_request.  The two tables are written by separate statements, so   *)
(* they are compared together with what the calls in flight still owe.     *)
(***************************************************************************)
EXTENDS LeaveRequests

\* The days of the requests in a set.
SumDays(rs) == SumOf([r \in rs |-> Days(requests[r].range)])

RequestsOf(k) == {r \in DOMAIN requests : KeyOf(requests[r]) = k}

Booked(k) == IF k \in DOMAIN balance THEN balance[k].used ELSE 0

\* Inserted, not charged yet.
Charging(k) ==
  {c \in DOMAIN submits : submits[c].pc = "charge" /\ KeyOf(submits[c]) = k}

Uncharged(k) == SumOf([c \in Charging(k) |-> Days(submits[c].range)])

\* Cancelled or rejected by a call that has not refunded it yet.
Refunding(k) ==
  {c \in DOMAIN decisions :
     decisions[c].pc # "write" /\ KeyOf(requests[decisions[c].req]) = k}

Unrefunded(k) ==
  SumOf([c \in Refunding(k) |-> Days(requests[decisions[c].req].range)])

LiveRequests(k) == {r \in RequestsOf(k) : requests[r].status \in Live}

\* Days booked beyond those of the live requests.
Drift(k) ==
  Booked(k) + Uncharged(k) - SumDays(LiveRequests(k)) - Unrefunded(k)

-----------------------------------------------------------------------------
(* The steps after which the two tables no longer agree.                   *)

\* A balance row another call has made meanwhile is overwritten.
OverwritesBalance(c) ==
  SubmitAt(c, "upsert") /\ TargetKey(submits[c]) \in DOMAIN balance

\* initializeBalance made the row of another period than the one charged.
ChargesNothing(c) ==
  SubmitAt(c, "charge") /\ KeyOf(submits[c]) \notin DOMAIN balance

\* Two decisions read the same status; the later write undoes the first.
WritesOverDecision(c) ==
  DecisionAt(c, "write") /\ requests[decisions[c].req].status \notin Live

RefundsElsewhere(c) ==
  /\ DecisionAt(c, "refund")
  /\ decisions[c].period # requests[decisions[c].req].period

RefundsNothing(c) ==
  \/ active = {} /\ (DecisionAt(c, "refundPeriod") \/ DecisionAt(c, "refundLookup"))
  \/ /\ DecisionAt(c, "refundBalance")
     /\ RefundKey(decisions[c], decisions[c].target) \notin DOMAIN balance
  \/ /\ DecisionAt(c, "refund")
     /\ RefundKey(decisions[c], decisions[c].period) \notin DOMAIN balance

\* The call dies with the request written and the balance not.
DiesHalfway(c) ==
  \/ SubmitAt(c, "charge") /\ c \notin DOMAIN submits'
  \/ c \in DOMAIN decisions /\ decisions[c].pc # "write" /\ c \notin DOMAIN decisions'

Moves(c) ==
  \/ c \in DOMAIN submits /\ (c \notin DOMAIN submits' \/ submits'[c] # submits[c])
  \/ c \in DOMAIN decisions
     /\ (c \notin DOMAIN decisions' \/ decisions'[c] # decisions[c])

DriftStep ==
  \E c \in Call :
    \/ /\ Moves(c)
       /\ \/ OverwritesBalance(c) \/ ChargesNothing(c) \/ WritesOverDecision(c)
          \/ RefundsElsewhere(c) \/ RefundsNothing(c)
    \/ Fail(c) /\ DiesHalfway(c)

\* The ledger stays what it was, exact where it was exact, except at one of
\* the steps above: a row overwritten, a charge or a refund that finds no row
\* or another period's, a decision written over another, a death halfway.
\* Every other interleaving of the statements of submitRequest,
\* cancelRequest, approveRequest and rejectRequest keeps each employee's
\* booked days equal to the days of the live requests.
LedgerDriftHasACause ==
  [][\A k \in Key : Drift(k)' # Drift(k) => DriftStep]_vars

\* No employee is ever charged for days no request asked for: the booked days
\* never exceed those of all requests made, undone ones included.
ChargesAreBacked ==
  \A k \in Key : Booked(k) + Uncharged(k) <= SumDays(RequestsOf(k))

-----------------------------------------------------------------------------
(* What the service does when no two calls about one employee overlap.     *)

Subject(c) ==
  IF c \in DOMAIN submits
    THEN submits[c].emp
    ELSE requests[decisions[c].req].emp

OneCallPerEmployee ==
  \A c, d \in DOMAIN submits \cup DOMAIN decisions :
    c # d => Subject(c) # Subject(d)

OrderlySpec == Init /\ [][Next /\ OneCallPerEmployee']_vars

\* The days an employee has given for leave, the calls in flight included ...
Standing(k) == Booked(k) + Uncharged(k) - Unrefunded(k)

\* ... of one kind of leave, in whatever period.
Total(e, t) == SumOf([p \in Period |-> Standing(<<e, p, t>>)])

Ledger == INSTANCE LeaveLedger WITH
  Id <- RequestId, Owner <- Employee, Kind <- LeaveType,
  Span <- DateRange, Quota <- DefaultQuota,
  leave <- [r \in {q \in DOMAIN requests : requests[q].status \in Live} |->
             [emp |-> requests[r].emp, type |-> requests[r].type,
              range |-> requests[r].range]],
  booked <- [x \in Employee \X LeaveType |-> Total(x[1], x[2])]

\* With the calls about each employee one after the other, one leave period
\* and no failure, the statements of the service add up to the two atomic
\* operations of LeaveLedger: no overlapping leave, never beyond the quota,
\* all that is cancelled or rejected given back.
ImplementsLedger == Ledger!Spec

\* No two calls overlap at all, and periods change only between calls.
Idle == DOMAIN submits = {} /\ DOMAIN decisions = {}

SerialSpec ==
  Init /\ [][Next /\ (Idle \/ UNCHANGED active)
              /\ Cardinality(DOMAIN submits' \cup DOMAIN decisions') <= 1]_vars

-----------------------------------------------------------------------------
(* What the messages and comments of LeaveRequestService claim.            *)

\* "Leave request overlaps with existing request": no two live requests of an
\* employee share a day.
NoOverlappingLeave ==
  \A q, r \in DOMAIN requests :
    (/\ q # r
     /\ requests[q].emp = requests[r].emp
     /\ {requests[q].status, requests[r].status} \subseteq Live)
    => ~Overlaps(requests[q].range, requests[r].range)

\* "Insufficient leave balance": the live requests fit in the quota.
WithinQuota ==
  \A k \in Key :
    SumDays(LiveRequests(k)) <= DefaultQuota[k[3]]

\* "Update balance - revert the pending quota": once no call is in flight,
\* the days booked are those of the live requests.
SettledLedgerIsExact ==
  Idle => \A k \in Key : Drift(k) = 0
=============================================================================
