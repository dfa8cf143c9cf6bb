---------------------------- MODULE OvertimeAudit ----------------------------
(***************************************************************************)
(* What a handler of the overtime module achieves when it had the database *)
(* to itself, and what is left of that when handlers overlap.  A history   *)
(* variable remembers which of the calls in flight have met another one.   *)
(***************************************************************************)
EXTENDS OvertimeRequests, Overlaps

auditVars == <<vars, overlapped>>

AuditInit == Init /\ overlapped = {}

AuditNext ==
  /\ Next
  /\ overlapped' = IF Cardinality(InFlight') > 1
                     THEN InFlight'
                     ELSE overlapped \cap InFlight'

AuditSpec == AuditInit /\ [][AuditNext]_auditVars

-----------------------------------------------------------------------------
\* A handler that will still write what the approvals of r call for now.
WillSettle(c, r) ==
  \/ At(c, "readApprovals") /\ calls[c].req = r
  \/ At(c, "writeStatus") /\ calls[c].req = r /\ calls[c].status = Computed(r)

Settled(r) ==
  requests[r].status = Computed(r) \/ \E c \in Call : WillSettle(c, r)

\* The write of a status computed from approvals that have changed since.
StaleWrite(c, r) ==
  /\ At(c, "writeStatus") /\ calls[c].req = r /\ Free(c)'
  /\ calls[c].status # Computed(r)
  /\ ~Alone(c)

SetsStatus(c, r) ==
  /\ At(c, "editRequest") /\ calls[c].req = r /\ Free(c)'
  /\ "status" \in DOMAIN calls[c].edit

\* A request whose status follows from its approvals, or is about to, stays
\* so except at three steps: the write of a status computed too early by a
\* call that met another one, a PATCH that sets the status by hand, and the
\* death of a handler between the approval and the status.
StatusFollowsApprovals ==
  [][\A r \in DOMAIN requests \cap DOMAIN requests' :
       (Settled(r) /\ ~Settled(r)') =>
         \E c \in Call :
           \/ StaleWrite(c, r)
           \/ SetsStatus(c, r)
           \/ WillSettle(c, r) /\ Fail(c)]_auditVars

\* "Check for rejections first": a handler that met no other one makes a request
\* APPROVED only with an approval of HR among its approvals and no rejection.
ApprovalNeedsHR ==
  [][\A r \in DOMAIN requests \cap DOMAIN requests' :
       (/\ requests'[r].status = "APPROVED" /\ requests[r].status # "APPROVED"
        /\ \E c \in Call : Alone(c) /\ Free(c)' /\ At(c, "writeStatus"))
       => /\ \E i \in ApprovalsOf(r) :
               approvals[i].level = "HR" /\ approvals[i].status = "APPROVED"
          /\ \A i \in ApprovalsOf(r) : approvals[i].status # "REJECTED"]_auditVars

\* "Can only update/delete pending overtime requests": a handler that met no
\* other one never edits or deletes a request that has been decided.
DecidedRequestsAreKept ==
  [][\A r \in DOMAIN requests :
       (requests[r].status # "PENDING"
          /\ \E c \in Call : /\ Alone(c) /\ Free(c)'
                             /\ At(c, "editRequest") \/ At(c, "deleteRequest"))
       => r \in DOMAIN requests' /\ requests'[r] = requests[r]]_auditVars

\* The pairs of live requests of one employee for one date.
Clashes ==
  {p \in (DOMAIN requests) \X (DOMAIN requests) :
     /\ p[1] < p[2]
     /\ requests[p[1]].emp = requests[p[2]].emp
     /\ requests[p[1]].day = requests[p[2]].day
     /\ IsLive(p[1]) /\ IsLive(p[2])}

\* The recomputed status of a request that was rejected or cancelled is one
\* that counts again.
Revives(c) ==
  /\ At(c, "writeStatus")
  /\ calls[c].req \in DOMAIN requests /\ ~IsLive(calls[c].req)

\* "An overtime request for <date> already exists": a second live request for
\* a date comes from an overlap, from a PATCH of date, employee or status, or
\* from the revival of an old one, never from create alone.
SecondRequestHasACause ==
  [][(Clashes' \ Clashes # {}) =>
       \E c \in Call :
         /\ c \in InFlight /\ Free(c)'
         /\ At(c, "editRequest") \/ Revives(c) \/ ~Alone(c)]_auditVars

\* No two calls overlap: what the messages of the service promise then.
SerialSpec ==
  AuditInit /\ [][AuditNext /\ overlapped' = {} /\ Cardinality(InFlight') <= 1]_auditVars

OneRequestPerDate == Clashes = {}
=============================================================================
