-------------------------- MODULE LeaveAudit_proofs --------------------------
(***************************************************************************)
(* Proofs about LeaveRequests and LeaveAudit, for every organisation       *)
(* chart, every set of leave types and periods and any number of           *)
(* employees, requests and calls: first what the guards of the handlers    *)
(* give, then what their statements do to the sums of days.                *)
(***************************************************************************)
EXTENDS LeaveAudit, Tables_proofs, FiniteSetTheorems, TLAPS

\* findActivePeriod returns a period when one is active: a finite set of
\* periods has a latest one, the one with the fewest later ones.
LEMMA LatestIsActive ==
  ASSUME NEW ps \in SUBSET Period, ps # {}
  PROVE  Latest(ps) \in ps
<1> DEFINE Later(p) == {q \in ps : q > p}
           T == {Later(p) : p \in ps}
<1>1. ps \subseteq Nat
  BY PeriodAssumption
<1>2. IsWellFoundedOn(StrictSubsetOrdering(Period), SUBSET Period)
  BY PeriodAssumption, FS_StrictSubsetOrderingWellFounded, FS_FiniteSubsetsOfFinite
<1>3. T \subseteq SUBSET Period /\ T # {}
  OBVIOUS
<1>4. PICK U \in T : \A V \in T : <<V, U>> \notin StrictSubsetOrdering(Period)
  <2> HIDE DEF T
  <2> QED  BY <1>2, <1>3, WFMin
<1>5. PICK p \in ps : U = Later(p)
  BY <1>4
<1>6. Later(p) = {}
  <2>1. SUFFICES ASSUME NEW q \in Later(p)
                 PROVE  FALSE
    OBVIOUS
  <2>2. Later(q) \subseteq Later(p) /\ q \notin Later(q)
    <3>1. q \in ps /\ q > p /\ p \in Nat /\ q \in Nat
      BY <1>1
    <3>2. \A x \in ps : x > q => x > p
      BY <1>1, <3>1
    <3>3. ~(q > q)
      BY <3>1
    <3> QED  BY <3>2, <3>3
  <2>3. <<Later(q), U>> \in StrictSubsetOrdering(Period)
    BY <1>5, <2>1, <2>2 DEF StrictSubsetOrdering
  <2>4. Later(q) \in T
    OBVIOUS
  <2> QED  BY <1>4, <2>3, <2>4
<1>7. \A q \in ps : q <= p
  BY <1>1, <1>6
<1> QED  BY <1>7 DEF Latest

-----------------------------------------------------------------------------
(* Type correctness.                                                       *)

\* The period of the row that initializeBalance is about to write is known.
TargetIsSet ==
  \A c \in DOMAIN submits :
    submits[c].pc = "upsert" => submits[c].target \in Period

TypeInv == TypeOK /\ TargetIsSet

LEMMA TypeInvInit == Init => TypeInv
BY EmptyTable, PeriodAssumption DEF Init, TypeInv, TypeOK, TargetIsSet

\* Moving a submit call to another label, or ending it, keeps the types.
LEMMA GotoKeepsTypes ==
  ASSUME TypeInv, NEW c \in DOMAIN submits,
         NEW label \in {"initPeriod", "rereadBalance", "checkOverlap", "insert", "charge"},
         Goto(c, label)
  PROVE  /\ IsTable(submits', Call, SubmitCall)
         /\ DOMAIN submits' = DOMAIN submits
         /\ TargetIsSet'
<1> DEFINE s == [submits[c] EXCEPT !.pc = label]
<1>1. submits' = [submits EXCEPT ![c] = s]
  BY DEF Goto
<1>2. submits[c] \in SubmitCall
  BY RowOfTable DEF TypeInv, TypeOK
<1>3. s \in SubmitCall /\ s.pc = label
  BY <1>2 DEF SubmitCall
<1>4. IsTable(submits', Call, SubmitCall)
  <2> HIDE DEF s
  <2> QED  BY <1>1, <1>3, ExceptIsTable DEF TypeInv, TypeOK
<1>5. TargetIsSet'
  <2> HIDE DEF s
  <2> QED  BY <1>1, <1>3 DEF TypeInv, TargetIsSet
<1> QED  BY <1>1, <1>4, <1>5

LEMMA EndOfSubmitKeepsTypes ==
  ASSUME TypeInv, NEW c, submits' = Drop(submits, c)
  PROVE  /\ IsTable(submits', Call, SubmitCall)
         /\ DOMAIN submits' \subseteq DOMAIN submits
         /\ TargetIsSet'
<1>1. IsTable(submits', Call, SubmitCall)
  BY DropIsTable DEF TypeInv, TypeOK
<1> QED  BY <1>1 DEF Drop, TypeInv, TargetIsSet

LEMMA JudgeKeepsTypes ==
  ASSUME TypeInv, NEW c \in DOMAIN submits, NEW row, Judge(c, row)
  PROVE  /\ IsTable(submits', Call, SubmitCall)
         /\ DOMAIN submits' \subseteq DOMAIN submits
         /\ TargetIsSet'
<1>1. CASE Goto(c, "checkOverlap")
  BY <1>1, GotoKeepsTypes
<1>2. CASE submits' = Drop(submits, c)
  BY <1>2, EndOfSubmitKeepsTypes
<1> QED  BY <1>1, <1>2 DEF Judge

\* A step of submitRequest touches nothing else that the types mention, so
\* this is what remains to be shown of most of them.
LEMMA SubmitsOnly ==
  ASSUME TypeInv, IsTable(submits', Call, SubmitCall),
         DOMAIN submits' \subseteq DOMAIN submits, TargetIsSet',
         UNCHANGED <<active, balance, requests, approvals, decisions>>
  PROVE  TypeInv'
BY DEF TypeInv, TypeOK

\* updateQuotas moves days between the two columns and leaves the quota alone.
LEMMA AddUsedValue ==
  ASSUME NEW row \in Row, NEW d \in Int
  PROVE  /\ AddUsed(row, d) \in Row
         /\ AddUsed(row, d).total = row.total
         /\ AddUsed(row, d).used = row.used + d
         /\ AddUsed(row, d).remaining = row.remaining - d
<1> DEFINE half == [row EXCEPT !.used = row.used + d]
<1>1. half \in Row /\ half.used = row.used + d /\ half.total = row.total
  BY DEF Row
<1>2. AddUsed(row, d) = [half EXCEPT !.remaining = row.remaining - d]
  BY DEF AddUsed
<1> HIDE DEF half
<1>3. row.remaining - d \in Int
  BY DEF Row
<1> QED  BY <1>1, <1>2, <1>3 DEF Row

LEMMA AdjustKeepsTypes ==
  ASSUME TypeInv, NEW k, NEW d \in Int, Adjust(k, d)
  PROVE  IsTable(balance', Key, Row)
<1>1. CASE k \in DOMAIN balance
  <2>1. balance[k] \in Row
    BY <1>1, RowOfTable DEF TypeInv, TypeOK
  <2>2. AddUsed(balance[k], d) \in Row
    BY <2>1, AddUsedValue
  <2>3. balance' = [balance EXCEPT ![k] = AddUsed(balance[k], d)]
    BY <1>1 DEF Adjust
  <2> QED  BY <1>1, <2>2, <2>3, ExceptIsTable DEF TypeInv, TypeOK
<1>2. CASE k \notin DOMAIN balance
  BY <1>2 DEF Adjust, TypeInv, TypeOK
<1> QED  BY <1>1, <1>2

LEMMA DaysIsInt ==
  ASSUME NEW rg \in DateRange
  PROVE  Days(rg) \in Int
<1>1. rg \in [first : Nat \ {0}, last : Nat]
  BY RangeAssumption
<1> QED  BY <1>1 DEF Days

LEMMA SubmitStepKeepsTypes ==
  ASSUME TypeInv, NEW c \in Call, SubmitStep(c)
  PROVE  TypeInv'
<1>0. /\ c \in DOMAIN submits => submits[c] \in SubmitCall
      /\ IsTable(submits, Call, SubmitCall)
      /\ IsTable(balance, Key, Row)
      /\ IsTable(requests, RequestId, Request)
  BY RowOfTable DEF TypeInv, TypeOK
<1>1. CASE ReadBalance(c)
  <2>1. c \in DOMAIN submits
    BY <1>1 DEF ReadBalance, SubmitAt
  <2>2. CASE Goto(c, "initPeriod")
    BY <1>1, <2>1, <2>2, GotoKeepsTypes, SubmitsOnly DEF ReadBalance
  <2>3. CASE Judge(c, balance[KeyOf(submits[c])])
    BY <1>1, <2>1, <2>3, JudgeKeepsTypes, SubmitsOnly DEF ReadBalance
  <2> QED  BY <1>1, <2>2, <2>3 DEF ReadBalance
<1>2. CASE InitPeriod(c)
  <2>1. c \in DOMAIN submits
    BY <1>2 DEF InitPeriod, SubmitAt
  <2>2. CASE submits' = Drop(submits, c)
    BY <1>2, <2>2, EndOfSubmitKeepsTypes, SubmitsOnly DEF InitPeriod
  <2>3. CASE active # {}
    <3> DEFINE s == [submits[c] EXCEPT !.pc = "upsert", !.target = Latest(active)]
    <3>1. submits' = [submits EXCEPT ![c] = s]
      BY <1>2, <2>3 DEF InitPeriod
    <3>2. Latest(active) \in Period
      BY <2>3, LatestIsActive DEF TypeInv, TypeOK
    <3>3. s \in SubmitCall /\ s.target \in Period
      BY <1>0, <2>1, <3>2 DEF SubmitCall
    <3> HIDE DEF s
    <3>4. IsTable(submits', Call, SubmitCall)
      BY <1>0, <2>1, <3>1, <3>3, ExceptIsTable
    <3>5. TargetIsSet'
      BY <3>1, <3>3 DEF TypeInv, TargetIsSet
    <3> QED  BY <1>2, <3>1, <3>4, <3>5, SubmitsOnly DEF InitPeriod
  <2> QED  BY <1>2, <2>2, <2>3 DEF InitPeriod
<1>3. CASE Upsert(c)
  <2>1. c \in DOMAIN submits /\ submits[c].pc = "upsert"
    BY <1>3 DEF Upsert, SubmitAt
  <2>2. TargetKey(submits[c]) \in Key
    BY <1>0, <2>1 DEF TypeInv, TargetIsSet, TargetKey, Key, SubmitCall
  <2>3. FreshRow(submits[c].type) \in Row
    BY <1>0, <2>1, TypeConfigAssumption DEF FreshRow, Row, SubmitCall
  <2>4. IsTable(balance', Key, Row)
    BY <1>0, <1>3, <2>2, <2>3, PutIsTable DEF Upsert
  <2>5. /\ IsTable(submits', Call, SubmitCall)
        /\ DOMAIN submits' = DOMAIN submits
        /\ TargetIsSet'
    BY <1>3, <2>1, GotoKeepsTypes DEF Upsert
  <2> QED  BY <1>3, <2>4, <2>5 DEF Upsert, TypeInv, TypeOK
<1>4. CASE RereadBalance(c)
  BY <1>4, JudgeKeepsTypes, SubmitsOnly DEF RereadBalance, SubmitAt
<1>5. CASE CheckOverlap(c)
  <2>1. CASE Goto(c, "insert")
    BY <1>5, <2>1, GotoKeepsTypes, SubmitsOnly DEF CheckOverlap, SubmitAt
  <2>2. CASE submits' = Drop(submits, c)
    BY <1>5, <2>2, EndOfSubmitKeepsTypes, SubmitsOnly DEF CheckOverlap
  <2> QED  BY <1>5, <2>1, <2>2 DEF CheckOverlap
<1>6. CASE Insert(c)
  <2>1. c \in DOMAIN submits
    BY <1>6 DEF Insert, SubmitAt
  <2>2. PICK r \in RequestId \ DOMAIN requests :
          requests' = Put(requests, r, NewRequest(submits[c]))
    BY <1>6 DEF Insert
  <2>3. NewRequest(submits[c]) \in Request
    BY <1>0, <2>1 DEF NewRequest, Request, SubmitCall, Status
  <2>4. IsTable(requests', RequestId, Request)
    BY <1>0, <2>2, <2>3, PutIsTable
  <2>5. DOMAIN requests \subseteq DOMAIN requests'
    BY <2>2 DEF Put
  <2>6. /\ IsTable(submits', Call, SubmitCall)
        /\ DOMAIN submits' = DOMAIN submits
        /\ TargetIsSet'
    BY <1>6, <2>1, GotoKeepsTypes DEF Insert
  <2> QED  BY <1>6, <2>4, <2>5, <2>6 DEF Insert, TypeInv, TypeOK
<1>7. CASE Charge(c)
  <2>1. c \in DOMAIN submits
    BY <1>7 DEF Charge, SubmitAt
  <2>2. Days(submits[c].range) \in Int
    BY <1>0, <2>1, DaysIsInt DEF SubmitCall
  <2>3. IsTable(balance', Key, Row)
    BY <1>7, <2>2, AdjustKeepsTypes DEF Charge
  <2>4. /\ IsTable(submits', Call, SubmitCall)
        /\ DOMAIN submits' \subseteq DOMAIN submits
        /\ TargetIsSet'
    BY <1>7, EndOfSubmitKeepsTypes DEF Charge
  <2> QED  BY <1>7, <2>3, <2>4 DEF Charge, TypeInv, TypeOK
<1> QED  BY <1>1, <1>2, <1>3, <1>4, <1>5, <1>6, <1>7 DEF SubmitStep

LEMMA MovedDecisionKeepsTypes ==
  ASSUME TypeInv, NEW c \in DOMAIN decisions, NEW d \in DecisionCall,
         d.req \in DOMAIN requests, decisions' = [decisions EXCEPT ![c] = d]
  PROVE  /\ IsTable(decisions', Call, DecisionCall)
         /\ DOMAIN decisions' = DOMAIN decisions
         /\ \A x \in DOMAIN decisions' : decisions'[x].req \in DOMAIN requests
<1>1. IsTable(decisions', Call, DecisionCall)
  BY ExceptIsTable DEF TypeInv, TypeOK
<1> QED  BY <1>1 DEF TypeInv, TypeOK

LEMMA EndOfDecisionKeepsTypes ==
  ASSUME TypeInv, NEW c, decisions' = Drop(decisions, c)
  PROVE  /\ IsTable(decisions', Call, DecisionCall)
         /\ DOMAIN decisions' \subseteq DOMAIN decisions
         /\ \A x \in DOMAIN decisions' : decisions'[x].req \in DOMAIN requests
<1>1. IsTable(decisions', Call, DecisionCall)
  BY DropIsTable DEF TypeInv, TypeOK
<1> QED  BY <1>1 DEF TypeInv, TypeOK, Drop

\* What remains to be shown of a step of a decision.
LEMMA DecisionsOnly ==
  ASSUME TypeInv, IsTable(decisions', Call, DecisionCall),
         DOMAIN decisions' \subseteq DOMAIN decisions,
         \A x \in DOMAIN decisions' : decisions'[x].req \in DOMAIN requests,
         UNCHANGED <<active, submits>>,
         IsTable(balance', Key, Row), IsTable(requests', RequestId, Request),
         DOMAIN requests' = DOMAIN requests, approvals' \subseteq Approval
  PROVE  TypeInv'
BY DEF TypeInv, TypeOK, TargetIsSet

LEMMA RequestFields ==
  ASSUME TypeInv, NEW r \in DOMAIN requests
  PROVE  /\ requests[r] \in Request
         /\ requests[r].emp \in Employee
         /\ requests[r].range \in DateRange
<1>1. requests[r] \in Request
  BY RowOfTable DEF TypeInv, TypeOK
<1> QED  BY <1>1 DEF Request

\* Writing a status keeps the request table one.
LEMMA StatusKeepsTypes ==
  ASSUME TypeInv, NEW r \in DOMAIN requests, NEW st \in Status,
         requests' = [requests EXCEPT ![r].status = st]
  PROVE  IsTable(requests', RequestId, Request) /\ DOMAIN requests' = DOMAIN requests
<1> DEFINE q == [requests[r] EXCEPT !.status = st]
<1>1. requests[r] \in Request
  BY RequestFields
<1>2. q \in Request
  BY <1>1 DEF Request
<1>3. requests' = [requests EXCEPT ![r] = q]
  OBVIOUS
<1>4. IsTable(requests, RequestId, Request)
  BY DEF TypeInv, TypeOK
<1> HIDE DEF q
<1>5. IsTable([requests EXCEPT ![r] = q], RequestId, Request)
  BY <1>2, <1>4, ExceptIsTable
<1>6. DOMAIN [requests EXCEPT ![r] = q] = DOMAIN requests
  OBVIOUS
<1> QED  BY ONLY <1>3, <1>5, <1>6

LEMMA DecisionStepKeepsTypes ==
  ASSUME TypeInv, NEW c \in Call, DecisionStep(c)
  PROVE  TypeInv'
<1> DEFINE d == decisions[c]
           To(label) == [d EXCEPT !.pc = label]
<1>1. c \in DOMAIN decisions
  BY DEF DecisionStep, WriteCancel, WriteDecision, DecisionThrows, RefundPeriod,
         RefundLookup, RefundBalance, Refund, DecisionAt
<1>2. d \in DecisionCall /\ d.req \in DOMAIN requests /\ d.req \in RequestId
  BY <1>1, RowOfTable DEF TypeInv, TypeOK
<1>3. /\ IsTable(decisions, Call, DecisionCall)
      /\ IsTable(balance, Key, Row)
      /\ IsTable(requests, RequestId, Request)
      /\ approvals \subseteq Approval
      /\ active \subseteq Period
  BY DEF TypeInv, TypeOK
<1>4. To("refundPeriod") \in DecisionCall /\ To("refund") \in DecisionCall
  BY <1>2 DEF DecisionCall
<1>5. To("refundPeriod").req = d.req /\ To("refund").req = d.req
  BY <1>2 DEF DecisionCall
<1>6. CASE WriteCancel(c)
  <2>1. decisions' = [decisions EXCEPT ![c] = To("refundPeriod")]
    BY <1>6 DEF WriteCancel
  <2>2. IsTable(requests', RequestId, Request) /\ DOMAIN requests' = DOMAIN requests
    BY <1>2, <1>6, StatusKeepsTypes DEF WriteCancel, Status
  <2> QED
    BY <1>1, <1>2, <1>3, <1>4, <1>5, <1>6, <2>1, <2>2, DecisionsOnly,
       MovedDecisionKeepsTypes DEF WriteCancel
<1>7. CASE WriteDecision(c)
  <2>1. IsTable(requests', RequestId, Request) /\ DOMAIN requests' = DOMAIN requests
    BY <1>2, <1>7, StatusKeepsTypes DEF WriteDecision, Status, DecisionCall
  <2>2. ApprovalRow(d) \in Approval
    BY <1>2 DEF ApprovalRow, Approval, DecisionCall
  <2>3. CASE decisions' = [decisions EXCEPT ![c].pc = "refundPeriod"]
    BY <1>1, <1>2, <1>3, <1>4, <1>5, <1>7, <2>1, <2>2, <2>3, DecisionsOnly,
       MovedDecisionKeepsTypes DEF WriteDecision
  <2>4. CASE decisions' = Drop(decisions, c)
    BY <1>3, <1>7, <2>1, <2>2, <2>4, DecisionsOnly, EndOfDecisionKeepsTypes
       DEF WriteDecision
  <2> QED  BY <1>7, <2>3, <2>4 DEF WriteDecision
<1>8. CASE DecisionThrows(c)
  BY <1>3, <1>8, DecisionsOnly, EndOfDecisionKeepsTypes DEF DecisionThrows
<1>9. CASE decisions' = Drop(decisions, c) /\ UNCHANGED <<active, balance, requests, approvals, submits>>
  BY <1>3, <1>9, DecisionsOnly, EndOfDecisionKeepsTypes
<1>10. CASE RefundPeriod(c)
  <2>1. CASE active = {}
    BY <1>9, <1>10, <2>1 DEF RefundPeriod
  <2>2. CASE active # {}
    <3> DEFINE e == [d EXCEPT !.pc = "refundLookup", !.period = Latest(active)]
    <3>1. Latest(active) \in Period
      BY <1>3, <2>2, LatestIsActive
    <3>2. e \in DecisionCall /\ e.req = d.req
      BY <1>2, <3>1 DEF DecisionCall
    <3>3. decisions' = [decisions EXCEPT ![c] = e]
      BY <1>10, <2>2 DEF RefundPeriod
    <3> HIDE DEF e
    <3> QED
      BY <1>1, <1>2, <1>3, <1>10, <3>2, <3>3, DecisionsOnly, MovedDecisionKeepsTypes
         DEF RefundPeriod
  <2> QED  BY <2>1, <2>2
<1>11. CASE RefundLookup(c)
  <2>1. CASE active = {}
    BY <1>9, <1>11, <2>1 DEF RefundLookup
  <2>2. CASE active # {}
    <3> DEFINE e == [d EXCEPT !.pc = "refundBalance", !.target = Latest(active)]
    <3>1. Latest(active) \in Period
      BY <1>3, <2>2, LatestIsActive
    <3>2. e \in DecisionCall /\ e.req = d.req
      BY <1>2, <3>1 DEF DecisionCall
    <3>3. decisions' = [decisions EXCEPT ![c] = e]
      BY <1>11, <2>2 DEF RefundLookup
    <3> HIDE DEF e
    <3> QED
      BY <1>1, <1>2, <1>3, <1>11, <3>2, <3>3, DecisionsOnly, MovedDecisionKeepsTypes
         DEF RefundLookup
  <2> QED  BY <2>1, <2>2
<1>12. CASE RefundBalance(c)
  <2>1. CASE decisions' = Drop(decisions, c)
    BY <1>9, <1>12, <2>1 DEF RefundBalance
  <2>2. CASE decisions' = [decisions EXCEPT ![c].pc = "refund"]
    BY <1>1, <1>2, <1>3, <1>4, <1>5, <1>12, <2>2, DecisionsOnly,
       MovedDecisionKeepsTypes DEF RefundBalance
  <2> QED  BY <1>12, <2>1, <2>2 DEF RefundBalance
<1>13. CASE Refund(c)
  <2>1. requests[d.req].range \in DateRange
    BY <1>2, RequestFields
  <2>2. -Days(requests[d.req].range) \in Int
    BY <2>1, DaysIsInt
  <2>3. IsTable(balance', Key, Row)
    BY <1>13, <2>2, AdjustKeepsTypes DEF Refund
  <2> QED  BY <1>3, <1>13, <2>3, DecisionsOnly, EndOfDecisionKeepsTypes DEF Refund
<1> QED
  BY <1>6, <1>7, <1>8, <1>10, <1>11, <1>12, <1>13 DEF DecisionStep

LEMMA TypeInvStep == TypeInv /\ [Next]_vars => TypeInv'
<1> SUFFICES ASSUME TypeInv, [Next]_vars
             PROVE  TypeInv'
  OBVIOUS
<1>1. ASSUME NEW c \in Call, NEW e \in Employee, NEW t \in LeaveType,
             NEW rg \in DateRange, Submit(c, e, t, rg)
      PROVE  TypeInv'
  <2> DEFINE s == [pc |-> "readBalance", emp |-> e, type |-> t, range |-> rg,
                   period |-> Latest(active), target |-> NoPeriod]
  <2>1. Latest(active) \in Period
    BY <1>1, LatestIsActive DEF Submit, TypeInv, TypeOK
  <2>2. s \in SubmitCall
    BY <2>1 DEF SubmitCall
  <2>3. submits' = Put(submits, c, s)
    BY <1>1 DEF Submit
  <2>4. IsTable(submits', Call, SubmitCall)
    <3> HIDE DEF s
    <3> QED  BY <2>2, <2>3, PutIsTable DEF TypeInv, TypeOK
  <2>5. DOMAIN submits' = DOMAIN submits \cup {c} /\ TargetIsSet'
    BY <2>3 DEF Put, TypeInv, TargetIsSet
  <2> QED  BY <1>1, <2>4, <2>5 DEF Submit, Free, TypeInv, TypeOK
<1>2. ASSUME NEW c \in Call, NewDecision(c)
      PROVE  TypeInv'
  <2>1. PICK r \in DOMAIN requests, a \in Employee,
             o \in {"MANAGER_APPROVED", "APPROVED", "REJECTED", "CANCELLED"} :
          Decide(c, a, r, o)
    <3>1. \A r \in DOMAIN requests : requests[r].emp \in Employee
      BY RequestFields
    <3> QED  BY <1>2, <3>1 DEF NewDecision, Cancel, Approve, Reject
  <2> DEFINE d == [pc |-> "write", actor |-> a, req |-> r, outcome |-> o,
                   period |-> NoPeriod, target |-> NoPeriod]
  <2>2. d \in DecisionCall /\ d.req \in DOMAIN requests
    BY <2>1, RowOfTable DEF DecisionCall, TypeInv, TypeOK
  <2>3. decisions' = Put(decisions, c, d)
    BY <2>1 DEF Decide
  <2> HIDE DEF d
  <2>4. IsTable(decisions', Call, DecisionCall)
    BY <2>2, <2>3, PutIsTable DEF TypeInv, TypeOK
  <2>5. /\ DOMAIN decisions' = DOMAIN decisions \cup {c}
        /\ \A x \in DOMAIN decisions' : decisions'[x].req \in DOMAIN requests
    BY <2>2, <2>3 DEF Put, TypeInv, TypeOK
  <2> QED  BY <2>1, <2>4, <2>5 DEF Decide, Free, TypeInv, TypeOK, TargetIsSet
<1>3. ASSUME NEW c \in Call, Step(c)
      PROVE  TypeInv'
  BY <1>3, SubmitStepKeepsTypes, DecisionStepKeepsTypes DEF Step
<1>4. ASSUME NEW c \in Mortal, Fail(c)
      PROVE  TypeInv'
  BY <1>4, EndOfSubmitKeepsTypes, EndOfDecisionKeepsTypes DEF Fail, TypeInv, TypeOK
<1>5. ASSUME NEW p \in Switchable, SetPeriodActive(p)
      PROVE  TypeInv'
  BY <1>5, PeriodAssumption DEF SetPeriodActive, TypeInv, TypeOK, TargetIsSet
<1>6. CASE UNCHANGED vars
  BY <1>6 DEF vars, TypeInv, TypeOK, TargetIsSet
<1> QED  BY <1>1, <1>2, <1>3, <1>4, <1>5, <1>6 DEF Next

\* Every row and every call in flight keeps its shape, whatever the
\* interleaving of the handlers, the failures and the period changes.
THEOREM TypeCorrect == Spec => []TypeOK
<1>1. Spec => []TypeInv
  BY TypeInvInit, TypeInvStep, PTL DEF Spec
<1> QED  BY <1>1, PTL DEF TypeInv

-----------------------------------------------------------------------------
(* The three columns of leave_balance agree.                               *)

LEMMA SubmitFields ==
  ASSUME TypeInv, NEW c \in DOMAIN submits
  PROVE  submits[c].type \in LeaveType /\ submits[c].range \in DateRange
<1>1. submits[c] \in SubmitCall
  BY RowOfTable DEF TypeInv, TypeOK
<1> QED  BY <1>1 DEF SubmitCall

LEMMA DecisionShape ==
  ASSUME TypeInv, NEW c \in DOMAIN decisions
  PROVE  /\ decisions[c] \in DecisionCall
         /\ decisions[c].req \in DOMAIN requests
         /\ \A label : [decisions[c] EXCEPT !.pc = label].pc = label
<1>1. decisions[c] \in DecisionCall
  BY RowOfTable DEF TypeInv, TypeOK
<1> QED  BY <1>1 DEF DecisionCall, TypeInv, TypeOK

LEMMA AdjustKeepsRemaining ==
  ASSUME TypeInv, RemainingIsTotalMinusUsed, NEW k, NEW d \in Int, Adjust(k, d)
  PROVE  RemainingIsTotalMinusUsed'
<1>1. CASE k \in DOMAIN balance
  <2> DEFINE row == AddUsed(balance[k], d)
  <2>1. balance[k] \in Row /\ balance[k].remaining = balance[k].total - balance[k].used
    BY <1>1, RowOfTable DEF TypeInv, TypeOK, RemainingIsTotalMinusUsed
  <2>2. /\ row.total = balance[k].total
        /\ row.used = balance[k].used + d
        /\ row.remaining = balance[k].remaining - d
    BY <2>1, AddUsedValue
  <2>3. row.remaining = row.total - row.used
    BY <2>1, <2>2 DEF Row
  <2>4. balance' = [balance EXCEPT ![k] = row]
    BY <1>1 DEF Adjust
  <2> HIDE DEF row
  <2> QED  BY <2>3, <2>4 DEF RemainingIsTotalMinusUsed
<1>2. CASE k \notin DOMAIN balance
  BY <1>2 DEF Adjust, RemainingIsTotalMinusUsed
<1> QED  BY <1>1, <1>2

LEMMA RemainingStep ==
  ASSUME TypeInv, RemainingIsTotalMinusUsed, [Next]_vars
  PROVE  RemainingIsTotalMinusUsed'
<1>1. CASE UNCHANGED balance
  BY <1>1 DEF RemainingIsTotalMinusUsed
<1>2. ASSUME NEW c \in Call, Upsert(c)
      PROVE  RemainingIsTotalMinusUsed'
  <2>1. submits[c].type \in LeaveType
    BY <1>2, SubmitFields DEF Upsert, SubmitAt
  <2>2. LET row == FreshRow(submits[c].type)
        IN  row.remaining = row.total - row.used
    BY <2>1, TypeConfigAssumption DEF FreshRow
  <2> QED  BY <1>2, <2>2 DEF Upsert, Put, RemainingIsTotalMinusUsed
<1>3. ASSUME NEW c \in Call, Charge(c)
      PROVE  RemainingIsTotalMinusUsed'
  <2>1. submits[c].range \in DateRange
    BY <1>3, SubmitFields DEF Charge, SubmitAt
  <2> QED  BY <1>3, <2>1, DaysIsInt, AdjustKeepsRemaining DEF Charge
<1>4. ASSUME NEW c \in Call, Refund(c)
      PROVE  RemainingIsTotalMinusUsed'
  <2>1. decisions[c].req \in DOMAIN requests
    BY <1>4 DEF Refund, DecisionAt, TypeInv, TypeOK
  <2>2. -Days(requests[decisions[c].req].range) \in Int
    BY <2>1, RequestFields, DaysIsInt
  <2> QED  BY <1>4, <2>2, AdjustKeepsRemaining DEF Refund
<1>5. ASSUME NEW c \in Call, SubmitStep(c), ~Upsert(c), ~Charge(c)
      PROVE  UNCHANGED balance
  BY <1>5 DEF SubmitStep, ReadBalance, InitPeriod, RereadBalance, CheckOverlap, Insert
<1>6. ASSUME NEW c \in Call, DecisionStep(c), ~Refund(c)
      PROVE  UNCHANGED balance
  BY <1>6 DEF DecisionStep, WriteCancel, WriteDecision, DecisionThrows,
              RefundPeriod, RefundLookup, RefundBalance
<1>7. ASSUME NEW c \in Call, NewDecision(c)
      PROVE  UNCHANGED balance
  BY <1>7 DEF NewDecision, Cancel, Approve, Reject, Decide
<1> QED
  BY <1>1, <1>2, <1>3, <1>4, <1>5, <1>6, <1>7
     DEF Next, Step, Submit, Fail, SetPeriodActive, vars

\* No interleaving of upserts, charges and refunds makes the remaining quota
\* differ from the total quota less the used one.
THEOREM RemainingAgrees == Spec => []RemainingIsTotalMinusUsed
<1>1. Init => RemainingIsTotalMinusUsed
  BY DEF Init, RemainingIsTotalMinusUsed
<1>2. TypeInv /\ RemainingIsTotalMinusUsed /\ [Next]_vars => RemainingIsTotalMinusUsed'
  BY RemainingStep
<1>3. Spec => []TypeInv
  BY TypeInvInit, TypeInvStep, PTL DEF Spec
<1> QED  BY <1>1, <1>2, <1>3, PTL DEF Spec

-----------------------------------------------------------------------------
(* Two-level approval.                                                     *)

\* A decision about to be written was taken by somebody entitled to it, and
\* the final approval of a managed employee's request has the signature of
\* the manager on record already.  Nothing that happens between the read and
\* the write can take either away: managers are fixed, approvals are only
\* added, and a request keeps its employee.
Entitled ==
  \A c \in DOMAIN decisions :
    LET d == decisions[c]
        m == ManagerOf[requests[d.req].emp]
    IN  d.pc = "write" =>
          /\ d.outcome = "APPROVED" =>
               d.actor \in HR /\ (Managed(requests[d.req].emp) => ManagerSigned(d.req))
          /\ d.outcome = "MANAGER_APPROVED" => d.actor = m
          /\ d.outcome = "REJECTED" => d.actor \in HR \cup {m}

ApprovalInv == TypeInv /\ Entitled /\ TwoLevelApproval

\* Requests keep their employees, signatures and statuses: nothing to show.
LEMMA ApprovalFrame ==
  ASSUME Entitled, TwoLevelApproval, UNCHANGED <<requests, approvals>>,
         DOMAIN decisions' \subseteq DOMAIN decisions,
         \A c \in DOMAIN decisions' :
           decisions'[c] = decisions[c] \/ decisions'[c].pc # "write"
  PROVE  (Entitled /\ TwoLevelApproval)'
<1>1. TwoLevelApproval'
  BY DEF TwoLevelApproval, HRSigned, ManagerSigned, Signed
<1>2. Entitled'
  BY DEF Entitled, ManagerSigned, Signed
<1> QED  BY <1>1, <1>2

LEMMA ApprovalNewDecision ==
  ASSUME ApprovalInv, NEW c \in Call, NewDecision(c)
  PROVE  (Entitled /\ TwoLevelApproval)'
<1>1. UNCHANGED <<requests, approvals>>
  BY DEF NewDecision, Cancel, Approve, Reject, Decide
<1>2. TwoLevelApproval'
  BY <1>1 DEF ApprovalInv, TwoLevelApproval, HRSigned, ManagerSigned, Signed
<1>3. PICK r \in DOMAIN requests, a \in Employee,
           o \in {"MANAGER_APPROVED", "APPROVED", "REJECTED", "CANCELLED"} :
        /\ Decide(c, a, r, o)
        /\ o = "APPROVED" =>
             a \in HR /\ (Managed(requests[r].emp) => ManagerSigned(r))
        /\ o = "MANAGER_APPROVED" => a = ManagerOf[requests[r].emp]
        /\ o = "REJECTED" => a \in HR \cup {ManagerOf[requests[r].emp]}
  <2>1. ASSUME NEW r \in RequestId, Cancel(c, r)
        PROVE  r \in DOMAIN requests /\ requests[r].emp \in Employee
    BY <2>1, RequestFields DEF Cancel, ApprovalInv
  <2>2. ASSUME NEW r \in RequestId, NEW a \in Employee, Approve(c, a, r)
        PROVE  \/ /\ Decide(c, a, r, "APPROVED")
                  /\ a \in HR /\ (Managed(requests[r].emp) => ManagerSigned(r))
               \/ /\ Decide(c, a, r, "MANAGER_APPROVED")
                  /\ a = ManagerOf[requests[r].emp]
    BY <2>2 DEF Approve, MayApproveAsHR, MayApproveAsManager, ApprovalInv,
                TwoLevelApproval
  <2>3. ASSUME NEW r \in RequestId, NEW a \in Employee, Reject(c, a, r)
        PROVE  Decide(c, a, r, "REJECTED") /\ a \in HR \cup {ManagerOf[requests[r].emp]}
    BY <2>3 DEF Reject
  <2>4. CASE \E r \in RequestId : Cancel(c, r)
    BY <2>1, <2>4 DEF Cancel
  <2>5. CASE \E r \in RequestId, a \in Employee : Approve(c, a, r)
    BY <2>2, <2>5 DEF Approve
  <2>6. CASE \E r \in RequestId, a \in Employee : Reject(c, a, r)
    BY <2>3, <2>6 DEF Reject
  <2> QED  BY <2>4, <2>5, <2>6 DEF NewDecision
<1>4. /\ DOMAIN decisions' = DOMAIN decisions \cup {c}
      /\ decisions'[c].actor = a /\ decisions'[c].req = r /\ decisions'[c].outcome = o
      /\ \A x \in DOMAIN decisions : x # c => decisions'[x] = decisions[x]
  BY <1>3 DEF Decide, Put
<1>5. \A q : ManagerSigned(q)' <=> ManagerSigned(q)
  BY <1>1 DEF ManagerSigned, Signed
<1>6. Entitled'
  <2> SUFFICES ASSUME NEW x \in DOMAIN decisions', NEW d, d = decisions'[x], d.pc = "write"
               PROVE  /\ d.outcome = "APPROVED" =>
                           /\ d.actor \in HR
                           /\ Managed(requests'[d.req].emp) => ManagerSigned(d.req)'
                      /\ d.outcome = "MANAGER_APPROVED" =>
                           d.actor = ManagerOf[requests'[d.req].emp]
                      /\ d.outcome = "REJECTED" =>
                           d.actor \in HR \cup {ManagerOf[requests'[d.req].emp]}
    BY DEF Entitled
  <2>1. CASE x = c
    BY <1>1, <1>3, <1>4, <1>5, <2>1
  <2>2. CASE x # c
    BY <1>1, <1>4, <1>5, <2>2 DEF ApprovalInv, Entitled
  <2> QED  BY <2>1, <2>2
<1> QED  BY <1>2, <1>6

LEMMA ApprovalInsert ==
  ASSUME ApprovalInv, NEW c \in Call, Insert(c)
  PROVE  (Entitled /\ TwoLevelApproval)'
<1>1. PICK r \in RequestId \ DOMAIN requests :
        requests' = Put(requests, r, NewRequest(submits[c]))
  BY DEF Insert
<1>2. /\ requests'[r].status = "PENDING"
      /\ DOMAIN requests' = DOMAIN requests \cup {r}
      /\ \A q \in DOMAIN requests : requests'[q] = requests[q]
      /\ UNCHANGED <<approvals, decisions>>
  BY <1>1 DEF Put, NewRequest, Insert
<1>3. TwoLevelApproval'
  BY <1>2 DEF ApprovalInv, TwoLevelApproval, HRSigned, ManagerSigned, Signed
<1>4. Entitled'
  BY <1>2 DEF ApprovalInv, Entitled, ManagerSigned, Signed, TypeInv, TypeOK
<1> QED  BY <1>3, <1>4

LEMMA ApprovalWriteCancel ==
  ASSUME ApprovalInv, NEW c \in Call, WriteCancel(c)
  PROVE  (Entitled /\ TwoLevelApproval)'
<1> DEFINE r == decisions[c].req
<1>1. c \in DOMAIN decisions /\ r \in DOMAIN requests /\ requests[r] \in Request
  BY RequestFields DEF WriteCancel, DecisionAt, ApprovalInv, TypeInv, TypeOK
<1>2. /\ DOMAIN requests' = DOMAIN requests
      /\ requests'[r].status = "CANCELLED"
      /\ \A q \in DOMAIN requests : requests'[q].emp = requests[q].emp
      /\ \A q \in DOMAIN requests \ {r} : requests'[q] = requests[q]
      /\ UNCHANGED approvals
  BY <1>1, RequestFields DEF WriteCancel, Request, ApprovalInv
<1>3. TwoLevelApproval'
  BY <1>2 DEF ApprovalInv, TwoLevelApproval, HRSigned, ManagerSigned, Signed
<1>4. decisions' = [decisions EXCEPT ![c].pc = "refundPeriod"]
  BY DEF WriteCancel
<1>5. decisions'[c].pc # "write"
  BY <1>1, <1>4, DecisionShape DEF ApprovalInv
<1>6. Entitled'
  BY <1>2, <1>4, <1>5 DEF ApprovalInv, Entitled, ManagerSigned, Signed, TypeInv, TypeOK
<1> QED  BY <1>3, <1>6

LEMMA ApprovalWriteDecision ==
  ASSUME ApprovalInv, NEW c \in Call, WriteDecision(c)
  PROVE  (Entitled /\ TwoLevelApproval)'
<1>0. PICK d, r : d = decisions[c] /\ r = d.req
  OBVIOUS
<1>1. /\ c \in DOMAIN decisions /\ d.pc = "write"
      /\ r \in DOMAIN requests /\ requests[r] \in Request
      /\ d \in DecisionCall
  BY <1>0, RequestFields, DecisionShape DEF WriteDecision, DecisionAt, ApprovalInv
<1>2. d.outcome \in {"MANAGER_APPROVED", "APPROVED", "REJECTED"}
  BY <1>0, <1>1 DEF WriteDecision, DecisionCall
<1>3. /\ DOMAIN requests' = DOMAIN requests
      /\ requests'[r].status = d.outcome
      /\ \A q \in DOMAIN requests : requests'[q].emp = requests[q].emp
      /\ \A q \in DOMAIN requests \ {r} : requests'[q] = requests[q]
  BY <1>0, <1>1, RequestFields DEF WriteDecision, Request, ApprovalInv
<1>4. approvals' = approvals \cup {ApprovalRow(d)}
  BY <1>0 DEF WriteDecision
<1>5. /\ d.outcome = "APPROVED" =>
           d.actor \in HR /\ (Managed(requests[r].emp) => ManagerSigned(r))
      /\ d.outcome = "MANAGER_APPROVED" => d.actor = ManagerOf[requests[r].emp]
      /\ d.outcome = "REJECTED" => d.actor \in HR \cup {ManagerOf[requests[r].emp]}
  BY <1>0, <1>1 DEF ApprovalInv, Entitled
<1>6. ApprovalRow(d) =
        [req |-> r, approver |-> d.actor,
         level |-> IF d.outcome = "APPROVED" THEN "HR" ELSE "MANAGER",
         status |-> IF d.outcome = "REJECTED" THEN "REJECTED" ELSE "APPROVED"]
  BY <1>0 DEF ApprovalRow
<1>7. /\ d.outcome = "APPROVED" => Signed(r, d.actor, "HR", "APPROVED")'
      /\ d.outcome = "MANAGER_APPROVED" => Signed(r, d.actor, "MANAGER", "APPROVED")'
      /\ d.outcome = "REJECTED" => Signed(r, d.actor, "MANAGER", "REJECTED")'
  BY <1>4, <1>6 DEF Signed
<1>8. \A q, e, lvl, st : Signed(q, e, lvl, st) => Signed(q, e, lvl, st)'
  BY <1>4 DEF Signed
<1>9. TwoLevelApproval'
  <2>1. ASSUME NEW q \in DOMAIN requests, q # r
        PROVE  /\ requests'[q].status = "APPROVED" =>
                    HRSigned(q)' /\ (Managed(requests'[q].emp) => ManagerSigned(q)')
               /\ requests'[q].status = "MANAGER_APPROVED" => ManagerSigned(q)'
               /\ requests'[q].status = "REJECTED" =>
                    \E a \in HR \cup {ManagerOf[requests'[q].emp]} :
                      Signed(q, a, "MANAGER", "REJECTED")'
    BY <1>3, <1>8, <2>1 DEF ApprovalInv, TwoLevelApproval, HRSigned, ManagerSigned
  <2>2. /\ requests'[r].status = "APPROVED" =>
             HRSigned(r)' /\ (Managed(requests'[r].emp) => ManagerSigned(r)')
        /\ requests'[r].status = "MANAGER_APPROVED" => ManagerSigned(r)'
        /\ requests'[r].status = "REJECTED" =>
             \E a \in HR \cup {ManagerOf[requests'[r].emp]} :
               Signed(r, a, "MANAGER", "REJECTED")'
    BY <1>1, <1>3, <1>5, <1>7, <1>8 DEF HRSigned, ManagerSigned
  <2> QED  BY <1>3, <2>1, <2>2 DEF TwoLevelApproval
<1>10. Entitled'
  <2>1. /\ DOMAIN decisions' \subseteq DOMAIN decisions
        /\ \A x \in DOMAIN decisions' :
             decisions'[x] = decisions[x] \/ decisions'[x].pc # "write"
    BY <1>0, <1>1, DecisionShape DEF WriteDecision, Drop, ApprovalInv
  <2> QED
    BY <1>3, <1>8, <2>1 DEF ApprovalInv, Entitled, ManagerSigned, TypeInv, TypeOK
<1> QED  BY <1>9, <1>10

LEMMA ApprovalInvStep == ApprovalInv /\ [Next]_vars => ApprovalInv'
<1> SUFFICES ASSUME ApprovalInv, [Next]_vars
             PROVE  (Entitled /\ TwoLevelApproval)'
  BY TypeInvStep DEF ApprovalInv
<1>1. CASE /\ UNCHANGED <<requests, approvals>>
           /\ DOMAIN decisions' \subseteq DOMAIN decisions
           /\ \A c \in DOMAIN decisions' :
                decisions'[c] = decisions[c] \/ decisions'[c].pc # "write"
  BY <1>1, ApprovalFrame DEF ApprovalInv
<1>2. ASSUME NEW c \in Call, SubmitStep(c), ~Insert(c)
      PROVE  UNCHANGED <<requests, approvals, decisions>>
  BY <1>2 DEF SubmitStep, ReadBalance, InitPeriod, Upsert, RereadBalance,
              CheckOverlap, Charge
<1>3. ASSUME NEW c \in Call, DecisionStep(c), ~WriteCancel(c), ~WriteDecision(c)
      PROVE  /\ UNCHANGED <<requests, approvals>>
             /\ DOMAIN decisions' \subseteq DOMAIN decisions
             /\ \A x \in DOMAIN decisions' :
                  decisions'[x] = decisions[x] \/ decisions'[x].pc # "write"
  <2>1. c \in DOMAIN decisions /\ decisions[c] \in DecisionCall
    BY <1>3, RowOfTable
       DEF DecisionStep, DecisionThrows, RefundPeriod, RefundLookup, RefundBalance,
           Refund, DecisionAt, ApprovalInv, TypeInv, TypeOK
  <2>2. \A p : /\ [decisions[c] EXCEPT !.pc = "refundLookup", !.period = p].pc # "write"
               /\ [decisions[c] EXCEPT !.pc = "refundBalance", !.target = p].pc # "write"
    BY <2>1 DEF DecisionCall
  <2>3. [decisions[c] EXCEPT !.pc = "refund"].pc # "write"
    BY <2>1 DEF DecisionCall
  <2> QED
    BY <1>3, <2>1, <2>2, <2>3
       DEF DecisionStep, DecisionThrows, RefundPeriod, RefundLookup, RefundBalance,
           Refund, Drop
<1>4. ASSUME NEW c \in Call, NewDecision(c)
      PROVE  (Entitled /\ TwoLevelApproval)'
  BY <1>4, ApprovalNewDecision
<1>5. ASSUME NEW c \in Call, Step(c)
      PROVE  (Entitled /\ TwoLevelApproval)'
  BY <1>1, <1>2, <1>3, <1>5, ApprovalInsert, ApprovalWriteCancel, ApprovalWriteDecision
     DEF Step
<1>6. ASSUME NEW c \in Mortal, Fail(c)
      PROVE  (Entitled /\ TwoLevelApproval)'
  BY <1>1, <1>6 DEF Fail, Drop
<1> QED
  BY <1>1, <1>4, <1>5, <1>6 DEF Next, Submit, SetPeriodActive, vars

\* However the decisions of managers, HR and owners race, an approval stands
\* on record with the signatures of everybody who had to give one.
THEOREM TwoLevelApprovalHolds == Spec => []TwoLevelApproval
<1>1. Init => ApprovalInv
  BY TypeInvInit DEF Init, ApprovalInv, Entitled, TwoLevelApproval
<1>2. Spec => []ApprovalInv
  BY <1>1, ApprovalInvStep, PTL DEF Spec
<1> QED  BY <1>2, PTL DEF ApprovalInv

-----------------------------------------------------------------------------
(* The sums of days.                                                       *)

LEMMA DaysIsPositive ==
  ASSUME NEW rg \in DateRange
  PROVE  Days(rg) \in Int /\ Days(rg) >= 1
<1>1. rg \in [first : Nat \ {0}, last : Nat] /\ rg.first <= rg.last
  BY RangeAssumption
<1> QED  BY <1>1 DEF Days

-----------------------------------------------------------------------------
(* The three sums of a balance key and the days that one call or one       *)
(* request contributes to each of them.                                    *)

ToCharge(c, k) == IF c \in Charging(k) THEN Days(submits[c].range) ELSE 0

ToRefund(c, k) ==
  IF c \in Refunding(k) THEN Days(requests[decisions[c].req].range) ELSE 0

Standing1(r, k) == IF r \in LiveRequests(k) THEN Days(requests[r].range) ELSE 0

Asked(r, k) == IF r \in RequestsOf(k) THEN Days(requests[r].range) ELSE 0

\* The columns that are added up for a key.
AreColumns(k) ==
  /\ IsColumn([c \in Charging(k) |-> Days(submits[c].range)])
  /\ IsColumn([c \in Refunding(k) |-> Days(requests[decisions[c].req].range)])
  /\ IsColumn([r \in LiveRequests(k) |-> Days(requests[r].range)])
  /\ IsColumn([r \in RequestsOf(k) |-> Days(requests[r].range)])

LEMMA Columns == TypeInv => \A k : AreColumns(k)
<1> SUFFICES ASSUME TypeInv, NEW k
             PROVE  AreColumns(k)
  OBVIOUS
<1>1. DOMAIN submits \subseteq Call /\ DOMAIN decisions \subseteq Call
      /\ DOMAIN requests \subseteq RequestId
  BY DEF TypeInv, TypeOK, IsTable
<1>2. /\ Charging(k) \subseteq Call /\ Refunding(k) \subseteq Call
      /\ LiveRequests(k) \subseteq RequestId /\ RequestsOf(k) \subseteq RequestId
  BY <1>1 DEF Charging, Refunding, LiveRequests, RequestsOf
<1>3. /\ IsFiniteSet(Charging(k)) /\ IsFiniteSet(Refunding(k))
      /\ IsFiniteSet(LiveRequests(k)) /\ IsFiniteSet(RequestsOf(k))
  BY <1>2, BoundAssumption, FS_Subset
<1>4. \A c \in Charging(k) : Days(submits[c].range) \in Int
  BY SubmitFields, DaysIsInt DEF Charging
<1>5. \A c \in Refunding(k) : Days(requests[decisions[c].req].range) \in Int
  BY DecisionShape, RequestFields, DaysIsInt DEF Refunding
<1>6. \A r \in DOMAIN requests : Days(requests[r].range) \in Int
  BY RequestFields, DaysIsInt
<1>7. \A r \in RequestsOf(k) \cup LiveRequests(k) : Days(requests[r].range) \in Int
  BY <1>6 DEF RequestsOf, LiveRequests
<1> QED  BY <1>3, <1>4, <1>5, <1>7 DEF IsColumn, AreColumns

LEMMA ColumnsNext == TypeInv' => (\A k : AreColumns(k))'
BY Columns, PTL

\* A step of one submit call changes the days to charge by that call's share.
LEMMA UnchargedChange ==
  ASSUME TypeInv, TypeInv', NEW c,
         OnlyRow(submits, submits', c), NEW k
  PROVE  /\ Uncharged(k) \in Int /\ Uncharged(k)' \in Int
         /\ ToCharge(c, k) \in Int /\ ToCharge(c, k)' \in Int
         /\ Uncharged(k)' = Uncharged(k) + ToCharge(c, k)' - ToCharge(c, k)
<1> DEFINE f == [x \in Charging(k) |-> Days(submits[x].range)]
           g == [x \in Charging(k)' |-> Days(submits'[x].range)]
<1>1. IsColumn(f) /\ IsColumn(g)
  <2>1. IsColumn(f)
    BY Columns DEF AreColumns
  <2>2. IsColumn(g)
    BY ColumnsNext DEF AreColumns
  <2> QED  BY <2>1, <2>2
<1>2. \A x : x # c => (x \in Charging(k) <=> x \in Charging(k)')
  BY DEF Charging, OnlyRow
<1>3. \A x \in Charging(k) : x # c => submits'[x] = submits[x]
  BY DEF Charging, OnlyRow
<1>4. /\ \A y : y # c => (y \in DOMAIN f <=> y \in DOMAIN g)
      /\ \A y \in DOMAIN f : y # c => f[y] = g[y]
  BY <1>2, <1>3
<1>5. /\ Term(f, c) = ToCharge(c, k) /\ Term(g, c) = ToCharge(c, k)'
      /\ Uncharged(k) = SumOf(f) /\ Uncharged(k)' = SumOf(g)
  BY DEF Term, ToCharge, Uncharged
<1> HIDE DEF f, g
<1> QED  BY <1>1, <1>4, <1>5, SumOfChange

\* The employee, the period, the kind and the days of a request never change.
KeepsRequests ==
  \A r \in DOMAIN requests :
    /\ r \in DOMAIN requests'
    /\ KeyOf(requests'[r]) = KeyOf(requests[r])
    /\ requests'[r].range = requests[r].range

LEMMA UnrefundedChange ==
  ASSUME TypeInv, TypeInv', KeepsRequests, NEW c,
         OnlyRow(decisions, decisions', c), NEW k
  PROVE  /\ Unrefunded(k) \in Int /\ Unrefunded(k)' \in Int
         /\ ToRefund(c, k) \in Int /\ ToRefund(c, k)' \in Int
         /\ Unrefunded(k)' = Unrefunded(k) + ToRefund(c, k)' - ToRefund(c, k)
<1> DEFINE f == [x \in Refunding(k) |-> Days(requests[decisions[x].req].range)]
           g == [x \in Refunding(k)' |-> Days(requests'[decisions'[x].req].range)]
<1>1. IsColumn(f) /\ IsColumn(g)
  <2>1. IsColumn(f)
    BY Columns DEF AreColumns
  <2>2. IsColumn(g)
    BY ColumnsNext DEF AreColumns
  <2> QED  BY <2>1, <2>2
<1>2. \A x \in DOMAIN decisions : x # c =>
        /\ x \in DOMAIN decisions'
        /\ decisions'[x] = decisions[x]
        /\ KeyOf(requests'[decisions'[x].req]) = KeyOf(requests[decisions[x].req])
        /\ requests'[decisions'[x].req].range = requests[decisions[x].req].range
  BY DecisionShape DEF KeepsRequests, OnlyRow
<1>3. \A x : x # c => (x \in Refunding(k) <=> x \in Refunding(k)')
  BY <1>2 DEF Refunding, OnlyRow
<1>4. /\ \A y : y # c => (y \in DOMAIN f <=> y \in DOMAIN g)
      /\ \A y \in DOMAIN f : y # c => f[y] = g[y]
  BY <1>2, <1>3 DEF Refunding
<1>5. /\ Term(f, c) = ToRefund(c, k) /\ Term(g, c) = ToRefund(c, k)'
      /\ Unrefunded(k) = SumOf(f) /\ Unrefunded(k)' = SumOf(g)
  BY DEF Term, ToRefund, Unrefunded
<1> HIDE DEF f, g
<1> QED  BY <1>1, <1>4, <1>5, SumOfChange

LEMMA LiveChange ==
  ASSUME TypeInv, TypeInv', NEW r,
         OnlyRow(requests, requests', r), NEW k
  PROVE  /\ SumDays(LiveRequests(k)) \in Int /\ SumDays(LiveRequests(k))' \in Int
         /\ Standing1(r, k) \in Int /\ Standing1(r, k)' \in Int
         /\ SumDays(LiveRequests(k))'
              = SumDays(LiveRequests(k)) + Standing1(r, k)' - Standing1(r, k)
         /\ SumDays(RequestsOf(k)) \in Int /\ SumDays(RequestsOf(k))' \in Int
         /\ Asked(r, k) \in Int /\ Asked(r, k)' \in Int
         /\ SumDays(RequestsOf(k))'
              = SumDays(RequestsOf(k)) + Asked(r, k)' - Asked(r, k)
<1> DEFINE f == [x \in LiveRequests(k) |-> Days(requests[x].range)]
           g == [x \in LiveRequests(k)' |-> Days(requests'[x].range)]
           u == [x \in RequestsOf(k) |-> Days(requests[x].range)]
           v == [x \in RequestsOf(k)' |-> Days(requests'[x].range)]
<1>1. IsColumn(f) /\ IsColumn(g) /\ IsColumn(u) /\ IsColumn(v)
  <2>1. IsColumn(f) /\ IsColumn(u)
    BY Columns DEF AreColumns
  <2>2. IsColumn(g) /\ IsColumn(v)
    BY ColumnsNext DEF AreColumns
  <2> QED  BY <2>1, <2>2
<1>2. \A x : x # r => /\ (x \in RequestsOf(k) <=> x \in RequestsOf(k)')
                      /\ (x \in LiveRequests(k) <=> x \in LiveRequests(k)')
  BY DEF RequestsOf, LiveRequests, OnlyRow
<1>3. \A x \in RequestsOf(k) \cup LiveRequests(k) : x # r => requests'[x] = requests[x]
  BY DEF RequestsOf, LiveRequests, OnlyRow
<1>4. /\ \A y : y # r => (y \in DOMAIN f <=> y \in DOMAIN g)
      /\ \A y \in DOMAIN f : y # r => f[y] = g[y]
      /\ \A y : y # r => (y \in DOMAIN u <=> y \in DOMAIN v)
      /\ \A y \in DOMAIN u : y # r => u[y] = v[y]
  BY <1>2, <1>3
<1>5. /\ Term(f, r) = Standing1(r, k) /\ Term(g, r) = Standing1(r, k)'
      /\ SumDays(LiveRequests(k)) = SumOf(f) /\ SumDays(LiveRequests(k))' = SumOf(g)
      /\ Term(u, r) = Asked(r, k) /\ Term(v, r) = Asked(r, k)'
      /\ SumDays(RequestsOf(k)) = SumOf(u) /\ SumDays(RequestsOf(k))' = SumOf(v)
  BY DEF Term, Standing1, Asked, SumDays
<1> HIDE DEF f, g, u, v
<1>6. /\ SumOf(f) \in Int /\ SumOf(g) \in Int /\ Term(f, r) \in Int /\ Term(g, r) \in Int
      /\ SumOf(g) = SumOf(f) + Term(g, r) - Term(f, r)
  BY <1>1, <1>4, SumOfChange
<1>7. /\ SumOf(u) \in Int /\ SumOf(v) \in Int /\ Term(u, r) \in Int /\ Term(v, r) \in Int
      /\ SumOf(v) = SumOf(u) + Term(v, r) - Term(u, r)
  BY <1>1, <1>4, SumOfChange
<1> QED  BY <1>5, <1>6, <1>7

-----------------------------------------------------------------------------
(* What each statement does to the numbers of a key.                       *)

LEMMA Numbers == TypeInv =>
  \A k : /\ Booked(k) \in Int /\ Uncharged(k) \in Int /\ Unrefunded(k) \in Int
         /\ SumDays(LiveRequests(k)) \in Int /\ SumDays(RequestsOf(k)) \in Int
<1> SUFFICES ASSUME TypeInv, NEW k
             PROVE  /\ Booked(k) \in Int /\ Uncharged(k) \in Int /\ Unrefunded(k) \in Int
                    /\ SumDays(LiveRequests(k)) \in Int /\ SumDays(RequestsOf(k)) \in Int
  OBVIOUS
<1>1. Booked(k) \in Int
  <2>1. \A x \in DOMAIN balance : balance[x] \in Row
    BY RowOfTable DEF TypeInv, TypeOK
  <2>2. \A x \in DOMAIN balance : balance[x].used \in Int
    BY <2>1 DEF Row
  <2> QED  BY <2>2 DEF Booked
<1> QED
  BY <1>1, Columns, SumOfIsInt DEF AreColumns, Uncharged, Unrefunded, SumDays

SameDebts(k) ==
  /\ Uncharged(k)' = Uncharged(k)
  /\ Unrefunded(k)' = Unrefunded(k)

SameRequests(k) ==
  /\ SumDays(LiveRequests(k))' = SumDays(LiveRequests(k))
  /\ SumDays(RequestsOf(k))' = SumDays(RequestsOf(k))

SameNumbers(k) == Booked(k)' = Booked(k) /\ SameDebts(k) /\ SameRequests(k)

LEMMA UnchangedRequests ==
  ASSUME UNCHANGED requests, NEW k
  PROVE  SameRequests(k)
BY DEF SameRequests, SumDays, LiveRequests, RequestsOf

\* A submit call that neither has nor gets anything to charge.
LEMMA SubmitDebts ==
  ASSUME TypeInv, TypeInv', NEW c, OnlyRow(submits, submits', c),
         ~SubmitAt(c, "charge"), ~SubmitAt(c, "charge")',
         UNCHANGED <<requests, decisions>>, NEW k
  PROVE  SameDebts(k)
<1>1. ToCharge(c, k) = 0 /\ ToCharge(c, k)' = 0
  BY DEF ToCharge, Charging, SubmitAt
<1>2. Uncharged(k)' = Uncharged(k)
  BY <1>1, UnchargedChange
<1>3. Unrefunded(k)' = Unrefunded(k)
  BY DEF Unrefunded, Refunding
<1> QED  BY <1>2, <1>3 DEF SameDebts

\* A decision that owes the same refund as before, or none as before.
LEMMA DecisionDebts ==
  ASSUME TypeInv, TypeInv', NEW c, OnlyRow(decisions, decisions', c),
         UNCHANGED <<requests, submits>>, NEW k,
         ToRefund(c, k)' = ToRefund(c, k)
  PROVE  SameDebts(k)
<1>1. KeepsRequests
  BY DEF KeepsRequests
<1>2. Unrefunded(k)' = Unrefunded(k)
  BY <1>1, UnrefundedChange
<1>3. Uncharged(k)' = Uncharged(k)
  BY DEF Uncharged, Charging
<1> QED  BY <1>2, <1>3 DEF SameDebts

\* Where Goto and Drop leave a submit call.
LEMMA GotoMoves ==
  ASSUME TypeInv, NEW c \in DOMAIN submits, NEW label, Goto(c, label)
  PROVE  /\ OnlyRow(submits, submits', c)
         /\ c \in DOMAIN submits' /\ submits'[c].pc = label
         /\ submits'[c].range = submits[c].range
         /\ KeyOf(submits'[c]) = KeyOf(submits[c])
<1> DEFINE s == [submits[c] EXCEPT !.pc = label]
<1>1. submits' = [submits EXCEPT ![c] = s]
  BY DEF Goto
<1>2. submits[c] \in SubmitCall
  BY RowOfTable DEF TypeInv, TypeOK
<1>3. s.pc = label /\ s.range = submits[c].range /\ KeyOf(s) = KeyOf(submits[c])
  BY <1>2 DEF SubmitCall, KeyOf
<1> HIDE DEF s
<1> QED  BY <1>1, <1>3, WritesOneRow

LEMMA DropMoves ==
  ASSUME NEW c, submits' = Drop(submits, c)
  PROVE  OnlyRow(submits, submits', c) /\ c \notin DOMAIN submits'
BY WritesOneRow DEF Drop

LEMMA JudgeMoves ==
  ASSUME TypeInv, NEW c \in DOMAIN submits, NEW row, Judge(c, row)
  PROVE  OnlyRow(submits, submits', c) /\ ~SubmitAt(c, "charge")'
<1>1. CASE Goto(c, "checkOverlap")
  BY <1>1, GotoMoves DEF SubmitAt
<1>2. CASE submits' = Drop(submits, c)
  BY <1>2, DropMoves DEF SubmitAt
<1> QED  BY <1>1, <1>2 DEF Judge

LEMMA SubmitNumbers ==
  ASSUME TypeInv, TypeInv', NEW c \in Call, NEW k,
         \/ \E e \in Employee, t \in LeaveType, rg \in DateRange : Submit(c, e, t, rg)
         \/ ReadBalance(c) \/ InitPeriod(c) \/ RereadBalance(c) \/ CheckOverlap(c)
  PROVE  SameNumbers(k)
<1>1. UNCHANGED <<balance, requests, decisions>>
  BY DEF Submit, ReadBalance, InitPeriod, RereadBalance, CheckOverlap
<1>2. /\ OnlyRow(submits, submits', c)
      /\ ~SubmitAt(c, "charge") /\ ~SubmitAt(c, "charge")'
  <2>1. CASE \E e \in Employee, t \in LeaveType, rg \in DateRange : Submit(c, e, t, rg)
    <3>1. PICK e \in Employee, t \in LeaveType, rg \in DateRange : Submit(c, e, t, rg)
      BY <2>1
    <3>2. PICK s : submits' = Put(submits, c, s) /\ s.pc = "readBalance"
      BY <3>1 DEF Submit
    <3>3. submits'[c] = s
      BY <3>2 DEF Put
    <3> QED  BY <3>1, <3>2, <3>3, WritesOneRow DEF Submit, Free, SubmitAt
  <2>2. CASE ReadBalance(c)
    <3>1. c \in DOMAIN submits /\ ~SubmitAt(c, "charge")
      BY <2>2 DEF ReadBalance, SubmitAt
    <3>2. CASE Goto(c, "initPeriod")
      BY <3>1, <3>2, GotoMoves DEF SubmitAt
    <3>3. CASE Judge(c, balance[KeyOf(submits[c])])
      BY <3>1, <3>3, JudgeMoves
    <3> QED  BY <2>2, <3>2, <3>3 DEF ReadBalance
  <2>3. CASE InitPeriod(c)
    <3>1. c \in DOMAIN submits /\ ~SubmitAt(c, "charge")
      BY <2>3 DEF InitPeriod, SubmitAt
    <3>2. CASE submits' = Drop(submits, c)
      BY <3>1, <3>2, DropMoves DEF SubmitAt
    <3>3. CASE active # {}
      <4> DEFINE s == [submits[c] EXCEPT !.pc = "upsert", !.target = Latest(active)]
      <4>1. submits' = [submits EXCEPT ![c] = s]
        BY <2>3, <3>3 DEF InitPeriod
      <4>2. submits[c] \in SubmitCall
        BY <3>1, RowOfTable DEF TypeInv, TypeOK
      <4>3. s.pc = "upsert"
        BY <4>2 DEF SubmitCall
      <4> HIDE DEF s
      <4> QED  BY <3>1, <4>1, <4>3, WritesOneRow DEF SubmitAt
    <3> QED  BY <2>3, <3>2, <3>3 DEF InitPeriod
  <2>4. CASE RereadBalance(c)
    <3>1. c \in DOMAIN submits /\ ~SubmitAt(c, "charge")
      BY <2>4 DEF RereadBalance, SubmitAt
    <3> QED  BY <2>4, <3>1, JudgeMoves DEF RereadBalance
  <2>5. CASE CheckOverlap(c)
    <3>1. c \in DOMAIN submits /\ ~SubmitAt(c, "charge")
      BY <2>5 DEF CheckOverlap, SubmitAt
    <3>2. CASE Goto(c, "insert")
      BY <3>1, <3>2, GotoMoves DEF SubmitAt
    <3>3. CASE submits' = Drop(submits, c)
      BY <3>1, <3>3, DropMoves DEF SubmitAt
    <3> QED  BY <2>5, <3>2, <3>3 DEF CheckOverlap
  <2> QED  BY <2>1, <2>2, <2>3, <2>4, <2>5
<1>3. SameDebts(k)
  BY <1>1, <1>2, SubmitDebts
<1>4. Booked(k)' = Booked(k)
  BY <1>1 DEF Booked
<1> QED  BY <1>1, <1>3, <1>4, UnchangedRequests DEF SameNumbers

\* createOrUpdate sets the booked days of its row to none.
LEMMA UpsertNumbers ==
  ASSUME TypeInv, TypeInv', NEW c \in Call, Upsert(c), NEW k
  PROVE  /\ Booked(k)' = IF k = TargetKey(submits[c]) THEN 0 ELSE Booked(k)
         /\ SameDebts(k) /\ SameRequests(k)
<1>1. UNCHANGED <<requests, decisions>> /\ c \in DOMAIN submits
      /\ ~SubmitAt(c, "charge")
  BY DEF Upsert, SubmitAt
<1>2. OnlyRow(submits, submits', c) /\ ~SubmitAt(c, "charge")'
  BY <1>1, GotoMoves DEF Upsert, SubmitAt
<1>3. SameDebts(k)
  BY <1>1, <1>2, SubmitDebts
<1>4. Booked(k)' = IF k = TargetKey(submits[c]) THEN 0 ELSE Booked(k)
  BY DEF Upsert, Booked, Put, FreshRow
<1> QED  BY <1>1, <1>3, <1>4, UnchangedRequests

\* Inserting a request: its days are asked for, and owed by the call.
LEMMA InsertNumbers ==
  ASSUME TypeInv, TypeInv', NEW c \in Call, Insert(c), NEW k
  PROVE  LET d == IF KeyOf(submits[c]) = k THEN Days(submits[c].range) ELSE 0
         IN  /\ d \in Nat
             /\ Booked(k)' = Booked(k)
             /\ Uncharged(k)' = Uncharged(k) + d
             /\ Unrefunded(k)' = Unrefunded(k)
             /\ SumDays(LiveRequests(k))' = SumDays(LiveRequests(k)) + d
             /\ SumDays(RequestsOf(k))' = SumDays(RequestsOf(k)) + d
<1>1. PICK r \in RequestId \ DOMAIN requests :
        requests' = Put(requests, r, NewRequest(submits[c]))
  BY DEF Insert
<1>2. c \in DOMAIN submits /\ submits[c].pc = "insert" /\ Goto(c, "charge")
      /\ UNCHANGED <<balance, decisions>>
  BY DEF Insert, SubmitAt
<1>3. /\ OnlyRow(submits, submits', c) /\ c \in DOMAIN submits'
      /\ submits'[c].pc = "charge" /\ submits'[c].range = submits[c].range
      /\ KeyOf(submits'[c]) = KeyOf(submits[c])
  BY <1>2, GotoMoves
<1>4. /\ OnlyRow(requests, requests', r)
      /\ DOMAIN requests' = DOMAIN requests \cup {r}
      /\ requests'[r] = NewRequest(submits[c])
      /\ \A q \in DOMAIN requests : requests'[q] = requests[q]
  BY <1>1, WritesOneRow DEF Put
<1>5. /\ KeyOf(requests'[r]) = KeyOf(submits[c])
      /\ requests'[r].range = submits[c].range
      /\ requests'[r].status \in Live
  BY <1>4 DEF NewRequest, KeyOf, Live
<1> DEFINE d == IF KeyOf(submits[c]) = k THEN Days(submits[c].range) ELSE 0
<1>6. ToCharge(c, k) = 0 /\ ToCharge(c, k)' = d
  BY <1>2, <1>3 DEF ToCharge, Charging
<1>7. Standing1(r, k) = 0 /\ Asked(r, k) = 0
  BY DEF Standing1, Asked, LiveRequests, RequestsOf
<1>8. Standing1(r, k)' = d /\ Asked(r, k)' = d
  BY <1>4, <1>5 DEF Standing1, Asked, LiveRequests, RequestsOf
<1>9. d \in Nat
  BY <1>2, SubmitFields, DaysIsPositive
<1>10. Unrefunded(k)' = Unrefunded(k)
  <2>1. KeepsRequests
    BY <1>4 DEF KeepsRequests
  <2>2. OnlyRow(decisions, decisions', c)
    BY <1>2 DEF OnlyRow
  <2>3. ToRefund(c, k)' = ToRefund(c, k)
    BY <1>2, <1>4, DecisionShape DEF ToRefund, Refunding
  <2> QED  BY <2>1, <2>2, <2>3, UnrefundedChange
<1>11. Booked(k)' = Booked(k)
  BY <1>2 DEF Booked
<1> HIDE DEF d
<1>12. /\ Uncharged(k)' = Uncharged(k) + d
       /\ SumDays(LiveRequests(k))' = SumDays(LiveRequests(k)) + d
       /\ SumDays(RequestsOf(k))' = SumDays(RequestsOf(k)) + d
  <2>1. Uncharged(k)' = Uncharged(k) + d
    BY <1>3, <1>6, UnchargedChange
  <2>2. /\ SumDays(LiveRequests(k))' = SumDays(LiveRequests(k)) + d
        /\ SumDays(RequestsOf(k))' = SumDays(RequestsOf(k)) + d
    BY <1>4, <1>7, <1>8, LiveChange
  <2> QED  BY <2>1, <2>2
<1> QED  BY <1>9, <1>10, <1>11, <1>12 DEF d

LEMMA AdjustBooks ==
  ASSUME TypeInv, NEW k0, NEW n \in Int, Adjust(k0, n), NEW k
  PROVE  Booked(k)' = Booked(k) + (IF k = k0 /\ k \in DOMAIN balance THEN n ELSE 0)
<1>1. DOMAIN balance' = DOMAIN balance
  BY DEF Adjust
<1>2. CASE k \in DOMAIN balance /\ k = k0
  <2>1. balance[k] \in Row
    BY <1>2, RowOfTable DEF TypeInv, TypeOK
  <2>2. balance'[k] = AddUsed(balance[k], n)
    BY <1>2 DEF Adjust
  <2> QED  BY <1>1, <1>2, <2>1, <2>2, AddUsedValue DEF Booked
<1>3. CASE ~(k \in DOMAIN balance /\ k = k0)
  <2>1. k \in DOMAIN balance => balance'[k] = balance[k]
    BY <1>3 DEF Adjust
  <2>2. Booked(k)' = Booked(k) /\ Booked(k) \in Int
    BY <1>1, <2>1, Numbers DEF Booked
  <2> QED  BY <1>3, <2>2
<1> QED  BY <1>2, <1>3

\* The days of a submit call, if it is about this key.
DaysFor(s, k) == IF KeyOf(s) = k THEN Days(s.range) ELSE 0

\* updateQuotas books what the call owed, if there is a row to book it in.
LEMMA ChargeNumbers ==
  ASSUME TypeInv, TypeInv', NEW c \in Call, Charge(c), NEW k
  PROVE  LET d == DaysFor(submits[c], k)
         IN  /\ d \in Nat
             /\ Booked(k)' = Booked(k) + IF k \in DOMAIN balance THEN d ELSE 0
             /\ Uncharged(k)' = Uncharged(k) - d
             /\ Unrefunded(k)' = Unrefunded(k)
             /\ SameRequests(k)
<1>1. c \in DOMAIN submits /\ submits[c].pc = "charge"
      /\ submits' = Drop(submits, c)
      /\ Adjust(KeyOf(submits[c]), Days(submits[c].range))
      /\ UNCHANGED <<requests, decisions>>
  BY DEF Charge, SubmitAt
<1>2. OnlyRow(submits, submits', c) /\ c \notin DOMAIN submits'
  BY <1>1, DropMoves
<1> DEFINE d == DaysFor(submits[c], k)
<1>3. Days(submits[c].range) \in Int /\ Days(submits[c].range) >= 1
  BY <1>1, SubmitFields, DaysIsPositive
<1>4. ToCharge(c, k) = d /\ ToCharge(c, k)' = 0
  BY <1>1, <1>2 DEF ToCharge, Charging, DaysFor
<1>5. d \in Nat
  BY <1>3 DEF DaysFor
<1>6. Booked(k)' = Booked(k) + IF k \in DOMAIN balance THEN d ELSE 0
  BY <1>1, <1>3, AdjustBooks DEF DaysFor
<1>7. Unrefunded(k)' = Unrefunded(k)
  BY <1>1 DEF Unrefunded, Refunding
<1> HIDE DEF d
<1>8. Uncharged(k)' = Uncharged(k) - d
  BY <1>2, <1>4, <1>5, UnchargedChange
<1> QED  BY <1>1, <1>5, <1>6, <1>7, <1>8, UnchangedRequests DEF d

\* A call that ends, of whatever cause, no longer owes what it owed.
LEMMA EndNumbers ==
  ASSUME TypeInv, TypeInv', NEW c,
         submits' = Drop(submits, c), decisions' = Drop(decisions, c),
         UNCHANGED requests, NEW k
  PROVE  /\ ToCharge(c, k) \in Nat /\ ToRefund(c, k) \in Nat
         /\ Uncharged(k)' = Uncharged(k) - ToCharge(c, k)
         /\ Unrefunded(k)' = Unrefunded(k) - ToRefund(c, k)
         /\ SameRequests(k)
<1>1. /\ OnlyRow(submits, submits', c) /\ c \notin DOMAIN submits'
      /\ OnlyRow(decisions, decisions', c) /\ c \notin DOMAIN decisions'
      /\ KeepsRequests
  BY WritesOneRow DEF Drop, KeepsRequests
<1>2. ToCharge(c, k)' = 0 /\ ToRefund(c, k)' = 0
  BY <1>1 DEF ToCharge, Charging, ToRefund, Refunding
<1>3. ToCharge(c, k) \in Nat
  <2>1. c \in Charging(k) => /\ Days(submits[c].range) \in Int
                             /\ Days(submits[c].range) >= 1
    BY SubmitFields, DaysIsPositive DEF Charging
  <2> QED  BY <2>1 DEF ToCharge
<1>4. ToRefund(c, k) \in Nat
  <2>1. c \in Refunding(k) => /\ Days(requests[decisions[c].req].range) \in Int
                              /\ Days(requests[decisions[c].req].range) >= 1
    BY DecisionShape, RequestFields, DaysIsPositive DEF Refunding
  <2> QED  BY <2>1 DEF ToRefund
<1>5. Uncharged(k)' = Uncharged(k) - ToCharge(c, k)
  BY <1>1, <1>2, <1>3, UnchargedChange
<1>6. Unrefunded(k)' = Unrefunded(k) - ToRefund(c, k)
  BY <1>1, <1>2, <1>4, UnrefundedChange
<1> QED  BY <1>3, <1>4, <1>5, <1>6, UnchangedRequests

LEMMA NewDecisionNumbers ==
  ASSUME TypeInv, TypeInv', NEW c \in Call, NewDecision(c), NEW k
  PROVE  SameNumbers(k)
<1>1. PICK d : decisions' = Put(decisions, c, d) /\ d.pc = "write"
  <2>1. PICK a, r, o : Decide(c, a, r, o)
    BY DEF NewDecision, Cancel, Approve, Reject
  <2> DEFINE d == [pc |-> "write", actor |-> a, req |-> r, outcome |-> o,
                   period |-> NoPeriod, target |-> NoPeriod]
  <2>2. decisions' = Put(decisions, c, d) /\ d.pc = "write"
    BY <2>1 DEF Decide
  <2> HIDE DEF d
  <2> QED  BY <2>2
<1>2. UNCHANGED <<balance, requests, submits>> /\ Free(c)
  BY DEF NewDecision, Cancel, Approve, Reject, Decide
<1>3. OnlyRow(decisions, decisions', c) /\ decisions'[c] = d
  BY <1>1, WritesOneRow DEF Put
<1>4. ToRefund(c, k) = 0 /\ ToRefund(c, k)' = 0
  BY <1>1, <1>2, <1>3 DEF ToRefund, Refunding, Free
<1>5. SameDebts(k)
  BY <1>2, <1>3, <1>4, DecisionDebts
<1>6. Booked(k)' = Booked(k)
  BY <1>2 DEF Booked
<1> QED  BY <1>2, <1>5, <1>6, UnchangedRequests DEF SameNumbers

\* Writing a status: the request stands or not, and what no longer stands is
\* to be refunded by the call.
LEMMA WriteNumbers ==
  ASSUME TypeInv, TypeInv', NEW c \in Call, WriteCancel(c) \/ WriteDecision(c), NEW k
  PROVE  LET q == requests[decisions[c].req]
             d == DaysFor(q, k)
             was == IF q.status \in Live THEN d ELSE 0
             is == IF decisions[c].outcome \in Live THEN d ELSE 0
         IN  /\ d \in Nat
             /\ Booked(k)' = Booked(k)
             /\ Uncharged(k)' = Uncharged(k)
             /\ Unrefunded(k)' = Unrefunded(k) + d - is
             /\ SumDays(LiveRequests(k))' = SumDays(LiveRequests(k)) - was + is
             /\ SumDays(RequestsOf(k))' = SumDays(RequestsOf(k))
<1>0. PICK r, o, q : r = decisions[c].req /\ o = decisions[c].outcome /\ q = requests[r]
  OBVIOUS
<1>1. /\ c \in DOMAIN decisions /\ decisions[c].pc = "write"
      /\ r \in DOMAIN requests /\ decisions[c] \in DecisionCall
      /\ q \in Request
      /\ UNCHANGED <<balance, submits>>
  BY <1>0, DecisionShape, RequestFields DEF WriteCancel, WriteDecision, DecisionAt
<1>2. requests' = [requests EXCEPT ![r] = [q EXCEPT !.status = o]]
  BY <1>0, <1>1 DEF WriteCancel, WriteDecision
<1>3. /\ [q EXCEPT !.status = o].range = q.range
      /\ [q EXCEPT !.status = o].status = o
      /\ KeyOf([q EXCEPT !.status = o]) = KeyOf(q)
  BY <1>1 DEF Request, KeyOf
<1>4. /\ OnlyRow(requests, requests', r)
      /\ DOMAIN requests' = DOMAIN requests
      /\ requests'[r].range = q.range
      /\ requests'[r].status = o
      /\ KeyOf(requests'[r]) = KeyOf(q)
  BY <1>1, <1>2, <1>3, WritesOneRow
<1>5. KeepsRequests
  BY <1>0, <1>4 DEF KeepsRequests, OnlyRow
<1> DEFINE d == DaysFor(q, k)
<1>6. d \in Nat
  <2>1. Days(q.range) \in Int /\ Days(q.range) >= 1
    BY <1>0, <1>1, RequestFields, DaysIsPositive
  <2> QED  BY <2>1 DEF DaysFor
<1>7. /\ Standing1(r, k) = IF q.status \in Live THEN d ELSE 0
      /\ Standing1(r, k)' = IF o \in Live THEN d ELSE 0
      /\ Asked(r, k) = d /\ Asked(r, k)' = d
  BY <1>0, <1>1, <1>4 DEF Standing1, Asked, LiveRequests, RequestsOf, DaysFor
<1>8. /\ SumDays(LiveRequests(k))'
           = SumDays(LiveRequests(k)) - (IF q.status \in Live THEN d ELSE 0)
               + (IF o \in Live THEN d ELSE 0)
      /\ SumDays(RequestsOf(k))' = SumDays(RequestsOf(k))
  <2> HIDE DEF d
  <2> QED  BY <1>4, <1>6, <1>7, LiveChange
<1>9. /\ OnlyRow(decisions, decisions', c)
      /\ o \in Live => c \notin DOMAIN decisions'
      /\ o \notin Live => /\ c \in DOMAIN decisions'
                          /\ decisions'[c].pc = "refundPeriod" /\ decisions'[c].req = r
  <2> DEFINE e == [decisions[c] EXCEPT !.pc = "refundPeriod"]
  <2>1. e.pc = "refundPeriod" /\ e.req = r
    BY <1>0, <1>1 DEF DecisionCall
  <2>2. o \in {"MANAGER_APPROVED", "APPROVED", "REJECTED", "CANCELLED"}
    BY <1>0, <1>1 DEF DecisionCall
  <2>3. /\ o \in Live => decisions' = Drop(decisions, c)
        /\ o \notin Live => decisions' = [decisions EXCEPT ![c] = e]
    BY <1>0, <2>2 DEF WriteCancel, WriteDecision, Live
  <2> HIDE DEF e
  <2>4. o \in Live \/ o \notin Live
    OBVIOUS
  <2>5. CASE o \in Live
    BY <2>3, <2>5, WritesOneRow DEF Drop
  <2>6. CASE o \notin Live
    BY <1>1, <2>1, <2>3, <2>6, WritesOneRow
  <2> QED  BY <2>5, <2>6
<1>10. /\ ToRefund(c, k) = 0
       /\ ToRefund(c, k)' = d - (IF o \in Live THEN d ELSE 0)
  <2>1. ToRefund(c, k) = 0
    BY <1>1 DEF ToRefund, Refunding
  <2>2. o \in Live => ToRefund(c, k)' = 0
    BY <1>9 DEF ToRefund, Refunding
  <2>3. o \notin Live => ToRefund(c, k)' = d
    BY <1>4, <1>9 DEF ToRefund, Refunding, DaysFor
  <2> HIDE DEF d
  <2> QED  BY <1>6, <2>1, <2>2, <2>3
<1>11. Unrefunded(k)' = Unrefunded(k) + d - (IF o \in Live THEN d ELSE 0)
  <2> HIDE DEF d
  <2> QED  BY <1>5, <1>6, <1>9, <1>10, UnrefundedChange
<1>12. Booked(k)' = Booked(k) /\ Uncharged(k)' = Uncharged(k)
  BY <1>1 DEF Booked, Uncharged, Charging
<1> QED  BY <1>0, <1>6, <1>8, <1>11, <1>12

\* The lookups of a refund: the debt stays as long as the call does.
LEMMA LookupNumbers ==
  ASSUME TypeInv, TypeInv', NEW c \in Call,
         \/ DecisionThrows(c) \/ RefundPeriod(c) \/ RefundLookup(c) \/ RefundBalance(c),
         NEW k
  PROVE  /\ Booked(k)' = Booked(k)
         /\ Uncharged(k)' = Uncharged(k)
         /\ ToRefund(c, k) \in Nat
         /\ Unrefunded(k)' =
              Unrefunded(k) - (IF c \in DOMAIN decisions' THEN 0 ELSE ToRefund(c, k))
         /\ SameRequests(k)
<1>1. /\ c \in DOMAIN decisions /\ decisions[c] \in DecisionCall
      /\ UNCHANGED <<balance, requests, submits>>
  BY RowOfTable DEF DecisionThrows, RefundPeriod, RefundLookup, RefundBalance,
     DecisionAt, TypeInv, TypeOK
<1>2. c \notin DOMAIN submits
  BY <1>1 DEF TypeInv, TypeOK
<1>3. CASE decisions' = Drop(decisions, c)
  <2>1. submits' = Drop(submits, c)
    BY <1>1, <1>2, DropOfNothing DEF TypeInv, TypeOK
  <2>2. ToCharge(c, k) = 0
    BY <1>2 DEF ToCharge, Charging
  <2>3. c \notin DOMAIN decisions'
    BY <1>3 DEF Drop
  <2>4. Uncharged(k) \in Int
    BY Numbers
  <2>5. Booked(k)' = Booked(k)
    BY <1>1 DEF Booked
  <2>6. /\ ToRefund(c, k) \in Nat /\ SameRequests(k)
        /\ Uncharged(k)' = Uncharged(k) - ToCharge(c, k)
        /\ Unrefunded(k)' = Unrefunded(k) - ToRefund(c, k)
    BY <1>1, <1>3, <2>1, EndNumbers
  <2> QED  BY <2>2, <2>3, <2>4, <2>5, <2>6
<1>4. CASE decisions' # Drop(decisions, c)
  <2>1. PICK e : /\ decisions' = [decisions EXCEPT ![c] = e]
                 /\ e.req = decisions[c].req
                 /\ e.pc # "write" /\ decisions[c].pc # "write"
    <3>1. CASE RefundPeriod(c)
      <4> DEFINE e == [decisions[c] EXCEPT !.pc = "refundLookup", !.period = Latest(active)]
      <4>1. decisions' = [decisions EXCEPT ![c] = e]
        BY <1>4, <3>1 DEF RefundPeriod
      <4>2. e.req = decisions[c].req /\ e.pc = "refundLookup"
        BY <1>1 DEF DecisionCall
      <4> HIDE DEF e
      <4> QED  BY <3>1, <4>1, <4>2 DEF RefundPeriod, DecisionAt
    <3>2. CASE RefundLookup(c)
      <4> DEFINE e == [decisions[c] EXCEPT !.pc = "refundBalance", !.target = Latest(active)]
      <4>1. decisions' = [decisions EXCEPT ![c] = e]
        BY <1>4, <3>2 DEF RefundLookup
      <4>2. e.req = decisions[c].req /\ e.pc = "refundBalance"
        BY <1>1 DEF DecisionCall
      <4> HIDE DEF e
      <4> QED  BY <3>2, <4>1, <4>2 DEF RefundLookup, DecisionAt
    <3>3. CASE RefundBalance(c)
      <4> DEFINE e == [decisions[c] EXCEPT !.pc = "refund"]
      <4>1. decisions' = [decisions EXCEPT ![c] = e]
        BY <1>4, <3>3 DEF RefundBalance
      <4>2. e.req = decisions[c].req /\ e.pc = "refund"
        BY <1>1 DEF DecisionCall
      <4> HIDE DEF e
      <4> QED  BY <3>3, <4>1, <4>2 DEF RefundBalance, DecisionAt
    <3> QED  BY <1>4, <3>1, <3>2, <3>3 DEF DecisionThrows
  <2>2. /\ OnlyRow(decisions, decisions', c) /\ c \in DOMAIN decisions'
        /\ decisions'[c] = e
    BY <1>1, <2>1, WritesOneRow
  <2>3. ToRefund(c, k)' = ToRefund(c, k)
    BY <1>1, <2>1, <2>2 DEF ToRefund, Refunding
  <2>4. SameDebts(k)
    BY <1>1, <2>2, <2>3, DecisionDebts
  <2>5. ToRefund(c, k) \in Nat
    <3>1. /\ Days(requests[decisions[c].req].range) \in Int
          /\ Days(requests[decisions[c].req].range) >= 1
      BY <1>1, DecisionShape, RequestFields, DaysIsPositive
    <3> QED  BY <3>1 DEF ToRefund
  <2>6. Booked(k)' = Booked(k) /\ Unrefunded(k) \in Int
    BY <1>1, Numbers DEF Booked
  <2> QED  BY <1>1, <2>2, <2>4, <2>5, <2>6, UnchangedRequests DEF SameDebts
<1> QED  BY <1>3, <1>4

\* updateQuotas with the days negated, in the row of the period found.
LEMMA RefundNumbers ==
  ASSUME TypeInv, TypeInv', NEW c \in Call, Refund(c), NEW k
  PROVE  LET q == requests[decisions[c].req]
             d == DaysFor(q, k)
         IN  /\ d \in Nat
             /\ Days(q.range) \in Nat
             /\ Booked(k)' = Booked(k)
                  + IF /\ k = RefundKey(decisions[c], decisions[c].period)
                       /\ k \in DOMAIN balance
                      THEN -Days(q.range) ELSE 0
             /\ Uncharged(k)' = Uncharged(k)
             /\ Unrefunded(k)' = Unrefunded(k) - d
             /\ SameRequests(k)
<1>0. PICK q : q = requests[decisions[c].req]
  OBVIOUS
<1>1. /\ c \in DOMAIN decisions /\ decisions[c].pc = "refund"
      /\ decisions' = Drop(decisions, c)
      /\ Adjust(RefundKey(decisions[c], decisions[c].period), -Days(q.range))
      /\ UNCHANGED <<requests, submits>>
  BY <1>0 DEF Refund, DecisionAt
<1>2. c \notin DOMAIN submits
  BY <1>1 DEF TypeInv, TypeOK
<1>3. submits' = Drop(submits, c)
  BY <1>1, <1>2, DropOfNothing DEF TypeInv, TypeOK
<1>4. ToCharge(c, k) = 0 /\ ToRefund(c, k) = DaysFor(q, k)
  BY <1>0, <1>1, <1>2 DEF ToCharge, Charging, ToRefund, Refunding, DaysFor
<1>5. Days(q.range) \in Nat /\ -Days(q.range) \in Int
  <2>1. Days(q.range) \in Int /\ Days(q.range) >= 1
    BY <1>0, <1>1, DecisionShape, RequestFields, DaysIsPositive
  <2> QED  BY <2>1
<1>6. Booked(k)' = Booked(k)
        + IF /\ k = RefundKey(decisions[c], decisions[c].period)
             /\ k \in DOMAIN balance
            THEN -Days(q.range) ELSE 0
  BY <1>1, <1>5, AdjustBooks
<1>7. /\ Uncharged(k)' = Uncharged(k) - 0 /\ Uncharged(k) \in Int
      /\ Unrefunded(k)' = Unrefunded(k) - DaysFor(q, k)
      /\ SameRequests(k)
      /\ DaysFor(q, k) \in Nat
  BY <1>1, <1>3, <1>4, EndNumbers, Numbers
<1> QED  BY <1>0, <1>5, <1>6, <1>7

LEMMA FailNumbers ==
  ASSUME TypeInv, TypeInv', NEW c, Fail(c), NEW k
  PROVE  /\ ToCharge(c, k) \in Nat /\ ToRefund(c, k) \in Nat
         /\ Booked(k)' = Booked(k)
         /\ Uncharged(k)' = Uncharged(k) - ToCharge(c, k)
         /\ Unrefunded(k)' = Unrefunded(k) - ToRefund(c, k)
         /\ SameRequests(k)
<1>1. Booked(k)' = Booked(k)
  BY DEF Fail, Booked
<1> QED  BY <1>1, EndNumbers DEF Fail

\* Neither a period that is switched nor a stuttering step is about days.
LEMMA QuietNumbers ==
  ASSUME UNCHANGED vars \/ \E p \in Switchable : SetPeriodActive(p), NEW k
  PROVE  SameNumbers(k)
<1>1. UNCHANGED <<balance, requests, submits, decisions>>
  BY DEF vars, SetPeriodActive
<1>2. SameRequests(k)
  BY <1>1, UnchangedRequests
<1> QED
  BY <1>1, <1>2 DEF SameNumbers, SameDebts, Booked, Uncharged, Charging, Unrefunded,
                    Refunding

-----------------------------------------------------------------------------
(* No charge without a request.                                            *)

\* What is owed alone is backed too: the row that a charge goes to may just
\* have been overwritten by one without booked days.
DebtsAreBacked ==
  \A k \in Key : Uncharged(k) <= SumDays(RequestsOf(k))

BackedInv == TypeInv /\ ChargesAreBacked /\ DebtsAreBacked

LEMMA BackedFrame ==
  ASSUME BackedInv, NEW k \in Key, SameNumbers(k)
  PROVE  /\ (Booked(k) + Uncharged(k) <= SumDays(RequestsOf(k)))'
         /\ (Uncharged(k) <= SumDays(RequestsOf(k)))'
BY DEF BackedInv, ChargesAreBacked, DebtsAreBacked, SameNumbers, SameDebts, SameRequests

LEMMA BackedStep == BackedInv /\ [Next]_vars => BackedInv'
<1> SUFFICES ASSUME BackedInv, [Next]_vars
             PROVE  BackedInv'
  OBVIOUS
<1>0. TypeInv /\ TypeInv'
  BY TypeInvStep DEF BackedInv
<1> SUFFICES ASSUME NEW k \in Key
             PROVE  /\ (Booked(k) + Uncharged(k) <= SumDays(RequestsOf(k)))'
                    /\ (Uncharged(k) <= SumDays(RequestsOf(k)))'
  BY <1>0 DEF BackedInv, ChargesAreBacked, DebtsAreBacked, Key
<1> DEFINE Goal == /\ (Booked(k) + Uncharged(k) <= SumDays(RequestsOf(k)))'
                   /\ (Uncharged(k) <= SumDays(RequestsOf(k)))'
<1>1. /\ Booked(k) \in Int /\ Uncharged(k) \in Int /\ SumDays(RequestsOf(k)) \in Int
      /\ Booked(k) + Uncharged(k) <= SumDays(RequestsOf(k))
      /\ Uncharged(k) <= SumDays(RequestsOf(k))
  BY <1>0, Numbers DEF BackedInv, ChargesAreBacked, DebtsAreBacked
<1>2. SameNumbers(k) => Goal
  BY BackedFrame
<1>3. ASSUME NEW c \in Call, SubmitStep(c)
      PROVE  Goal
  <2>1. CASE ReadBalance(c) \/ InitPeriod(c) \/ RereadBalance(c) \/ CheckOverlap(c)
    BY <1>0, <1>2, <2>1, SubmitNumbers
  <2>2. CASE Upsert(c)
    <3>1. /\ Booked(k)' = 0 \/ Booked(k)' = Booked(k)
          /\ Uncharged(k)' = Uncharged(k)
          /\ SumDays(RequestsOf(k))' = SumDays(RequestsOf(k))
      BY <1>0, <2>2, UpsertNumbers DEF SameDebts, SameRequests
    <3> QED  BY <1>1, <3>1
  <2>3. CASE Insert(c)
    <3>1. PICK d \in Nat : /\ Booked(k)' = Booked(k)
                           /\ Uncharged(k)' = Uncharged(k) + d
                           /\ SumDays(RequestsOf(k))' = SumDays(RequestsOf(k)) + d
      BY <1>0, <2>3, InsertNumbers
    <3> QED  BY <1>1, <3>1
  <2>4. CASE Charge(c)
    <3>1. PICK d \in Nat : /\ Booked(k)' = Booked(k) \/ Booked(k)' = Booked(k) + d
                           /\ Uncharged(k)' = Uncharged(k) - d
                           /\ SumDays(RequestsOf(k))' = SumDays(RequestsOf(k))
      BY <1>0, <1>1, <2>4, ChargeNumbers DEF SameRequests
    <3> QED  BY <1>1, <3>1
  <2> QED  BY <1>3, <2>1, <2>2, <2>3, <2>4 DEF SubmitStep
<1>4. ASSUME NEW c \in Call, DecisionStep(c)
      PROVE  Goal
  <2>1. CASE WriteCancel(c) \/ WriteDecision(c)
    BY <1>0, <1>1, <2>1, WriteNumbers
  <2>2. CASE \/ DecisionThrows(c) \/ RefundPeriod(c) \/ RefundLookup(c)
             \/ RefundBalance(c)
    BY <1>0, <1>1, <2>2, LookupNumbers DEF SameRequests
  <2>3. CASE Refund(c)
    <3>1. PICK d \in Nat : /\ Booked(k)' = Booked(k) \/ Booked(k)' = Booked(k) + (-d)
                           /\ Uncharged(k)' = Uncharged(k)
                           /\ SumDays(RequestsOf(k))' = SumDays(RequestsOf(k))
      BY <1>0, <1>1, <2>3, RefundNumbers DEF SameRequests
    <3> QED  BY <1>1, <3>1
  <2> QED  BY <1>4, <2>1, <2>2, <2>3 DEF DecisionStep
<1>5. ASSUME NEW c \in Call, NewDecision(c)
      PROVE  Goal
  BY <1>0, <1>2, <1>5, NewDecisionNumbers
<1>6. ASSUME NEW c \in Call, NEW e \in Employee, NEW t \in LeaveType,
             NEW rg \in DateRange, Submit(c, e, t, rg)
      PROVE  Goal
  BY <1>0, <1>2, <1>6, SubmitNumbers
<1>7. ASSUME NEW c \in Mortal, Fail(c)
      PROVE  Goal
  BY <1>0, <1>1, <1>7, FailNumbers DEF SameRequests
<1>8. ASSUME UNCHANGED vars \/ \E p \in Switchable : SetPeriodActive(p)
      PROVE  Goal
  BY <1>2, <1>8, QuietNumbers
<1>9. Goal
  <2> HIDE DEF Goal
  <2> QED  BY <1>3, <1>4, <1>5, <1>6, <1>7, <1>8 DEF Next, Step
<1> QED  BY <1>9

\* No employee is ever charged for days that no request asked for, whatever
\* overwrites, failures and period changes the charges run into.
THEOREM ChargesStayBacked == Spec => []ChargesAreBacked
<1>1. Init => BackedInv
  <2> SUFFICES ASSUME Init, NEW k \in Key
               PROVE  Booked(k) = 0 /\ Uncharged(k) = 0 /\ SumDays(RequestsOf(k)) = 0
    BY TypeInvInit DEF BackedInv, ChargesAreBacked, DebtsAreBacked
  <2>1. Charging(k) = {} /\ RequestsOf(k) = {} /\ DOMAIN balance = {}
    BY DEF Init, Charging, RequestsOf
  <2> QED  BY <2>1, SumOfEmpty DEF Booked, Uncharged, SumDays
<1>2. Spec => []BackedInv
  BY <1>1, BackedStep, PTL DEF Spec
<1> QED  BY <1>2, PTL DEF BackedInv

-----------------------------------------------------------------------------
(* The causes of a drift.                                                  *)

LEMMA DriftFrame ==
  ASSUME NEW k, SameNumbers(k)
  PROVE  Drift(k)' = Drift(k)
BY DEF Drift, SameNumbers, SameDebts, SameRequests

\* A step that writes one call is a move of that call.
LEMMA StepMoves ==
  ASSUME TypeInv, NEW c \in Call, Step(c)
  PROVE  Moves(c)
<1>1. ASSUME c \in DOMAIN submits, NEW label, label # submits[c].pc, Goto(c, label)
      PROVE  Moves(c)
  BY <1>1, GotoMoves DEF Moves
<1>2. ASSUME c \in DOMAIN submits, submits' = Drop(submits, c)
      PROVE  Moves(c)
  BY <1>2 DEF Moves, Drop
<1>3. ASSUME c \in DOMAIN submits, NEW row, Judge(c, row), submits[c].pc # "checkOverlap"
      PROVE  Moves(c)
  BY <1>1, <1>2, <1>3 DEF Judge
<1>4. CASE SubmitStep(c)
  <2>1. c \in DOMAIN submits
    BY <1>4 DEF SubmitStep, ReadBalance, InitPeriod, Upsert, RereadBalance,
       CheckOverlap, Insert, Charge, SubmitAt
  <2>2. CASE ReadBalance(c)
    BY <1>1, <1>3, <2>1, <2>2 DEF ReadBalance, SubmitAt
  <2>3. CASE InitPeriod(c)
    <3>1. CASE active = {}
      BY <1>2, <2>1, <2>3, <3>1 DEF InitPeriod
    <3>2. CASE active # {}
      <4>1. submits[c] \in SubmitCall /\ submits[c].pc = "initPeriod"
        BY <2>1, <2>3, RowOfTable DEF TypeInv, TypeOK, InitPeriod, SubmitAt
      <4> DEFINE s == [submits[c] EXCEPT !.pc = "upsert", !.target = Latest(active)]
      <4>2. s.pc = "upsert"
        BY <4>1 DEF SubmitCall
      <4>3. submits' = [submits EXCEPT ![c] = s]
        BY <2>3, <3>2 DEF InitPeriod
      <4> HIDE DEF s
      <4> QED  BY <2>1, <4>1, <4>2, <4>3 DEF Moves
    <3> QED  BY <3>1, <3>2
  <2>4. CASE Upsert(c)
    BY <1>1, <2>1, <2>4 DEF Upsert, SubmitAt
  <2>5. CASE RereadBalance(c)
    BY <1>3, <2>1, <2>5 DEF RereadBalance, SubmitAt
  <2>6. CASE CheckOverlap(c)
    BY <1>1, <1>2, <2>1, <2>6 DEF CheckOverlap, SubmitAt
  <2>7. CASE Insert(c)
    BY <1>1, <2>1, <2>7 DEF Insert, SubmitAt
  <2>8. CASE Charge(c)
    BY <1>2, <2>1, <2>8 DEF Charge
  <2> QED  BY <1>4, <2>2, <2>3, <2>4, <2>5, <2>6, <2>7, <2>8 DEF SubmitStep
<1>5. CASE DecisionStep(c)
  <2>1. c \in DOMAIN decisions /\ decisions[c] \in DecisionCall
    BY <1>5, RowOfTable DEF DecisionStep, WriteCancel, WriteDecision, DecisionThrows,
       RefundPeriod, RefundLookup, RefundBalance, Refund, DecisionAt, TypeInv, TypeOK
  <2>2. ASSUME decisions' = Drop(decisions, c)
        PROVE  Moves(c)
    BY <2>1, <2>2 DEF Moves, Drop
  <2>3. ASSUME NEW e, decisions' = [decisions EXCEPT ![c] = e], e.pc # decisions[c].pc
        PROVE  Moves(c)
    BY <2>1, <2>3 DEF Moves
  <2>4. \A l : [decisions[c] EXCEPT !.pc = l].pc = l
    BY <2>1 DEF DecisionCall
  <2>5. CASE WriteCancel(c)
    BY <2>1, <2>3, <2>4, <2>5 DEF WriteCancel, DecisionAt
  <2>6. CASE WriteDecision(c)
    BY <2>1, <2>2, <2>3, <2>4, <2>6 DEF WriteDecision, DecisionAt
  <2>7. CASE RefundPeriod(c)
    <3> DEFINE e == [decisions[c] EXCEPT !.pc = "refundLookup", !.period = Latest(active)]
    <3>1. e.pc = "refundLookup"
      BY <2>1 DEF DecisionCall
    <3>2. decisions' = Drop(decisions, c) \/ decisions' = [decisions EXCEPT ![c] = e]
      BY <2>7 DEF RefundPeriod
    <3> HIDE DEF e
    <3> QED  BY <2>2, <2>3, <2>7, <3>1, <3>2 DEF RefundPeriod, DecisionAt
  <2>8. CASE RefundLookup(c)
    <3> DEFINE e == [decisions[c] EXCEPT !.pc = "refundBalance", !.target = Latest(active)]
    <3>1. e.pc = "refundBalance"
      BY <2>1 DEF DecisionCall
    <3>2. decisions' = Drop(decisions, c) \/ decisions' = [decisions EXCEPT ![c] = e]
      BY <2>8 DEF RefundLookup
    <3> HIDE DEF e
    <3> QED  BY <2>2, <2>3, <2>8, <3>1, <3>2 DEF RefundLookup, DecisionAt
  <2>9. CASE RefundBalance(c)
    BY <2>1, <2>2, <2>3, <2>4, <2>9 DEF RefundBalance, DecisionAt
  <2>10. CASE DecisionThrows(c) \/ Refund(c)
    BY <2>2, <2>10 DEF DecisionThrows, Refund
  <2> QED  BY <1>5, <2>5, <2>6, <2>7, <2>8, <2>9, <2>10 DEF DecisionStep
<1> QED  BY <1>4, <1>5 DEF Step

\* A statement of submitRequest: what is inserted is owed, what is charged is
\* booked, and a row is made where there was none.
LEMMA SubmitDrift ==
  ASSUME TypeInv, TypeInv', NEW c \in Call, SubmitStep(c),
         ~OverwritesBalance(c), ~ChargesNothing(c), NEW k
  PROVE  Drift(k)' = Drift(k)
<1>0. /\ Booked(k) \in Int /\ Uncharged(k) \in Int /\ Unrefunded(k) \in Int
      /\ SumDays(LiveRequests(k)) \in Int
  BY Numbers
<1>2. CASE ReadBalance(c) \/ InitPeriod(c) \/ RereadBalance(c) \/ CheckOverlap(c)
  BY <1>2, SubmitNumbers, DriftFrame
<1>3. CASE Upsert(c)
  <2>1. k = TargetKey(submits[c]) => Booked(k) = 0
    BY <1>3 DEF OverwritesBalance, Upsert, Booked
  <2>2. Booked(k)' = Booked(k)
    BY <1>3, <2>1, UpsertNumbers
  <2>3. SameDebts(k) /\ SameRequests(k)
    BY <1>3, UpsertNumbers
  <2> QED  BY <2>2, <2>3, DriftFrame DEF SameNumbers
<1>4. CASE Insert(c)
  <2>1. PICK d \in Nat : /\ Booked(k)' = Booked(k)
                         /\ Uncharged(k)' = Uncharged(k) + d
                         /\ Unrefunded(k)' = Unrefunded(k)
                         /\ SumDays(LiveRequests(k))' = SumDays(LiveRequests(k)) + d
    BY <1>4, InsertNumbers
  <2> QED  BY <1>0, <2>1 DEF Drift
<1>5. CASE Charge(c)
  <2>1. KeyOf(submits[c]) \in DOMAIN balance
    BY <1>5 DEF ChargesNothing, Charge
  <2>2. PICK d : d = DaysFor(submits[c], k)
    OBVIOUS
  <2>3. /\ d \in Nat
        /\ Booked(k)' = Booked(k) + IF k \in DOMAIN balance THEN d ELSE 0
        /\ Uncharged(k)' = Uncharged(k) - d
        /\ Unrefunded(k)' = Unrefunded(k)
        /\ SumDays(LiveRequests(k))' = SumDays(LiveRequests(k))
    BY <1>5, <2>2, ChargeNumbers DEF SameRequests
  <2>4. k \notin DOMAIN balance => d = 0
    BY <2>1, <2>2 DEF DaysFor
  <2>5. Booked(k)' = Booked(k) + d
    BY <1>0, <2>3, <2>4
  <2> QED  BY <1>0, <2>3, <2>5 DEF Drift
<1> QED  BY <1>2, <1>3, <1>4, <1>5 DEF SubmitStep

\* A statement of a decision: what no longer stands is owed, what is refunded
\* is taken off the booked days of the request's own key.
LEMMA DecisionDrift ==
  ASSUME TypeInv, TypeInv', NEW c \in Call, DecisionStep(c),
         ~WritesOverDecision(c), ~RefundsElsewhere(c), ~RefundsNothing(c), NEW k
  PROVE  Drift(k)' = Drift(k)
<1>0. /\ Booked(k) \in Int /\ Uncharged(k) \in Int /\ Unrefunded(k) \in Int
      /\ SumDays(LiveRequests(k)) \in Int
  BY Numbers
<1>2. CASE WriteCancel(c) \/ WriteDecision(c)
  <2>1. requests[decisions[c].req].status \in Live
    BY <1>2 DEF WritesOverDecision, WriteCancel, WriteDecision
  <2>2. PICK d, is : /\ d = DaysFor(requests[decisions[c].req], k)
                     /\ is = IF decisions[c].outcome \in Live THEN d ELSE 0
    OBVIOUS
  <2>3. /\ d \in Nat
        /\ Booked(k)' = Booked(k)
        /\ Uncharged(k)' = Uncharged(k)
        /\ Unrefunded(k)' = Unrefunded(k) + d - is
        /\ SumDays(LiveRequests(k))' = SumDays(LiveRequests(k)) - d + is
    BY <1>2, <2>1, <2>2, WriteNumbers
  <2>4. is \in Nat
    BY <2>2, <2>3
  <2> QED  BY <1>0, <2>3, <2>4 DEF Drift
<1>3. CASE \/ DecisionThrows(c) \/ RefundPeriod(c) \/ RefundLookup(c)
           \/ RefundBalance(c)
  <2>1. c \notin DOMAIN decisions' => ToRefund(c, k) = 0
    <3>1. CASE DecisionThrows(c)
      BY <3>1 DEF DecisionThrows, DecisionAt, ToRefund, Refunding
    <3>2. CASE RefundPeriod(c) \/ RefundLookup(c) \/ RefundBalance(c)
      BY <3>2 DEF RefundsNothing, RefundPeriod, RefundLookup, RefundBalance,
         DecisionAt
    <3> QED  BY <1>3, <3>1, <3>2
  <2>2. /\ Booked(k)' = Booked(k)
        /\ Uncharged(k)' = Uncharged(k)
        /\ ToRefund(c, k) \in Nat
        /\ Unrefunded(k)' =
             Unrefunded(k) - (IF c \in DOMAIN decisions' THEN 0 ELSE ToRefund(c, k))
        /\ SumDays(LiveRequests(k))' = SumDays(LiveRequests(k))
    BY <1>3, LookupNumbers DEF SameRequests
  <2>3. Unrefunded(k)' = Unrefunded(k)
    BY <1>0, <2>1, <2>2
  <2> QED  BY <2>2, <2>3 DEF Drift
<1>4. CASE Refund(c)
  <2>1. PICK q, d : /\ q = requests[decisions[c].req]
                    /\ d = DaysFor(q, k)
    OBVIOUS
  <2>2. RefundKey(decisions[c], decisions[c].period) = KeyOf(q)
    BY <1>4, <2>1 DEF RefundsElsewhere, Refund, RefundKey, KeyOf
  <2>3. KeyOf(q) \in DOMAIN balance
    BY <1>4, <2>2 DEF RefundsNothing, Refund
  <2>4. /\ d \in Nat /\ Days(q.range) \in Nat
        /\ Booked(k)' = Booked(k)
             + IF k = KeyOf(q) /\ k \in DOMAIN balance THEN -Days(q.range) ELSE 0
        /\ Uncharged(k)' = Uncharged(k)
        /\ Unrefunded(k)' = Unrefunded(k) - d
        /\ SumDays(LiveRequests(k))' = SumDays(LiveRequests(k))
    BY <1>4, <2>1, <2>2, RefundNumbers DEF SameRequests
  <2>5. Booked(k)' = Booked(k) - d
    BY <1>0, <2>1, <2>3, <2>4 DEF DaysFor
  <2> QED  BY <1>0, <2>4, <2>5 DEF Drift
<1> QED  BY <1>2, <1>3, <1>4 DEF DecisionStep

\* A call that dies with nothing owed leaves the ledger as it is.
LEMMA FailDrift ==
  ASSUME TypeInv, TypeInv', NEW c \in Mortal, Fail(c), ~DriftStep, NEW k
  PROVE  Drift(k)' = Drift(k)
<1>1. ~DiesHalfway(c)
  BY BoundAssumption DEF DriftStep
<1>2. c \notin DOMAIN submits' /\ c \notin DOMAIN decisions'
  BY DEF Fail, Drop
<1>3. ToCharge(c, k) = 0 /\ ToRefund(c, k) = 0
  BY <1>1, <1>2 DEF DiesHalfway, SubmitAt, ToCharge, Charging, ToRefund, Refunding
<1>4. SameNumbers(k)
  <2>1. Uncharged(k) \in Int /\ Unrefunded(k) \in Int
    BY Numbers
  <2> QED  BY <1>3, <2>1, FailNumbers DEF SameNumbers, SameDebts
<1> QED  BY <1>4, DriftFrame

LEMMA DriftNeedsACause ==
  ASSUME TypeInv, [Next]_vars, ~DriftStep, NEW k
  PROVE  Drift(k)' = Drift(k)
<1>0. TypeInv'
  BY TypeInvStep
<1>1. ASSUME NEW c \in Call, Step(c)
      PROVE  Drift(k)' = Drift(k)
  <2>1. /\ ~OverwritesBalance(c) /\ ~ChargesNothing(c)
        /\ ~WritesOverDecision(c) /\ ~RefundsElsewhere(c) /\ ~RefundsNothing(c)
    BY <1>1, StepMoves DEF DriftStep
  <2> QED  BY <1>0, <1>1, <2>1, SubmitDrift, DecisionDrift DEF Step
<1>2. ASSUME NEW c \in Call, NewDecision(c)
      PROVE  Drift(k)' = Drift(k)
  BY <1>0, <1>2, NewDecisionNumbers, DriftFrame
<1>3. ASSUME NEW c \in Call, NEW e \in Employee, NEW t \in LeaveType,
             NEW rg \in DateRange, Submit(c, e, t, rg)
      PROVE  Drift(k)' = Drift(k)
  BY <1>0, <1>3, SubmitNumbers, DriftFrame
<1>4. ASSUME NEW c \in Mortal, Fail(c)
      PROVE  Drift(k)' = Drift(k)
  BY <1>0, <1>4, FailDrift
<1>5. ASSUME UNCHANGED vars \/ \E p \in Switchable : SetPeriodActive(p)
      PROVE  Drift(k)' = Drift(k)
  BY <1>5, QuietNumbers, DriftFrame
<1> QED  BY <1>1, <1>2, <1>3, <1>4, <1>5 DEF Next

\* Every interleaving of the handlers, failures and changes of periods keeps
\* the distance between what is booked and what was asked for and stands,
\* except at the steps named in DriftStep.
THEOREM LedgerDriftsForACause == Spec => LedgerDriftHasACause
<1>1. TypeInv /\ [Next]_vars =>
        [\A k \in Key : Drift(k)' # Drift(k) => DriftStep]_vars
  BY DriftNeedsACause
<1>2. Spec => []TypeInv
  BY TypeInvInit, TypeInvStep, PTL DEF Spec
<1> QED  BY <1>1, <1>2, PTL DEF Spec, LedgerDriftHasACause

-----------------------------------------------------------------------------
(* One call at a time for each employee: no leave overlaps.                *)

\* What the calls in flight have checked still holds: a request about to be
\* inserted conflicts with none, a request about to be decided on stands.
ChecksAreFresh ==
  /\ \A c \in DOMAIN submits :
       submits[c].pc = "insert" => Conflicting(submits[c]) = {}
  /\ \A c \in DOMAIN decisions :
       decisions[c].pc = "write" => requests[decisions[c].req].status \in Live

OrderlyInv == TypeInv /\ OneCallPerEmployee /\ NoOverlappingLeave /\ ChecksAreFresh

\* A step of one call that leaves the requests alone keeps what the others
\* have checked.
LEMMA OrderlyFrame ==
  ASSUME OrderlyInv, UNCHANGED requests, NEW c,
         OnlyRow(submits, submits', c), OnlyRow(decisions, decisions', c),
         SubmitAt(c, "insert")' => Conflicting(submits'[c]) = {},
         DecisionAt(c, "write")' => requests[decisions'[c].req].status \in Live
  PROVE  (NoOverlappingLeave /\ ChecksAreFresh)'
<1>1. NoOverlappingLeave'
  BY DEF OrderlyInv, NoOverlappingLeave
<1>2. ASSUME NEW d \in DOMAIN submits', submits'[d].pc = "insert"
      PROVE  Conflicting(submits[d])' = {}
  <2>1. Conflicting(submits'[d]) = {}
    BY <1>2 DEF OrderlyInv, ChecksAreFresh, OnlyRow, SubmitAt
  <2> QED  BY <2>1 DEF Conflicting
<1>3. ASSUME NEW d \in DOMAIN decisions', decisions'[d].pc = "write"
      PROVE  requests'[decisions'[d].req].status \in Live
  BY <1>3 DEF OrderlyInv, ChecksAreFresh, OnlyRow, DecisionAt
<1> QED  BY <1>1, <1>2, <1>3 DEF ChecksAreFresh

\* Requests that no longer stand give up their days and take none.
LEMMA OrderlyWrite ==
  ASSUME OrderlyInv, TypeInv', NEW c \in Call, WriteCancel(c) \/ WriteDecision(c)
  PROVE  (NoOverlappingLeave /\ ChecksAreFresh)'
<1>0. PICK r, o : r = decisions[c].req /\ o = decisions[c].outcome
  OBVIOUS
<1>1. /\ c \in DOMAIN decisions /\ decisions[c].pc = "write"
      /\ r \in DOMAIN requests /\ requests[r] \in Request
      /\ requests[r].status \in Live
      /\ UNCHANGED submits
  BY <1>0, DecisionShape, RequestFields
     DEF WriteCancel, WriteDecision, DecisionAt, OrderlyInv, ChecksAreFresh
<1>2. /\ DOMAIN requests' = DOMAIN requests
      /\ \A q \in DOMAIN requests :
           /\ requests'[q].emp = requests[q].emp
           /\ requests'[q].range = requests[q].range
           /\ q # r => requests'[q].status = requests[q].status
           /\ requests'[q].status \in Live => requests[q].status \in Live
  <2>1. requests' = [requests EXCEPT ![r] = [requests[r] EXCEPT !.status = o]]
    BY <1>0, <1>1 DEF WriteCancel, WriteDecision
  <2>2. /\ [requests[r] EXCEPT !.status = o].emp = requests[r].emp
        /\ [requests[r] EXCEPT !.status = o].range = requests[r].range
    BY <1>1 DEF Request
  <2> QED  BY <1>1, <2>1, <2>2
<1>3. NoOverlappingLeave'
  BY <1>2 DEF OrderlyInv, NoOverlappingLeave
<1>4. ASSUME NEW d \in DOMAIN submits', submits'[d].pc = "insert"
      PROVE  Conflicting(submits[d])' = {}
  BY <1>1, <1>2, <1>4 DEF OrderlyInv, ChecksAreFresh, Conflicting
<1>5. ASSUME NEW d \in DOMAIN decisions', decisions'[d].pc = "write"
      PROVE  requests'[decisions'[d].req].status \in Live
  <2>1. d # c /\ d \in DOMAIN decisions /\ decisions'[d] = decisions[d]
    <3>1. decisions[c] \in DecisionCall
      BY <1>1, DecisionShape DEF OrderlyInv
    <3>2. [decisions[c] EXCEPT !.pc = "refundPeriod"].pc = "refundPeriod"
      BY <3>1 DEF DecisionCall
    <3> QED  BY <1>1, <1>5, <3>2 DEF WriteCancel, WriteDecision, Drop
  <2>2. decisions[d].req # r
    <3>1. c \notin DOMAIN submits /\ d \notin DOMAIN submits
      BY <1>1, <2>1 DEF OrderlyInv, TypeInv, TypeOK
    <3> QED  BY <1>0, <1>1, <2>1, <3>1 DEF OrderlyInv, OneCallPerEmployee, Subject
  <2>3. decisions[d].req \in DOMAIN requests
    BY <2>1, DecisionShape DEF OrderlyInv
  <2> QED  BY <1>2, <1>5, <2>1, <2>2, <2>3 DEF OrderlyInv, ChecksAreFresh
<1> QED  BY <1>3, <1>4, <1>5 DEF ChecksAreFresh

\* The days of a new request are free since the check: nobody else was there.
LEMMA OrderlyInsert ==
  ASSUME OrderlyInv, TypeInv', NEW c \in Call, Insert(c)
  PROVE  (NoOverlappingLeave /\ ChecksAreFresh)'
<1>1. PICK r \in RequestId \ DOMAIN requests :
        requests' = Put(requests, r, NewRequest(submits[c]))
  BY DEF Insert
<1>2. /\ c \in DOMAIN submits /\ submits[c].pc = "insert"
      /\ Goto(c, "charge") /\ UNCHANGED decisions
  BY DEF Insert, SubmitAt
<1>3. /\ OnlyRow(submits, submits', c) /\ submits'[c].pc = "charge"
  BY <1>2, GotoMoves DEF OrderlyInv
<1>4. /\ DOMAIN requests' = DOMAIN requests \cup {r}
      /\ \A q \in DOMAIN requests : requests'[q] = requests[q]
      /\ requests'[r].emp = submits[c].emp /\ requests'[r].range = submits[c].range
  BY <1>1 DEF Put, NewRequest
<1>5. Conflicting(submits[c]) = {}
  BY <1>2 DEF OrderlyInv, ChecksAreFresh
<1>6. NoOverlappingLeave'
  <2>1. SUFFICES ASSUME NEW p \in DOMAIN requests', NEW q \in DOMAIN requests',
                        p # q, requests'[p].emp = requests'[q].emp,
                        {requests'[p].status, requests'[q].status} \subseteq Live,
                        Overlaps(requests'[p].range, requests'[q].range)
                 PROVE  FALSE
    BY DEF NoOverlappingLeave
  <2>2. CASE p # r /\ q # r
    BY <1>4, <2>1, <2>2 DEF OrderlyInv, NoOverlappingLeave
  <2>3. CASE p = r
    <3>1. q \in DOMAIN requests /\ requests'[q] = requests[q]
      BY <1>4, <2>1, <2>3
    <3>2. Overlaps(requests[q].range, submits[c].range)
      BY <1>4, <2>1, <2>3, <3>1 DEF Overlaps
    <3> QED  BY <1>4, <1>5, <2>1, <2>3, <3>1, <3>2 DEF Conflicting
  <2>4. CASE q = r
    <3>1. p \in DOMAIN requests /\ requests'[p] = requests[p]
      BY <1>4, <2>1, <2>4
    <3> QED  BY <1>4, <1>5, <2>1, <2>4, <3>1 DEF Conflicting
  <2> QED  BY <2>2, <2>3, <2>4
<1>7. ASSUME NEW d \in DOMAIN submits', submits'[d].pc = "insert"
      PROVE  Conflicting(submits[d])' = {}
  <2>1. d # c /\ d \in DOMAIN submits /\ submits'[d] = submits[d]
    BY <1>3, <1>7 DEF OnlyRow
  <2>2. submits[d].emp # submits[c].emp
    BY <1>2, <2>1 DEF OrderlyInv, OneCallPerEmployee, Subject
  <2>3. Conflicting(submits[d]) = {}
    BY <1>7, <2>1 DEF OrderlyInv, ChecksAreFresh
  <2> QED  BY <1>4, <2>1, <2>2, <2>3 DEF Conflicting
<1>8. ASSUME NEW d \in DOMAIN decisions', decisions'[d].pc = "write"
      PROVE  requests'[decisions'[d].req].status \in Live
  BY <1>2, <1>4, <1>8, DecisionShape DEF OrderlyInv, ChecksAreFresh
<1> QED  BY <1>6, <1>7, <1>8 DEF ChecksAreFresh

LEMMA OrderlyStep == OrderlyInv /\ [Next /\ OneCallPerEmployee']_vars => OrderlyInv'
<1> SUFFICES ASSUME OrderlyInv, [Next /\ OneCallPerEmployee']_vars
             PROVE  OrderlyInv'
  OBVIOUS
<1> DEFINE Goal == (NoOverlappingLeave /\ ChecksAreFresh)'
<1>0. TypeInv /\ TypeInv'
  BY TypeInvStep DEF OrderlyInv
<1>1. OneCallPerEmployee'
  BY DEF OrderlyInv, OneCallPerEmployee, Subject, vars
<1>2. ASSUME NEW c \in Call, SubmitStep(c)
      PROVE  Goal
  <2>1. CASE Insert(c)
    BY <1>0, <2>1, OrderlyInsert
  <2>2. CASE ~Insert(c)
    <3>1. /\ c \in DOMAIN submits /\ submits[c] \in SubmitCall
          /\ UNCHANGED <<requests, decisions>> /\ OnlyRow(submits, submits', c)
      <4>1. /\ c \in DOMAIN submits
            /\ UNCHANGED <<requests, decisions>>
        BY <1>2, <2>2 DEF SubmitStep, ReadBalance, InitPeriod, Upsert, RereadBalance,
           CheckOverlap, Charge, SubmitAt
      <4>2. \/ \E s : submits' = [submits EXCEPT ![c] = s]
            \/ submits' = Drop(submits, c)
        BY <1>2, <2>2 DEF SubmitStep, ReadBalance, InitPeriod, Upsert, RereadBalance,
           CheckOverlap, Charge, Judge, Goto
      <4>3. OnlyRow(submits, submits', c)
        BY <4>2, WritesOneRow
      <4> QED  BY <1>0, <4>1, <4>3, RowOfTable DEF TypeInv, TypeOK
    <3>2. SubmitAt(c, "insert")' => Conflicting(submits'[c]) = {}
      <4>1. CASE CheckOverlap(c)
        <5>1. \A x : submits' = [submits EXCEPT ![c].pc = x] =>
                Conflicting(submits'[c]) = Conflicting(submits[c])
          BY <3>1 DEF Conflicting, SubmitCall
        <5> QED  BY <3>1, <4>1, <5>1 DEF CheckOverlap, Goto, Drop, SubmitAt
      <4>2. CASE ~CheckOverlap(c)
        <5>1. \A l : [submits[c] EXCEPT !.pc = l].pc = l
          BY <3>1 DEF SubmitCall
        <5>2. [submits[c] EXCEPT !.pc = "upsert", !.target = Latest(active)].pc = "upsert"
          BY <3>1 DEF SubmitCall
        <5> QED  BY <1>2, <2>2, <3>1, <4>2, <5>1, <5>2
                 DEF SubmitStep, ReadBalance, InitPeriod, Upsert, RereadBalance,
                     Charge, Judge, Goto, Drop, SubmitAt
      <4> QED  BY <4>1, <4>2
    <3>3. OnlyRow(decisions, decisions', c) /\ c \notin DOMAIN decisions'
      BY <1>0, <3>1 DEF OnlyRow, TypeInv, TypeOK
    <3> QED  BY <3>1, <3>2, <3>3, OrderlyFrame DEF DecisionAt
  <2> QED  BY <2>1, <2>2
<1>3. ASSUME NEW c \in Call, DecisionStep(c)
      PROVE  Goal
  <2>1. CASE WriteCancel(c) \/ WriteDecision(c)
    BY <1>0, <2>1, OrderlyWrite
  <2>2. CASE ~(WriteCancel(c) \/ WriteDecision(c))
    <3>1. /\ c \in DOMAIN decisions /\ decisions[c] \in DecisionCall
          /\ UNCHANGED <<requests, submits>>
      BY <1>0, <1>3, <2>2, RowOfTable
         DEF DecisionStep, DecisionThrows, RefundPeriod, RefundLookup, RefundBalance,
             Refund, DecisionAt, TypeInv, TypeOK
    <3>2. \/ \E e : decisions' = [decisions EXCEPT ![c] = e] /\ e.pc # "write"
          \/ decisions' = Drop(decisions, c)
      <4>1. /\ [decisions[c] EXCEPT !.pc = "refundLookup",
                                    !.period = Latest(active)].pc = "refundLookup"
            /\ [decisions[c] EXCEPT !.pc = "refundBalance",
                                    !.target = Latest(active)].pc = "refundBalance"
            /\ [decisions[c] EXCEPT !.pc = "refund"].pc = "refund"
        BY <3>1 DEF DecisionCall
      <4> QED  BY <1>3, <2>2, <4>1
               DEF DecisionStep, DecisionThrows, RefundPeriod, RefundLookup,
                   RefundBalance, Refund
    <3>3. OnlyRow(decisions, decisions', c) /\ ~DecisionAt(c, "write")'
      BY <3>1, <3>2, WritesOneRow DEF Drop, DecisionAt
    <3>4. OnlyRow(submits, submits', c) /\ c \notin DOMAIN submits'
      BY <1>0, <3>1 DEF OnlyRow, TypeInv, TypeOK
    <3> QED  BY <3>1, <3>3, <3>4, OrderlyFrame DEF SubmitAt
  <2> QED  BY <2>1, <2>2
<1>4. ASSUME NEW c \in Call, NewDecision(c)
      PROVE  Goal
  <2>1. PICK a, r, o : Decide(c, a, r, o) /\ requests[r].status \in Live
    BY <1>4 DEF NewDecision, Cancel, Approve, Reject, MayApproveAsHR,
       MayApproveAsManager, Live
  <2>2. PICK d : decisions' = Put(decisions, c, d) /\ d.req = r
    BY <2>1 DEF Decide
  <2>3. OnlyRow(decisions, decisions', c) /\ decisions'[c] = d
    BY <2>2, WritesOneRow DEF Put
  <2>4. UNCHANGED <<requests, submits>> /\ OnlyRow(submits, submits', c)
        /\ c \notin DOMAIN submits'
    BY <2>1 DEF Decide, Free, OnlyRow
  <2> QED  BY <2>1, <2>2, <2>3, <2>4, OrderlyFrame DEF SubmitAt
<1>5. ASSUME NEW c \in Call, NEW e \in Employee, NEW t \in LeaveType,
             NEW rg \in DateRange, Submit(c, e, t, rg)
      PROVE  Goal
  <2>1. PICK s : submits' = Put(submits, c, s) /\ s.pc = "readBalance"
    BY <1>5 DEF Submit
  <2>2. OnlyRow(submits, submits', c) /\ submits'[c] = s
    BY <2>1, WritesOneRow DEF Put
  <2>3. UNCHANGED <<requests, decisions>> /\ OnlyRow(decisions, decisions', c)
        /\ c \notin DOMAIN decisions'
    BY <1>5 DEF Submit, Free, OnlyRow
  <2> QED  BY <2>1, <2>2, <2>3, OrderlyFrame DEF SubmitAt, DecisionAt
<1>6. ASSUME NEW c \in Mortal, Fail(c)
      PROVE  Goal
  <2>1. /\ OnlyRow(submits, submits', c) /\ c \notin DOMAIN submits'
        /\ OnlyRow(decisions, decisions', c) /\ c \notin DOMAIN decisions'
        /\ UNCHANGED requests
    BY <1>6, WritesOneRow DEF Fail, Drop
  <2> QED  BY <2>1, OrderlyFrame DEF SubmitAt, DecisionAt
<1>7. ASSUME UNCHANGED vars \/ \E p \in Switchable : SetPeriodActive(p)
      PROVE  Goal
  BY <1>7 DEF OrderlyInv, NoOverlappingLeave, ChecksAreFresh, Conflicting,
     SetPeriodActive, vars
<1>8. Goal
  <2> HIDE DEF Goal
  <2> QED  BY <1>2, <1>3, <1>4, <1>5, <1>6, <1>7 DEF Next, Step
<1> QED  BY <1>0, <1>1, <1>8 DEF OrderlyInv

LEMMA OrderlyInvariant == OrderlySpec => []OrderlyInv
<1>1. Init => OrderlyInv
  BY TypeInvInit DEF Init, OrderlyInv, OneCallPerEmployee, NoOverlappingLeave,
     ChecksAreFresh
<1> QED  BY <1>1, OrderlyStep, PTL DEF OrderlySpec

\* As long as no two calls about one employee overlap, neither failures nor
\* changes of periods lead to two live requests of an employee for one day.
THEOREM NoLeaveOverlaps == OrderlySpec => []NoOverlappingLeave
BY OrderlyInvariant, PTL DEF OrderlyInv

-----------------------------------------------------------------------------
(* One leave period and no failure: the booked days are exact.             *)

ThePeriod == Latest(InitiallyActive)

\* A call of submitRequest agrees with a balance table: it has found the
\* period of everybody else, knows whether its row is there, and the days it
\* was granted are still free.
Fits(s, table) ==
  /\ s.period = ThePeriod
  /\ s.pc \in {"upsert", "rereadBalance"} => s.target = ThePeriod
  /\ s.pc \in {"initPeriod", "upsert"} => KeyOf(s) \notin DOMAIN table
  /\ s.pc \in {"rereadBalance", "checkOverlap", "insert", "charge"} =>
       KeyOf(s) \in DOMAIN table
  /\ s.pc \in {"checkOverlap", "insert"} =>
       table[KeyOf(s)].used + Days(s.range) <= DefaultQuota[s.type]

SubmitsFit == \A c \in DOMAIN submits : Fits(submits[c], balance)

DecisionsInPeriod ==
  \A c \in DOMAIN decisions :
    /\ decisions[c].pc \in {"refundLookup", "refundBalance", "refund"} =>
         decisions[c].period = ThePeriod
    /\ decisions[c].pc \in {"refundBalance", "refund"} =>
         decisions[c].target = ThePeriod

RequestsHaveRows ==
  \A r \in DOMAIN requests :
    /\ active # {} /\ requests[r].period = ThePeriod
    /\ KeyOf(requests[r]) \in DOMAIN balance

SubmitsHavePeriod == DOMAIN submits # {} => active # {}

RowsHaveQuotas == \A k \in DOMAIN balance : balance[k].total = DefaultQuota[k[3]]

SamePeriod == active = InitiallyActive

PeriodInv ==
  /\ OrderlyInv /\ SamePeriod /\ SubmitsFit /\ DecisionsInPeriod
  /\ RequestsHaveRows /\ RowsHaveQuotas /\ SubmitsHavePeriod

LedgerIsExact == \A k \in Key : Drift(k) = 0

QuotaIsKept == \A k \in Key : Booked(k) + Uncharged(k) <= DefaultQuota[k[3]]

LedgerInv == PeriodInv /\ LedgerIsExact /\ QuotaIsKept

\* The row with key k is there, or is not, as before.
SameRow(k) ==
  /\ k \in DOMAIN balance' <=> k \in DOMAIN balance
  /\ k \in DOMAIN balance => balance'[k] = balance[k]

\* Only the call that moves has to be looked at when the rows of all others
\* are left alone.
LEMMA OthersFit ==
  ASSUME PeriodInv, NEW c, OnlyRow(submits, submits', c),
         \A d \in DOMAIN submits : d # c => SameRow(KeyOf(submits[d])),
         c \in DOMAIN submits' => Fits(submits'[c], balance')
  PROVE  SubmitsFit'
<1> SUFFICES ASSUME NEW d \in DOMAIN submits', d # c
             PROVE  Fits(submits'[d], balance')
  BY DEF SubmitsFit
<1>1. d \in DOMAIN submits /\ submits'[d] = submits[d]
  BY DEF OnlyRow
<1>2. Fits(submits[d], balance) /\ SameRow(KeyOf(submits[d]))
  BY <1>1 DEF PeriodInv, SubmitsFit
<1> QED  BY <1>1, <1>2 DEF Fits, SameRow

\* Two calls in flight are about rows of different employees.
LEMMA RowsOfOthers ==
  ASSUME PeriodInv, NEW c \in DOMAIN submits \cup DOMAIN decisions,
         NEW d \in DOMAIN submits, d # c, NEW e, Subject(c) = e
  PROVE  submits[d].emp # e /\ \A p, t : KeyOf(submits[d]) # <<e, p, t>>
<1>1. submits[d].emp # e
  BY DEF PeriodInv, OrderlyInv, OneCallPerEmployee, Subject
<1> QED  BY <1>1 DEF KeyOf

LEMMA JudgeFits ==
  ASSUME PeriodInv, NEW c \in DOMAIN submits, UNCHANGED balance,
         KeyOf(submits[c]) \in DOMAIN balance,
         Judge(c, balance[KeyOf(submits[c])])
  PROVE  SubmitsFit'
<1> DEFINE s == submits[c]
           u == [s EXCEPT !.pc = "checkOverlap"]
           row == balance[KeyOf(s)]
<1>0. s \in SubmitCall /\ s.type \in LeaveType /\ KeyOf(s)[3] = s.type
      /\ row \in Row /\ s.range \in DateRange
  <2>1. s \in SubmitCall
    BY RowOfTable DEF PeriodInv, OrderlyInv, TypeInv, TypeOK
  <2>2. row \in Row
    BY RowOfTable DEF PeriodInv, OrderlyInv, TypeInv, TypeOK
  <2> QED  BY <2>1, <2>2 DEF SubmitCall, KeyOf
<1>1. CASE submits' = Drop(submits, c)
  BY <1>1, DropMoves, OthersFit DEF SameRow
<1>2. CASE Admissible(s, row) /\ submits' = [submits EXCEPT ![c] = u]
  <2>1. Fits(s, balance) /\ row.total = DefaultQuota[s.type]
    BY <1>0 DEF PeriodInv, SubmitsFit, RowsHaveQuotas
  <2>2. row.used + Days(s.range) <= DefaultQuota[s.type]
    <3>1. Days(s.range) <= row.total - row.used
      BY <1>2 DEF Admissible
    <3>2. row.used \in Int /\ row.total \in Int /\ Days(s.range) \in Int
      BY <1>0, DaysIsInt DEF Row
    <3> HIDE DEF row, s
    <3> QED  BY <2>1, <3>1, <3>2
  <2>3. /\ u.pc = "checkOverlap" /\ u.range = s.range /\ u.type = s.type
        /\ KeyOf(u) = KeyOf(s) /\ u.period = s.period
    BY <1>0 DEF SubmitCall, KeyOf
  <2>4. Fits(u, balance)
    <3> HIDE DEF u
    <3> QED  BY <2>1, <2>2, <2>3 DEF Fits
  <2>5. OnlyRow(submits, submits', c) /\ submits'[c] = u
    <3> HIDE DEF u
    <3> QED  BY <1>2, WritesOneRow
  <2> HIDE DEF u
  <2> QED  BY <2>4, <2>5, OthersFit DEF SameRow
<1> QED  BY <1>1, <1>2 DEF Judge, Goto

\* Moving a submit call to another label leaves the rest of it alone.
LEMMA GotoFits ==
  ASSUME PeriodInv, NEW c \in DOMAIN submits, NEW label, Goto(c, label),
         \A d \in DOMAIN submits : d # c => SameRow(KeyOf(submits[d])),
         label \in {"upsert", "rereadBalance"} => submits[c].target = ThePeriod,
         label \in {"initPeriod", "upsert"} => KeyOf(submits[c]) \notin DOMAIN balance',
         label \in {"rereadBalance", "checkOverlap", "insert", "charge"} =>
           KeyOf(submits[c]) \in DOMAIN balance',
         label \in {"checkOverlap", "insert"} =>
           balance'[KeyOf(submits[c])].used + Days(submits[c].range)
             <= DefaultQuota[submits[c].type]
  PROVE  SubmitsFit'
<1> DEFINE u == [submits[c] EXCEPT !.pc = label]
<1>1. submits[c] \in SubmitCall /\ submits[c].period = ThePeriod
  BY RowOfTable DEF PeriodInv, OrderlyInv, TypeInv, TypeOK, SubmitsFit, Fits
<1>2. /\ u.pc = label /\ u.range = submits[c].range /\ u.type = submits[c].type
      /\ KeyOf(u) = KeyOf(submits[c]) /\ u.period = submits[c].period
      /\ u.target = submits[c].target
  BY <1>1 DEF SubmitCall, KeyOf
<1>3. OnlyRow(submits, submits', c) /\ submits'[c] = u
  <2> HIDE DEF u
  <2>1. submits' = [submits EXCEPT ![c] = u]
    BY DEF Goto, u
  <2> QED  BY <2>1, WritesOneRow
<1> HIDE DEF u
<1>4. Fits(u, balance')
  BY <1>1, <1>2 DEF Fits
<1> QED  BY <1>3, <1>4, OthersFit

LEMMA SubmitStepFits ==
  ASSUME PeriodInv, NEW c \in Call, SubmitStep(c)
  PROVE  /\ SubmitsFit'
         /\ RowsHaveQuotas'
         /\ DOMAIN balance \subseteq DOMAIN balance'
<1> DEFINE s == submits[c]
<1>0. /\ TypeInv /\ c \in DOMAIN submits /\ s \in SubmitCall
      /\ Fits(s, balance)
  <2>1. TypeInv /\ c \in DOMAIN submits
    BY DEF SubmitStep, ReadBalance, InitPeriod, Upsert, RereadBalance, CheckOverlap,
       Insert, Charge, SubmitAt, PeriodInv, OrderlyInv
  <2> QED  BY <2>1, RowOfTable DEF TypeInv, TypeOK, PeriodInv, SubmitsFit
<1>1. UNCHANGED balance =>
        /\ RowsHaveQuotas' /\ DOMAIN balance \subseteq DOMAIN balance'
        /\ \A d \in DOMAIN submits : SameRow(KeyOf(submits[d]))
  BY DEF PeriodInv, RowsHaveQuotas, SameRow
<1>2. TargetKey(s) = KeyOf(s) \/ s.pc \notin {"upsert", "rereadBalance"}
  BY <1>0 DEF Fits, TargetKey, KeyOf
<1>3. KeyOf(s) = <<s.emp, s.period, s.type>> /\ Subject(c) = s.emp
  BY <1>0 DEF KeyOf, Subject
<1>4. CASE ReadBalance(c)
  <2>1. CASE KeyOf(s) \in DOMAIN balance
    BY <1>0, <1>1, <1>4, <2>1, JudgeFits DEF ReadBalance
  <2>2. CASE KeyOf(s) \notin DOMAIN balance
    BY <1>0, <1>1, <1>4, <2>2, GotoFits DEF ReadBalance
  <2> QED  BY <2>1, <2>2
<1>5. CASE InitPeriod(c)
  <2>1. UNCHANGED balance /\ s.pc = "initPeriod"
    BY <1>5 DEF InitPeriod, SubmitAt
  <2>2. CASE submits' = Drop(submits, c)
    BY <1>1, <2>1, <2>2, DropMoves, OthersFit
  <2>3. CASE active # {}
    <3> DEFINE u == [s EXCEPT !.pc = "upsert", !.target = Latest(active)]
    <3>1. submits' = [submits EXCEPT ![c] = u]
      BY <1>5, <2>3 DEF InitPeriod
    <3>2. Latest(active) = ThePeriod
      BY DEF PeriodInv, SamePeriod, ThePeriod
    <3>3. u.pc = "upsert" /\ u.target = ThePeriod /\ KeyOf(u) = KeyOf(s)
          /\ u.period = s.period
      BY <1>0, <3>2 DEF SubmitCall, KeyOf
    <3>4. Fits(u, balance)
      <4> HIDE DEF u
      <4> QED  BY <1>0, <2>1, <3>3 DEF Fits
    <3> HIDE DEF u
    <3>5. OnlyRow(submits, submits', c) /\ submits'[c] = u
      BY <1>0, <3>1, WritesOneRow
    <3> QED  BY <1>1, <2>1, <3>4, <3>5, OthersFit
  <2> QED  BY <1>1, <1>5, <2>1, <2>2, <2>3 DEF InitPeriod
<1>6. CASE Upsert(c)
  <2>1. /\ s.pc = "upsert" /\ Goto(c, "rereadBalance")
        /\ balance' = Put(balance, KeyOf(s), FreshRow(s.type))
        /\ s.target = ThePeriod
    BY <1>0, <1>2, <1>6 DEF Upsert, SubmitAt, Fits
  <2>2. \A d \in DOMAIN submits : d # c => SameRow(KeyOf(submits[d]))
    <3>1. \A d \in DOMAIN submits : d # c => KeyOf(submits[d]) # KeyOf(s)
      BY <1>0, <1>3, RowsOfOthers
    <3> QED  BY <2>1, <3>1 DEF SameRow, Put
  <2>3. SubmitsFit'
    BY <1>0, <2>1, <2>2, GotoFits DEF Put
  <2>4. RowsHaveQuotas'
    <3>1. FreshRow(s.type).total = DefaultQuota[KeyOf(s)[3]]
      BY <1>3 DEF FreshRow
    <3> QED  BY <2>1, <3>1 DEF PeriodInv, RowsHaveQuotas, Put
  <2> QED  BY <2>1, <2>3, <2>4 DEF Put
<1>7. CASE RereadBalance(c)
  <2>1. TargetKey(s) = KeyOf(s) /\ KeyOf(s) \in DOMAIN balance
    BY <1>0, <1>2, <1>7 DEF RereadBalance, SubmitAt, Fits
  <2> QED  BY <1>0, <1>1, <1>7, <2>1, JudgeFits DEF RereadBalance
<1>8. CASE CheckOverlap(c)
  <2>1. UNCHANGED balance /\ s.pc = "checkOverlap"
    BY <1>8 DEF CheckOverlap, SubmitAt
  <2>2. CASE submits' = Drop(submits, c)
    BY <1>1, <2>1, <2>2, DropMoves, OthersFit
  <2>3. CASE Goto(c, "insert")
    <3>1. SubmitsFit'
      BY <1>0, <1>1, <2>1, <2>3, GotoFits DEF Fits
    <3> QED  BY <1>1, <2>1, <3>1
  <2> QED  BY <1>1, <1>8, <2>1, <2>2, <2>3 DEF CheckOverlap
<1>9. CASE Insert(c)
  <2>1. UNCHANGED balance /\ s.pc = "insert" /\ Goto(c, "charge")
    BY <1>9 DEF Insert, SubmitAt
  <2>2. SubmitsFit'
    BY <1>0, <1>1, <2>1, GotoFits DEF Fits
  <2> QED  BY <1>1, <2>1, <2>2
<1>10. CASE Charge(c)
  <2>1. /\ submits' = Drop(submits, c)
        /\ Adjust(KeyOf(s), Days(s.range))
    BY <1>10 DEF Charge
  <2>2. \A d \in DOMAIN submits : d # c => SameRow(KeyOf(submits[d]))
    <3>1. \A d \in DOMAIN submits : d # c => KeyOf(submits[d]) # KeyOf(s)
      BY <1>0, <1>3, RowsOfOthers
    <3> QED  BY <2>1, <3>1 DEF SameRow, Adjust
  <2>3. SubmitsFit'
    BY <2>1, <2>2, DropMoves, OthersFit
  <2>4. RowsHaveQuotas' /\ DOMAIN balance \subseteq DOMAIN balance'
    <3>1. KeyOf(s) \in DOMAIN balance =>
            AddUsed(balance[KeyOf(s)], Days(s.range)).total = balance[KeyOf(s)].total
      <4>1. KeyOf(s) \in DOMAIN balance => balance[KeyOf(s)] \in Row
        BY <1>0, RowOfTable DEF TypeInv, TypeOK
      <4>2. Days(s.range) \in Int
        BY <1>0, DaysIsInt DEF SubmitCall
      <4> QED  BY <4>1, <4>2, AddUsedValue
    <3> QED  BY <2>1, <3>1 DEF PeriodInv, RowsHaveQuotas, Adjust
  <2> QED  BY <2>3, <2>4
<1> QED  BY <1>4, <1>5, <1>6, <1>7, <1>8, <1>9, <1>10 DEF SubmitStep

\* A step that leaves balances and submit calls alone keeps them fitting.
LEMMA SubmitsStayFit ==
  ASSUME PeriodInv, UNCHANGED <<balance, submits>>
  PROVE  SubmitsFit' /\ RowsHaveQuotas'
BY DEF PeriodInv, SubmitsFit, RowsHaveQuotas

LEMMA RefundFits ==
  ASSUME PeriodInv, NEW c \in Call, Refund(c)
  PROVE  /\ SubmitsFit' /\ RowsHaveQuotas'
         /\ DOMAIN balance \subseteq DOMAIN balance'
<1> DEFINE k == RefundKey(decisions[c], decisions[c].period)
           n == -Days(requests[decisions[c].req].range)
<1>1. /\ c \in DOMAIN decisions /\ Adjust(k, n) /\ UNCHANGED submits
      /\ decisions[c].req \in DOMAIN requests
      /\ c \notin DOMAIN submits /\ TypeInv
  BY DEF Refund, DecisionAt, PeriodInv, OrderlyInv, TypeInv, TypeOK
<1>2. n \in Int
  BY <1>1, RequestFields, DaysIsInt
<1>3. Subject(c) = requests[decisions[c].req].emp
  BY <1>1 DEF Subject
<1>4. \A d \in DOMAIN submits : d # c /\ KeyOf(submits[d]) # k
  BY <1>1, <1>3, RowsOfOthers DEF RefundKey
<1>5. \A d \in DOMAIN submits : SameRow(KeyOf(submits[d]))
  <2> HIDE DEF k, n
  <2> QED  BY <1>1, <1>4 DEF SameRow, Adjust
<1>6. OnlyRow(submits, submits', c)
  BY <1>1 DEF OnlyRow
<1>7. SubmitsFit'
  BY <1>1, <1>5, <1>6, OthersFit
<1>8. RowsHaveQuotas' /\ DOMAIN balance \subseteq DOMAIN balance'
  <2>1. k \in DOMAIN balance => AddUsed(balance[k], n).total = balance[k].total
    <3>1. k \in DOMAIN balance => balance[k] \in Row
      BY <1>1, RowOfTable DEF TypeInv, TypeOK
    <3> HIDE DEF k, n
    <3> QED  BY <1>2, <3>1, AddUsedValue
  <2> HIDE DEF k, n
  <2> QED  BY <1>1, <2>1 DEF PeriodInv, RowsHaveQuotas, Adjust
<1> QED  BY <1>7, <1>8

\* The refund is made in the period of everybody else, too.
LEMMA DecisionStepFits ==
  ASSUME PeriodInv, NEW c \in Call, DecisionStep(c)
  PROVE  DecisionsInPeriod'
<1> DEFINE d == decisions[c]
<1>1. c \in DOMAIN decisions /\ d \in DecisionCall
  BY RowOfTable DEF DecisionStep, WriteCancel, WriteDecision, DecisionThrows,
     RefundPeriod, RefundLookup, RefundBalance, Refund, DecisionAt,
     PeriodInv, OrderlyInv, TypeInv, TypeOK
<1>2. Latest(active) = ThePeriod
  BY DEF PeriodInv, SamePeriod, ThePeriod
<1>3. \/ decisions' = Drop(decisions, c)
      \/ decisions' = [decisions EXCEPT ![c] = [d EXCEPT !.pc = "refundPeriod"]]
      \/ decisions' = [decisions EXCEPT ![c] =
           [d EXCEPT !.pc = "refundLookup", !.period = ThePeriod]]
      \/ /\ decisions' = [decisions EXCEPT ![c] =
              [d EXCEPT !.pc = "refundBalance", !.target = ThePeriod]]
         /\ d.pc = "refundLookup"
      \/ /\ decisions' = [decisions EXCEPT ![c] = [d EXCEPT !.pc = "refund"]]
         /\ d.pc = "refundBalance"
  BY <1>2 DEF DecisionStep, WriteCancel, WriteDecision, DecisionThrows,
     RefundPeriod, RefundLookup, RefundBalance, Refund, DecisionAt
<1> DEFINE Right(e) ==
      /\ e.pc \in {"refundLookup", "refundBalance", "refund"} => e.period = ThePeriod
      /\ e.pc \in {"refundBalance", "refund"} => e.target = ThePeriod
<1>4. \A x \in DOMAIN decisions : Right(decisions[x])
  BY DEF PeriodInv, DecisionsInPeriod
<1>5. /\ Right([d EXCEPT !.pc = "refundPeriod"])
      /\ Right([d EXCEPT !.pc = "refundLookup", !.period = ThePeriod])
      /\ d.pc = "refundLookup" =>
           Right([d EXCEPT !.pc = "refundBalance", !.target = ThePeriod])
      /\ d.pc = "refundBalance" => Right([d EXCEPT !.pc = "refund"])
  BY <1>1, <1>4 DEF DecisionCall
<1>6. \A x \in DOMAIN decisions' : Right(decisions'[x])
  <2>1. CASE decisions' = Drop(decisions, c)
    BY <1>4, <2>1 DEF Drop
  <2>2. ASSUME NEW e, decisions' = [decisions EXCEPT ![c] = e], Right(e)
        PROVE  \A x \in DOMAIN decisions' : Right(decisions'[x])
    <3> HIDE DEF Right
    <3> QED  BY <1>4, <2>2
  <2> HIDE DEF Right
  <2> QED  BY <1>3, <1>5, <2>1, <2>2
<1> QED  BY <1>6 DEF DecisionsInPeriod


\* Every request keeps its row, and is in the one period there is.
LEMMA InsertKeepsRows ==
  ASSUME PeriodInv, NEW c \in Call, Insert(c)
  PROVE  RequestsHaveRows'
<1>1. PICK r : requests' = Put(requests, r, NewRequest(submits[c]))
  BY DEF Insert
<1>2. /\ c \in DOMAIN submits /\ submits[c].pc = "insert"
      /\ UNCHANGED <<balance, active>>
  BY DEF Insert, SubmitAt
<1>3. Fits(submits[c], balance)
  BY <1>2 DEF PeriodInv, SubmitsFit
<1>4. /\ NewRequest(submits[c]).period = ThePeriod
      /\ KeyOf(NewRequest(submits[c])) = KeyOf(submits[c])
      /\ KeyOf(submits[c]) \in DOMAIN balance
  BY <1>2, <1>3 DEF NewRequest, KeyOf, Fits
<1> QED
  BY <1>1, <1>2, <1>4 DEF PeriodInv, RequestsHaveRows, SubmitsHavePeriod, Put

LEMMA WriteKeepsRows ==
  ASSUME PeriodInv, NEW c \in Call, WriteCancel(c) \/ WriteDecision(c)
  PROVE  RequestsHaveRows'
<1>0. PICK r, o : r = decisions[c].req /\ o = decisions[c].outcome
  OBVIOUS
<1>1. /\ r \in DOMAIN requests /\ requests[r] \in Request
      /\ UNCHANGED <<balance, active>>
  BY <1>0, DecisionShape, RequestFields
     DEF WriteCancel, WriteDecision, DecisionAt, PeriodInv, OrderlyInv
<1>2. requests' = [requests EXCEPT ![r] = [requests[r] EXCEPT !.status = o]]
  BY <1>0, <1>1 DEF WriteCancel, WriteDecision
<1>3. /\ [requests[r] EXCEPT !.status = o].period = requests[r].period
      /\ KeyOf([requests[r] EXCEPT !.status = o]) = KeyOf(requests[r])
  BY <1>1 DEF Request, KeyOf
<1> QED  BY <1>1, <1>2, <1>3 DEF PeriodInv, RequestsHaveRows

LEMMA PeriodStep ==
  ASSUME Switchable = {}, Mortal = {},
         PeriodInv, [Next /\ OneCallPerEmployee']_vars
  PROVE  PeriodInv'
<1>0. OrderlyInv' /\ TypeInv
  BY OrderlyStep DEF PeriodInv, OrderlyInv
<1> DEFINE Goal == (/\ SamePeriod /\ SubmitsFit /\ DecisionsInPeriod
                    /\ RequestsHaveRows /\ RowsHaveQuotas /\ SubmitsHavePeriod)'
<1>1. ASSUME UNCHANGED <<active, requests>>, DOMAIN balance \subseteq DOMAIN balance'
      PROVE  RequestsHaveRows'
  BY <1>1 DEF PeriodInv, RequestsHaveRows
<1>2. ASSUME NEW c \in Call, SubmitStep(c)
      PROVE  Goal
  <2>1. UNCHANGED <<active, decisions>> /\ SamePeriod' /\ DecisionsInPeriod'
        /\ DOMAIN submits' \subseteq DOMAIN submits
    BY <1>2 DEF SubmitStep, ReadBalance, InitPeriod, Upsert, RereadBalance, CheckOverlap,
       Insert, Charge, Judge, Goto, Drop, PeriodInv, SamePeriod, DecisionsInPeriod
  <2>2. /\ SubmitsFit' /\ RowsHaveQuotas'
        /\ DOMAIN balance \subseteq DOMAIN balance'
    BY <1>2, SubmitStepFits
  <2>3. CASE ~Insert(c)
    <3>1. UNCHANGED requests
      BY <1>2, <2>3 DEF SubmitStep, ReadBalance, InitPeriod, Upsert, RereadBalance,
         CheckOverlap, Charge
    <3> QED  BY <1>1, <2>1, <2>2, <3>1 DEF PeriodInv, SubmitsHavePeriod
  <2>4. CASE Insert(c)
    BY <2>1, <2>2, <2>4, InsertKeepsRows DEF PeriodInv, SubmitsHavePeriod
  <2> QED  BY <2>3, <2>4
<1>3. ASSUME NEW c \in Call, DecisionStep(c)
      PROVE  Goal
  <2>1. UNCHANGED <<active, submits>> /\ SamePeriod' /\ SubmitsHavePeriod'
    BY <1>3 DEF DecisionStep, WriteCancel, WriteDecision, DecisionThrows,
       RefundPeriod, RefundLookup, RefundBalance, Refund, PeriodInv, SamePeriod,
       SubmitsHavePeriod
  <2>2. DecisionsInPeriod'
    BY <1>3, DecisionStepFits
  <2>3. /\ SubmitsFit' /\ RowsHaveQuotas'
        /\ DOMAIN balance \subseteq DOMAIN balance'
    <3>1. CASE Refund(c)
      BY <3>1, RefundFits
    <3>2. CASE ~Refund(c)
      <4>1. UNCHANGED balance
        BY <1>3, <3>2 DEF DecisionStep, WriteCancel, WriteDecision, DecisionThrows,
           RefundPeriod, RefundLookup, RefundBalance
      <4> QED  BY <2>1, <4>1, SubmitsStayFit
    <3> QED  BY <3>1, <3>2
  <2>4. RequestsHaveRows'
    <3>1. CASE WriteCancel(c) \/ WriteDecision(c)
      BY <3>1, WriteKeepsRows
    <3>2. CASE ~(WriteCancel(c) \/ WriteDecision(c))
      <4>1. UNCHANGED requests
        BY <1>3, <3>2 DEF DecisionStep, DecisionThrows, RefundPeriod, RefundLookup,
           RefundBalance, Refund
      <4> QED  BY <1>1, <2>1, <2>3, <4>1
    <3> QED  BY <3>1, <3>2
  <2> QED  BY <2>1, <2>2, <2>3, <2>4
<1>4. ASSUME NEW c \in Call, NewDecision(c)
      PROVE  Goal
  <2>1. PICK a, r, o : Decide(c, a, r, o)
    BY <1>4 DEF NewDecision, Cancel, Approve, Reject
  <2>2. UNCHANGED <<active, balance, requests, submits>>
        /\ SamePeriod' /\ SubmitsHavePeriod'
    BY <2>1 DEF Decide, PeriodInv, SamePeriod, SubmitsHavePeriod
  <2>3. DecisionsInPeriod'
    <3>1. PICK d : decisions' = Put(decisions, c, d) /\ d.pc = "write"
      BY <2>1 DEF Decide
    <3> QED  BY <3>1 DEF PeriodInv, DecisionsInPeriod, Put
  <2> QED  BY <1>1, <2>2, <2>3, SubmitsStayFit
<1>5. ASSUME NEW c \in Call, NEW e \in Employee, NEW t \in LeaveType,
             NEW rg \in DateRange, Submit(c, e, t, rg)
      PROVE  Goal
  <2> DEFINE s == [pc |-> "readBalance", emp |-> e, type |-> t, range |-> rg,
                   period |-> Latest(active), target |-> NoPeriod]
  <2>1. submits' = Put(submits, c, s) /\ active # {}
        /\ UNCHANGED <<active, balance, requests, decisions>>
    BY <1>5 DEF Submit
  <2>2. Fits(s, balance')
    BY DEF Fits, PeriodInv, SamePeriod, ThePeriod
  <2> HIDE DEF s
  <2>3. OnlyRow(submits, submits', c) /\ submits'[c] = s
    BY <2>1, WritesOneRow DEF Put
  <2>4. SubmitsFit'
    BY <2>1, <2>2, <2>3, OthersFit DEF SameRow
  <2>5. (SamePeriod /\ DecisionsInPeriod /\ RowsHaveQuotas /\ SubmitsHavePeriod)'
    BY <2>1 DEF PeriodInv, SamePeriod, DecisionsInPeriod, RowsHaveQuotas, SubmitsHavePeriod
  <2> QED  BY <1>1, <2>1, <2>4, <2>5
<1>6. ASSUME UNCHANGED vars
      PROVE  Goal
  BY <1>6 DEF vars, PeriodInv, SamePeriod, SubmitsFit, DecisionsInPeriod,
     RequestsHaveRows, RowsHaveQuotas, SubmitsHavePeriod
<1>7. Goal
  <2> HIDE DEF Goal
  <2> QED  BY <1>2, <1>3, <1>4, <1>5, <1>6 DEF Next, Step
<1> QED  BY <1>0, <1>7 DEF PeriodInv

\* None of the causes of a drift can come about.
LEMMA NoCauses ==
  ASSUME PeriodInv, NEW c \in Call
  PROVE  /\ ~OverwritesBalance(c) /\ ~ChargesNothing(c) /\ ~WritesOverDecision(c)
         /\ ~RefundsElsewhere(c) /\ ~RefundsNothing(c)
<1>1. ASSUME c \in DOMAIN submits
      PROVE  ~OverwritesBalance(c) /\ ~ChargesNothing(c)
  BY <1>1 DEF PeriodInv, SubmitsFit, Fits, OverwritesBalance, ChargesNothing,
     SubmitAt, TargetKey, KeyOf
<1>2. ASSUME c \in DOMAIN decisions
      PROVE  /\ ~WritesOverDecision(c) /\ ~RefundsElsewhere(c) /\ ~RefundsNothing(c)
  <2>1. decisions[c].req \in DOMAIN requests
    BY <1>2, DecisionShape DEF PeriodInv, OrderlyInv
  <2>2. /\ active # {} /\ requests[decisions[c].req].period = ThePeriod
        /\ RefundKey(decisions[c], ThePeriod) \in DOMAIN balance
    BY <2>1 DEF PeriodInv, RequestsHaveRows, RefundKey, KeyOf
  <2>3. ~WritesOverDecision(c)
    BY <1>2 DEF WritesOverDecision, DecisionAt, PeriodInv, OrderlyInv, ChecksAreFresh
  <2>4. ~RefundsElsewhere(c) /\ ~RefundsNothing(c)
    BY <1>2, <2>2 DEF RefundsElsewhere, RefundsNothing, DecisionAt, PeriodInv,
       DecisionsInPeriod
  <2> QED  BY <2>3, <2>4
<1> QED
  BY <1>1, <1>2 DEF OverwritesBalance, ChargesNothing, WritesOverDecision,
     RefundsElsewhere, RefundsNothing, SubmitAt, DecisionAt

LEMMA StaysExact ==
  ASSUME Mortal = {}, Switchable = {}, PeriodInv, LedgerIsExact, [Next]_vars
  PROVE  LedgerIsExact'
<1> SUFFICES ASSUME NEW k \in Key
             PROVE  Drift(k)' = 0
  BY DEF LedgerIsExact, Key
<1>0. TypeInv /\ TypeInv'
  BY TypeInvStep DEF PeriodInv, OrderlyInv
<1>1. Drift(k) = 0
  BY DEF LedgerIsExact
<1>2. ASSUME NEW c \in Call, Step(c)
      PROVE  Drift(k)' = Drift(k)
  BY <1>0, <1>2, NoCauses, SubmitDrift, DecisionDrift DEF Step
<1>3. ASSUME NEW c \in Call, NewDecision(c)
      PROVE  Drift(k)' = Drift(k)
  BY <1>0, <1>3, NewDecisionNumbers, DriftFrame
<1>4. ASSUME NEW c \in Call, NEW e \in Employee, NEW t \in LeaveType,
             NEW rg \in DateRange, Submit(c, e, t, rg)
      PROVE  Drift(k)' = Drift(k)
  BY <1>0, <1>4, SubmitNumbers, DriftFrame
<1>5. ASSUME UNCHANGED vars
      PROVE  Drift(k)' = Drift(k)
  BY <1>5, QuietNumbers, DriftFrame
<1> QED  BY <1>1, <1>2, <1>3, <1>4, <1>5 DEF Next

\* The only call of an employee owes nothing while it is still to insert.
LEMMA NothingOwed ==
  ASSUME PeriodInv, NEW c \in DOMAIN submits, submits[c].pc # "charge",
         NEW k, k = KeyOf(submits[c])
  PROVE  Uncharged(k) = 0 /\ Unrefunded(k) = 0
<1>1. Charging(k) = {}
  BY DEF Charging, PeriodInv, OrderlyInv, OneCallPerEmployee, Subject, KeyOf
<1>2. Refunding(k) = {}
  <2>1. SUFFICES ASSUME NEW d \in Refunding(k)
                 PROVE  FALSE
    OBVIOUS
  <2>2. d \in DOMAIN decisions /\ d \notin DOMAIN submits /\ d # c
    BY DEF Refunding, PeriodInv, OrderlyInv, TypeInv, TypeOK
  <2>3. requests[decisions[d].req].emp = submits[c].emp
    BY DEF Refunding, KeyOf
  <2> QED  BY <2>2, <2>3 DEF PeriodInv, OrderlyInv, OneCallPerEmployee, Subject
<1> QED  BY <1>1, <1>2, SumOfEmpty DEF Uncharged, Unrefunded

LEMMA QuotaStaysKept ==
  ASSUME Mortal = {}, Switchable = {}, PeriodInv, QuotaIsKept, [Next]_vars
  PROVE  QuotaIsKept'
<1> SUFFICES ASSUME NEW k \in Key
             PROVE  Booked(k)' + Uncharged(k)' <= DefaultQuota[k[3]]
  BY DEF QuotaIsKept, Key
<1> DEFINE Goal == Booked(k)' + Uncharged(k)' <= DefaultQuota[k[3]]
<1>0. TypeInv /\ TypeInv'
  BY TypeInvStep DEF PeriodInv, OrderlyInv
<1>1. /\ Booked(k) \in Int /\ Uncharged(k) \in Int /\ DefaultQuota[k[3]] \in Int
      /\ Booked(k) + Uncharged(k) <= DefaultQuota[k[3]]
  BY <1>0, Numbers, TypeConfigAssumption DEF QuotaIsKept, Key
<1>2. SameNumbers(k) => Goal
  BY <1>1 DEF SameNumbers, SameDebts
<1>3. ASSUME NEW c \in Call, SubmitStep(c)
      PROVE  Goal
  <2>1. CASE ReadBalance(c) \/ InitPeriod(c) \/ RereadBalance(c) \/ CheckOverlap(c)
    BY <1>0, <1>2, <2>1, SubmitNumbers
  <2>2. CASE Upsert(c)
    <3>1. k = TargetKey(submits[c]) => Booked(k) = 0
      BY <2>2, NoCauses DEF OverwritesBalance, Upsert, Booked
    <3>2. Booked(k)' = Booked(k) /\ Uncharged(k)' = Uncharged(k)
      BY <1>0, <2>2, <3>1, UpsertNumbers DEF SameDebts
    <3> QED  BY <1>1, <3>2
  <2>3. CASE Insert(c)
    <3>1. PICK d : d = IF KeyOf(submits[c]) = k THEN Days(submits[c].range) ELSE 0
      OBVIOUS
    <3>2. /\ d \in Nat /\ Booked(k)' = Booked(k)
          /\ Uncharged(k)' = Uncharged(k) + d
      BY <1>0, <2>3, <3>1, InsertNumbers
    <3>3. CASE KeyOf(submits[c]) # k
      BY <1>1, <3>1, <3>2, <3>3
    <3>4. CASE KeyOf(submits[c]) = k
      <4>1. c \in DOMAIN submits /\ submits[c].pc = "insert"
        BY <2>3 DEF Insert, SubmitAt
      <4>2. /\ k \in DOMAIN balance
            /\ balance[k].used + d <= DefaultQuota[submits[c].type]
        BY <3>1, <3>4, <4>1 DEF PeriodInv, SubmitsFit, Fits
      <4>3. k[3] = submits[c].type
        BY <3>4 DEF KeyOf
      <4>4. Uncharged(k) = 0
        BY <3>4, <4>1, NothingOwed
      <4>5. Booked(k) = balance[k].used
        BY <4>2 DEF Booked
      <4> QED  BY <1>1, <3>2, <4>2, <4>3, <4>4, <4>5
    <3> QED  BY <3>3, <3>4
  <2>4. CASE Charge(c)
    <3>1. PICK d \in Nat : /\ Booked(k)' = Booked(k) \/ Booked(k)' = Booked(k) + d
                           /\ Uncharged(k)' = Uncharged(k) - d
      BY <1>0, <1>1, <2>4, ChargeNumbers
    <3> QED  BY <1>1, <3>1
  <2> QED  BY <1>3, <2>1, <2>2, <2>3, <2>4 DEF SubmitStep
<1>4. ASSUME NEW c \in Call, DecisionStep(c)
      PROVE  Goal
  <2>1. CASE \/ WriteCancel(c) \/ WriteDecision(c) \/ DecisionThrows(c)
             \/ RefundPeriod(c) \/ RefundLookup(c) \/ RefundBalance(c)
    <3>1. Booked(k)' = Booked(k) /\ Uncharged(k)' = Uncharged(k)
      BY <1>0, <2>1, WriteNumbers, LookupNumbers
    <3> QED  BY <1>1, <3>1
  <2>2. CASE Refund(c)
    <3>1. PICK d \in Nat : /\ Booked(k)' = Booked(k) \/ Booked(k)' = Booked(k) + (-d)
                           /\ Uncharged(k)' = Uncharged(k)
      BY <1>0, <1>1, <2>2, RefundNumbers
    <3> QED  BY <1>1, <3>1
  <2> QED  BY <1>4, <2>1, <2>2 DEF DecisionStep
<1>5. ASSUME NEW c \in Call, NewDecision(c)
      PROVE  Goal
  BY <1>0, <1>2, <1>5, NewDecisionNumbers
<1>6. ASSUME NEW c \in Call, NEW e \in Employee, NEW t \in LeaveType,
             NEW rg \in DateRange, Submit(c, e, t, rg)
      PROVE  Goal
  BY <1>0, <1>2, <1>6, SubmitNumbers
<1>7. ASSUME UNCHANGED vars
      PROVE  Goal
  BY <1>2, <1>7, QuietNumbers
<1>8. Goal
  <2> HIDE DEF Goal
  <2> QED  BY <1>3, <1>4, <1>5, <1>6, <1>7 DEF Next, Step
<1> QED  BY <1>8

LEMMA LedgerInit == Init => LedgerInv
<1> SUFFICES ASSUME Init
             PROVE  LedgerInv
  OBVIOUS
<1>1. OrderlyInv
  BY TypeInvInit DEF Init, OrderlyInv, OneCallPerEmployee, NoOverlappingLeave,
     ChecksAreFresh
<1>2. PeriodInv
  BY <1>1 DEF Init, PeriodInv, SamePeriod, SubmitsFit, DecisionsInPeriod,
     RequestsHaveRows, RowsHaveQuotas, SubmitsHavePeriod
<1>3. ASSUME NEW k \in Key
      PROVE  /\ Booked(k) = 0 /\ Uncharged(k) = 0 /\ Unrefunded(k) = 0
             /\ SumDays(LiveRequests(k)) = 0 /\ DefaultQuota[k[3]] >= 0
  <2>1. Charging(k) = {} /\ Refunding(k) = {} /\ LiveRequests(k) = {}
        /\ DOMAIN balance = {}
    BY DEF Init, Charging, Refunding, LiveRequests, RequestsOf
  <2> QED  BY <2>1, SumOfEmpty, TypeConfigAssumption
           DEF Booked, Uncharged, Unrefunded, SumDays, Key
<1>4. LedgerIsExact
  BY <1>3 DEF LedgerIsExact, Drift
<1>5. QuotaIsKept
  <2>1. \A k \in Key : Booked(k) + Uncharged(k) <= DefaultQuota[k[3]]
    <3> SUFFICES ASSUME NEW k \in Key
                 PROVE  Booked(k) + Uncharged(k) <= DefaultQuota[k[3]]
      OBVIOUS
    <3>1. DefaultQuota[k[3]] \in Int
      BY TypeConfigAssumption DEF Key
    <3> QED  BY <1>3, <3>1
  <2> QED  BY <2>1 DEF QuotaIsKept
<1> QED  BY <1>2, <1>4, <1>5 DEF LedgerInv

LEMMA LedgerStep ==
  ASSUME Switchable = {}, Mortal = {},
         LedgerInv, [Next /\ OneCallPerEmployee']_vars
  PROVE  LedgerInv'
<1>1. PeriodInv'
  BY PeriodStep DEF LedgerInv
<1>2. [Next]_vars
  OBVIOUS
<1>3. LedgerIsExact' /\ QuotaIsKept'
  BY <1>2, StaysExact, QuotaStaysKept DEF LedgerInv
<1> QED  BY <1>1, <1>3 DEF LedgerInv

LEMMA LedgerInvariant ==
  ASSUME Switchable = {}, Mortal = {}
  PROVE  OrderlySpec => []LedgerInv
<1>1. LedgerInv /\ [Next /\ OneCallPerEmployee']_vars => LedgerInv'
  BY LedgerStep
<1> QED  BY <1>1, LedgerInit, PTL DEF OrderlySpec

LEMMA LedgerInvImplies ==
  ASSUME LedgerInv
  PROVE  WithinQuota /\ SettledLedgerIsExact
<1>1. SettledLedgerIsExact
  BY DEF LedgerInv, LedgerIsExact, SettledLedgerIsExact
<1>2. ASSUME NEW k \in Key
      PROVE  SumDays(LiveRequests(k)) <= DefaultQuota[k[3]]
  <2>1. TypeInv
    BY DEF LedgerInv, PeriodInv, OrderlyInv
  <2>2. /\ Booked(k) \in Int /\ Uncharged(k) \in Int /\ Unrefunded(k) \in Int
        /\ SumDays(LiveRequests(k)) \in Int /\ DefaultQuota[k[3]] \in Int
    BY <2>1, Numbers, TypeConfigAssumption DEF Key
  <2>3. Booked(k) + Uncharged(k) - SumDays(LiveRequests(k)) - Unrefunded(k) = 0
    BY DEF LedgerInv, LedgerIsExact, Drift
  <2>4. Booked(k) + Uncharged(k) <= DefaultQuota[k[3]]
    BY DEF LedgerInv, QuotaIsKept
  <2>5. Unrefunded(k) >= 0
    <3> DEFINE f == [c \in Refunding(k) |-> Days(requests[decisions[c].req].range)]
               z == [x \in {} |-> 0]
    <3>1. IsColumn(f) /\ IsColumn(z) /\ SumOf(z) = 0
      BY <2>1, Columns, SumOfEmpty, FS_EmptySet DEF AreColumns, IsColumn
    <3>2. \A c \in Refunding(k) : f[c] >= 0 /\ f[c] \in Int
      BY <2>1, DecisionShape, RequestFields, DaysIsPositive DEF Refunding
    <3>3. \A x : Term(z, x) <= Term(f, x)
      BY <3>2 DEF Term
    <3> HIDE DEF f, z
    <3>4. 0 <= SumOf(f)
      BY <3>1, <3>3, SumOfMonotonic
    <3> QED  BY <3>4 DEF f, Unrefunded
  <2> QED  BY <2>2, <2>3, <2>4, <2>5
<1> QED  BY <1>1, <1>2 DEF WithinQuota

\* When no call fails, the leave period does not change and no two calls about
\* one employee overlap, no employee is ever granted more than the quota.
THEOREM LeaveStaysWithinQuota ==
  ASSUME Switchable = {}, Mortal = {}
  PROVE  OrderlySpec => []WithinQuota
<1>1. LedgerInv => WithinQuota
  BY LedgerInvImplies
<1> QED  BY <1>1, LedgerInvariant, PTL

\* Under the same conditions the booked days are those of the live requests
\* whenever no call is in flight.
THEOREM SettledLedgersAreExact ==
  ASSUME Switchable = {}, Mortal = {}
  PROVE  OrderlySpec => []SettledLedgerIsExact
<1>1. LedgerInv => SettledLedgerIsExact
  BY LedgerInvImplies
<1> QED  BY <1>1, LedgerInvariant, PTL

-----------------------------------------------------------------------------
(* The statements add up to the two operations of LeaveLedger.             *)

\* With an exact ledger an employee has given the days of the live requests.
LEMMA StandingIsLive ==
  LedgerInv => \A k \in Key : Standing(k) = SumDays(LiveRequests(k))
<1> SUFFICES ASSUME LedgerInv, NEW k \in Key
             PROVE  Standing(k) = SumDays(LiveRequests(k))
  OBVIOUS
<1>1. Drift(k) = 0 /\ TypeInv
  BY DEF LedgerInv, LedgerIsExact, PeriodInv, OrderlyInv
<1>2. /\ Booked(k) \in Int /\ Uncharged(k) \in Int /\ Unrefunded(k) \in Int
      /\ SumDays(LiveRequests(k)) \in Int
  BY <1>1, Numbers
<1>3. Booked(k) + Uncharged(k) - SumDays(LiveRequests(k)) - Unrefunded(k) = 0
  BY <1>1 DEF Drift
<1>4. Standing(k) = Booked(k) + Uncharged(k) - Unrefunded(k)
  BY DEF Standing
<1> QED  BY <1>2, <1>3, <1>4

LEMMA StandingIsLiveNext ==
  LedgerInv' => (\A k \in Key : Standing(k) = SumDays(LiveRequests(k)))'
BY StandingIsLive, PTL

AreStandings(e, t) == IsColumn([p \in Period |-> Standing(<<e, p, t>>)])

LEMMA Standings == TypeInv => \A e, t : AreStandings(e, t)
<1> SUFFICES ASSUME TypeInv, NEW e, NEW t
             PROVE  AreStandings(e, t)
  OBVIOUS
<1>1. \A p \in Period : Standing(<<e, p, t>>) \in Int
  <2> SUFFICES ASSUME NEW p \in Period
               PROVE  Standing(<<e, p, t>>) \in Int
    OBVIOUS
  <2>1. PICK k : k = <<e, p, t>>
    OBVIOUS
  <2>2. Booked(k) \in Int /\ Uncharged(k) \in Int /\ Unrefunded(k) \in Int
    BY Numbers
  <2>3. Standing(k) \in Int
    BY <2>2 DEF Standing
  <2> QED  BY <2>1, <2>3
<1> QED  BY <1>1, PeriodAssumption DEF AreStandings, IsColumn

LEMMA StandingsNext == TypeInv' => (\A e, t : AreStandings(e, t))'
BY Standings, PTL

\* When the days given in one period change, so does the total.
LEMMA TotalChange ==
  ASSUME TypeInv, TypeInv', NEW e, NEW t, NEW p \in Period, NEW d \in Int,
         Standing(<<e, p, t>>)' = Standing(<<e, p, t>>) + d,
         \A q \in Period \ {p} : Standing(<<e, q, t>>)' = Standing(<<e, q, t>>)
  PROVE  Total(e, t) \in Int /\ Total(e, t)' = Total(e, t) + d
<1> DEFINE f == [q \in Period |-> Standing(<<e, q, t>>)]
           g == [q \in Period |-> Standing(<<e, q, t>>)']
<1>1. IsColumn(f) /\ IsColumn(g)
  <2>1. IsColumn(f)
    BY Standings DEF AreStandings
  <2>2. IsColumn(g)
    BY StandingsNext DEF AreStandings
  <2> QED  BY <2>1, <2>2
<1>2. /\ \A q : q # p => (q \in DOMAIN f <=> q \in DOMAIN g)
      /\ \A q \in DOMAIN f : q # p => f[q] = g[q]
  OBVIOUS
<1>3. Term(f, p) = f[p] /\ Term(g, p) = g[p] /\ g[p] = f[p] + d
  BY DEF Term
<1>4. Total(e, t) = SumOf(f) /\ Total(e, t)' = SumOf(g)
  BY DEF Total
<1> HIDE DEF f, g
<1>5. /\ SumOf(f) \in Int /\ SumOf(g) \in Int
      /\ Term(f, p) \in Int /\ Term(g, p) \in Int
      /\ SumOf(g) = SumOf(f) + Term(g, p) - Term(f, p)
  BY <1>1, <1>2, SumOfChange
<1> QED  BY <1>3, <1>4, <1>5

LEMMA TotalSame ==
  ASSUME NEW e, NEW t,
         \A q \in Period : Standing(<<e, q, t>>)' = Standing(<<e, q, t>>)
  PROVE  Total(e, t)' = Total(e, t)
BY DEF Total

\* All of it is in the one period there is.
LEMMA TotalInPeriod ==
  ASSUME LedgerInv, active # {}, NEW e \in Employee, NEW t \in LeaveType
  PROVE  Total(e, t) = Standing(<<e, ThePeriod, t>>)
<1> DEFINE f == [q \in Period |-> Standing(<<e, q, t>>)]
<1>1. TypeInv /\ ThePeriod \in Period
  BY LatestIsActive, PeriodAssumption
     DEF LedgerInv, PeriodInv, OrderlyInv, SamePeriod, ThePeriod
<1>2. IsColumn(f)
  BY <1>1, Standings DEF AreStandings
<1>3. \A q \in Period : q # ThePeriod => f[q] = 0
  <2> SUFFICES ASSUME NEW q \in Period, q # ThePeriod
               PROVE  f[q] = 0
    OBVIOUS
  <2>1. PICK k : k = <<e, q, t>>
    OBVIOUS
  <2>2. k \in Key
    BY <2>1 DEF Key
  <2>3. LiveRequests(k) = {}
    BY <2>1 DEF LiveRequests, RequestsOf, KeyOf, LedgerInv, PeriodInv, RequestsHaveRows
  <2>4. SumDays(LiveRequests(k)) = 0
    BY <2>3, SumOfEmpty DEF SumDays
  <2> QED  BY <2>1, <2>2, <2>4, StandingIsLive
<1>4. Term(f, ThePeriod) = Standing(<<e, ThePeriod, t>>)
  BY <1>1 DEF Term
<1>5. \A q \in DOMAIN Drop(f, ThePeriod) : Drop(f, ThePeriod)[q] = 0
  BY <1>3 DEF Drop
<1> HIDE DEF f
<1>6. IsColumn(Drop(f, ThePeriod)) /\ Term(f, ThePeriod) \in Int
      /\ SumOf(f) = Term(f, ThePeriod) + SumOf(Drop(f, ThePeriod))
  BY <1>2, SumOfTerm
<1>7. SumOf(Drop(f, ThePeriod)) = 0
  BY <1>5, <1>6, SumOfZeros
<1>8. Total(e, t) = SumOf(f)
  BY DEF Total, f
<1> QED  BY <1>4, <1>6, <1>7, <1>8

\* What a step does to the days given.
LEMMA StandingSame ==
  ASSUME LedgerInv, LedgerInv', UNCHANGED requests
  PROVE  \A k \in Key : Standing(k)' = Standing(k)
<1> SUFFICES ASSUME NEW k \in Key
             PROVE  Standing(k)' = Standing(k)
  BY DEF Key
<1>1. SumDays(LiveRequests(k))' = SumDays(LiveRequests(k))
  BY UnchangedRequests DEF SameRequests
<1>2. Standing(k)' = SumDays(LiveRequests(k))'
  BY StandingIsLiveNext DEF Key
<1> QED  BY <1>1, <1>2, StandingIsLive

Leave == [r \in {q \in DOMAIN requests : requests[q].status \in Live} |->
             [emp |-> requests[r].emp, type |-> requests[r].type,
              range |-> requests[r].range]]

Bookings == [x \in Employee \X LeaveType |-> Total(x[1], x[2])]

LEMMA StutterInLedger ==
  ASSUME LedgerInv, LedgerInv', UNCHANGED requests
  PROVE  Leave' = Leave /\ Bookings' = Bookings
<1>1. Leave' = Leave
  BY DEF Leave
<1>2. \A x \in Employee \X LeaveType : Total(x[1], x[2])' = Total(x[1], x[2])
  <2> SUFFICES ASSUME NEW e \in Employee, NEW t \in LeaveType
               PROVE  Total(e, t)' = Total(e, t)
    OBVIOUS
  <2>1. \A q \in Period : <<e, q, t>> \in Key
    BY DEF Key
  <2> QED  BY <2>1, StandingSame, TotalSame
<1> QED  BY <1>1, <1>2 DEF Bookings

LEMMA BookingsChange ==
  ASSUME NEW e, NEW t, NEW d, <<e, t>> \in Employee \X LeaveType,
         Total(e, t)' = Total(e, t) + d,
         \A x \in Employee \X LeaveType :
           x # <<e, t>> => Total(x[1], x[2])' = Total(x[1], x[2])
  PROVE  Bookings' = [Bookings EXCEPT ![<<e, t>>] = @ + d]
<1>1. \A x \in Employee \X LeaveType :
        Total(x[1], x[2])' = IF x = <<e, t>> THEN Bookings[<<e, t>>] + d
                                             ELSE Bookings[x]
  BY DEF Bookings
<1>2. Bookings' = [x \in Employee \X LeaveType |->
                     IF x = <<e, t>> THEN Bookings[<<e, t>>] + d ELSE Bookings[x]]
  BY <1>1 DEF Bookings
<1>3. DOMAIN Bookings = Employee \X LeaveType
  BY DEF Bookings
<1> QED  BY <1>2, <1>3

LEMMA InsertBooks ==
  ASSUME LedgerInv, LedgerInv', NEW c \in Call, Insert(c)
  PROVE  Ledger!Next
<1> DEFINE s == submits[c]
<1>1. /\ c \in DOMAIN submits /\ s.pc = "insert" /\ active # {}
      /\ s \in SubmitCall /\ TypeInv /\ TypeInv'
  <2>1. TypeInv /\ TypeInv' /\ c \in DOMAIN submits /\ s.pc = "insert"
    BY DEF Insert, SubmitAt, LedgerInv, PeriodInv, OrderlyInv
  <2> QED  BY <2>1, RowOfTable DEF TypeInv, TypeOK, LedgerInv, PeriodInv, SubmitsHavePeriod
<1>2. PICK r \in RequestId \ DOMAIN requests :
        requests' = Put(requests, r, NewRequest(s))
  BY DEF Insert
<1>3. PICK e, t, rg, d : e = s.emp /\ t = s.type /\ rg = s.range /\ d = Days(rg)
  OBVIOUS
<1>4. /\ e \in Employee /\ t \in LeaveType /\ rg \in DateRange /\ d \in Int
      /\ ThePeriod \in Period /\ KeyOf(s) = <<e, ThePeriod, t>>
  <2>1. e \in Employee /\ t \in LeaveType /\ rg \in DateRange
    BY <1>1, <1>3 DEF SubmitCall
  <2>2. s.period = ThePeriod /\ s.period \in Period
    BY <1>1 DEF SubmitCall, LedgerInv, PeriodInv, SubmitsFit, Fits
  <2> QED  BY <1>3, <2>1, <2>2, DaysIsInt DEF KeyOf
<1>5. \A k \in Key : Standing(k)' =
        Standing(k) + IF k = <<e, ThePeriod, t>> THEN d ELSE 0
  <2> SUFFICES ASSUME NEW k \in Key
               PROVE  Standing(k)' =
                        Standing(k) + IF k = <<e, ThePeriod, t>> THEN d ELSE 0
    BY DEF Key
  <2>1. SumDays(LiveRequests(k))' =
          SumDays(LiveRequests(k)) + IF KeyOf(s) = k THEN Days(s.range) ELSE 0
    BY <1>1, InsertNumbers
  <2>2. Standing(k)' = SumDays(LiveRequests(k))'
    BY StandingIsLiveNext DEF Key
  <2> HIDE DEF s
  <2> QED  BY <1>3, <1>4, <2>1, <2>2, StandingIsLive
<1>6. /\ Total(e, t)' = Total(e, t) + d
      /\ \A x \in Employee \X LeaveType :
           x # <<e, t>> => Total(x[1], x[2])' = Total(x[1], x[2])
  <2>1. \A k \in Key : Standing(k) \in Int
    BY <1>1, StandingIsLive, Numbers
  <2>2. \A q \in Period, x \in Employee, u \in LeaveType : <<x, q, u>> \in Key
    BY DEF Key
  <2>3. Total(e, t)' = Total(e, t) + d
    <3>1. Standing(<<e, ThePeriod, t>>)' = Standing(<<e, ThePeriod, t>>) + d
      BY <1>4, <1>5, <2>2
    <3>2. \A q \in Period \ {ThePeriod} :
            Standing(<<e, q, t>>)' = Standing(<<e, q, t>>)
      BY <1>4, <1>5, <2>1, <2>2
    <3> QED  BY <1>1, <1>4, <3>1, <3>2, TotalChange
  <2>4. ASSUME NEW x \in Employee, NEW u \in LeaveType, <<x, u>> # <<e, t>>
        PROVE  Total(x, u)' = Total(x, u)
    <3>1. \A q \in Period : Standing(<<x, q, u>>)' = Standing(<<x, q, u>>)
      BY <1>5, <2>1, <2>2, <2>4
    <3> QED  BY <3>1, TotalSame
  <2> QED  BY <2>3, <2>4
<1>7. Bookings' = [Bookings EXCEPT ![<<e, t>>] = @ + d]
  <2>1. <<e, t>> \in Employee \X LeaveType
    BY <1>4
  <2> QED  BY <1>6, <2>1, BookingsChange
<1>8. /\ Leave' = Ledger!Put(Leave, r, [emp |-> e, type |-> t, range |-> rg])
      /\ r \notin DOMAIN Leave
  BY <1>2, <1>3 DEF Leave, Put, Ledger!Put, NewRequest, Live
<1>9. \A j \in DOMAIN Leave : Leave[j].emp = e => Ledger!Disjoint(Leave[j].range, rg)
  <2>1. Conflicting(s) = {}
    BY <1>1 DEF LedgerInv, PeriodInv, OrderlyInv, ChecksAreFresh
  <2>2. \A j \in DOMAIN Leave : Leave[j].emp = e => ~Overlaps(Leave[j].range, rg)
    BY <1>3, <2>1 DEF Conflicting, Leave
  <2>3. \A j \in DOMAIN Leave : Leave[j].range \in [first : Nat \ {0}, last : Nat]
    <3>1. \A j \in DOMAIN requests : requests[j].range \in DateRange
      BY <1>1, RequestFields
    <3> QED  BY <3>1, RangeAssumption DEF Leave
  <2>4. rg \in [first : Nat \ {0}, last : Nat]
    BY <1>4, RangeAssumption
  <2> QED  BY <2>2, <2>3, <2>4 DEF Overlaps, Ledger!Disjoint
<1>10. Bookings[<<e, t>>] + Ledger!Length(rg) <= DefaultQuota[t]
  <2>1. PICK k : k = <<e, ThePeriod, t>> /\ k = KeyOf(s)
    BY <1>4
  <2>2. Uncharged(k) = 0 /\ Unrefunded(k) = 0
    BY <1>1, <2>1, NothingOwed DEF LedgerInv
  <2>3. /\ k \in DOMAIN balance
        /\ balance[k].used + d <= DefaultQuota[t]
    BY <1>1, <1>3, <2>1 DEF LedgerInv, PeriodInv, SubmitsFit, Fits
  <2>4. Booked(k) = balance[k].used /\ Booked(k) \in Int
    BY <1>1, <2>3, Numbers DEF Booked
  <2>5. Total(e, t) = Standing(k)
    BY <1>1, <1>4, <2>1, TotalInPeriod
  <2>6. Standing(k) = Booked(k)
    BY <2>2, <2>4 DEF Standing
  <2>7. Bookings[<<e, t>>] = Total(e, t)
    BY <1>4 DEF Bookings
  <2>8. Ledger!Length(rg) = d
    BY <1>3 DEF Ledger!Length, Days
  <2> QED  BY <2>3, <2>4, <2>5, <2>6, <2>7, <2>8
<1>11. Ledger!Length(rg) = d
  BY <1>3 DEF Ledger!Length, Days
<1>12. Ledger!Book(r, e, t, rg)
  BY <1>7, <1>8, <1>9, <1>10, <1>11 DEF Ledger!Book, Leave, Bookings
<1> QED  BY <1>2, <1>4, <1>12 DEF Ledger!Next

\* A decision lets the request stand, or takes its days off one total.
LEMMA WriteReleases ==
  ASSUME LedgerInv, LedgerInv', NEW c \in Call, WriteCancel(c) \/ WriteDecision(c)
  PROVE  Ledger!Next \/ UNCHANGED <<Leave, Bookings>>
<1>0. PICK r, o, q : r = decisions[c].req /\ o = decisions[c].outcome /\ q = requests[r]
  OBVIOUS
<1>1. /\ c \in DOMAIN decisions /\ decisions[c].pc = "write"
      /\ r \in DOMAIN requests /\ r \in RequestId
      /\ q \in Request /\ q.status \in Live
      /\ TypeInv /\ TypeInv'
  <2>1. TypeInv /\ TypeInv' /\ c \in DOMAIN decisions /\ decisions[c].pc = "write"
    BY DEF WriteCancel, WriteDecision, DecisionAt, LedgerInv, PeriodInv, OrderlyInv
  <2>2. q.status \in Live
    BY <1>0, <2>1 DEF LedgerInv, PeriodInv, OrderlyInv, ChecksAreFresh
  <2> QED  BY <1>0, <2>1, <2>2, DecisionShape, RequestFields, RowOfTable DEF TypeInv, TypeOK
<1>2. requests' = [requests EXCEPT ![r] = [q EXCEPT !.status = o]]
  BY <1>0, <1>1 DEF WriteCancel, WriteDecision
<1>3. PICK e, t, rg, d : e = q.emp /\ t = q.type /\ rg = q.range /\ d = Days(rg)
  OBVIOUS
<1>4. /\ e \in Employee /\ t \in LeaveType /\ rg \in DateRange /\ d \in Int
      /\ ThePeriod \in Period /\ KeyOf(q) = <<e, ThePeriod, t>>
  <2>1. e \in Employee /\ t \in LeaveType /\ rg \in DateRange
    BY <1>1, <1>3 DEF Request
  <2>2. q.period = ThePeriod /\ q.period \in Period
    BY <1>0, <1>1 DEF Request, LedgerInv, PeriodInv, RequestsHaveRows
  <2> QED  BY <1>3, <2>1, <2>2, DaysIsInt DEF KeyOf
<1>5. PICK u : u = [q EXCEPT !.status = o]
  OBVIOUS
<1>6. u.emp = e /\ u.type = t /\ u.range = rg /\ u.status = o
  BY <1>1, <1>3, <1>5 DEF Request
<1>7. \A k \in Key : Standing(k)' =
        Standing(k) - IF k = <<e, ThePeriod, t>> /\ o \notin Live THEN d ELSE 0
  <2> SUFFICES ASSUME NEW k \in Key
               PROVE  Standing(k)' =
                        Standing(k) - IF k = <<e, ThePeriod, t>> /\ o \notin Live
                                        THEN d ELSE 0
    BY DEF Key
  <2>1. PICK f, is : f = DaysFor(q, k) /\ is = IF o \in Live THEN f ELSE 0
    OBVIOUS
  <2>2. /\ f \in Nat
        /\ SumDays(LiveRequests(k))' = SumDays(LiveRequests(k)) - f + is
    BY <1>0, <1>1, <2>1, WriteNumbers
  <2>3. Standing(k)' = SumDays(LiveRequests(k))' /\ SumDays(LiveRequests(k)) \in Int
    BY <1>1, StandingIsLiveNext, Numbers DEF Key
  <2>4. f = IF k = <<e, ThePeriod, t>> THEN d ELSE 0
    BY <1>3, <1>4, <2>1 DEF DaysFor
  <2>5. Standing(k) = SumDays(LiveRequests(k))
    BY StandingIsLive
  <2> QED  BY <1>4, <2>1, <2>2, <2>3, <2>4, <2>5
<1>8. \A k \in Key : Standing(k) \in Int
  BY <1>1, StandingIsLive, Numbers
<1>9. \A p \in Period, x \in Employee, y \in LeaveType : <<x, p, y>> \in Key
  BY DEF Key
<1>10. CASE o \in Live
  <2>1. \A k \in Key : Standing(k)' = Standing(k)
    BY <1>7, <1>8, <1>10
  <2>2. \A x \in Employee \X LeaveType : Total(x[1], x[2])' = Total(x[1], x[2])
    <3> SUFFICES ASSUME NEW x \in Employee, NEW y \in LeaveType
                 PROVE  Total(x, y)' = Total(x, y)
      OBVIOUS
    <3> QED  BY <1>9, <2>1, TotalSame
  <2>3. Bookings' = Bookings
    BY <2>2 DEF Bookings
  <2>4. /\ DOMAIN requests' = DOMAIN requests
        /\ \A x \in DOMAIN requests :
             /\ requests'[x].status \in Live <=> requests[x].status \in Live
             /\ requests'[x].emp = requests[x].emp
             /\ requests'[x].type = requests[x].type
             /\ requests'[x].range = requests[x].range
    BY <1>0, <1>1, <1>2, <1>3, <1>5, <1>6, <1>10
  <2>5. Leave' = Leave
    BY <2>4 DEF Leave
  <2> QED  BY <2>3, <2>5
<1>11. CASE o \notin Live
  <2>1. /\ Total(e, t)' = Total(e, t) + (-d)
        /\ \A x \in Employee \X LeaveType :
             x # <<e, t>> => Total(x[1], x[2])' = Total(x[1], x[2])
    <3>1. Total(e, t)' = Total(e, t) + (-d)
      <4>1. Standing(<<e, ThePeriod, t>>)' = Standing(<<e, ThePeriod, t>>) + (-d)
        BY <1>4, <1>7, <1>8, <1>9, <1>11
      <4>2. \A p \in Period \ {ThePeriod} :
              Standing(<<e, p, t>>)' = Standing(<<e, p, t>>)
        BY <1>4, <1>7, <1>8, <1>9
      <4>3. -d \in Int
        BY <1>4
      <4> QED  BY <1>1, <1>4, <4>1, <4>2, <4>3, TotalChange
    <3>2. ASSUME NEW x \in Employee, NEW y \in LeaveType, <<x, y>> # <<e, t>>
          PROVE  Total(x, y)' = Total(x, y)
      <4>1. \A p \in Period : Standing(<<x, p, y>>)' = Standing(<<x, p, y>>)
        BY <1>7, <1>8, <1>9, <3>2
      <4> QED  BY <4>1, TotalSame
    <3> QED  BY <3>1, <3>2
  <2>2. <<e, t>> \in Employee \X LeaveType
    BY <1>4
  <2>3. Bookings' = [Bookings EXCEPT ![<<e, t>>] = @ + (-d)]
    BY <2>1, <2>2, BookingsChange
  <2>4. r \in DOMAIN Leave /\ Leave' = Ledger!Drop(Leave, r)
    BY <1>0, <1>1, <1>2, <1>5, <1>6, <1>11 DEF Leave, Ledger!Drop
  <2>5. Leave[r].emp = e /\ Leave[r].type = t /\ Leave[r].range = rg
    BY <1>0, <1>1, <1>3, <2>4 DEF Leave
  <2>6. Ledger!Length(rg) = d
    BY <1>3 DEF Ledger!Length, Days
  <2>7. Bookings[<<e, t>>] \in Int
    <3>1. TypeInv /\ TypeInv' /\ -d \in Int
      BY <1>1, <1>4
    <3>2. Total(e, t) \in Int
      <4>1. IsColumn([p \in Period |-> Standing(<<e, p, t>>)])
        BY <1>1, Standings DEF AreStandings
      <4> QED  BY <4>1, SumOfIsInt DEF Total
    <3> QED  BY <2>2, <3>2 DEF Bookings
  <2>8. Bookings' = [Bookings EXCEPT ![<<e, t>>] = @ - d]
    <3>1. Bookings[<<e, t>>] + (-d) = Bookings[<<e, t>>] - d
      BY <1>4, <2>7
    <3> QED  BY <2>3, <3>1
  <2>9. Ledger!Release(r)
    BY <2>4, <2>5, <2>6, <2>8 DEF Ledger!Release, Leave, Bookings
  <2> QED  BY <1>1, <2>9 DEF Ledger!Next
<1> QED  BY <1>10, <1>11

LEMMA LedgerSimulation ==
  ASSUME LedgerInv, LedgerInv', [Next]_vars
  PROVE  Ledger!Next \/ UNCHANGED <<Leave, Bookings>>
<1>1. ASSUME NEW c \in Call, SubmitStep(c)
      PROVE  Insert(c) \/ UNCHANGED requests
  BY <1>1 DEF SubmitStep, ReadBalance, InitPeriod, Upsert, RereadBalance, CheckOverlap,
     Charge
<1>2. ASSUME NEW c \in Call, DecisionStep(c)
      PROVE  WriteCancel(c) \/ WriteDecision(c) \/ UNCHANGED requests
  BY <1>2 DEF DecisionStep, DecisionThrows, RefundPeriod, RefundLookup, RefundBalance,
     Refund
<1>3. CASE UNCHANGED requests
  BY <1>3, StutterInLedger
<1>4. CASE \E c \in Call : Insert(c)
  BY <1>4, InsertBooks
<1>5. CASE \E c \in Call : WriteCancel(c) \/ WriteDecision(c)
  BY <1>5, WriteReleases
<1>6. CASE \E c \in Call : NewDecision(c)
  BY <1>3, <1>6 DEF NewDecision, Cancel, Approve, Reject, Decide
<1>7. CASE \/ \E c \in Call, e \in Employee, t \in LeaveType, rg \in DateRange :
                Submit(c, e, t, rg)
           \/ \E c \in Mortal : Fail(c)
           \/ \E p \in Switchable : SetPeriodActive(p)
           \/ UNCHANGED vars
  BY <1>3, <1>7 DEF Submit, Fail, SetPeriodActive, vars
<1> QED  BY <1>1, <1>2, <1>3, <1>4, <1>5, <1>6, <1>7 DEF Next, Step

LEMMA LedgerStartsEmpty == Init => Ledger!Init
<1> SUFFICES ASSUME Init
             PROVE  Ledger!Init
  OBVIOUS
<1>1. TypeInv /\ LedgerInv
  BY LedgerInit, TypeInvInit
<1>2. \A k \in Key : Standing(k) = 0
  <2> SUFFICES ASSUME NEW k \in Key
               PROVE  Standing(k) = 0
    OBVIOUS
  <2>1. LiveRequests(k) = {}
    BY DEF Init, LiveRequests, RequestsOf
  <2> QED  BY <1>1, <2>1, StandingIsLive, SumOfEmpty DEF SumDays
<1>3. \A e \in Employee, t \in LeaveType : Total(e, t) = 0
  <2> SUFFICES ASSUME NEW e \in Employee, NEW t \in LeaveType
               PROVE  Total(e, t) = 0
    OBVIOUS
  <2> DEFINE f == [p \in Period |-> Standing(<<e, p, t>>)]
  <2>1. IsColumn(f)
    BY <1>1, Standings DEF AreStandings
  <2>2. \A p \in DOMAIN f : f[p] = 0
    BY <1>2 DEF Key
  <2>3. Total(e, t) = SumOf(f)
    BY DEF Total
  <2> HIDE DEF f
  <2> QED  BY <2>1, <2>2, <2>3, SumOfZeros
<1>4. Leave = << >>
  BY DEF Init, Leave
<1>5. Bookings = [x \in Employee \X LeaveType |-> 0]
  BY <1>3 DEF Bookings
<1> QED  BY <1>4, <1>5 DEF Ledger!Init, Leave, Bookings

\* With the calls about each employee one after the other, one leave period
\* and no failure, every statement of every handler is one of the two atomic
\* operations of LeaveLedger or none: leave that is granted never overlaps nor
\* exceeds the quota, and all that is given up is given back.
THEOREM ServiceKeepsALedger ==
  ASSUME Switchable = {}, Mortal = {}
  PROVE  OrderlySpec => ImplementsLedger
<1>1. Init => Ledger!Init
  BY LedgerStartsEmpty
<1>2. LedgerInv /\ LedgerInv' /\ [Next /\ OneCallPerEmployee']_vars =>
        Ledger!Next \/ UNCHANGED <<Leave, Bookings>>
  BY LedgerSimulation
<1>3. LedgerInv /\ LedgerInv' /\ [Next /\ OneCallPerEmployee']_vars =>
        [Ledger!Next]_<<Leave, Bookings>>
  BY <1>2
<1> QED
  BY <1>1, <1>3, LedgerInvariant, PTL
     DEF OrderlySpec, ImplementsLedger, Ledger!Spec, Leave, Bookings
=============================================================================
