SPECIFICATION Spec
CONSTANTS
  eve = eve
  max = max
  nobody = nobody
  annual = annual
  r1 = r1
  r2 = r2
  r3 = r3
  c1 = c1
  c2 = c2
  Employee <- Pair
  HR = {eve}
  ManagerOf <- PairManagers
  NoManager = nobody
  LeaveType <- AnnualOnly
  DefaultQuota <- Quota3
  MaxConsecutive <- Limit2
  NoticeDays <- Notice1
  Period <- Periods1
  InitiallyActive = {1}
  Switchable = {}
  DateRange <- OneDay
  RequestId <- Requests2
  Call <- Calls2
  Mortal = {c1, c2}
  HasApprovalModels = TRUE
CHECK_DEADLOCK FALSE
SYMMETRY Symmetry
INVARIANT TypeOK
INVARIANT RemainingIsTotalMinusUsed
INVARIANT TwoLevelApproval
INVARIANT ChargesAreBacked
PROPERTY LedgerDriftHasACause
