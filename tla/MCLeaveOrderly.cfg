SPECIFICATION OrderlySpec
CONSTANTS
  eve = eve
  max = max
  nobody = nobody
  annual = annual
  r1 = r1
  r2 = r2
  r3 = r3
  c1 = c1
  c2 = c2
  Employee <- Pair
  HR = {eve}
  ManagerOf <- PairManagers
  NoManager = nobody
  LeaveType <- AnnualOnly
  DefaultQuota <- Quota2
  MaxConsecutive <- Limit2
  NoticeDays <- Notice1
  Period <- Periods1
  InitiallyActive = {1}
  Switchable = {}
  DateRange <- Days4
  RequestId <- Requests3
  Call <- Calls2
  Mortal = {}
  HasApprovalModels = TRUE
CHECK_DEADLOCK FALSE
SYMMETRY Symmetry
INVARIANT NoOverlappingLeave
INVARIANT WithinQuota
PROPERTY ImplementsLedger
