SPECIFICATION SerialSpec
CONSTANTS
  eve = eve
  max = max
  nobody = nobody
  annual = annual
  r1 = r1
  r2 = r2
  r3 = r3
  c1 = c1
  c2 = c2
  Employee <- Pair
  HR = {eve}
  ManagerOf <- PairManagers
  NoManager = nobody
  LeaveType <- AnnualOnly
  DefaultQuota <- Quota3
  MaxConsecutive <- NoLimit
  NoticeDays <- NoLimit
  Period <- Periods2
  InitiallyActive = {1}
  Switchable = {2}
  DateRange <- OneDay
  RequestId <- Requests1
  Call <- Calls1
  Mortal = {}
  HasApprovalModels = TRUE
CHECK_DEADLOCK FALSE
INVARIANT SettledLedgerIsExact
