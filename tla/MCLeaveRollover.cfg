SPECIFICATION FairSpec
CONSTANTS
  eve = eve
  max = max
  nobody = nobody
  annual = annual
  r1 = r1
  r2 = r2
  r3 = r3
  c1 = c1
  c2 = c2
  Employee <- Solo
  HR = {max}
  ManagerOf <- SoloManagers
  NoManager = nobody
  LeaveType <- AnnualOnly
  DefaultQuota <- Quota3
  MaxConsecutive <- NoLimit
  NoticeDays <- NoLimit
  Period <- Periods2
  InitiallyActive = {1}
  Switchable = {1, 2}
  DateRange <- OneDay
  RequestId <- Requests1
  Call <- Calls2
  Mortal = {}
  HasApprovalModels = FALSE
CHECK_DEADLOCK FALSE
PROPERTY LedgerDriftHasACause
PROPERTY HandlersReturn
