SPECIFICATION MCSpec
CONSTANTS
  eve = eve
  bob = bob
  c1 = c1
  c2 = c2
  web = web
  Employee = {eve, bob}
  Client = {web}
  Call = {c1, c2}
  DayLength = 5
  TicksPerMinute = 2
  DefaultTolerance = 1
  MaxTime = 5
  FreeDay = {}
  NewPeriod <- Later
  PeriodEdit <- Edits
  StartPeriod <- Open
  MaxPeriods = 2
  MaxEdits = 3
  MaxRetries = 2
  MaxQueue = 2
  HasUrl = TRUE
  MaxRecords = 2
  MaxMishaps = 1
  StartStaff = 3
  NewEmail <- Wanted
  EmployeeEdit <- StaffEdits
  NewSalary <- Salaries
  SalaryEdit <- SalaryEdits
  HasManagerColumn = TRUE
  MaxUsers = 5
  MaxSalaries = 3
  MaxHistories = 3
  MaxDay = 1
  Kind = {"ANNUAL", "SICK"}
  DefaultTypes <- Setups
  PeriodBody <- LeaveBodies
  PeriodPatch <- LeavePatches
  MaxLeavePeriods = 2
  MaxTypes = 3
  Stride <- Strides
  Top = 1900000000
CHECK_DEADLOCK FALSE
SYMMETRY CallSymmetry
INVARIANT TablesTypeOK
INVARIANT UnloggedAreCounted
 
INVARIANT HalfHiredAreCounted
INVARIANT MorePayIsMoreToTakeHome
PROPERTY ClockingHoldsAlone
PROPERTY PeriodsStayInOrder
PROPERTY ScreensFallBehindForACause
PROPERTY SalariesFollowEachOther
PROPERTY WalksRepeatOnlyInCycles
PROPERTY LeaveAdministrationHoldsAlone
