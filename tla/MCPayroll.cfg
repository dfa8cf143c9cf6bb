SPECIFICATION FocusSpec
CONSTANTS
  ann = ann
  bob = bob
  c1 = c1
  c2 = c2
  Employee = {ann, bob}
  Married = {bob}
  Amount = {9000000}
  Period <- SomePeriods
  Extra <- SomeExtra
  Terms <- SomeTerms
  MaxPayrolls = 2
  MaxPayslips = 2
  MaxUpsets = 1
  Call = {c1, c2}
  InitialOvertime <- SomeOvertime
  TakeLimit = 100
  HasAttendanceTable = TRUE
  HasPaidAt = TRUE
CHECK_DEADLOCK FALSE
SYMMETRY CallSymmetry
INVARIANT TypeOK
INVARIANT PayslipsAddUp
INVARIANT UnitemisedAreCounted
 
PROPERTY DoublePayNeedsARace
PROPERTY PaidPayrollsAreKept
PROPERTY BulkAccountsForEverybody
PROPERTY ImplementsLifecycle
PROPERTY LoopsGoForward
