SPECIFICATION AuditSpec
CONSTANTS
  eve = eve
  ann = ann
  c1 = c1
  c2 = c2
  Employee = {eve}
  Approver = {ann}
  Day = {1, 2}
  Edit <- SomeEdits
  MaxRows = 3
  Call = {c1, c2}
  Mortal = {c1, c2}
  HasAttendanceTable = TRUE
CHECK_DEADLOCK FALSE
SYMMETRY CallSymmetry
INVARIANT TypeOK
PROPERTY StatusFollowsApprovals
PROPERTY DecidedRequestsAreKept
PROPERTY SecondRequestHasACause
PROPERTY ApprovalNeedsHR
