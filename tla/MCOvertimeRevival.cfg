SPECIFICATION SerialSpec
CONSTANTS
  eve = eve
  ann = ann
  c1 = c1
  c2 = c2
  Employee = {eve}
  Approver = {ann}
  Day = {1}
  Edit <- NoEdits
  MaxRows = 3
  Call = {c1}
  Mortal = {}
  HasAttendanceTable = TRUE
CHECK_DEADLOCK FALSE
INVARIANT OneRequestPerDate
