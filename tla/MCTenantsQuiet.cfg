SPECIFICATION QuietSpec
CONSTANTS
  acme = acme
  beta = beta
  ann = ann
  bob = bob
  c1 = c1
  c2 = c2
  Slug = {acme, beta}
  Email = {ann}
  LastMigration = 5
  Statements <- StatementCount
  Rerunnable = {1, 4}
  AddsColumns = {2}
  Repeats <- SalaryRepeats
  LogMigration = 4
  Call = {c1}
  MaxMishaps = 0
CHECK_DEADLOCK FALSE
INVARIANT LogTellsTheTruth
