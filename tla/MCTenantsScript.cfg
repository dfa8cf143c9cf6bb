SPECIFICATION FairSpec
CONSTANTS
  acme = acme
  beta = beta
  ann = ann
  bob = bob
  c1 = c1
  c2 = c2
  Slug = {acme}
  Email = {ann}
  LastMigration = 5
  Statements <- StatementCount
  Rerunnable = {1, 4}
  AddsColumns = {2}
  Repeats <- SalaryRepeats
  LogMigration = 4
  Call = {c1, c2}
  MaxMishaps = 1
CHECK_DEADLOCK FALSE
INVARIANT TypeOK
INVARIANT TenantsHaveTheirUser
 
 
PROPERTY ScriptCompletesDatabases
