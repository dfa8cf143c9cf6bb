------------------------------ MODULE MCTenants ------------------------------
(* Small instances of TenantProvisioning. *)
EXTENDS TenantProvisioning, TLC

CONSTANTS acme, beta, ann, bob, c1, c2

\* The base schema, a file that adds a column, one that creates a type and
\* then tables, the file that may create migrations_log, and one that creates
\* the type and the tables of the third again.
StatementCount == <<1, 1, 2, 1, 2>>

SalaryFiles == {3, 5}

SalaryRepeats ==
  [m \in Migration |-> IF m \in SalaryFiles THEN SalaryFiles \ {m} ELSE {}]
=============================================================================
