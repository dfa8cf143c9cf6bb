------------------------------- MODULE Mishaps -------------------------------
(***************************************************************************)
(* Statements that fail and crashes of the process, counted together.      *)
(***************************************************************************)
EXTENDS Handlers

CONSTANT MaxMishaps  \* BOUND on the statements that fail and on crashes

VARIABLE mishaps  \* how many statements failed, crashes included

Mishap == mishaps < MaxMishaps /\ mishaps' = mishaps + 1
=============================================================================
