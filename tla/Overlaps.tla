------------------------------ MODULE Overlaps ------------------------------
(***************************************************************************)
(* Which of the calls in flight have met another one, in a history         *)
(* variable that an audit adds to a specification of handlers.             *)
(***************************************************************************)
EXTENDS Handlers

VARIABLE overlapped  \* the calls that had company at some time of their life

Alone(c) == c \in InFlight /\ c \notin overlapped
=============================================================================
