------------------------------ MODULE Handlers ------------------------------
(***************************************************************************)
(* The request handlers of one server process.  An action of a module that *)
(* extends this one is one SQL statement with the code up to the next      *)
(* await; a call in flight is a program counter, pc, with the variables    *)
(* that the rest of its handler needs.                                     *)
(***************************************************************************)
EXTENDS Integers, FiniteSets, Tables

CONSTANT Call  \* BOUND on the calls in flight at a time

VARIABLE calls  \* the calls in flight

InFlight == DOMAIN calls

Free(c) == c \notin DOMAIN calls

At(c, label) == c \in DOMAIN calls /\ calls[c].pc = label

\* The statement at which the handler waits next.
Goto(c, record) == calls' = Put(calls, c, record)

\* The handler has answered, or has been given up.
Return(c) == calls' = Drop(calls, c)
=============================================================================
