---------------------------- MODULE LeaveLedger ----------------------------
(***************************************************************************)
(* What the leave service promises an employee: leave is granted only for  *)
(* free days and within the quota, and giving a request up frees its days. *)
(***************************************************************************)
EXTENDS Integers, FiniteSets, Tables

CONSTANTS Id, Owner, Kind, Span, Quota

VARIABLES
  leave,   \* the requests that stand
  booked   \* the days booked, per employee and kind of leave

Length(s) == s.last - s.first + 1

Disjoint(a, b) == a.last < b.first \/ b.last < a.first

Init ==
  /\ leave = << >>
  /\ booked = [x \in Owner \X Kind |-> 0]

\* Leave is booked for days that are free, as far as the quota goes.
Book(i, e, k, s) ==
  /\ i \notin DOMAIN leave
  /\ \A j \in DOMAIN leave : leave[j].emp = e => Disjoint(leave[j].range, s)
  /\ booked[<<e, k>>] + Length(s) <= Quota[k]
  /\ leave' = Put(leave, i, [emp |-> e, type |-> k, range |-> s])
  /\ booked' = [booked EXCEPT ![<<e, k>>] = @ + Length(s)]

\* Leave that was cancelled or rejected is given back in full.
Release(i) ==
  /\ i \in DOMAIN leave
  /\ leave' = Drop(leave, i)
  /\ booked' = [booked EXCEPT
       ![<<leave[i].emp, leave[i].type>>] = @ - Length(leave[i].range)]

Next ==
  \/ \E i \in Id, e \in Owner, k \in Kind, s \in Span : Book(i, e, k, s)
  \/ \E i \in Id : Release(i)

Spec == Init /\ [][Next]_<<leave, booked>>
=============================================================================
