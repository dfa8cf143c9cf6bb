------------------------------- MODULE Tables -------------------------------
(***************************************************************************)
(* Tables of a tenant database as functions: DOMAIN t is the set of keys   *)
(* of the rows that exist, t[k] the row with key k.  The set of request    *)
(* handlers in flight is kept the same way, keyed by the call.             *)
(***************************************************************************)
EXTENDS Integers, Folds

\* INSERT of a row, or an upsert that overwrites the row with that key.
Put(t, k, row) == [x \in DOMAIN t \cup {k} |-> IF x = k THEN row ELSE t[x]]

\* DELETE of the row with key k; for a handler, its return.
Drop(t, k) == [x \in DOMAIN t \ {k} |-> t[x]]

\* The tables with keys in K and rows in R.
IsTable(t, K, R) == DOMAIN t \subseteq K /\ t \in [DOMAIN t -> R]

\* What a PATCH leaves in a column: the new value if the body has one.
Setting(edit, column, old) == IF column \in DOMAIN edit THEN edit[column] ELSE old

\* The sum of a column of numbers.
SumOf(f) ==
  MapThenFoldSet(+, 0, LAMBDA k : f[k], LAMBDA s : CHOOSE k \in s : TRUE, DOMAIN f)
=============================================================================
