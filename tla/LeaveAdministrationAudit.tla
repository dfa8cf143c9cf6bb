---------------------- MODULE LeaveAdministrationAudit ----------------------
(***************************************************************************)
(* What the administration of leave achieves when a call has the tables to *)
(* itself.                                                                 *)
(***************************************************************************)
EXTENDS LeaveAdministration, Overlaps

adminAuditVars == <<adminVars, overlapped>>

AdminAuditInit == AdminInit /\ overlapped = {}

AdminAuditNext ==
  /\ AdminNext
  /\ overlapped' = IF Cardinality(InFlight') > 1 THEN InFlight'
                                                 ELSE overlapped \cap InFlight'

AdminAuditSpec == AdminAuditInit /\ [][AdminAuditNext]_adminAuditVars

-----------------------------------------------------------------------------
\* "Leave period overlaps with existing period": where there is a period, its
\* dates do not matter, a second one comes only from two calls that both looked
\* before either wrote.
SecondPeriodNeedsARace ==
  (/\ DOMAIN leavePeriods # {}
   /\ Cardinality(DOMAIN leavePeriods') > Cardinality(DOMAIN leavePeriods)) =>
    \E c \in InFlight : At(c, "insertLeavePeriod") /\ ~Alone(c)

\* The kinds of the default setup that period p has, switched on.
SetUp(p) == {types[t].kind : t \in {s \in TypesOf(p) : types[s].active}}

Defaults == {DefaultTypes[i] : i \in DOMAIN DefaultTypes}

\* setupDefaultLeaveTypes, alone: it goes through all the kinds and leaves none
\* missing, whatever earlier attempts have left, unless it meets one that has
\* been switched off, which it neither finds nor can insert.
SetupIsComplete ==
  \A c \in InFlight, p \in DOMAIN leavePeriods :
    (/\ At(c, "findDefault") \/ At(c, "insertDefault")
     /\ calls[c].period = p
     /\ Alone(c) /\ Free(c)' /\ mishaps' = mishaps) =>
      \/ Defaults \subseteq SetUp(p)'
      \/ \E t \in TypesOf(p) :
           types[t].kind = DefaultTypes[calls[c].at] /\ ~types[t].active

\* Both deletions refuse what is in use.  Alone, they take no balance along,
\* except that a period takes its types, and with them the balances they have
\* in another period; and never one whose leave somebody has asked for.
DeletionsSpareBalances ==
  \A b \in balances \ balances' :
    /\ b \notin requests
    /\ \E c \in InFlight :
         \/ ~Alone(c)
         \/ /\ At(c, "deleteLeavePeriod") /\ types[b.type].period = calls[c].id
            /\ b.period # calls[c].id

\* POST and DELETE leave-periods, setup-default-types and DELETE leave-types do
\* what their checks promise as long as no other call interferes.
LeaveAdministrationHoldsAlone ==
  [][SecondPeriodNeedsARace /\ SetupIsComplete /\ DeletionsSpareBalances]_adminAuditVars
=============================================================================
