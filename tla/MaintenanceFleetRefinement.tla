--------------------- MODULE MaintenanceFleetRefinement ---------------------
(***************************************************************************)
(* MaintenanceFleet implements ExclusiveMaintenance: the row of            *)
(* package_update and the running plan together are the one execution.     *)
(***************************************************************************)
EXTENDS MaintenanceFleet

\* The host under way: that of the row, or the one whose plan executes.
Holder ==
  IF update # NoUpdate THEN update.host
  ELSE IF \E h \in Hosts : Executing(plan[h])
  THEN CHOOSE h \in Hosts : Executing(plan[h]) ELSE NoHost

Stopped ==
  \/ gate.held = "operation" \/ update.failed
  \/ \E h \in Hosts : plan[h].phase = "failed"

Stage ==
  CASE Holder = NoHost -> "free"
    [] Holder # NoHost /\ Stopped -> "stopped"
    [] Holder # NoHost /\ ~Stopped /\ gate.completedAt # Unset -> "settling"
    [] Holder # NoHost /\ ~Stopped /\ gate.completedAt = Unset -> "working"

Exclusion == INSTANCE ExclusiveMaintenance
               WITH holder <- Holder, stage <- Stage, issued <- executions

\* The controller gives out one execution at a time, under fresh numbers, and
\* a stopped one never goes on: it can only end.
ImplementsExclusion == Exclusion!Init /\ [][Exclusion!Next]_(Exclusion!vars)
=============================================================================
