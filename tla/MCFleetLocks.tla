---------------------------- MODULE MCFleetLocks ----------------------------
(***************************************************************************)
(* Instance of MaintenanceFleet for the lock that updates and reboots      *)
(* share.  It starts in an evening on which every host has a plan that was *)
(* approved, announced and reported healthy; the whole day counts as       *)
(* evening.                                                                *)
(***************************************************************************)
EXTENDS MaintenanceFleetRefinement

CONSTANTS dev, x570, b550m

MCOrder == <<dev, x570, b550m>>
MCPairOrder == <<x570, b550m>>
MCMixedOrder == <<dev, x570>>
MCSingleOrder == <<x570>>
MCRebootHour == [h \in Hosts |-> 0]
MCReports == {[required |-> TRUE, healthy |-> TRUE]}
MCObservations == {[broken |-> FALSE, bad |-> {}]}
MCTroubles == [broken : {FALSE}, bad : SUBSET Checks] \cup {[broken |-> TRUE, bad |-> {}]}
MCHealth == [required : {TRUE}, healthy : BOOLEAN]

MCTarget == [h \in Hosts |-> IF h = x570 THEN 0 ELSE Gap]

Evening0 ==
  /\ now = 0
  /\ boot = [h \in Hosts |-> 1]
  /\ snapshot = [h \in Hosts |-> [bootId |-> 1, required |-> TRUE, healthy |-> TRUE,
                                  observedAt |-> 0]]
  /\ plan = [h \in Hosts |-> [phase |-> "scheduled", revision |-> 1, notified |-> 1,
                              target |-> MCTarget[h], bootId |-> 1, executionId |-> 0,
                              evening |-> h \in Pve]]
  /\ lastStart = [h \in Hosts |-> Never]
  /\ update = NoUpdate /\ gate = NoGate /\ executions = 0
  /\ inspection = [at |-> 0, broken |-> FALSE, bad |-> {}]
  /\ handled = {} /\ pending = {} /\ inFlight = {}
  /\ tick = NoTick /\ press = NoPress
  /\ approval = [h \in Hosts |-> IF h \in Pve THEN [bootId |-> 1, target |-> MCTarget[h]]
                                 ELSE NoApproval]
  /\ doubtAt = 0

EveningSpec == Evening0 /\ [][Next]_vars

\* Ages beyond every freshness bound are all alike.
Oldest == (IF Fresh > TickFresh THEN Fresh ELSE TickFresh) + 1
Age(t) == IF now - t > Oldest THEN Oldest ELSE now - t
AgedView ==
  <<now, boot, plan, lockVars, messageVars, inspection.broken, Age(inspection.at),
    {event.execution : event \in handled},
    [h \in Hosts |-> [snapshot[h] EXCEPT !.observedAt = Age(@)]]>>

\* Bounds: Discord answers before anything else happens, agents and monitoring
\* report in every unit of time, hosts restart while they execute only.
AnswerFirst ==
  pending # {} \/ inFlight # {} => pending' # pending \/ inFlight' # inFlight
Punctual ==
  now' # now => inspection.at = now /\ \A h \in Hosts : snapshot[h].observedAt = now
RebootsOnly == \A h \in Hosts : boot'[h] # boot[h] => Executing(plan[h])
Bounded == AnswerFirst /\ Punctual /\ RebootsOnly
=============================================================================
