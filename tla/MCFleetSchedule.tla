-------------------------- MODULE MCFleetSchedule --------------------------
(***************************************************************************)
(* Instance of MaintenanceFleet for the scheduling of reboots: a day has   *)
(* six hours of which the last three are the evening, and a unit of time   *)
(* is one of them.                                                         *)
(***************************************************************************)
EXTENDS MaintenanceFleet

CONSTANTS dev, x570, b550m

MCOrder == <<x570, b550m>>
MCLegacyOrder == <<dev, x570>>
MCRebootHour == [h \in Hosts |-> IF h = dev THEN 1 ELSE IF h = x570 THEN 3 ELSE 5]
MCReports == {[required |-> TRUE, healthy |-> TRUE]}

CONSTANT MaxChanges

\* Bounds: publications outstanding at a time, and revisions drawn in all.
Bounded ==
  /\ Cardinality(inFlight) + Cardinality(pending) <= 1
  /\ \A h, k \in Hosts : h # k => plan[h].revision + plan[k].revision <= MaxChanges

\* The agents report in every unit of time.
Punctual == now' # now => \A h \in Hosts : snapshot[h].bootId # 0 /\ snapshot[h].observedAt = now

\* Ages beyond every freshness bound are all alike.
Oldest == (IF Fresh > TickFresh THEN Fresh ELSE TickFresh) + 1
Age(t) == IF now - t > Oldest THEN Oldest ELSE now - t
AgedView ==
  <<now, boot, plan, lockVars, messageVars, approval, handled, doubtAt,
    [h \in Hosts |-> [snapshot[h] EXCEPT !.observedAt = Age(@)]],
    [inspection EXCEPT !.at = Age(@)]>>
=============================================================================
