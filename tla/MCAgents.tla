------------------------------ MODULE MCAgents ------------------------------
(***************************************************************************)
(* Instance of MaintenanceAgents: a hypervisor and the development host,   *)
(* each with a plan whose time has come, from the evening of MCFleetLocks. *)
(***************************************************************************)
EXTENDS MCFleetLocks, MaintenanceAgents

AgentEveningSpec == Evening0 /\ AgentInit /\ [][AgentNext]_allVars

AgentView == <<AgedView, agentVars>>

\* Bounds: Discord answers before anything else happens; agents that may report
\* do so, and monitoring is seen, in every unit of time; only upgrades and
\* handoffs last longer than one; hosts restart while something is under way,
\* and are recovered while something of theirs is.
Lasting == {"idle", "upgrading", "stopped"}
UnderWay(h) ==
  \/ journal[h] # NoJournal \/ updateJournal[h] # NoUpdateJournal
  \/ update.host = h \/ Executing(plan[h])
AgentBounded ==
  /\ AnswerFirst
  /\ now' # now =>
       /\ inspection.at = now
       /\ \A h \in Hosts : at[h] \in Lasting
                          /\ (MayReport(h) => snapshot[h].observedAt = now)
  /\ \A h \in Hosts : boot'[h] # boot[h] => at[h] # "idle" \/ work[h] # 0
  /\ \A h \in Hosts : at[h] = "idle" /\ at'[h] = "recover" => UnderWay(h)
=============================================================================
