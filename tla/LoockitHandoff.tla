--------------------------- MODULE LoockitHandoff ---------------------------
(***************************************************************************)
(* What a hypervisor's agent makes sure of before and after a reboot       *)
(* (availability_check, handoff_loockit and pve_recovered of               *)
(* ansible/host-maintenance/files/maintenance-agent.py): the lock of the   *)
(* door stays operable through the other Loockit and a Tunnel elsewhere.   *)
(* Every endpoint is read by a request of its own, and what it tells may   *)
(* change before the next one.  MaintenanceAgents has this as the steps    *)
(* Pass, Handoff, StopLoockit and EndHandoff.                              *)
(***************************************************************************)
EXTENDS FiniteSets

CONSTANTS
  Nodes,        \* the hosts with a Tunnel connector
  Self, Peer,   \* the two hypervisors with a Loockit container, Self is to reboot
  Nobody

ASSUME PairAssumption == Self # Peer /\ Nobody \notin {Self, Peer}

VARIABLES
  alive,       \* the Loockit processes that run
  leader,      \* the one that holds the lease and serves
  tunnels,     \* the hosts whose connector is connected
  handoffAt,   \* where the agent is
  taken,       \* the peer was seen to serve after the stop
  looked,      \* processes that the check after the reboot has looked at
  serving,     \* those of them that it saw serving
  calm         \* history: nothing has failed since the checks began

agent == <<handoffAt, taken, looked, serving>>
handoffVars == <<alive, leader, tunnels, agent, calm>>

Pair == {Self, Peer}

\* loockit_state: the answer of /readyz, or of no process.
State(n) ==
  IF n \notin alive THEN "error" ELSE IF n = leader THEN "ready" ELSE "standby"

\* A mutant: the connector of the host to be rebooted counts.
AllConnected(reboot) == tunnels

\* The connectors that count, with reboot those of the other hosts.
Connected(reboot) == IF reboot THEN tunnels \ {Self} ELSE tunnels

AgentGoes(place) == handoffAt' = place /\ UNCHANGED <<taken, looked, serving>>

-----------------------------------------------------------------------------
(* pve_preflight *)

StartHandoff ==
  /\ handoffAt = "idle" /\ AgentGoes("peer") /\ calm' = TRUE
  /\ UNCHANGED <<alive, leader, tunnels>>

\* The peer serves already, or it is a standby: then the local one must serve.
SeePeer ==
  /\ handoffAt = "peer" /\ State(Peer) # "error"
  /\ AgentGoes(IF State(Peer) = "ready" THEN "check" ELSE "local")
  /\ UNCHANGED <<alive, leader, tunnels, calm>>

SeeLocal ==
  /\ handoffAt = "local" /\ State(Self) = "ready"
  /\ AgentGoes("tunnel")
  /\ UNCHANGED <<alive, leader, tunnels, calm>>

SeeTunnel ==
  /\ handoffAt = "tunnel" /\ Connected(TRUE) # {}
  /\ AgentGoes("stop")
  /\ UNCHANGED <<alive, leader, tunnels, calm>>

\* docker stop; the process gives up the lease.
Stop ==
  /\ handoffAt = "stop"
  /\ alive' = alive \ {Self} /\ leader' = IF leader = Self THEN Nobody ELSE leader
  /\ handoffAt' = "wait" /\ taken' = FALSE
  /\ UNCHANGED <<tunnels, looked, serving, calm>>

SeeTakeover ==
  /\ handoffAt = "wait" /\ State(Peer) = "ready"
  /\ handoffAt' = "restart" /\ taken' = TRUE
  /\ UNCHANGED <<alive, leader, tunnels, looked, serving, calm>>

Timeout ==
  /\ handoffAt = "wait" /\ AgentGoes("restart")
  /\ UNCHANGED <<alive, leader, tunnels, calm>>

\* docker start, in any case; without the takeover the reboot is held back.
RestartLocal ==
  /\ handoffAt = "restart"
  /\ alive' = alive \cup {Self}
  /\ AgentGoes(IF taken THEN "check" ELSE "idle")
  /\ UNCHANGED <<leader, tunnels, calm>>

\* availability_check before the reboot: the peer, then the connectors.
CheckPeer ==
  /\ handoffAt = "check" /\ State(Peer) = "ready"
  /\ AgentGoes("checkTunnels")
  /\ UNCHANGED <<alive, leader, tunnels, calm>>

CheckTunnels ==
  /\ handoffAt = "checkTunnels" /\ Connected(TRUE) # {}
  /\ AgentGoes("cleared")
  /\ UNCHANGED <<alive, leader, tunnels, calm>>

\* The check is repeated at the end of pve_preflight, and once the running
\* backups have been postponed.
CheckAgain ==
  /\ handoffAt = "cleared" /\ AgentGoes("check")
  /\ UNCHANGED <<alive, leader, tunnels, calm>>

\* A request, the policy or a command fails, or the agent ends; a stopped
\* container is started by the next run.
Blocked ==
  /\ handoffAt \in {"peer", "local", "tunnel", "stop", "wait", "restart",
                   "check", "checkTunnels", "cleared"}
  /\ AgentGoes("idle")
  /\ UNCHANGED <<alive, leader, tunnels, calm>>

-----------------------------------------------------------------------------
(* The reboot, and pve_recovered *)

Reboot ==
  /\ handoffAt = "cleared" /\ AgentGoes("down")
  /\ alive' = alive \ {Self} /\ leader' = IF leader = Self THEN Nobody ELSE leader
  /\ tunnels' = tunnels \ {Self}
  /\ UNCHANGED calm

Booted ==
  /\ handoffAt = "down" /\ AgentGoes("booted")
  /\ alive' = alive \cup {Self} /\ tunnels' = tunnels \cup {Self}
  /\ UNCHANGED <<leader, calm>>

\* availability_check after the reboot, at every report: the processes one
\* after the other ...
RecoveryCheck ==
  /\ handoffAt \in {"booted", "recovering"}
  /\ handoffAt' = "recovering" /\ looked' = {} /\ serving' = {} /\ calm' = TRUE
  /\ UNCHANGED <<alive, leader, tunnels, taken>>

LookAt(n) ==
  /\ handoffAt = "recovering" /\ n \in Pair \ looked /\ State(n) # "error"
  /\ looked' = looked \cup {n}
  /\ serving' = IF State(n) = "ready" THEN serving \cup {n} ELSE serving
  /\ UNCHANGED <<alive, leader, tunnels, handoffAt, taken, calm>>

\* ... exactly one of which must serve, and any connector.
Recovered ==
  /\ handoffAt = "recovering" /\ looked = Pair
  /\ Cardinality(serving) = 1 /\ Connected(FALSE) # {}
  /\ AgentGoes("recovered")
  /\ UNCHANGED <<alive, leader, tunnels, calm>>

Reported ==
  /\ handoffAt = "recovered" /\ AgentGoes("idle")
  /\ UNCHANGED <<alive, leader, tunnels, calm>>

-----------------------------------------------------------------------------
(* The Loockit pair and the connectors *)

\* A process takes the free lease.
TakesOver(n) ==
  /\ leader = Nobody /\ n \in alive /\ leader' = n
  /\ UNCHANGED <<alive, tunnels, agent, calm>>

\* A process dies, or only loses the lease.
ProcessFails(n, dies) ==
  /\ n \in alive /\ (dies \/ leader = n)
  /\ alive' = IF dies THEN alive \ {n} ELSE alive
  /\ leader' = IF leader = n THEN Nobody ELSE leader
  /\ calm' = FALSE
  /\ UNCHANGED <<tunnels, agent>>

ProcessStarts(n) ==
  /\ n \notin alive
  /\ n = Self => handoffAt \notin {"wait", "restart", "down"}
  /\ alive' = alive \cup {n}
  /\ UNCHANGED <<leader, tunnels, agent, calm>>

Disconnects(n) ==
  /\ n \in tunnels /\ tunnels' = tunnels \ {n} /\ calm' = FALSE
  /\ UNCHANGED <<alive, leader, agent>>

Connects(n) ==
  /\ n \notin tunnels /\ (n = Self => handoffAt # "down")
  /\ tunnels' = tunnels \cup {n}
  /\ UNCHANGED <<alive, leader, agent, calm>>

HandoffInit ==
  /\ alive = Pair /\ leader = Nobody /\ tunnels = Nodes
  /\ handoffAt = "idle" /\ taken = FALSE /\ looked = {} /\ serving = {} /\ calm = TRUE

HandoffNext ==
  \/ StartHandoff \/ SeePeer \/ SeeLocal \/ SeeTunnel \/ Stop \/ SeeTakeover \/ Timeout
  \/ RestartLocal \/ CheckPeer \/ CheckTunnels \/ CheckAgain \/ Blocked
  \/ Reboot \/ Booted \/ RecoveryCheck \/ Recovered \/ Reported
  \/ \E n \in Pair :
       LookAt(n) \/ TakesOver(n) \/ ProcessStarts(n)
         \/ \E dies \in BOOLEAN : ProcessFails(n, dies)
  \/ \E n \in Nodes : Disconnects(n) \/ Connects(n)

HandoffSpec == HandoffInit /\ [][HandoffNext]_handoffVars

-----------------------------------------------------------------------------
(* Properties *)

\* As long as nothing else fails, the door stays operable from the clearance
\* for the reboot until the host is back, whoever served before and in
\* whatever order the answers came; and a host is reported as recovered only
\* when both processes run, one of them serves and a connector is connected.
StillServed ==
  /\ calm /\ handoffAt \in {"cleared", "down"} => leader = Peer /\ tunnels \ {Self} # {}
  /\ calm /\ handoffAt = "recovered" =>
       alive = Pair /\ leader \in Pair /\ tunnels # {}
=============================================================================
