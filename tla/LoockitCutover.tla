--------------------------- MODULE LoockitCutover ---------------------------
(***************************************************************************)
(* The change of the two Loockit containers to a coordinator of their own  *)
(* (scripts/migrate-loockit-coordinator.py, which runs                     *)
(* ansible/loockit-lxc/deploy-container.sh on each host): the old standby  *)
(* is stopped, the active is redeployed, then the standby.  A coordinator  *)
(* grants one lease; containers of two coordinators can both lead.         *)
(*                                                                         *)
(* The deployment runs on the host and goes on when the program that       *)
(* started it is gone.                                                     *)
(***************************************************************************)
EXTENDS Naturals, FiniteSets

CONSTANTS Hosts, NoHost

\* HOSTS: two of them.
ASSUME HostsAssumption ==
  /\ \E g, h \in Hosts : g # h /\ Hosts = {g, h}
  /\ NoHost \notin Hosts

VARIABLES
  box,       \* box[h]: the container loockit, whether it runs and its coordinator
  aside,     \* aside[h]: the coordinator of loockit-rollback, or "none"
  deploying, \* deploying[h]: where deploy-container.sh is on h
  cutAt,     \* where the program is
  active,    \* the host that served at the beginning
  stage      \* the host that it deploys to

programVars == <<cutAt, active, stage>>
cutoverVars == <<box, aside, deploying, programVars>>

Other(h) == CHOOSE g \in Hosts : g # h
RunsOn(h, origin) == box[h].running /\ box[h].origin = origin
Deploys(h, place) == deploying' = [deploying EXCEPT ![h] = place]

-----------------------------------------------------------------------------
(* main *)

\* Two running containers of the old coordinator, one of which serves.
Inspect(h) ==
  /\ cutAt = "idle" /\ \A g \in Hosts : RunsOn(g, "old")
  /\ cutAt' = "stop" /\ active' = h
  /\ UNCHANGED <<box, aside, deploying, stage>>

StopStandby ==
  /\ cutAt = "stop"
  /\ box' = [box EXCEPT ![Other(active)].running = FALSE]
  /\ cutAt' = "deploy" /\ stage' = active
  /\ UNCHANGED <<aside, deploying, active>>

Deploy ==
  /\ cutAt = "deploy" /\ deploying[stage] = "no"
  /\ Deploys(stage, "pull")
  /\ cutAt' = "deploying"
  /\ UNCHANGED <<box, aside, active, stage>>

\* A mutant: any running container will do.
AnyRunning(h) == box[h].running

Switched(h) == RunsOn(h, "new")

\* The script has ended well and the container uses the new coordinator; an
\* exit status other than 0 ends the program.
Check ==
  /\ cutAt = "deploying" /\ deploying[stage] = "no" /\ Switched(stage)
  /\ IF stage = active THEN cutAt' = "deploy" /\ stage' = Other(active)
     ELSE cutAt' = "await" /\ UNCHANGED stage
  /\ UNCHANGED <<box, aside, deploying, active>>

\* Exactly one of them becomes ready in eight minutes.
Complete ==
  /\ cutAt = "await"
  /\ cutAt' = "complete"
  /\ UNCHANGED <<box, aside, deploying, active, stage>>

\* An error, a timeout or a signal ends the program.
ProgramEnds ==
  /\ cutAt \notin {"idle", "complete"}
  /\ cutAt' = "idle" /\ active' = NoHost /\ stage' = NoHost
  /\ UNCHANGED <<box, aside, deploying>>

-----------------------------------------------------------------------------
(* deploy-container.sh *)

\* The image is there, or the script ends before it touches anything.
Pulled(h, found) ==
  /\ deploying[h] = "pull"
  /\ Deploys(h, IF found THEN "swap" ELSE "no")
  /\ UNCHANGED <<box, aside, programVars>>

\* The old container is stopped and put aside.
PutAside(h) ==
  /\ deploying[h] = "swap"
  /\ box' = [box EXCEPT ![h].running = FALSE]
  /\ aside' = [aside EXCEPT ![h] = box[h].origin]
  /\ Deploys(h, "run")
  /\ UNCHANGED programVars

RunNew(h) ==
  /\ deploying[h] = "run"
  /\ box' = [box EXCEPT ![h] = [running |-> TRUE, origin |-> "new"]]
  /\ Deploys(h, "health")
  /\ UNCHANGED <<aside, programVars>>

Healthy(h) ==
  /\ deploying[h] = "health"
  /\ aside' = [aside EXCEPT ![h] = "none"]
  /\ Deploys(h, "no")
  /\ UNCHANGED <<box, programVars>>

\* rollback: docker run failed, or the container did not become healthy in two
\* minutes.  The old container is started, also if it did not run before.
Rollback(h) ==
  /\ deploying[h] \in {"run", "health"}
  /\ box' = [box EXCEPT ![h] = [running |-> TRUE, origin |-> aside[h]]]
  /\ aside' = [aside EXCEPT ![h] = "none"]
  /\ Deploys(h, "no")
  /\ UNCHANGED programVars

CutoverInit ==
  /\ box = [h \in Hosts |-> [running |-> TRUE, origin |-> "old"]]
  /\ aside = [h \in Hosts |-> "none"] /\ deploying = [h \in Hosts |-> "no"]
  /\ cutAt = "idle" /\ active = NoHost /\ stage = NoHost

CutoverNext ==
  \/ StopStandby \/ Deploy \/ Check \/ Complete \/ ProgramEnds
  \/ \E h \in Hosts :
       \/ Inspect(h) \/ PutAside(h) \/ RunNew(h) \/ Healthy(h) \/ Rollback(h)
       \/ \E found \in BOOLEAN : Pulled(h, found)

CutoverSpec == CutoverInit /\ [][CutoverNext]_cutoverVars

-----------------------------------------------------------------------------
(* Properties *)

\* The program reports completion only when both containers have left the old
\* coordinator, whatever the two deployments did.
CompleteMeansSwitched == cutAt = "complete" => \A h \in Hosts : RunsOn(h, "new")

\* "never run old and new lease owners together": no moment at which one
\* container follows the old coordinator and the other the new one.
NeverMixed == ~\E g, h \in Hosts : RunsOn(g, "old") /\ RunsOn(h, "new")
=============================================================================
