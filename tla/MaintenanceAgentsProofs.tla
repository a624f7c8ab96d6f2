----------------------- MODULE MaintenanceAgentsProofs -----------------------
(***************************************************************************)
(* Proofs about MaintenanceAgents: the agents and the controller together, *)
(* for every set of hosts and any losses, interruptions and restarts.      *)
(***************************************************************************)
EXTENDS MaintenanceAgents, MaintenanceFleetProofs

-----------------------------------------------------------------------------
(* The inductive invariant *)

Outcome == {"none", "blocked", "failed", "complete"}
Journals == [execution : Nat, bootId : Nat, outcome : Outcome, loockitStopped : BOOLEAN]
UpdateJournals == [execution : Nat, outcome : Outcome]

Places == {"idle", "claim", "claimed", "preflight", "handoff", "stopped", "ready", "result",
           "updateClaim", "updateClaimed", "updateCheck", "upgrading", "recover"}

AgentType ==
  /\ at \in [Hosts -> Places] /\ answer \in [Hosts -> Nat] /\ work \in [Hosts -> Nat]
  /\ journal \in [Hosts -> Journals] /\ updateJournal \in [Hosts -> UpdateJournals]
  /\ packages \in [Hosts -> {"clean", "upgrading", "broken"}]
  /\ stopped \in [Hosts -> BOOLEAN]

\* From the answer of a claim to the command that reboots, and from that of an
\* update claim to the end of apt-get.
Preparing(h) == at[h] \in {"claimed", "preflight", "handoff", "stopped", "ready"}
Updating(h) == at[h] \in {"updateClaimed", "updateCheck", "upgrading"}

\* Whoever claims has reported in this boot.  While it prepares, the controller
\* keeps its execution running, and nothing else is done to the host.
PreparedHeld(h) ==
  /\ at[h] = "claim" => snapshot[h].bootId = boot[h]
  /\ Preparing(h) =>
       /\ plan[h].phase = "running" /\ plan[h].bootId = boot[h] /\ work[h] = 0
       /\ plan[h].executionId = IF at[h] = "claimed" THEN answer[h] ELSE journal[h].execution
       /\ at[h] # "claimed" => journal[h].outcome = "none"
       /\ at[h] \in {"preflight", "ready"} => ~journal[h].loockitStopped

\* An accepted reboot is still to come: no journal gives it up meanwhile.
RebootHeld(h) ==
  Rebooting(h) =>
    /\ Executing(plan[h]) /\ plan[h].executionId = work[h] /\ plan[h].bootId = boot[h]
    /\ journal[h].outcome \notin {"blocked", "complete"} /\ ~journal[h].loockitStopped

\* From the update claim to the end of apt-get the row is the agent's.
UpdatingHeld(h) ==
  Updating(h) =>
    /\ update.host = h /\ gate.completedAt = Unset
    /\ update.execution = IF at[h] = "updateClaimed" THEN answer[h] ELSE updateJournal[h].execution
    /\ at[h] # "updateClaimed" => updateJournal[h].outcome = "none"
    /\ IF at[h] = "upgrading" THEN Upgrading(h) ELSE packages[h] = "clean"

\* Packages that are not whole keep the row, whatever becomes of the agent,
\* until a person has seen to them.
BrokenHeld(h) ==
  /\ packages[h] # "clean" =>
       /\ update.host = h /\ gate.completedAt = Unset
       /\ at[h] # "recover" /\ updateJournal[h].outcome \notin {"blocked", "complete"}
  /\ Upgrading(h) => work[h] # 0 /\ work[h] = update.execution
  /\ at[h] = "recover" => work[h] = 0

\* A plan is never of a boot that has not come yet.
BootKnown(h) == plan[h].bootId <= boot[h]

HostInv(h) ==
  PreparedHeld(h) /\ RebootHeld(h) /\ UpdatingHeld(h) /\ BrokenHeld(h) /\ BootKnown(h)

AgentInv ==
  LockInv /\ AgentType /\ CompletedIsDone /\ \A h \in Hosts : HostInv(h)

-----------------------------------------------------------------------------
(* What the controller may do behind an agent's back *)

\* It keeps a plan under which the host may be worked on ...
PlanKept(k) ==
  /\ Executing(plan[k]) /\ plan[k].bootId = boot[k] =>
       /\ plan'[k].phase = plan[k].phase /\ plan'[k].bootId = plan[k].bootId
       /\ plan'[k].executionId = plan[k].executionId
  /\ plan'[k].bootId <= boot[k]

\* ... and the row, until the completion was reported ...
RowKept(k) ==
  update.host = k /\ gate.completedAt = Unset =>
    /\ update'.host = k /\ update'.execution = update.execution
    /\ gate'.completedAt = Unset

\* ... and completes no gate.
GateKeptOpen ==
  gate'.completedAt # Unset =>
    /\ gate.completedAt # Unset /\ gate'.host = gate.host /\ gate'.kind = gate.kind
    /\ gate.kind = "reboot" => plan'[gate.host].bootId = plan[gate.host].bootId

\* Nothing happens on the host itself.
HostStill(k) ==
  /\ at'[k] = at[k] /\ answer'[k] = answer[k] /\ work'[k] = work[k]
  /\ journal'[k] = journal[k] /\ updateJournal'[k] = updateJournal[k]
  /\ packages'[k] = packages[k]
  /\ boot'[k] = boot[k] /\ snapshot'[k] = snapshot[k]

LEMMA StillHost ==
  ASSUME NEW k \in Hosts, HostInv(k), PlanKept(k), RowKept(k), HostStill(k)
  PROVE  HostInv(k)'
<1>1. PreparedHeld(k)'
  BY DEF HostInv, PreparedHeld, PlanKept, HostStill, Preparing, Executing
<1>2. RebootHeld(k)'
  BY DEF HostInv, RebootHeld, PlanKept, HostStill, Rebooting, Upgrading, Executing
<1>3. UpdatingHeld(k)'
  BY DEF HostInv, UpdatingHeld, RowKept, HostStill, Updating, Upgrading
<1>4. BrokenHeld(k)'
  BY DEF HostInv, BrokenHeld, RowKept, HostStill, Upgrading
<1>5. BootKnown(k)'
  BY DEF PlanKept, HostStill, BootKnown
<1> QED
  BY <1>1, <1>2, <1>3, <1>4, <1>5 DEF HostInv

\* The owner of a gate that is completed.
LEMMA CompletedOwner ==
  ASSUME LockInv, gate.completedAt # Unset
  PROVE  /\ gate # NoGate /\ gate.host \in Hosts
         /\ gate.kind \in {"update", "reboot"}
         /\ gate.kind = "update" => update # NoUpdate /\ update.host = gate.host
         /\ gate.kind = "reboot" => gate.host \in Pve /\ Executing(plan[gate.host])
<1>1. gate # NoGate
  BY DEF NoGate
<1> QED
  BY <1>1, HostsAssumption DEF LockInv, GateBacked, Numbered

LEMMA StillCompleted ==
  ASSUME LockInv, CompletedIsDone, GateKeptOpen,
         UNCHANGED <<work, packages, boot>>
  PROVE  CompletedIsDone'
BY DEF CompletedIsDone, GateKeptOpen

-----------------------------------------------------------------------------
(* Actions of the controller alone *)

\* What passes has been completed, and an observation completes nothing.
LEMMA ObservedCompletion ==
  ASSUME NEW g \in Gates, NEW problem \in BOOLEAN, NEW t \in Nat, NEW fresh
  PROVE  LET o == ObserveGate(g, problem, t, fresh)
         IN  /\ o.outcome = "passed" => g.completedAt # Unset
             /\ o.gate.completedAt = g.completedAt
<1> DEFINE stable == StableAfter(g, problem, t, fresh)
           seen == [g EXCEPT !.stableSince = stable, !.lastObservationAt = t]
           clean == [seen EXCEPT !.stableSince = IF stable = Unset THEN t ELSE stable]
           next == IF problem THEN seen ELSE clean
           o == ObserveGate(g, problem, t, fresh)
<1>1. stable \in OptionalTime /\ t \in OptionalTime
  BY DEF StableAfter, Gates, OptionalTime
<1>2. seen \in Gates /\ seen.completedAt = g.completedAt
  <2>1. [g EXCEPT !.stableSince = stable] \in Gates
    BY <1>1 DEF Gates
  <2> QED
    BY <1>1, <2>1 DEF Gates
<1> HIDE DEF stable, seen
<1>3. clean \in Gates /\ clean.completedAt = g.completedAt
  BY <1>1, <1>2 DEF Gates
<1> HIDE DEF clean
<1>4. \A x \in Gates, cause \in {"timeout", "operation"} : Held(x, cause).completedAt = x.completedAt
  BY DEF Held, Gates
<1>5. /\ o.gate \in {g, seen, next, Held(seen, "operation"), Held(next, "timeout")}
      /\ o.outcome = "passed" => g.completedAt # Unset
  BY DEF ObserveGate, seen, clean, stable
<1> HIDE DEF o
<1> QED
  BY <1>2, <1>3, <1>4, <1>5 DEF o

\* An observation ends an execution only when the gate was completed, and then
\* the work on that host is over.
LEMMA ObserveKeeps ==
  ASSUME LockInv, CompletedIsDone, \A k \in Hosts : BootKnown(k),
         NEW o \in Observations, Observe(o)
  PROVE  GateKeptOpen /\ \A k \in Hosts : PlanKept(k) /\ RowKept(k)
<1> DEFINE i == [at |-> now, broken |-> o.broken, bad |-> o.bad]
           h == gate.host
           problem == ~FreshAndHealthy(h) \/ Regressed(i, gate.baseline, now, Fresh)
           seen == ObserveGate(gate, problem, now, Fresh)
           passed == seen.outcome = "passed"
<1>1. CASE gate = NoGate
  <2>1. UNCHANGED <<update, plan, gate>>
    BY <1>1 DEF Observe
  <2> QED
    BY <2>1 DEF GateKeptOpen, PlanKept, RowKept, BootKnown
<1>2. CASE gate # NoGate
  <2>1. problem \in BOOLEAN /\ gate \in Gates /\ now \in Nat /\ plan \in [Hosts -> Plans]
        /\ boot \in [Hosts -> Nat]
    BY DEF Regressed, FreshAndHealthy, LockInv, TypeOK
  <2> HIDE DEF problem
  <2>2. /\ passed => gate.completedAt # Unset
        /\ seen.gate.completedAt = gate.completedAt
        /\ seen.gate.host = gate.host /\ seen.gate.kind = gate.kind
    BY <1>2, <2>1, ObservedCompletion, ObservedGate
  <2> HIDE DEF seen
  <2>3. /\ gate' = IF passed THEN NoGate ELSE seen.gate
        /\ ~passed => update' = update /\ plan' = plan
        /\ plan' = plan \/ (gate.kind = "reboot" /\ plan' = [plan EXCEPT ![h] = Removed(@)])
    BY <1>2 DEF Observe, seen, problem
  <2>4. CASE passed
    <3>1. GateKeptOpen
      BY <2>3, <2>4 DEF GateKeptOpen, NoGate
    <3>2. \A k \in Hosts : RowKept(k)
      BY <2>2, <2>4 DEF RowKept
    <3>3. ASSUME NEW k \in Hosts PROVE PlanKept(k)
      <4>1. CASE plan'[k] = plan[k]
        BY <4>1 DEF PlanKept, BootKnown
      <4>2. CASE plan'[k] # plan[k]
        <5>1. gate.kind = "reboot" /\ k = h /\ plan'[k] = Removed(plan[k])
          BY <2>1, <2>3, <4>2
        <5>2. boot[k] # plan[k].bootId
          BY <2>2, <2>4, <5>1 DEF CompletedIsDone
        <5>3. plan'[k].bootId = 0 /\ boot[k] \in Nat
          BY <2>1, <5>1 DEF Removed, Plans
        <5> QED
          BY <5>2, <5>3 DEF PlanKept
      <4> QED
        BY <4>1, <4>2
    <3> QED
      BY <3>1, <3>2, <3>3
  <2>5. CASE ~passed
    BY <2>2, <2>3, <2>5 DEF GateKeptOpen, PlanKept, RowKept, BootKnown
  <2> QED
    BY <2>4, <2>5
<1> QED
  BY <1>1, <1>2

LEMMA PublishEndKeeps ==
  ASSUME LockInv, \A k \in Hosts : BootKnown(k),
         NEW m \in inFlight, NEW accepted \in BOOLEAN, PublishEnd(m, accepted)
  PROVE  GateKeptOpen /\ \A k \in Hosts : PlanKept(k) /\ RowKept(k)
<1>1. plan \in [Hosts -> Plans] /\ UNCHANGED <<update, gate, boot>>
  BY DEF LockInv, TypeOK, PublishEnd, lockVars, worldVars
<1>2. plan' = plan \/ plan' = [plan EXCEPT ![m.host] = [@ EXCEPT !.notified = m.revision]]
  BY DEF PublishEnd
<1>3. \A k \in Hosts :
        /\ plan'[k].phase = plan[k].phase /\ plan'[k].bootId = plan[k].bootId
        /\ plan'[k].executionId = plan[k].executionId
  BY <1>1, <1>2 DEF Plans
<1>4. GateKeptOpen
  <2>1. gate.completedAt # Unset => gate.host \in Hosts
    BY CompletedOwner
  <2> QED
    BY <1>1, <1>3, <2>1 DEF GateKeptOpen
<1> QED
  BY <1>1, <1>3, <1>4 DEF PlanKept, RowKept, BootKnown

\* The controller without an agent leaves every host as it is.
LEMMA ControllerKeeps ==
  ASSUME AgentInv, ControllerAlone
  PROVE  AgentInv'
<1>1. LockInv'
  <2>1. Next
    BY DEF ControllerAlone, Next
  <2> QED
    BY <2>1, StepLock DEF AgentInv
<1>2. GateKeptOpen /\ \A k \in Hosts : PlanKept(k) /\ RowKept(k)
  <2> USE DEF AgentInv
  <2>1. \A k \in Hosts : BootKnown(k)
    BY DEF HostInv
  <2>2. CASE Advance \/ Restart \/ \E h \in Hosts : PublishStart(h)
    <3>1. UNCHANGED <<plan, update, gate>>
      BY <2>2 DEF Advance, Restart, PublishStart, lockVars
    <3> QED
      BY <2>1, <3>1 DEF GateKeptOpen, PlanKept, RowKept, BootKnown
  <2> QED
    BY <2>1, <2>2, ObserveKeeps, PublishEndKeeps DEF ControllerAlone
<1>3. UNCHANGED <<agentVars, boot, snapshot>>
  BY DEF ControllerAlone, Advance, Restart, PublishStart, PublishEnd, Observe, worldVars
<1>4. \A k \in Hosts : HostStill(k)
  BY <1>3 DEF HostStill, agentVars
<1>5. AgentType'
  BY <1>3 DEF AgentInv, AgentType, agentVars
<1>6. CompletedIsDone'
  BY <1>2, <1>3, StillCompleted DEF AgentInv, agentVars
<1> QED
  BY <1>1, <1>2, <1>4, <1>5, <1>6, StillHost DEF AgentInv

-----------------------------------------------------------------------------
(* Steps of an agent that the controller does not see *)

OthersStill(h) == \A k \in Hosts \ {h} : HostStill(k)

\* What is left to show of such a step: its types, its own host, and that it
\* begins no work on the host of a completed gate.
LEMMA LocalKeeps ==
  ASSUME AgentInv, NEW h \in Hosts, UNCHANGED vars, AgentType', OthersStill(h), HostInv(h)',
         \/ work'[h] = work[h] /\ packages'[h] = packages[h]
         \/ gate.completedAt = Unset \/ gate.host # h
  PROVE  AgentInv'
<1>1. LockInv' /\ UNCHANGED <<plan, update, gate, boot, snapshot>>
  BY StepLock DEF AgentInv, vars, lockVars, worldVars
<1>2. ASSUME NEW k \in Hosts \ {h} PROVE HostInv(k)'
  <2>1. PlanKept(k) /\ RowKept(k)
    BY <1>1 DEF AgentInv, HostInv, PlanKept, RowKept, BootKnown
  <2> QED
    BY <2>1, StillHost DEF AgentInv, OthersStill
<1>3. CompletedIsDone'
  <2>1. gate.completedAt # Unset => gate.host \in Hosts
    BY CompletedOwner DEF AgentInv
  <2> QED
    BY <1>1, <2>1 DEF AgentInv, CompletedIsDone, OthersStill, HostStill
<1> QED
  BY <1>1, <1>2, <1>3 DEF AgentInv

\* A step that changes nothing but what belongs to one host.
ChangedAt(h, f, g) == g = f \/ g = [f EXCEPT ![h] = g[h]]
OnlyHere(h) ==
  /\ ChangedAt(h, at, at') /\ ChangedAt(h, answer, answer') /\ ChangedAt(h, work, work')
  /\ ChangedAt(h, journal, journal') /\ ChangedAt(h, updateJournal, updateJournal')
  /\ ChangedAt(h, packages, packages') /\ ChangedAt(h, stopped, stopped')

LEMMA OneHost ==
  ASSUME AgentType, NEW h \in Hosts,
         \A k \in Hosts \ {h} : boot'[k] = boot[k] /\ snapshot'[k] = snapshot[k],
         OnlyHere(h), at'[h] \in Places, answer'[h] \in Nat, journal'[h] \in Journals,
         updateJournal'[h] \in UpdateJournals, work'[h] \in Nat, stopped'[h] \in BOOLEAN,
         packages'[h] \in {"clean", "upgrading", "broken"}
  PROVE  AgentType' /\ OthersStill(h)
<1>1. /\ at' \in [Hosts -> Places] /\ answer' \in [Hosts -> Nat] /\ work' \in [Hosts -> Nat]
      /\ \A k \in Hosts \ {h} : at'[k] = at[k] /\ answer'[k] = answer[k] /\ work'[k] = work[k]
  BY DEF AgentType, OnlyHere, ChangedAt
<1>2. /\ journal' \in [Hosts -> Journals] /\ updateJournal' \in [Hosts -> UpdateJournals]
      /\ \A k \in Hosts \ {h} :
           journal'[k] = journal[k] /\ updateJournal'[k] = updateJournal[k]
  BY DEF AgentType, OnlyHere, ChangedAt
<1>3. /\ packages' \in [Hosts -> {"clean", "upgrading", "broken"}]
      /\ stopped' \in [Hosts -> BOOLEAN]
      /\ \A k \in Hosts \ {h} : packages'[k] = packages[k]
  BY DEF AgentType, OnlyHere, ChangedAt
<1> QED
  BY <1>1, <1>2, <1>3 DEF AgentType, OthersStill, HostStill

\* Where an agent may be: what it means for its host.
LEMMA TypedHost ==
  ASSUME AgentInv, NEW h \in Hosts
  PROVE  /\ journal[h] \in Journals /\ updateJournal[h] \in UpdateJournals
         /\ answer[h] \in Nat /\ work[h] \in Nat /\ boot[h] \in Nat
         /\ packages[h] \in {"clean", "upgrading", "broken"} /\ HostInv(h)
BY DEF AgentInv, AgentType, LockInv, TypeOK

\* One that prepares a reboot: nobody works on its host, whose packages are
\* whole and whose gate is not completed.
LEMMA PreparingHost ==
  ASSUME AgentInv, NEW h \in Hosts, Preparing(h)
  PROVE  /\ Executing(plan[h]) /\ plan[h].bootId = boot[h] /\ work[h] = 0
         /\ packages[h] = "clean" /\ ~Upgrading(h) /\ ~Updating(h)
         /\ gate.completedAt = Unset \/ gate.host # h
<1>1. Executing(plan[h]) /\ plan[h].bootId = boot[h] /\ work[h] = 0
  BY DEF AgentInv, HostInv, PreparedHeld, Executing
<1>2. update = NoUpdate
  BY <1>1, OwnGate DEF AgentInv
<1>3. packages[h] = "clean"
  BY <1>2, HostAssumption DEF AgentInv, HostInv, BrokenHeld, NoUpdate
<1>4. gate.completedAt # Unset /\ gate.host = h => gate.kind = "reboot"
  BY <1>2, CompletedOwner DEF AgentInv
<1> QED
  BY <1>1, <1>3, <1>4 DEF AgentInv, CompletedIsDone, Upgrading, Updating, Preparing

\* It goes on preparing, with a journal that names the same execution.
LEMMA GoesOnPreparing ==
  ASSUME AgentInv, NEW h \in Hosts, Preparing(h), UNCHANGED vars,
         work'[h] = work[h], packages'[h] = packages[h],
         at'[h] \in {"preflight", "handoff", "stopped", "ready"},
         journal'[h].execution = IF at[h] = "claimed" THEN answer[h] ELSE journal[h].execution,
         journal'[h].outcome = "none",
         at'[h] \in {"preflight", "ready"} => ~journal'[h].loockitStopped
  PROVE  HostInv(h)'
<1>1. UNCHANGED <<plan, boot, update, gate>>
  BY DEF vars, worldVars, lockVars
<1>2. HostInv(h) /\ work[h] = 0 /\ packages[h] = "clean"
  BY TypedHost, PreparingHost
<1>3. PreparedHeld(h)'
  BY <1>1, <1>2 DEF HostInv, PreparedHeld, Preparing
<1>4. RebootHeld(h)' /\ UpdatingHeld(h)' /\ BrokenHeld(h)'
  BY <1>2 DEF RebootHeld, UpdatingHeld, BrokenHeld, Rebooting, Updating, Upgrading
<1>5. BootKnown(h)'
  BY <1>1, <1>2 DEF HostInv, BootKnown
<1> QED
  BY <1>3, <1>4, <1>5 DEF HostInv

\* It stops doing anything; what it leaves in the journals gives up no work.
LEMMA ComesToRest ==
  ASSUME AgentInv, NEW h \in Hosts, UNCHANGED vars,
         work'[h] = work[h], packages'[h] = packages[h], at'[h] \in {"idle", "result"},
         Rebooting(h) => /\ journal'[h].outcome \notin {"blocked", "complete"}
                         /\ ~journal'[h].loockitStopped,
         packages[h] # "clean" => updateJournal'[h].outcome \notin {"blocked", "complete"}
  PROVE  HostInv(h)'
<1>1. UNCHANGED <<plan, boot, update, gate>> /\ HostInv(h)
  BY TypedHost DEF vars, worldVars, lockVars
<1>2. PreparedHeld(h)' /\ UpdatingHeld(h)'
  BY DEF PreparedHeld, UpdatingHeld, Preparing, Updating
<1>3. RebootHeld(h)'
  BY <1>1 DEF HostInv, RebootHeld, Rebooting, Upgrading
<1>4. BrokenHeld(h)'
  BY <1>1 DEF HostInv, BrokenHeld, Upgrading
<1>5. BootKnown(h)'
  BY <1>1 DEF HostInv, BootKnown
<1> QED
  BY <1>2, <1>3, <1>4, <1>5 DEF HostInv

LEMMA SaveClaimKeeps ==
  ASSUME AgentInv, NEW h \in Hosts, SaveClaim(h)
  PROVE  AgentInv'
<1> DEFINE a == [NoJournal EXCEPT !.execution = answer[h]]
           b == [a EXCEPT !.bootId = boot[h]]
<1>1. b \in Journals /\ b.execution = answer[h] /\ b.outcome = "none" /\ ~b.loockitStopped
  <2>1. a \in Journals /\ a.execution = answer[h] /\ a.outcome = "none" /\ ~a.loockitStopped
    BY TypedHost DEF NoJournal, Journals, Outcome
  <2> HIDE DEF a
  <2> QED
    BY <2>1, TypedHost DEF Journals
<1>2. journal' = [journal EXCEPT ![h] = b]
  BY DEF SaveClaim, NoJournal
<1> HIDE DEF b
<1>3. /\ at' = [at EXCEPT ![h] = "preflight"] /\ answer' = [answer EXCEPT ![h] = 0]
      /\ at[h] = "claimed" /\ UNCHANGED <<vars, updateJournal, packages, stopped, work>>
  BY DEF SaveClaim, Goes
<1>4. /\ at'[h] = "preflight" /\ answer'[h] = 0 /\ journal'[h] = b
      /\ OnlyHere(h)
  BY <1>2, <1>3 DEF AgentInv, AgentType, OnlyHere, ChangedAt
<1>5. AgentType' /\ OthersStill(h)
  BY <1>1, <1>3, <1>4, OneHost DEF AgentInv, AgentType, Places, vars, worldVars
<1>6. HostInv(h)'
  BY <1>1, <1>3, <1>4, GoesOnPreparing DEF Preparing
<1> QED
  BY <1>3, <1>5, <1>6, LocalKeeps

\* The other steps that prepare a reboot.
LEMMA PreparingKeeps ==
  ASSUME AgentInv, NEW h \in Hosts,
         Pass(h) \/ Handoff(h) \/ StopLoockit(h)
  PROVE  AgentInv'
<1> DEFINE j == [journal[h] EXCEPT !.loockitStopped = TRUE]
<1>1. /\ journal[h] \in Journals /\ j \in Journals
      /\ j.execution = journal[h].execution /\ j.outcome = journal[h].outcome
  BY TypedHost DEF Journals
<1>2. /\ journal' = journal \/ journal' = [journal EXCEPT ![h] = j]
      /\ stopped' = stopped \/ stopped' = [stopped EXCEPT ![h] = TRUE]
      /\ \/ at[h] = "preflight" /\ at' = [at EXCEPT ![h] = "ready"] /\ journal' = journal
         \/ at[h] = "preflight" /\ at' = [at EXCEPT ![h] = "handoff"]
         \/ at[h] = "handoff" /\ at' = [at EXCEPT ![h] = "stopped"]
      /\ UNCHANGED <<vars, answer, updateJournal, packages, work>>
  BY DEF Pass, Handoff, StopLoockit, Goes
<1> HIDE DEF j
<1>3. /\ at'[h] \in {"ready", "handoff", "stopped"} /\ journal'[h] \in {journal[h], j}
      /\ at'[h] = "ready" => at[h] = "preflight" /\ journal' = journal
      /\ Preparing(h) /\ at[h] # "claimed" /\ stopped'[h] \in BOOLEAN
      /\ OnlyHere(h)
  BY <1>2 DEF AgentInv, AgentType, OnlyHere, ChangedAt, Preparing
<1>4. AgentType' /\ OthersStill(h)
  BY <1>1, <1>2, <1>3, OneHost DEF AgentInv, AgentType, Places, vars, worldVars
<1>5. journal[h].outcome = "none" /\ (at[h] = "preflight" => ~journal[h].loockitStopped)
  BY <1>3, TypedHost DEF HostInv, PreparedHeld
<1>6. HostInv(h)'
  BY <1>1, <1>2, <1>3, <1>5, GoesOnPreparing
<1> QED
  BY <1>2, <1>4, <1>6, LocalKeeps

LEMMA EndHandoffKeeps ==
  ASSUME AgentInv, NEW h \in Hosts, NEW restarted \in BOOLEAN, NEW serving \in BOOLEAN,
         EndHandoff(h, restarted, serving)
  PROVE  AgentInv'
<1> DEFINE outcome == IF restarted /\ serving THEN "none" ELSE "blocked"
           a == [journal[h] EXCEPT !.loockitStopped = ~restarted]
           j == [a EXCEPT !.outcome = outcome]
           place == IF restarted /\ serving THEN "ready" ELSE "result"
<1>1. /\ j \in Journals /\ j.execution = journal[h].execution
      /\ j.outcome = outcome /\ j.loockitStopped = ~restarted
  BY TypedHost DEF Journals, Outcome
<1>2. /\ at' = [at EXCEPT ![h] = place] /\ at[h] \in {"handoff", "stopped"}
      /\ journal' = [journal EXCEPT ![h] = j]
      /\ stopped' = stopped \/ stopped' = [stopped EXCEPT ![h] = FALSE]
      /\ UNCHANGED <<vars, answer, updateJournal, packages, work>>
  BY DEF EndHandoff, Goes, AgentInv, AgentType, Journals
<1> HIDE DEF j, a
<1>3. /\ at'[h] = place /\ journal'[h] = j /\ stopped'[h] \in BOOLEAN
      /\ OnlyHere(h) /\ Preparing(h) /\ at[h] # "claimed"
  BY <1>2 DEF AgentInv, AgentType, OnlyHere, ChangedAt, Preparing
<1>4. AgentType' /\ OthersStill(h)
  BY <1>1, <1>2, <1>3, OneHost DEF AgentInv, AgentType, Places, vars, worldVars
<1>5. HostInv(h)'
  <2>1. CASE restarted /\ serving
    BY <1>1, <1>2, <1>3, <2>1, GoesOnPreparing
  <2>2. CASE ~(restarted /\ serving)
    <3>1. ~Rebooting(h) /\ packages[h] = "clean"
      BY <1>3, PreparingHost DEF Rebooting
    <3> QED
      BY <1>2, <1>3, <2>2, <3>1, ComesToRest
  <2> QED
    BY <2>1, <2>2
<1> QED
  BY <1>2, <1>4, <1>5, LocalKeeps

\* An execution that is given up before anything was begun.
LEMMA GivenUpKeeps ==
  ASSUME AgentInv, NEW h \in Hosts, Block(h) \/ NothingToReboot(h)
  PROVE  AgentInv'
<1>1. PICK outcome \in {"blocked", "complete"} :
        journal' = [journal EXCEPT ![h] = [@ EXCEPT !.outcome = outcome]]
  BY DEF Block, NothingToReboot
<1> DEFINE j == [journal[h] EXCEPT !.outcome = outcome]
<1>2. j \in Journals
  BY TypedHost DEF Journals, Outcome
<1>3. /\ journal' = [journal EXCEPT ![h] = j] /\ at' = [at EXCEPT ![h] = "result"]
      /\ at[h] \in {"preflight", "ready"}
      /\ UNCHANGED <<vars, answer, updateJournal, packages, stopped, work>>
  BY <1>1 DEF Block, NothingToReboot, Goes
<1> HIDE DEF j
<1>4. at'[h] = "result" /\ journal'[h] = j /\ OnlyHere(h) /\ Preparing(h)
  BY <1>3 DEF AgentInv, AgentType, OnlyHere, ChangedAt, Preparing
<1>5. AgentType' /\ OthersStill(h)
  BY <1>2, <1>3, <1>4, OneHost DEF AgentInv, AgentType, Places, vars, worldVars
<1>6. HostInv(h)'
  <2>1. ~Rebooting(h) /\ packages[h] = "clean"
    BY <1>4, PreparingHost DEF Rebooting
  <2> QED
    BY <1>3, <1>4, <2>1, ComesToRest
<1> QED
  BY <1>3, <1>5, <1>6, LocalKeeps

\* The command that reboots: the work on the host begins, under the execution
\* that the controller has.
LEMMA RebootCommandKeeps ==
  ASSUME AgentInv, NEW h \in Hosts, NEW accepted \in BOOLEAN, NEW failed \in BOOLEAN,
         RebootCommand(h, accepted, failed)
  PROVE  AgentInv'
<1> DEFINE j == IF failed THEN [journal[h] EXCEPT !.outcome = "failed"] ELSE journal[h]
           w == IF accepted THEN journal[h].execution ELSE work[h]
           place == IF failed THEN "result" ELSE "idle"
<1>1. j \in Journals /\ w \in Nat /\ j.loockitStopped = journal[h].loockitStopped
      /\ j.outcome \in {"failed", journal[h].outcome}
  BY TypedHost DEF Journals, Outcome
<1>2. /\ at[h] = "ready" /\ at' = [at EXCEPT ![h] = place]
      /\ journal' = [journal EXCEPT ![h] = j] /\ work' = [work EXCEPT ![h] = w]
      /\ UNCHANGED <<vars, answer, updateJournal, packages, stopped>>
  BY DEF RebootCommand, Goes, AgentInv, AgentType
<1>3. w \in {work[h], journal[h].execution}
  OBVIOUS
<1> HIDE DEF j, w
<1>4. /\ at'[h] = place /\ journal'[h] = j /\ work'[h] = w
      /\ OnlyHere(h) /\ Preparing(h)
  BY <1>2 DEF AgentInv, AgentType, OnlyHere, ChangedAt, Preparing
<1>5. AgentType' /\ OthersStill(h)
  BY <1>1, <1>2, <1>4, OneHost DEF AgentInv, AgentType, Places, vars, worldVars
<1>6. HostInv(h)'
  <2>1. /\ HostInv(h) /\ work[h] = 0 /\ packages[h] = "clean" /\ Executing(plan[h])
        /\ plan[h].executionId = journal[h].execution /\ plan[h].bootId = boot[h]
        /\ journal[h].outcome = "none" /\ ~journal[h].loockitStopped
    BY <1>2, <1>4, TypedHost, PreparingHost DEF HostInv, PreparedHeld
  <2>2. UNCHANGED <<plan, boot, update, gate>> /\ packages'[h] = packages[h]
    BY <1>2 DEF vars, worldVars, lockVars
  <2>3. PreparedHeld(h)' /\ UpdatingHeld(h)'
    BY <1>4 DEF PreparedHeld, UpdatingHeld, Preparing, Updating
  <2>4. RebootHeld(h)'
    BY <1>1, <1>3, <1>4, <2>1, <2>2 DEF RebootHeld, Rebooting
  <2>5. BrokenHeld(h)'
    BY <1>4, <2>1, <2>2 DEF BrokenHeld, Upgrading
  <2>6. BootKnown(h)'
    BY <2>1, <2>2 DEF HostInv, BootKnown
  <2> QED
    BY <2>3, <2>4, <2>5, <2>6 DEF HostInv
<1> QED
  BY <1>2, <1>4, <1>5, <1>6, PreparingHost, LocalKeeps

\* A later run starts the container again; it gives up an interrupted
\* preparation only, never a reboot that was accepted.
LEMMA RestoreLoockitKeeps ==
  ASSUME AgentInv, NEW h \in Hosts, NEW saved \in BOOLEAN, NEW noted \in BOOLEAN,
         RestoreLoockit(h, saved, noted)
  PROVE  AgentInv'
<1> DEFINE unfinished == journal[h].bootId = boot[h] /\ journal[h].outcome = "none"
           a == [journal[h] EXCEPT !.loockitStopped = FALSE]
           b == [a EXCEPT !.outcome = IF unfinished /\ noted THEN "blocked" ELSE @]
           j == IF saved THEN b ELSE journal[h]
<1>1. j \in Journals
  BY TypedHost DEF Journals, Outcome
<1>2. /\ at[h] = "idle" /\ journal[h].loockitStopped
      /\ journal' = [journal EXCEPT ![h] = j] /\ stopped' = [stopped EXCEPT ![h] = FALSE]
      /\ UNCHANGED <<vars, at, answer, updateJournal, packages, work>>
  BY DEF RestoreLoockit, AgentInv, AgentType, Journals
<1> HIDE DEF j
<1>3. at'[h] = "idle" /\ journal'[h] = j /\ stopped'[h] = FALSE /\ OnlyHere(h)
  BY <1>2 DEF AgentInv, AgentType, OnlyHere, ChangedAt
<1>4. AgentType' /\ OthersStill(h)
  BY <1>1, <1>2, <1>3, OneHost DEF AgentInv, AgentType, vars, worldVars
<1>5. HostInv(h)'
  <2>1. ~Rebooting(h)
    BY <1>2, TypedHost DEF HostInv, RebootHeld
  <2>2. packages[h] # "clean" => updateJournal'[h].outcome \notin {"blocked", "complete"}
    BY <1>2, TypedHost DEF HostInv, BrokenHeld
  <2> QED
    BY <1>2, <1>3, <2>1, <2>2, ComesToRest
<1> QED
  BY <1>2, <1>4, <1>5, LocalKeeps

\* One that updates owns the row, which is not completed; nobody works on its
\* host before apt-get is started.
LEMMA UpdatingHost ==
  ASSUME AgentInv, NEW h \in Hosts, Updating(h)
  PROVE  /\ update.host = h /\ update # NoUpdate /\ gate.completedAt = Unset
         /\ update.execution # 0 /\ ~Executing(plan[h]) /\ ~Preparing(h) /\ ~Rebooting(h)
         /\ at[h] # "upgrading" => work[h] = 0 /\ packages[h] = "clean"
<1>1. update.host = h /\ gate.completedAt = Unset
      /\ (at[h] # "upgrading" => packages[h] = "clean")
  BY DEF AgentInv, HostInv, UpdatingHeld
<1>2. update # NoUpdate
  BY <1>1, HostAssumption DEF NoUpdate
<1>3. update.execution # 0
  BY <1>2 DEF AgentInv, LockInv, Numbered, TypeOK
<1>4. ~Executing(plan[h])
  BY <1>2, OwnUpdate DEF AgentInv
<1>5. ~Rebooting(h)
  BY <1>4 DEF AgentInv, HostInv, RebootHeld
<1> QED
  BY <1>1, <1>2, <1>3, <1>4, <1>5 DEF Rebooting, Upgrading, Updating, Preparing

LEMMA SaveUpdateClaimKeeps ==
  ASSUME AgentInv, NEW h \in Hosts, SaveUpdateClaim(h)
  PROVE  AgentInv'
<1> DEFINE j == [NoUpdateJournal EXCEPT !.execution = answer[h]]
<1>1. j \in UpdateJournals /\ j.execution = answer[h] /\ j.outcome = "none"
  BY TypedHost DEF NoUpdateJournal, UpdateJournals, Outcome
<1>2. /\ at[h] = "updateClaimed" /\ at' = [at EXCEPT ![h] = "updateCheck"]
      /\ updateJournal' = [updateJournal EXCEPT ![h] = j]
      /\ answer' = [answer EXCEPT ![h] = 0]
      /\ UNCHANGED <<vars, journal, packages, stopped, work>>
  BY DEF SaveUpdateClaim, Goes
<1> HIDE DEF j
<1>3. /\ at'[h] = "updateCheck" /\ updateJournal'[h] = j /\ answer'[h] = 0
      /\ OnlyHere(h) /\ Updating(h)
  BY <1>2 DEF AgentInv, AgentType, OnlyHere, ChangedAt, Updating
<1>4. AgentType' /\ OthersStill(h)
  BY <1>1, <1>2, <1>3, OneHost DEF AgentInv, AgentType, Places, vars, worldVars
<1>5. HostInv(h)'
  <2>1. HostInv(h) /\ work[h] = 0 /\ packages[h] = "clean"
    BY <1>2, <1>3, TypedHost, UpdatingHost
  <2>2. UNCHANGED <<plan, boot, update, gate, work, packages>>
    BY <1>2 DEF vars, worldVars, lockVars
  <2>3. PreparedHeld(h)' /\ RebootHeld(h)' /\ BrokenHeld(h)'
    BY <1>3, <2>1, <2>2 DEF PreparedHeld, RebootHeld, BrokenHeld, Preparing, Rebooting, Upgrading
  <2>4. UpdatingHeld(h)'
    BY <1>1, <1>2, <1>3, <2>1, <2>2 DEF HostInv, UpdatingHeld, Updating
  <2>5. BootKnown(h)'
    BY <2>1, <2>2 DEF HostInv, BootKnown
  <2> QED
    BY <2>3, <2>4, <2>5 DEF HostInv
<1> QED
  BY <1>2, <1>4, <1>5, LocalKeeps

LEMMA BlockUpdateKeeps ==
  ASSUME AgentInv, NEW h \in Hosts, BlockUpdate(h)
  PROVE  AgentInv'
<1> DEFINE j == [updateJournal[h] EXCEPT !.outcome = "blocked"]
<1>1. j \in UpdateJournals
  BY TypedHost DEF UpdateJournals, Outcome
<1>2. /\ at[h] = "updateCheck" /\ at' = [at EXCEPT ![h] = "idle"]
      /\ updateJournal' = [updateJournal EXCEPT ![h] = j]
      /\ UNCHANGED <<vars, answer, journal, packages, stopped, work>>
  BY DEF BlockUpdate, Goes, Ends
<1> HIDE DEF j
<1>3. at'[h] = "idle" /\ updateJournal'[h] = j /\ OnlyHere(h) /\ Updating(h)
  BY <1>2 DEF AgentInv, AgentType, OnlyHere, ChangedAt, Updating
<1>4. AgentType' /\ OthersStill(h)
  BY <1>1, <1>2, <1>3, OneHost DEF AgentInv, AgentType, Places, vars, worldVars
<1>5. HostInv(h)'
  BY <1>2, <1>3, UpdatingHost, ComesToRest
<1> QED
  BY <1>2, <1>4, <1>5, LocalKeeps

\* apt-get begins: the work on the host begins, under the row's execution.
LEMMA StartUpgradeKeeps ==
  ASSUME AgentInv, NEW h \in Hosts, StartUpgrade(h)
  PROVE  AgentInv'
<1>1. /\ at[h] = "updateCheck" /\ at' = [at EXCEPT ![h] = "upgrading"]
      /\ packages' = [packages EXCEPT ![h] = "upgrading"]
      /\ work' = [work EXCEPT ![h] = updateJournal[h].execution]
      /\ UNCHANGED <<vars, answer, journal, updateJournal, stopped>>
  BY DEF StartUpgrade, Goes
<1>2. /\ at'[h] = "upgrading" /\ packages'[h] = "upgrading"
      /\ work'[h] = updateJournal[h].execution /\ OnlyHere(h) /\ Updating(h)
  BY <1>1 DEF AgentInv, AgentType, OnlyHere, ChangedAt, Updating
<1>3. AgentType' /\ OthersStill(h)
  BY <1>1, <1>2, OneHost DEF AgentInv, AgentType, Places, UpdateJournals, vars, worldVars
<1>4. HostInv(h)'
  <2>1. /\ HostInv(h) /\ update.host = h /\ gate.completedAt = Unset
        /\ update.execution = updateJournal[h].execution /\ update.execution # 0
        /\ updateJournal[h].outcome = "none"
    BY <1>1, <1>2, TypedHost, UpdatingHost DEF HostInv, UpdatingHeld
  <2>2. UNCHANGED <<plan, boot, update, gate>>
    BY <1>1 DEF vars, worldVars, lockVars
  <2>3. PreparedHeld(h)' /\ RebootHeld(h)'
    BY <1>2 DEF PreparedHeld, RebootHeld, Preparing, Rebooting, Upgrading
  <2>4. UpdatingHeld(h)'
    BY <1>1, <1>2, <2>1, <2>2 DEF UpdatingHeld, Updating, Upgrading
  <2>5. BrokenHeld(h)'
    BY <1>1, <1>2, <2>1, <2>2 DEF BrokenHeld, Upgrading
  <2>6. BootKnown(h)'
    BY <2>1, <2>2 DEF HostInv, BootKnown
  <2> QED
    BY <2>3, <2>4, <2>5, <2>6 DEF HostInv
<1> QED
  BY <1>1, <1>2, <1>3, <1>4, UpdatingHost, LocalKeeps

\* The work of an upgrade ends; what is left is whole or broken.
LEMMA UpgradeOver ==
  ASSUME AgentInv, NEW h \in Hosts, UNCHANGED vars, Upgrading(h), work'[h] = 0,
         at'[h] \notin {"claim", "recover"}, ~Preparing(h)', ~Updating(h)',
         packages'[h] \in {"clean", "broken"},
         packages'[h] = "broken" => updateJournal'[h].outcome \notin {"blocked", "complete"}
  PROVE  HostInv(h)'
<1>1. UNCHANGED <<plan, boot, update, gate>> /\ HostInv(h)
  BY TypedHost DEF vars, worldVars, lockVars
<1>2. PreparedHeld(h)' /\ RebootHeld(h)' /\ UpdatingHeld(h)'
  BY DEF PreparedHeld, RebootHeld, UpdatingHeld, Rebooting
<1>3. BrokenHeld(h)'
  BY <1>1 DEF HostInv, BrokenHeld, Upgrading
<1>4. BootKnown(h)'
  BY <1>1 DEF HostInv, BootKnown
<1> QED
  BY <1>1, <1>2, <1>3, <1>4 DEF HostInv

\* An upgrade runs while its row is not completed.
LEMMA UpgradingHost ==
  ASSUME AgentInv, NEW h \in Hosts, Upgrading(h)
  PROVE  /\ update.host = h /\ gate.completedAt = Unset /\ at[h] # "recover" /\ ~Preparing(h)
         /\ at[h] \notin {"updateClaimed", "updateCheck"}
         /\ updateJournal[h].outcome \notin {"blocked", "complete"}
<1>1. /\ update.host = h /\ gate.completedAt = Unset /\ at[h] # "recover"
      /\ updateJournal[h].outcome \notin {"blocked", "complete"}
  BY DEF AgentInv, HostInv, BrokenHeld, Upgrading
<1>2. at[h] \notin {"updateClaimed", "updateCheck"}
  BY DEF AgentInv, HostInv, UpdatingHeld, Updating, Upgrading
<1> QED
  BY <1>1, <1>2, PreparingHost

LEMMA EndUpgradeKeeps ==
  ASSUME AgentInv, NEW h \in Hosts, NEW success \in BOOLEAN, EndUpgrade(h, success)
  PROVE  AgentInv'
<1> DEFINE left == IF success THEN "clean" ELSE "broken"
           j == [updateJournal[h] EXCEPT !.outcome = OutcomeOf(success)]
<1>1. j \in UpdateJournals /\ j.outcome = IF success THEN "complete" ELSE "failed"
  BY TypedHost DEF UpdateJournals, Outcome, OutcomeOf
<1>2. /\ at[h] = "upgrading" /\ at' = [at EXCEPT ![h] = "idle"]
      /\ packages' = [packages EXCEPT ![h] = left] /\ work' = [work EXCEPT ![h] = 0]
      /\ updateJournal' = [updateJournal EXCEPT ![h] = j]
      /\ UNCHANGED <<vars, answer, journal, stopped>>
  BY DEF EndUpgrade, Goes, Ends
<1> HIDE DEF j
<1>3. /\ at'[h] = "idle" /\ updateJournal'[h] = j /\ packages'[h] = left /\ work'[h] = 0
      /\ OnlyHere(h) /\ Updating(h)
  BY <1>2 DEF AgentInv, AgentType, OnlyHere, ChangedAt, Updating
<1>4. AgentType' /\ OthersStill(h)
  BY <1>1, <1>2, <1>3, OneHost DEF AgentInv, AgentType, Places, vars, worldVars
<1>5. Upgrading(h)
  BY <1>2, <1>3, TypedHost DEF HostInv, UpdatingHeld
<1>6. HostInv(h)'
  BY <1>1, <1>2, <1>3, <1>5, UpgradeOver DEF Preparing, Updating
<1> QED
  BY <1>2, <1>4, <1>5, <1>6, UpgradingHost, LocalKeeps

LEMMA OrphanEndsKeeps ==
  ASSUME AgentInv, NEW h \in Hosts, OrphanEnds(h)
  PROVE  AgentInv'
<1>1. /\ at[h] # "upgrading" /\ Upgrading(h)
      /\ packages' = [packages EXCEPT ![h] = "broken"] /\ work' = [work EXCEPT ![h] = 0]
      /\ UNCHANGED <<vars, at, answer, journal, updateJournal, stopped>>
  BY DEF OrphanEnds
<1>2. packages'[h] = "broken" /\ work'[h] = 0 /\ OnlyHere(h)
  BY <1>1 DEF AgentInv, AgentType, OnlyHere, ChangedAt
<1>3. AgentType' /\ OthersStill(h)
  BY <1>1, <1>2, OneHost DEF AgentInv, AgentType, vars, worldVars
<1>4. HostInv(h)'
  <2>1. HostInv(h) /\ ~Preparing(h) /\ ~Updating(h) /\ at[h] # "recover"
        /\ updateJournal[h].outcome \notin {"blocked", "complete"}
    BY <1>1, TypedHost, UpgradingHost DEF Updating
  <2>2. UNCHANGED <<plan, boot, update, gate, snapshot>>
    BY <1>1 DEF vars, worldVars, lockVars
  <2>3. PreparedHeld(h)'
    BY <1>1, <2>1, <2>2 DEF HostInv, PreparedHeld, Preparing
  <2>4. RebootHeld(h)' /\ UpdatingHeld(h)'
    BY <1>1, <1>2, <2>1 DEF RebootHeld, UpdatingHeld, Rebooting, Updating
  <2>5. BrokenHeld(h)'
    BY <1>1, <1>2, <2>1, <2>2 DEF HostInv, BrokenHeld, Upgrading
  <2>6. BootKnown(h)'
    BY <2>1, <2>2 DEF HostInv, BootKnown
  <2> QED
    BY <2>3, <2>4, <2>5, <2>6 DEF HostInv
<1> QED
  BY <1>1, <1>3, <1>4, UpgradingHost, LocalKeeps

\* The agent is gone, and its upgrade with it or not.
LEMMA AgentEndsKeeps ==
  ASSUME AgentInv, NEW h \in Hosts, NEW survives \in BOOLEAN, AgentEnds(h, survives)
  PROVE  AgentInv'
<1>1. /\ at' = [at EXCEPT ![h] = "idle"] /\ answer' = [answer EXCEPT ![h] = 0]
      /\ UNCHANGED <<vars, journal, updateJournal, stopped>>
      /\ \/ /\ Upgrading(h) /\ packages' = [packages EXCEPT ![h] = "broken"]
            /\ work' = [work EXCEPT ![h] = 0]
         \/ UNCHANGED <<packages, work>>
  BY DEF AgentEnds, Goes, Ends
<1>2. /\ at'[h] = "idle" /\ answer'[h] = 0 /\ OnlyHere(h)
      /\ work'[h] \in {0, work[h]} /\ packages'[h] \in {"broken", packages[h]}
  BY <1>1 DEF AgentInv, AgentType, OnlyHere, ChangedAt
<1>3. AgentType' /\ OthersStill(h)
  BY <1>1, <1>2, OneHost DEF AgentInv, AgentType, Places, vars, worldVars
<1>4. CASE Upgrading(h) /\ packages' = [packages EXCEPT ![h] = "broken"]
           /\ work' = [work EXCEPT ![h] = 0]
  <2>1. packages'[h] = "broken" /\ work'[h] = 0
    BY <1>4 DEF AgentInv, AgentType
  <2>2. HostInv(h)'
    BY <1>1, <1>2, <1>4, <2>1, UpgradingHost, UpgradeOver DEF Preparing, Updating
  <2> QED
    BY <1>1, <1>3, <1>4, <2>2, UpgradingHost, LocalKeeps
<1>5. CASE UNCHANGED <<packages, work>>
  <2>1. HostInv(h)'
    BY <1>1, <1>2, <1>5, TypedHost, ComesToRest DEF HostInv, RebootHeld, BrokenHeld
  <2> QED
    BY <1>1, <1>3, <1>5, <2>1, LocalKeeps
<1> QED
  BY <1>1, <1>4, <1>5

-----------------------------------------------------------------------------
(* Steps that an agent takes with the controller *)

\* What is left to show of such a step.
LEMMA SharedKeeps ==
  ASSUME AgentInv, NEW h \in Hosts, Next, AgentType', OthersStill(h),
         \A k \in Hosts \ {h} : PlanKept(k) /\ RowKept(k),
         HostInv(h)', CompletedIsDone'
  PROVE  AgentInv'
<1>1. LockInv'
  BY StepLock DEF AgentInv
<1>2. \A k \in Hosts \ {h} : HostInv(k)'
  BY StillHost DEF AgentInv, OthersStill
<1> QED
  BY <1>1, <1>2 DEF AgentInv

LEMMA ReportFrame ==
  ASSUME AgentInv, NEW h \in Hosts, NEW r \in Reports, Report(h, r)
  PROVE  /\ Next /\ UNCHANGED <<boot, update>> /\ snapshot'[h].bootId = boot[h]
         /\ \A k \in Hosts \ {h} : snapshot'[k] = snapshot[k]
         /\ \A k \in Hosts : PlanKept(k) /\ RowKept(k)
<1>1. /\ UNCHANGED <<boot, update>> /\ snapshot'[h].bootId = boot[h]
      /\ \A k \in Hosts \ {h} : snapshot'[k] = snapshot[k]
  BY DEF Report, worldVars, AgentInv, LockInv, TypeOK
<1>2. \A k \in Hosts : plan[k] \in Plans /\ BootKnown(k) /\ boot[k] \in Nat
  BY DEF AgentInv, HostInv, LockInv, TypeOK
<1>3. /\ plan' = [plan EXCEPT ![h] = plan'[h]]
      /\ plan'[h].bootId \in {plan[h].bootId, 0}
      /\ Executing(plan[h]) /\ plan[h].bootId = boot[h] => plan'[h] = plan[h]
  BY ReportedPlan DEF AgentInv, LockInv
<1>4. ASSUME NEW k \in Hosts PROVE PlanKept(k)
  <2>1. CASE k = h
    BY <1>2, <1>3, <2>1 DEF PlanKept, BootKnown
  <2>2. CASE k # h
    BY <1>2, <1>3, <2>2 DEF PlanKept, BootKnown, AgentInv, LockInv, TypeOK
  <2> QED
    BY <2>1, <2>2
<1>5. ASSUME NEW k \in Hosts, update.host = k PROVE RowKept(k)
  <2>1. update # NoUpdate
    BY <1>5, HostAssumption DEF NoUpdate
  <2>2. ~Executing(plan[h])
    BY <2>1, OwnUpdate DEF AgentInv
  <2>3. gate' = gate
    BY <2>2 DEF Report, Executing
  <2> QED
    BY <1>1, <2>3 DEF RowKept
<1>6. Next
  BY DEF Next
<1> QED
  BY <1>1, <1>4, <1>5, <1>6 DEF RowKept

\* A report completes a gate only when the host has left the boot of its plan.
LEMMA ReportCompletes ==
  ASSUME AgentInv, NEW h \in Hosts, NEW r \in Reports, Report(h, r), work' = work,
         \A k \in Hosts : packages'[k] \in {packages[k], "clean"}
  PROVE  CompletedIsDone'
<1> DEFINE p == plan[h]
           recovered == p.phase = "running" /\ p.bootId # boot[h] /\ r.healthy
           gated == recovered /\ h \in Pve /\ gate.execution = p.executionId
<1>1. /\ gate' = IF gated THEN Finished(gate, h, p.executionId) ELSE gate
      /\ boot' = boot
  BY DEF Report, worldVars
<1>2. /\ plan' = [plan EXCEPT ![h] = plan'[h]] /\ plan \in [Hosts -> Plans]
      /\ Executing(p) => plan'[h] = IF recovered /\ ~gated THEN Removed(p) ELSE p
  BY ReportedPlan DEF AgentInv, LockInv, TypeOK
<1>3. CASE gated
  <2>1. Executing(p) /\ gate.host = h /\ gate.kind = "reboot" /\ update = NoUpdate
    BY <1>3, OwnGate DEF AgentInv, Executing
  <2>2. gate'.host = h /\ gate'.kind = "reboot"
    BY <1>1, <1>3, <2>1, FinishedGate DEF AgentInv, LockInv, TypeOK
  <2>3. plan'[h] = p
    BY <1>2, <1>3, <2>1
  <2>4. ~Upgrading(h)
    BY <2>1, UpgradingHost, HostAssumption DEF NoUpdate
  <2>5. work[h] = 0
    BY <1>3, <2>4 DEF AgentInv, HostInv, RebootHeld, Rebooting
  <2> QED
    BY <1>1, <1>3, <2>2, <2>3, <2>5 DEF CompletedIsDone
<1>4. CASE ~gated
  <2>1. gate' = gate
    BY <1>1, <1>4
  <2>2. ASSUME gate.completedAt # Unset
        PROVE  /\ gate.host \in Hosts
               /\ gate.kind = "reboot" => plan'[gate.host].bootId = plan[gate.host].bootId
    <3>1. gate.host \in Hosts /\ (gate.kind = "reboot" => gate.host \in Pve /\ Executing(plan[gate.host]))
      BY <2>2, CompletedOwner DEF AgentInv
    <3>2. CASE gate.kind = "reboot" /\ gate.host = h
      <4>1. gate.execution = p.executionId
        BY <3>1, <3>2, OwnGate DEF AgentInv
      <4> QED
        BY <1>2, <1>4, <3>1, <3>2, <4>1
    <3> QED
      BY <1>2, <3>1, <3>2
  <2> QED
    BY <1>1, <2>1, <2>2 DEF AgentInv, CompletedIsDone
<1> QED
  BY <1>3, <1>4

LEMMA ReportedHost ==
  ASSUME AgentInv, NEW h \in Hosts, NEW r \in Reports, Report(h, r), at[h] = "idle",
         at'[h] \in {"idle", "claim", "updateClaim", "recover"},
         work'[h] = work[h], updateJournal'[h] = updateJournal[h],
         journal'[h] \in {journal[h], NoJournal},
         packages'[h] = packages[h] \/ (packages'[h] = "clean" /\ work[h] = 0),
         at'[h] = "recover" => packages'[h] = "clean" /\ work[h] = 0
  PROVE  HostInv(h)'
<1>1. /\ PlanKept(h) /\ RowKept(h) /\ boot' = boot /\ update' = update
      /\ snapshot'[h].bootId = boot[h] /\ HostInv(h)
  BY ReportFrame, TypedHost
<1>2. PreparedHeld(h)' /\ UpdatingHeld(h)'
  BY <1>1 DEF PreparedHeld, UpdatingHeld, Preparing, Updating
<1>3. RebootHeld(h)'
  BY <1>1 DEF HostInv, RebootHeld, PlanKept, Rebooting, Upgrading, Executing, NoJournal
<1>4. BrokenHeld(h)'
  BY <1>1 DEF HostInv, BrokenHeld, RowKept, Upgrading
<1>5. BootKnown(h)'
  BY <1>1 DEF PlanKept, BootKnown
<1> QED
  BY <1>2, <1>3, <1>4, <1>5 DEF HostInv

LEMMA ReportsKeep ==
  ASSUME AgentInv, NEW h \in Hosts, NEW r \in Reports, NEW answered \in BOOLEAN,
         \/ ReportStep(h, r, answered) \/ UpdateReport(h, r, answered)
         \/ RecoverReport(h, r, answered)
  PROVE  AgentInv'
<1>1. /\ at[h] = "idle" /\ Report(h, r) /\ UNCHANGED <<answer, updateJournal, stopped, work>>
      /\ \E place \in {"idle", "claim", "updateClaim", "recover"} : at' = [at EXCEPT ![h] = place]
      /\ journal' = journal \/ journal' = [journal EXCEPT ![h] = NoJournal]
  BY DEF ReportStep, UpdateReport, RecoverReport, GoesIf, Goes
<1>2. \/ packages' = packages
      \/ packages' = [packages EXCEPT ![h] = "clean"] /\ work[h] = 0
  BY DEF ReportStep, UpdateReport, RecoverReport, PackageLockFree, Rebooting
<1>3. at'[h] = "recover" => packages'[h] = "clean" /\ work[h] = 0
  BY DEF ReportStep, UpdateReport, RecoverReport, PackageLockFree, Rebooting, GoesIf, Goes,
         AgentInv, AgentType
<1>4. NoJournal \in Journals
  BY DEF NoJournal, Journals, Outcome
<1>5. /\ at'[h] \in {"idle", "claim", "updateClaim", "recover"} /\ OnlyHere(h)
      /\ journal'[h] \in {journal[h], NoJournal}
      /\ packages'[h] = packages[h] \/ (packages'[h] = "clean" /\ work[h] = 0)
  BY <1>1, <1>2 DEF AgentInv, AgentType, OnlyHere, ChangedAt
<1>6. AgentType' /\ OthersStill(h)
  BY <1>1, <1>4, <1>5, ReportFrame, TypedHost, OneHost DEF AgentInv, AgentType, Places
<1>7. HostInv(h)'
  BY <1>1, <1>3, <1>5, ReportedHost
<1>8. CompletedIsDone'
  <2>1. \A k \in Hosts : packages'[k] \in {packages[k], "clean"}
    BY <1>2 DEF AgentInv, AgentType
  <2> QED
    BY <1>1, <2>1, ReportCompletes
<1> QED
  BY <1>1, <1>6, <1>7, <1>8, ReportFrame, SharedKeeps

LEMMA StartedOpen ==
  ASSUME NEW h, NEW e, NEW kind
  PROVE  StartedGate(h, e, kind).completedAt = Unset
BY DEF StartedGate, NoGate

\* While the row is free all packages are whole, and only a plan that is being
\* executed has its host worked on.
LEMMA IdleHosts ==
  ASSUME AgentInv, update = NoUpdate, NEW k \in Hosts
  PROVE  /\ packages[k] = "clean" /\ ~Updating(k)
         /\ ~Executing(plan[k]) => work[k] = 0 /\ ~Preparing(k)
<1>1. packages[k] = "clean" /\ ~Updating(k)
  BY HostAssumption DEF AgentInv, HostInv, BrokenHeld, UpdatingHeld, NoUpdate
<1>2. ~Executing(plan[k]) => work[k] = 0
  BY <1>1 DEF AgentInv, HostInv, RebootHeld, Rebooting, Upgrading
<1> QED
  BY <1>1, <1>2, PreparingHost

\* A plan that is claimed is of the boot in which the host has reported.
LEMMA ClaimStepKeeps ==
  ASSUME AgentInv, NEW h \in Hosts, NEW answered \in BOOLEAN, ClaimStep(h, answered)
  PROVE  AgentInv'
<1> DEFINE place == IF answered THEN "claimed" ELSE "idle"
           e == executions + 1
<1>1. /\ at[h] = "claim" /\ Claim(h) /\ at' = [at EXCEPT ![h] = place]
      /\ answer' = IF answered THEN [answer EXCEPT ![h] = executions'] ELSE answer
      /\ UNCHANGED <<journal, updateJournal, packages, stopped, work>>
  BY DEF ClaimStep, GoesIf, Goes
<1>2. /\ e \in Nat /\ executions' = e /\ update = NoUpdate /\ update' = NoUpdate
      /\ UNCHANGED <<boot, snapshot>> /\ gate = NoGate
      /\ \A k \in Hosts : ~Executing(plan[k])
  <2>1. \A k \in Hosts : ~Executing(plan[k])
    BY <1>1 DEF Claim, OthersIdle, Due, Executing
  <2>2. update = NoUpdate /\ update' = NoUpdate /\ UNCHANGED <<boot, snapshot>>
    BY <1>1 DEF Claim, worldVars
  <2>3. gate = NoGate
    BY <2>1, <2>2, IdleGate, HostsAssumption DEF AgentInv
  <2>4. e \in Nat /\ executions' = e
    BY <1>1 DEF Claim, AgentInv, LockInv, TypeOK
  <2> QED
    BY <2>1, <2>2, <2>3, <2>4
<1> HIDE DEF e
<1>3. /\ plan'[h].phase = "running" /\ plan'[h].executionId = e /\ plan'[h].bootId = boot[h]
      /\ \A k \in Hosts \ {h} : plan'[k] = plan[k]
  <2>1. snapshot[h].bootId = boot[h] /\ snapshot[h].bootId = plan[h].bootId
    BY <1>1 DEF Claim, Due, AgentInv, HostInv, PreparedHeld
  <2>2. plan[h] \in Plans /\ plan \in [Hosts -> Plans]
    BY DEF AgentInv, LockInv, TypeOK
  <2>3. plan' = [plan EXCEPT ![h].phase = "running", ![h].executionId = e]
    BY <1>1, <1>2 DEF Claim
  <2> QED
    BY <2>1, <2>2, <2>3 DEF Plans
<1>4. gate'.completedAt = Unset
  BY <1>1, <1>2, StartedOpen DEF Claim, NoGate
<1>5. /\ at'[h] = place /\ answer'[h] = (IF answered THEN e ELSE answer[h]) /\ OnlyHere(h)
  BY <1>1, <1>2 DEF AgentInv, AgentType, OnlyHere, ChangedAt
<1>6. AgentType' /\ OthersStill(h)
  BY <1>1, <1>2, <1>5, TypedHost, OneHost DEF AgentInv, AgentType, Places
<1>7. \A k \in Hosts \ {h} : PlanKept(k) /\ RowKept(k)
  BY <1>2, <1>3, HostAssumption, TypedHost DEF HostInv, BootKnown, PlanKept, RowKept, NoUpdate
<1>8. HostInv(h)'
  <2>1. packages[h] = "clean" /\ work[h] = 0
    BY <1>2, IdleHosts
  <2>2. PreparedHeld(h)'
    BY <1>1, <1>2, <1>3, <1>5, <2>1 DEF PreparedHeld, Preparing
  <2>3. RebootHeld(h)' /\ UpdatingHeld(h)' /\ BrokenHeld(h)'
    BY <1>1, <1>5, <2>1 DEF RebootHeld, UpdatingHeld, BrokenHeld, Rebooting, Updating, Upgrading
  <2>4. BootKnown(h)'
    BY <1>2, <1>3, TypedHost DEF BootKnown
  <2> QED
    BY <2>2, <2>3, <2>4 DEF HostInv
<1>9. CompletedIsDone'
  BY <1>4 DEF CompletedIsDone
<1> QED
  BY <1>1, <1>6, <1>7, <1>8, <1>9, SharedKeeps DEF Next

LEMMA UpdateClaimStepKeeps ==
  ASSUME AgentInv, NEW h \in Hosts, NEW answered \in BOOLEAN, UpdateClaimStep(h, answered)
  PROVE  AgentInv'
<1> DEFINE place == IF answered THEN "updateClaimed" ELSE "idle"
           e == executions + 1
<1>1. /\ at[h] = "updateClaim" /\ ClaimUpdate(h) /\ at' = [at EXCEPT ![h] = place]
      /\ answer' = IF answered THEN [answer EXCEPT ![h] = executions'] ELSE answer
      /\ UNCHANGED <<journal, updateJournal, packages, stopped, work>>
  BY DEF UpdateClaimStep, GoesIf, Goes
<1>2. /\ e \in Nat /\ executions' = e /\ update = NoUpdate
      /\ update'.host = h /\ update'.execution = e
      /\ UNCHANGED <<boot, snapshot, plan>> /\ gate'.completedAt = Unset
      /\ \A k \in Hosts : ~Executing(plan[k])
  BY <1>1, StartedOpen DEF ClaimUpdate, AgentInv, LockInv, TypeOK, worldVars
<1> HIDE DEF e
<1>3. /\ at'[h] = place /\ answer'[h] = (IF answered THEN e ELSE answer[h]) /\ OnlyHere(h)
  BY <1>1, <1>2 DEF AgentInv, AgentType, OnlyHere, ChangedAt
<1>4. AgentType' /\ OthersStill(h)
  BY <1>1, <1>2, <1>3, TypedHost, OneHost DEF AgentInv, AgentType, Places
<1>5. \A k \in Hosts \ {h} : PlanKept(k) /\ RowKept(k)
  BY <1>2, HostAssumption, TypedHost DEF HostInv, BootKnown, PlanKept, RowKept, NoUpdate
<1>6. HostInv(h)'
  <2>1. packages[h] = "clean" /\ work[h] = 0 /\ HostInv(h)
    BY <1>2, IdleHosts, TypedHost
  <2>2. PreparedHeld(h)' /\ RebootHeld(h)' /\ BrokenHeld(h)'
    BY <1>1, <1>3, <2>1 DEF PreparedHeld, RebootHeld, BrokenHeld, Preparing, Rebooting, Upgrading
  <2>3. UpdatingHeld(h)'
    BY <1>1, <1>2, <1>3, <2>1 DEF UpdatingHeld, Updating
  <2>4. BootKnown(h)'
    BY <1>2, <2>1 DEF HostInv, BootKnown
  <2> QED
    BY <2>2, <2>3, <2>4 DEF HostInv
<1>7. CompletedIsDone'
  BY <1>2 DEF CompletedIsDone
<1> QED
  BY <1>1, <1>4, <1>5, <1>6, <1>7, SharedKeeps DEF Next

\* A result that the controller has taken before changes nothing there.
LEMMA RepeatedUpdateResult ==
  ASSUME AgentInv, NEW h \in Hosts, UNCHANGED vars, at[h] = "idle",
         updateJournal' = updateJournal
           \/ updateJournal' = [updateJournal EXCEPT ![h] = NoUpdateJournal],
         UNCHANGED <<at, answer, journal, packages, stopped, work>>
  PROVE  AgentInv'
<1>1. NoUpdateJournal \in UpdateJournals /\ NoUpdateJournal.outcome = "none"
  BY DEF NoUpdateJournal, UpdateJournals, Outcome
<1>2. OnlyHere(h) /\ updateJournal'[h] \in {updateJournal[h], NoUpdateJournal}
  BY DEF AgentInv, AgentType, OnlyHere, ChangedAt
<1>3. AgentType' /\ OthersStill(h)
  BY <1>1, <1>2, OneHost DEF AgentInv, AgentType, vars, worldVars
<1>4. HostInv(h)'
  BY <1>1, <1>2, TypedHost, ComesToRest DEF HostInv, RebootHeld, BrokenHeld
<1> QED
  BY <1>3, <1>4, LocalKeeps

LEMMA HeldCompletion ==
  ASSUME NEW g \in Gates, NEW cause \in {"timeout", "operation"}
  PROVE  LET f == Held(g, cause)
         IN  f.completedAt = g.completedAt /\ f.host = g.host /\ f.kind = g.kind
BY DEF Held, Gates

\* A completion is reported of whole packages only; a failure keeps the row.
LEMMA SendUpdateResultKeeps ==
  ASSUME AgentInv, NEW h \in Hosts, NEW outcome \in {"blocked", "failed", "complete"},
         NEW answered \in BOOLEAN, SendUpdateResult(h, outcome, answered)
  PROVE  AgentInv'
<1>1. /\ at[h] = "idle" /\ updateJournal[h].outcome = outcome
      /\ updateJournal' = updateJournal
           \/ (outcome # "failed" /\ updateJournal' = [updateJournal EXCEPT ![h] = NoUpdateJournal])
      /\ UNCHANGED <<at, answer, journal, packages, stopped, work>>
      /\ UpdateResult(h, outcome) \/ UNCHANGED vars
  BY DEF SendUpdateResult, Outcomes
<1>2. CASE UNCHANGED vars
  BY <1>1, <1>2, RepeatedUpdateResult
<1>3. CASE UpdateResult(h, outcome)
  <2>1. update.host = h /\ update # NoUpdate /\ UNCHANGED <<boot, snapshot, plan>>
    BY <1>3, HostAssumption DEF UpdateResult, NoUpdate, worldVars
  <2>2. /\ \A k \in Hosts : ~Executing(plan[k])
        /\ gate.host = h /\ gate.kind = "update" /\ gate.execution = update.execution
        /\ gate \in Gates /\ update \in Updates /\ now \in Nat
    BY <2>1, OwnUpdate DEF AgentInv, LockInv, TypeOK
  <2>3. /\ ~Rebooting(h) /\ ~Preparing(h)
        /\ packages[h] # "clean" => outcome = "failed" /\ gate.completedAt = Unset
        /\ HostInv(h)
    BY <1>1, <2>2, TypedHost DEF HostInv, RebootHeld, BrokenHeld, Preparing
  <2>4. NoUpdateJournal \in UpdateJournals /\ NoUpdateJournal.outcome = "none"
    BY DEF NoUpdateJournal, UpdateJournals, Outcome
  <2>5. OnlyHere(h) /\ updateJournal'[h] \in {updateJournal[h], NoUpdateJournal}
        /\ (outcome = "failed" => updateJournal'[h] = updateJournal[h])
    BY <1>1 DEF AgentInv, AgentType, OnlyHere, ChangedAt
  <2>6. AgentType' /\ OthersStill(h)
    BY <1>1, <2>1, <2>4, <2>5, TypedHost, OneHost DEF AgentInv, AgentType
  <2>7. \A k \in Hosts \ {h} : PlanKept(k) /\ RowKept(k)
    BY <2>1, TypedHost DEF HostInv, BootKnown, PlanKept, RowKept
  <2>8. outcome = "failed" =>
          /\ update'.host = h /\ update'.execution = update.execution
          /\ gate'.completedAt = gate.completedAt /\ gate'.host = h /\ gate'.kind = "update"
    BY <1>3, <2>1, <2>2, HeldCompletion DEF UpdateResult, GateAfter, Updates
  <2>9. HostInv(h)'
    <3>1. PreparedHeld(h)' /\ RebootHeld(h)' /\ UpdatingHeld(h)'
      BY <1>1, <2>3 DEF PreparedHeld, RebootHeld, UpdatingHeld, Preparing, Updating,
         Rebooting, Upgrading
    <3>2. BrokenHeld(h)'
      BY <1>1, <2>3, <2>5, <2>8 DEF HostInv, BrokenHeld, Upgrading
    <3>3. BootKnown(h)'
      BY <2>1, <2>3 DEF HostInv, BootKnown
    <3> QED
      BY <3>1, <3>2, <3>3 DEF HostInv
  <2>10. CompletedIsDone'
    <3>1. CASE outcome = "failed"
      BY <1>1, <2>1, <2>2, <2>8, <3>1 DEF AgentInv, CompletedIsDone
    <3>2. CASE outcome = "complete"
      <4>1. gate'.host = h /\ gate'.kind = "update"
        BY <1>3, <2>2, <3>2, FinishedGate DEF UpdateResult
      <4>2. packages[h] = "clean" /\ work[h] = 0
        BY <2>3, <3>2 DEF Rebooting, Upgrading
      <4> QED
        BY <1>1, <4>1, <4>2 DEF CompletedIsDone
    <3>3. CASE outcome = "blocked"
      BY <1>3, <2>2, <3>3 DEF UpdateResult, GateAfter, CompletedIsDone, NoGate
    <3> QED
      BY <3>1, <3>2, <3>3
  <2>11. Next
    BY <1>3 DEF Next
  <2> QED
    BY <2>6, <2>7, <2>9, <2>10, <2>11, SharedKeeps
<1> QED
  BY <1>1, <1>2, <1>3

\* How a result leaves the plan that it ends.
LEMMA EndedPlan ==
  ASSUME LockInv, NEW h \in Hosts, NEW outcome \in {"blocked", "failed", "complete"},
         Result(h, outcome)
  PROVE  /\ \A k \in Hosts \ {h} : plan'[k] = plan[k]
         /\ plan'[h].bootId \in {plan[h].bootId, 0}
         /\ outcome = "failed" =>
              /\ plan'[h].phase = "failed" /\ plan'[h].bootId = plan[h].bootId
              /\ plan'[h].executionId = plan[h].executionId
<1>1. plan[h] \in Plans /\ plan \in [Hosts -> Plans]
  BY DEF LockInv, TypeOK
<1>2. \A k \in Hosts \ {h} : plan'[k] = plan[k]
  BY <1>1 DEF Result
<1>3. CASE outcome = "complete"
  <2>1. plan'[h] = Removed(plan[h])
    BY <1>1, <1>3 DEF Result
  <2> QED
    BY <1>1, <1>2, <1>3, <2>1 DEF Removed, Plans
<1>4. CASE outcome # "complete"
  <2> DEFINE phase == IF outcome = "failed" THEN "failed" ELSE "held"
  <2>1. plan'[h] = [Revised(plan[h]) EXCEPT !.phase = phase]
    BY <1>1, <1>4 DEF Result
  <2> QED
    BY <1>1, <1>2, <1>4, <2>1, RevisedPlan DEF RawPlans
<1> QED
  BY <1>3, <1>4

\* An execution whose reboot was accepted can only fail: it stays the host's.
LEMMA SendResultKeeps ==
  ASSUME AgentInv, NEW h \in Hosts, NEW outcome \in {"blocked", "failed", "complete"},
         NEW answered \in BOOLEAN, SendResult(h, outcome, answered)
  PROVE  AgentInv'
<1>1. /\ at[h] \in {"idle", "result"} /\ journal[h].outcome = outcome
      /\ at' = [at EXCEPT ![h] = "idle"]
      /\ journal' = journal \/ journal' = [journal EXCEPT ![h] = NoJournal]
      /\ UNCHANGED <<answer, updateJournal, packages, stopped, work>>
      /\ Result(h, outcome) \/ UNCHANGED vars
  BY DEF SendResult, Outcomes, Ends, Goes
<1>2. /\ NoJournal \in Journals /\ NoJournal.outcome = "none" /\ ~NoJournal.loockitStopped
  BY DEF NoJournal, Journals, Outcome
<1>3. at'[h] = "idle" /\ OnlyHere(h) /\ journal'[h] \in {journal[h], NoJournal}
  BY <1>1 DEF AgentInv, AgentType, OnlyHere, ChangedAt
<1>4. boot' = boot /\ snapshot' = snapshot
  BY <1>1 DEF Result, vars, worldVars
<1>5. AgentType' /\ OthersStill(h)
  BY <1>1, <1>2, <1>3, <1>4, TypedHost, OneHost DEF AgentInv, AgentType, Places
<1>6. HostInv(h) /\ BootKnown(h)
  BY TypedHost DEF HostInv
<1>7. CASE UNCHANGED vars
  <2>1. HostInv(h)'
    BY <1>1, <1>2, <1>3, <1>6, <1>7, ComesToRest DEF HostInv, RebootHeld, BrokenHeld
  <2> QED
    BY <1>1, <1>5, <1>7, <2>1, LocalKeeps
<1>8. CASE Result(h, outcome)
  <2>1. Executing(plan[h]) /\ update' = update /\ gate' = GateAfter(plan[h].executionId, outcome)
    BY <1>8 DEF Result, Executing
  <2>2. /\ update = NoUpdate /\ packages[h] = "clean" /\ gate \in Gates
        /\ h \in Pve => gate.host = h /\ gate.execution = plan[h].executionId
        /\ h \notin Pve => gate = NoGate
    BY <2>1, OwnGate, IdleHosts DEF AgentInv, LockInv, TypeOK
  <2>3. /\ \A k \in Hosts \ {h} : plan'[k] = plan[k]
        /\ plan'[h].bootId \in {plan[h].bootId, 0}
        /\ outcome = "failed" =>
             /\ plan'[h].phase = "failed" /\ plan'[h].bootId = plan[h].bootId
             /\ plan'[h].executionId = plan[h].executionId
    BY <1>8, EndedPlan DEF AgentInv
  <2>4. \A k \in Hosts \ {h} : PlanKept(k) /\ RowKept(k)
    BY <2>2, <2>3, HostAssumption, TypedHost
    DEF HostInv, BootKnown, PlanKept, RowKept, NoUpdate
  <2>5. Rebooting(h) => outcome = "failed"
    BY <1>1, <1>6 DEF HostInv, RebootHeld
  <2>6. HostInv(h)'
    <3>1. PreparedHeld(h)' /\ UpdatingHeld(h)' /\ BrokenHeld(h)'
      BY <1>1, <1>3, <2>2 DEF PreparedHeld, UpdatingHeld, BrokenHeld, Preparing, Updating,
         Upgrading
    <3>2. RebootHeld(h)'
      BY <1>1, <1>2, <1>3, <1>4, <1>6, <2>3, <2>5
      DEF HostInv, RebootHeld, Rebooting, Upgrading, Executing
    <3>3. BootKnown(h)'
      BY <1>4, <1>6, <2>3, TypedHost DEF BootKnown
    <3> QED
      BY <3>1, <3>2, <3>3, <1>6 DEF HostInv
  <2>7. CompletedIsDone'
    <3>1. CASE outcome = "failed"
      <4>1. gate'.completedAt = gate.completedAt /\ gate'.host = gate.host /\ gate'.kind = gate.kind
        BY <2>1, <2>2, <3>1, HeldCompletion DEF GateAfter
      <4>2. gate.completedAt # Unset => gate.host \in Hosts
        BY CompletedOwner DEF AgentInv
      <4>3. \A k \in Hosts : plan'[k].bootId = plan[k].bootId
        BY <2>3, <3>1
      <4> QED
        BY <1>1, <1>4, <4>1, <4>2, <4>3 DEF AgentInv, CompletedIsDone
    <3>2. CASE outcome # "failed"
      BY <2>1, <2>2, <3>2 DEF GateAfter, CompletedIsDone, NoGate
    <3> QED
      BY <3>1, <3>2
  <2>8. Next
    BY <1>8 DEF Next
  <2> QED
    BY <1>5, <2>4, <2>6, <2>7, <2>8, SharedKeeps
<1> QED
  BY <1>1, <1>7, <1>8

\* Somebody has seen to it that the packages are whole and that no reboot is
\* still to come; so the controller releases a host on which nothing happens.
LEMMA RecoverStepKeeps ==
  ASSUME AgentInv, NEW h \in Hosts, NEW answered \in BOOLEAN, RecoverStep(h, answered)
  PROVE  AgentInv'
<1>1. /\ at[h] = "recover" /\ Recover(h) /\ at' = [at EXCEPT ![h] = "idle"]
      /\ journal' = journal \/ journal' = [journal EXCEPT ![h] = NoJournal]
      /\ updateJournal' = updateJournal
           \/ updateJournal' = [updateJournal EXCEPT ![h] = NoUpdateJournal]
      /\ UNCHANGED <<answer, packages, stopped, work>>
  BY DEF RecoverStep, Ends, Goes
<1>2. NoJournal \in Journals /\ NoUpdateJournal \in UpdateJournals
  BY DEF NoJournal, Journals, NoUpdateJournal, UpdateJournals, Outcome
<1>3. /\ at'[h] = "idle" /\ OnlyHere(h) /\ journal'[h] \in {journal[h], NoJournal}
      /\ updateJournal'[h] \in {updateJournal[h], NoUpdateJournal}
  BY <1>1 DEF AgentInv, AgentType, OnlyHere, ChangedAt
<1>4. /\ UNCHANGED <<boot, snapshot>>
      /\ gate' = IF gate.host = h THEN NoGate ELSE gate
      /\ update' = IF update.host = h THEN NoUpdate ELSE update
  BY <1>1 DEF Recover, worldVars
<1>5. AgentType' /\ OthersStill(h)
  BY <1>1, <1>2, <1>3, <1>4, TypedHost, OneHost DEF AgentInv, AgentType, Places
<1>6. work[h] = 0 /\ packages[h] = "clean" /\ BootKnown(h)
  BY <1>1, TypedHost DEF HostInv, BrokenHeld
<1>7. \A k \in Hosts : plan'[k].bootId = plan[k].bootId /\ (k # h => plan'[k] = plan[k])
  <2> DEFINE q == IF plan[h].phase = "none" THEN plan[h] ELSE [Revised(plan[h]) EXCEPT !.phase = "held"]
  <2>1. plan \in [Hosts -> Plans] /\ plan[h] \in Plans /\ plan' = [plan EXCEPT ![h] = q]
    BY <1>1 DEF Recover, AgentInv, LockInv, TypeOK
  <2>2. q.bootId = plan[h].bootId
    BY <2>1, RevisedPlan DEF RawPlans
  <2> QED
    BY <2>1, <2>2
<1>8. \A k \in Hosts \ {h} : PlanKept(k) /\ RowKept(k)
  <2>1. ASSUME NEW k \in Hosts \ {h}, update.host = k PROVE update' = update /\ gate' = gate
    <3>1. update # NoUpdate
      BY <2>1, HostAssumption DEF NoUpdate
    <3>2. gate.host = k
      BY <2>1, <3>1, OwnUpdate DEF AgentInv
    <3> QED
      BY <1>4, <2>1, <3>2
  <2>2. \A k \in Hosts : BootKnown(k)
    BY TypedHost DEF HostInv
  <2> QED
    BY <1>7, <2>1, <2>2 DEF PlanKept, RowKept, BootKnown
<1>9. HostInv(h)'
  BY <1>1, <1>3, <1>4, <1>6, <1>7
  DEF HostInv, PreparedHeld, RebootHeld, UpdatingHeld, BrokenHeld, BootKnown,
      Preparing, Updating, Rebooting, Upgrading
<1>10. CompletedIsDone'
  <2>1. gate'.completedAt # Unset => gate' = gate /\ gate.host \in Hosts
    BY <1>4, CompletedOwner DEF AgentInv, NoGate
  <2> QED
    BY <1>1, <1>4, <1>7, <2>1 DEF AgentInv, CompletedIsDone
<1> QED
  BY <1>1, <1>5, <1>8, <1>9, <1>10, SharedKeeps DEF Next

\* A host that restarts leaves the boot of every plan it had.
LEMMA HostRebootKeeps ==
  ASSUME AgentInv, NEW h \in Hosts, HostReboot(h)
  PROVE  AgentInv'
<1> DEFINE left == IF Upgrading(h) THEN "broken" ELSE packages[h]
<1>1. /\ Reboot(h) /\ answer' = [answer EXCEPT ![h] = 0] /\ at' = [at EXCEPT ![h] = "idle"]
      /\ packages' = [packages EXCEPT ![h] = left] /\ work' = [work EXCEPT ![h] = 0]
      /\ UNCHANGED <<journal, updateJournal, stopped>>
  BY DEF HostReboot, Ends, Goes
<1>2. /\ UNCHANGED <<snapshot, plan, update, gate>> /\ boot'[h] = boot[h] + 1
      /\ \A k \in Hosts \ {h} : boot'[k] = boot[k]
  BY <1>1 DEF Reboot, lockVars, AgentInv, LockInv, TypeOK
<1>3. /\ at'[h] = "idle" /\ answer'[h] = 0 /\ packages'[h] = left /\ work'[h] = 0 /\ OnlyHere(h)
  BY <1>1 DEF AgentInv, AgentType, OnlyHere, ChangedAt
<1>4. AgentType' /\ OthersStill(h)
  BY <1>1, <1>2, <1>3, TypedHost, OneHost DEF AgentInv, AgentType, Places
<1>5. \A k \in Hosts : BootKnown(k) /\ boot[k] \in Nat /\ plan[k].bootId \in Nat
  BY TypedHost DEF HostInv, AgentInv, LockInv, TypeOK, Plans
<1>6. \A k \in Hosts \ {h} : PlanKept(k) /\ RowKept(k)
  BY <1>2, <1>5 DEF PlanKept, RowKept, BootKnown
<1>7. HostInv(h)'
  <2>1. PreparedHeld(h)' /\ RebootHeld(h)' /\ UpdatingHeld(h)'
    BY <1>3 DEF PreparedHeld, RebootHeld, UpdatingHeld, Preparing, Updating, Rebooting
  <2>2. BrokenHeld(h)'
    BY <1>1, <1>2, <1>3, TypedHost DEF HostInv, BrokenHeld, Upgrading
  <2>3. BootKnown(h)'
    BY <1>2, <1>5 DEF BootKnown
  <2> QED
    BY <2>1, <2>2, <2>3 DEF HostInv
<1>8. CompletedIsDone'
  <2>1. gate.completedAt # Unset => gate.host \in Hosts
    BY CompletedOwner DEF AgentInv
  <2>2. \A k \in Hosts : work[k] = 0 => work'[k] = 0
    BY <1>1 DEF AgentInv, AgentType
  <2>3. \A k \in Hosts : packages[k] = "clean" => packages'[k] = "clean"
    BY <1>1 DEF AgentInv, AgentType, Upgrading
  <2>4. \A k \in Hosts : boot[k] # plan[k].bootId => boot'[k] # plan[k].bootId
    BY <1>2, <1>5 DEF BootKnown
  <2> QED
    BY <1>2, <2>1, <2>2, <2>3, <2>4 DEF AgentInv, CompletedIsDone
<1> QED
  BY <1>1, <1>4, <1>6, <1>7, <1>8, SharedKeeps DEF Next

-----------------------------------------------------------------------------
(* Theorems *)

LEMMA InitAgent == Init /\ AgentInit => AgentInv
<1> SUFFICES ASSUME Init, AgentInit PROVE AgentInv
  OBVIOUS
<1>1. LockInv
  BY InitLock
<1>2. AgentType
  BY DEF AgentInit, AgentType, NoJournal, Journals, NoUpdateJournal, UpdateJournals, Outcome,
     Places
<1>3. CompletedIsDone
  BY DEF Init, CompletedIsDone, NoGate
<1>4. ASSUME NEW h \in Hosts PROVE HostInv(h)
  <2>1. at[h] = "idle" /\ work[h] = 0 /\ packages[h] = "clean"
    BY DEF AgentInit
  <2>2. boot[h] = 1 /\ plan[h].bootId \in {0, 1}
    <3>1. plan[h] \in {NoPlan} \cup LegacyPlans(h) /\ boot[h] = 1
      BY DEF Init
    <3>2. NoPlan.bootId = 0
      BY DEF NoPlan
    <3>3. \A p \in LegacyPlans(h) : p.bootId = 1
      BY DEF LegacyPlans
    <3> QED
      BY <3>1, <3>2, <3>3
  <2> QED
    BY <2>1, <2>2
    DEF HostInv, PreparedHeld, RebootHeld, UpdatingHeld, BrokenHeld, BootKnown,
        Preparing, Updating, Rebooting, Upgrading
<1> QED
  BY <1>1, <1>2, <1>3, <1>4 DEF AgentInv

LEMMA StepAgent == AgentInv /\ [AgentNext]_allVars => AgentInv'
<1> SUFFICES ASSUME AgentInv, [AgentNext]_allVars PROVE AgentInv'
  OBVIOUS
<1>1. CASE ControllerAlone
  BY <1>1, ControllerKeeps
<1>2. ASSUME NEW h \in Hosts, AgentStep(h) PROVE AgentInv'
  <2>1. CASE SaveClaim(h) \/ Block(h) \/ Pass(h) \/ Handoff(h) \/ StopLoockit(h)
             \/ NothingToReboot(h)
    BY <2>1, SaveClaimKeeps, PreparingKeeps, GivenUpKeeps
  <2>2. CASE SaveUpdateClaim(h) \/ BlockUpdate(h) \/ StartUpgrade(h)
             \/ OrphanEnds(h) \/ HostReboot(h)
    BY <2>2, SaveUpdateClaimKeeps, BlockUpdateKeeps, StartUpgradeKeeps, OrphanEndsKeeps,
       HostRebootKeeps
  <2>3. ASSUME NEW b \in BOOLEAN,
               ClaimStep(h, b) \/ UpdateClaimStep(h, b) \/ EndUpgrade(h, b)
                 \/ RecoverStep(h, b) \/ AgentEnds(h, b)
        PROVE  AgentInv'
    BY <2>3, ClaimStepKeeps, UpdateClaimStepKeeps, EndUpgradeKeeps, RecoverStepKeeps,
       AgentEndsKeeps
  <2>4. ASSUME NEW b \in BOOLEAN, NEW c \in BOOLEAN,
               RestoreLoockit(h, b, c) \/ EndHandoff(h, b, c) \/ RebootCommand(h, b, c)
        PROVE  AgentInv'
    BY <2>4, RestoreLoockitKeeps, EndHandoffKeeps, RebootCommandKeeps
  <2>5. ASSUME NEW r \in Reports, NEW b \in BOOLEAN,
               ReportStep(h, r, b) \/ UpdateReport(h, r, b) \/ RecoverReport(h, r, b)
        PROVE  AgentInv'
    BY <2>5, ReportsKeep
  <2>6. ASSUME NEW outcome \in {"blocked", "failed", "complete"}, NEW b \in BOOLEAN,
               SendUpdateResult(h, outcome, b) \/ SendResult(h, outcome, b)
        PROVE  AgentInv'
    BY <2>6, SendUpdateResultKeeps, SendResultKeeps
  <2> QED
    BY <1>2, <2>1, <2>2, <2>3, <2>4, <2>5, <2>6 DEF AgentStep
<1>3. CASE UNCHANGED allVars
  <2>1. LockInv'
    BY <1>3, StepLock DEF AgentInv, allVars
  <2>2. UNCHANGED <<agentVars, plan, update, gate, boot, snapshot>>
    BY <1>3 DEF allVars, vars, worldVars, lockVars
  <2>3. \A k \in Hosts : HostStill(k) /\ PlanKept(k) /\ RowKept(k)
    BY <2>2, TypedHost DEF HostInv, HostStill, agentVars, PlanKept, RowKept, BootKnown
  <2>4. \A k \in Hosts : HostInv(k)'
    BY <2>3, StillHost DEF AgentInv
  <2>5. AgentType' /\ CompletedIsDone'
    BY <2>2 DEF AgentInv, AgentType, CompletedIsDone, agentVars
  <2> QED
    BY <2>1, <2>4, <2>5 DEF AgentInv
<1> QED
  BY <1>1, <1>2, <1>3 DEF AgentNext

LEMMA AgentsSafe == AgentSpec => []AgentInv
BY InitAgent, StepAgent, PTL DEF AgentSpec

\* Whatever is lost or dies, a host is upgraded or rebooted only under the very
\* execution that the controller holds, and no two hosts are worked on at once:
\* the claims, the journals and the two file locks together.
THEOREM WorkUnderLock == AgentSpec => []WorkHeld
<1>1. ASSUME AgentInv PROVE WorkHeld
  <2>1. ASSUME NEW h \in Hosts, work[h] # 0
        PROVE  \/ update.host = h /\ update.execution = work[h] /\ update # NoUpdate
               \/ Executing(plan[h]) /\ plan[h].executionId = work[h]
    <3>1. CASE Upgrading(h)
      BY <1>1, <2>1, <3>1, HostAssumption, TypedHost
      DEF HostInv, BrokenHeld, Upgrading, NoUpdate
    <3>2. CASE ~Upgrading(h)
      BY <1>1, <2>1, <3>2, TypedHost DEF HostInv, RebootHeld, Rebooting
    <3> QED
      BY <3>1, <3>2
  <2>2. Exclusive
    BY <1>1 DEF AgentInv, LockInv
  <2> QED
    BY <2>1, <2>2 DEF WorkHeld, Exclusive
<1> QED
  BY <1>1, AgentsSafe, PTL

\* The gate of an execution is completed only when the work is really over.
THEOREM CompletionIsTrue == AgentSpec => []CompletedIsDone
<1>1. AgentInv => CompletedIsDone
  BY DEF AgentInv
<1> QED
  BY <1>1, AgentsSafe, PTL

\* An upgrade begins on whole packages only: an interrupted or failed one is
\* never repeated before a person has recovered the host.
THEOREM NeverRetried == AgentSpec => NoBlindRetry
<1> DEFINE Begins == \A h \in Hosts : Upgrading(h)' /\ ~Upgrading(h) => packages[h] = "clean"
<1>1. ASSUME AgentInv, [AgentNext]_allVars PROVE [Begins]_allVars
  <2> SUFFICES ASSUME AgentNext, NEW h \in Hosts, Upgrading(h)', ~Upgrading(h)
               PROVE  packages[h] = "clean"
    BY <1>1
  <2>1. packages \in [Hosts -> {"clean", "upgrading", "broken"}]
    BY <1>1 DEF AgentInv, AgentType
  <2>2. ASSUME NEW k \in Hosts, AgentStep(k), ~StartUpgrade(k) PROVE ~Upgrading(h)'
    <3>1. \/ packages' = packages
          \/ \E left \in {"clean", "broken"} : packages' = [packages EXCEPT ![k] = left]
          \/ packages' = [packages EXCEPT ![k] = IF Upgrading(k) THEN "broken" ELSE @]
      BY <2>2 DEF AgentStep, SaveClaim, Block, Pass, Handoff, StopLoockit, NothingToReboot,
         SaveUpdateClaim, BlockUpdate, OrphanEnds, HostReboot, ClaimStep, UpdateClaimStep,
         EndUpgrade, RecoverStep, AgentEnds, RestoreLoockit, EndHandoff, RebootCommand,
         ReportStep, UpdateReport, RecoverReport, SendUpdateResult, SendResult
    <3> QED
      BY <2>1, <3>1 DEF Upgrading
  <2>3. PICK k \in Hosts : StartUpgrade(k)
    <3>1. ~ControllerAlone
      BY DEF ControllerAlone, agentVars, Upgrading
    <3> QED
      BY <2>2, <3>1 DEF AgentNext
  <2>4. k = h
    BY <2>1, <2>3 DEF StartUpgrade, Upgrading
  <2> QED
    BY <1>1, <2>3, <2>4, UpdatingHost DEF StartUpgrade, Updating
<1> QED
  BY <1>1, AgentsSafe, PTL DEF AgentSpec, NoBlindRetry
=============================================================================
