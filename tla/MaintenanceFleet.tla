-------------------------- MODULE MaintenanceFleet --------------------------
(***************************************************************************)
(* The controller that serialises package updates and reboots of the home  *)
(* servers: the Durable Object MaintenanceFleet of                         *)
(* workers/maintenance-control/src/index.ts.                               *)
(*                                                                         *)
(* The object runs one handler at a time up to its next await, and every   *)
(* await is a call to Discord.  An action is therefore a handler up to its *)
(* first await; what remains of it is the publication of a plan, kept in   *)
(* pending (not begun) and inFlight (waiting for Discord), which a restart *)
(* of the object loses.                                                    *)
(***************************************************************************)
EXTENDS MaintenancePolicy, EnvironmentHealth, FiniteSets

CONSTANTS
  NoHost,         \* stands for an absent host
  Reports,        \* the [required, healthy] pairs a host may report
  Observations,   \* the [broken, bad] pairs the monitoring may show
  Buttons,        \* the operator's buttons that are in use
  PickedTargets,  \* the instants the operator may type or pick
  LegacyTargets,  \* targets of plans stored before the evening window existed
  CronHour,       \* offset of the daily pass (19:00) in a day
  MaxTime, MaxTarget, MaxRevision, MaxExecution, MaxBoot  \* bounds for TLC

ASSUME HostAssumption == NoHost \notin Hosts
ASSUME InputAssumption ==
  /\ Reports \subseteq [required : BOOLEAN, healthy : BOOLEAN]
  /\ Observations \subseteq [broken : BOOLEAN, bad : SUBSET Checks]
  /\ Buttons \subseteq {"hold", "defer", "date", "approve"}
  /\ PickedTargets \subseteq 0..MaxTarget /\ LegacyTargets \subseteq 0..MaxTarget
ASSUME BoundAssumption ==
  /\ CronHour \in Nat /\ MaxTime \in Nat /\ MaxTarget \in Nat
  /\ MaxRevision \in Nat \ {0} /\ MaxExecution \in Nat /\ MaxBoot \in Nat \ {0}

VARIABLES
  now,         \* the controller's clock
  boot,        \* boot[h]: the boot session of host h itself
  snapshot,    \* snapshot[h]: the last report of h
  plan,        \* plan[h]: the reboot plan of h
  lastStart,   \* lastStart[h]: lastRebootStartedAt
  update,      \* the row of package_update
  inspection,  \* the last inspection of the environment
  gate,        \* the environment gate
  executions,  \* how many execution ids have been drawn
  handled,     \* events: the executions whose result was taken, and when
  pending,     \* hosts whose plan a suspended handler will publish
  inFlight,    \* publications that wait for Discord
  tick,        \* the daily pass: its captured clock and its next host
  press,       \* a press of a Discord button that has not been applied yet
  approval,    \* history: the operator's standing approval of each host
  doubtAt      \* history: when an observation last broke the stability

lockVars == <<lastStart, update, gate, executions>>
messageVars == <<pending, inFlight, tick, press>>
worldVars == <<now, boot>>
vars == <<worldVars, snapshot, plan, lockVars, inspection, handled,
          messageVars, approval, doubtAt>>

NoSnapshot == [bootId |-> 0, required |-> FALSE, healthy |-> FALSE, observedAt |-> 0]
NoUpdate == [host |-> NoHost, execution |-> 0, failed |-> FALSE]
NoGate == [host |-> NoHost, execution |-> 0, kind |-> "none", startedAt |-> 0,
           baseline |-> {}, completedAt |-> Unset, stableSince |-> Unset,
           lastObservationAt |-> Unset, held |-> "no"]
NoPress == [host |-> NoHost, button |-> "none", revision |-> 0, seen |-> 0, target |-> 0]
NoApproval == [bootId |-> 0, target |-> 0]
NoTick == [at |-> 0, next |-> 0]

\* A host never rebooted by the controller is far from every instant.
Never == -Gap

\* A mutant: a finished plan is marked instead of removed.
MarkedComplete(p) == [p EXCEPT !.phase = "complete"]

\* Revisions are fresh UUIDs: each host counts its own, and keeps the count
\* when its plan is removed.
Removed(p) == [p EXCEPT !.phase = "none", !.target = 0, !.bootId = 0,
                        !.notified = 0, !.executionId = 0, !.evening = FALSE]
NoPlan == [phase |-> "none", revision |-> 0, notified |-> 0, target |-> 0,
           bootId |-> 0, executionId |-> 0, evening |-> FALSE]
Revised(p) == [p EXCEPT !.revision = @ + 1, !.notified = 0]

Executing(p) == p.phase \in {"running", "failed"}
Changeable(p) == p.phase \in {"scheduled", "approval", "held"}
Occupying(p) == p.phase \in {"scheduled", "approval", "running"}

Targets == 0..MaxTarget
Revisions == 0..MaxRevision

-----------------------------------------------------------------------------
(* Scheduling helpers *)

\* A mutant: plans that await their approval are overlooked.
ApprovedOnly(h) ==
  {plan[o].target : o \in {k \in Hosts \ {h} : plan[k].phase \in {"scheduled", "running"}}}
    \cup {lastStart[o] : o \in Hosts \ {h}}

\* What conflictingReboot compares a target with: the other hosts' plans and
\* the starts of their last reboots.
Occupied(h) ==
  {plan[o].target : o \in {k \in Hosts \ {h} : Occupying(plan[k])}}
    \cup {lastStart[o] : o \in Hosts \ {h}}

\* A mutant: the first candidate is taken as it is.
FirstCandidate(h, t) == Targets \cap {t}

\* availableTarget.
AvailableTargets(h, t) == Targets \cap FirstFree(h, t, Occupied(h))

\* alignLegacySlot: a hypervisor's plan stored without an evening window.
NeedsAlign(h, p) ==
  h \in Pve /\ Changeable(p) /\ (Daytime(p.target) \/ ~p.evening)

\* A mutant: a realigned plan stays approved.
AlignedAsApproved(h, p, t) ==
  {[Revised(p) EXCEPT !.target = u, !.evening = TRUE] :
     u \in IF Daytime(p.target)
           THEN AvailableTargets(h, RealignFrom(h, p.target, t)) ELSE {p.target}}

Aligned(h, p, t) ==
  {[Revised(p) EXCEPT !.target = u, !.evening = TRUE,
                      !.phase = IF p.phase = "held" THEN "held" ELSE "approval"] :
     u \in IF Daytime(p.target)
           THEN AvailableTargets(h, RealignFrom(h, p.target, t)) ELSE {p.target}}

\* carryApprovedReboot: an approved plan whose evening is over.
NeedsCarry(h, p, t) ==
  h \in Pve /\ p.phase = "scheduled" /\ p.evening /\ t >= WindowEnd(h, p.target)

\* A mutant: the carried plan keeps its revision.
CarriedSilently(h, p, t) ==
  {[p EXCEPT !.target = u] : u \in AvailableTargets(h, CarryFrom(t))}

Carried(h, p, t) ==
  {[Revised(p) EXCEPT !.target = u] : u \in AvailableTargets(h, CarryFrom(t))}

\* The plan that the daily pass proposes.
Proposed(h, p, s, t) ==
  {[Revised(p) EXCEPT !.target = u, !.evening = (h \in Pve), !.bootId = s.bootId,
                      !.phase = IF h \in Pve THEN "approval" ELSE "scheduled"] :
     u \in AvailableTargets(h, NextMorning(h, t))}

\* The next slot of a plan whose window passed without an approval to carry.
Retargeted(h, p, t) ==
  {[Revised(p) EXCEPT !.target = u,
                      !.phase = IF h \in Pve THEN "approval" ELSE "scheduled"] :
     u \in AvailableTargets(h, NextMorning(h, t))}

ReadyEnvironment == gate = NoGate /\ ~Problem(inspection, now, Fresh)

\* due.
Due(h) ==
  LET p == plan[h]
      s == snapshot[h]
  IN  /\ p.phase = "scheduled" /\ p.notified = p.revision
      /\ s.healthy /\ s.required /\ s.bootId = p.bootId
      /\ now - s.observedAt < Fresh
      /\ now >= p.target /\ now < WindowEnd(h, p.target)
      /\ h \in Pve => p.evening /\ ~Daytime(now) /\ ~Daytime(p.target)

FreshAndHealthy(h) == snapshot[h].healthy /\ now - snapshot[h].observedAt <= Fresh

-----------------------------------------------------------------------------
(* Environment gate *)

\* startEnvironmentCheck.
StartedGate(h, execution, kind) ==
  [NoGate EXCEPT !.host = h, !.execution = execution, !.kind = kind,
                 !.startedAt = now, !.baseline = inspection.bad]

\* A mutant: the completion resumes a gate that is held.
FinishedAndResumed(g, h, execution) ==
  IF g.host = h /\ g.execution = execution /\ g.completedAt = Unset
  THEN [g EXCEPT !.completedAt = now, !.stableSince = Unset, !.held = "no"] ELSE g

\* finishEnvironmentStep.
Finished(g, h, execution) ==
  IF g.host = h /\ g.execution = execution /\ g.completedAt = Unset
  THEN [g EXCEPT !.completedAt = now, !.stableSince = Unset] ELSE g

\* observeEnvironment, called every minute by the cron trigger.
Observe(o) ==
  LET i == [at |-> now, broken |-> o.broken, bad |-> o.bad]
      h == gate.host
      problem == ~FreshAndHealthy(h) \/ Regressed(i, gate.baseline, now, Fresh)
      seen == ObserveGate(gate, problem, now, Fresh)
      passed == seen.outcome = "passed"
      ours == plan[h].phase = "running" /\ plan[h].executionId = gate.execution
  IN  /\ inspection' = i
      /\ IF gate = NoGate
         THEN UNCHANGED <<gate, update, plan, doubtAt>>
         ELSE /\ gate' = IF passed THEN NoGate ELSE seen.gate
              /\ update' = IF passed /\ gate.kind = "update" /\ update.host = h
                              /\ update.execution = gate.execution
                           THEN NoUpdate ELSE update
              /\ plan' = IF passed /\ gate.kind = "reboot" /\ ours
                         THEN [plan EXCEPT ![h] = Removed(@)] ELSE plan
              /\ doubtAt' = IF \/ problem
                               \/ /\ gate.lastObservationAt # Unset
                                  /\ now - gate.lastObservationAt > Fresh
                            THEN now ELSE doubtAt
      /\ UNCHANGED <<worldVars, snapshot, lastStart, executions, handled,
                     messageVars, approval>>

-----------------------------------------------------------------------------
(* The hosts' agents *)

\* report, called by each agent once a minute.
Report(h, r) ==
  LET p == plan[h]
      recovered == p.phase = "running" /\ p.bootId # boot[h] /\ r.healthy
      gated == recovered /\ h \in Pve /\ gate.execution = p.executionId
      obsolete == Changeable(p) /\ (p.bootId # boot[h] \/ ~r.required)
      kept == IF obsolete \/ (recovered /\ ~gated) THEN Removed(p) ELSE p
  IN  \E q \in IF NeedsAlign(h, kept) THEN Aligned(h, kept, now)
               ELSE IF NeedsCarry(h, kept, now) THEN Carried(h, kept, now)
               ELSE {kept} :
        /\ q.revision \in Revisions
        /\ plan' = [plan EXCEPT ![h] = q]
        /\ snapshot' = [snapshot EXCEPT ![h] =
             [bootId |-> boot[h], required |-> r.required, healthy |-> r.healthy,
              observedAt |-> now]]
        /\ gate' = IF gated THEN Finished(gate, h, p.executionId) ELSE gate
        /\ pending' = IF Changeable(q) /\ q.notified # q.revision
                      THEN pending \cup {h} ELSE pending
        /\ approval' = IF obsolete THEN [approval EXCEPT ![h] = NoApproval] ELSE approval
        /\ UNCHANGED <<worldVars, lastStart, update, executions, inspection, handled,
                       inFlight, tick, press, doubtAt>>

\* Mutants: one half of the condition is forgotten.
OthersNotExecuting(h) == \A other \in Hosts \ {h} : ~Executing(plan[other])
OthersNotRecent(h) == \A other \in Hosts \ {h} : now - lastStart[other] >= Gap

\* No other host executes, and none has begun a reboot within the last hour.
OthersIdle(h) ==
  \A other \in Hosts \ {h} : ~Executing(plan[other]) /\ now - lastStart[other] >= Gap

\* claim: the agent asks whether it may reboot now.
Claim(h) ==
  LET e == executions + 1
  IN  /\ Due(h)
      /\ h \in Pve => ReadyEnvironment
      /\ update = NoUpdate
      /\ OthersIdle(h)
      /\ e <= MaxExecution
      /\ executions' = e
      /\ plan' = [plan EXCEPT ![h].phase = "running", ![h].executionId = e]
      /\ lastStart' = [lastStart EXCEPT ![h] = now]
      /\ gate' = IF h \in Pve THEN StartedGate(h, e, "reboot") ELSE gate
      /\ approval' = [approval EXCEPT ![h] = NoApproval]
      /\ UNCHANGED <<worldVars, snapshot, update, inspection, handled, messageVars, doubtAt>>

\* claimUpdate: the agent of a hypervisor asks whether it may update packages.
ClaimUpdate(h) ==
  LET e == executions + 1
  IN  /\ h \in Pve /\ FreshAndHealthy(h) /\ ReadyEnvironment
      /\ update = NoUpdate
      /\ \A other \in Hosts : ~Executing(plan[other])
      /\ e <= MaxExecution
      /\ executions' = e
      /\ update' = [host |-> h, execution |-> e, failed |-> FALSE]
      /\ gate' = StartedGate(h, e, "update")
      /\ UNCHANGED <<worldVars, snapshot, plan, lastStart, inspection, handled,
                     messageVars, approval, doubtAt>>

IsHandled(e) == \E event \in handled : event.execution = e
Handle(e) == handled' = handled \cup {[execution |-> e, at |-> now]}

\* A mutant: a failure releases the gate too.
GateDropped(e, outcome) == IF gate.execution # e THEN gate ELSE NoGate

\* How a failed or a given-up execution leaves its gate.
GateAfter(e, outcome) ==
  IF gate.execution # e THEN gate
  ELSE IF outcome = "failed" THEN Held(gate, "operation") ELSE NoGate

\* updateResult, for the execution that holds the row.
UpdateResult(h, outcome) ==
  LET e == update.execution
  IN  /\ update.host = h /\ ~IsHandled(e)
      /\ update' = CASE outcome = "failed" -> [update EXCEPT !.failed = TRUE]
                     [] outcome = "complete" -> update
                     [] outcome = "blocked" -> NoUpdate
      /\ gate' = IF outcome = "complete" THEN Finished(gate, h, e)
                 ELSE GateAfter(e, outcome)
      /\ Handle(e)
      /\ UNCHANGED <<worldVars, snapshot, plan, lastStart, executions, inspection,
                     messageVars, approval, doubtAt>>

\* result, for the execution of the running plan.
Result(h, outcome) ==
  LET p == plan[h]
      e == p.executionId
      q == CASE outcome = "complete" -> Removed(p)
             [] outcome = "blocked" -> [Revised(p) EXCEPT !.phase = "held"]
             [] outcome = "failed" -> [Revised(p) EXCEPT !.phase = "failed"]
  IN  /\ p.phase = "running" /\ ~IsHandled(e)
      /\ q.revision \in Revisions
      /\ plan' = [plan EXCEPT ![h] = q]
      /\ gate' = GateAfter(e, outcome)
      /\ pending' = IF outcome = "complete" THEN pending ELSE pending \cup {h}
      /\ Handle(e)
      /\ UNCHANGED <<worldVars, snapshot, lastStart, update, executions, inspection,
                     inFlight, tick, press, approval, doubtAt>>

\* recover: someone checked the host and released it by hand.
Recover(h) ==
  LET p == plan[h]
      q == IF p.phase = "none" THEN p ELSE [Revised(p) EXCEPT !.phase = "held"]
  IN  /\ FreshAndHealthy(h)
      /\ gate.host = h => /\ gate.held # "no"
                          /\ ~Regressed(inspection, gate.baseline, now, Fresh)
      /\ q.revision \in Revisions
      /\ gate' = IF gate.host = h THEN NoGate ELSE gate
      /\ update' = IF update.host = h THEN NoUpdate ELSE update
      /\ plan' = [plan EXCEPT ![h] = q]
      /\ inFlight' = IF p.phase = "none" THEN inFlight
                     ELSE inFlight \cup {[host |-> h, revision |-> q.revision]}
      /\ approval' = [approval EXCEPT ![h] = NoApproval]
      /\ UNCHANGED <<worldVars, snapshot, lastStart, executions, inspection, handled,
                     pending, tick, press, doubtAt>>

-----------------------------------------------------------------------------
(* The operator on Discord *)

\* A button shows the revision of the plan it was drawn for; the press is
\* applied later, whatever happens to the plan meanwhile.
Press(h, button, target) ==
  /\ press = NoPress /\ Changeable(plan[h])
  /\ button = "approve" => h \in Pve
  /\ press' = [host |-> h, button |-> button, revision |-> plan[h].revision,
               seen |-> plan[h].target, target |-> target]
  /\ UNCHANGED <<worldVars, snapshot, plan, lockVars, inspection, handled,
                 pending, inFlight, tick, approval, doubtAt>>

\* A mutant: a deferred plan stays approved.
AskedKeepingApproval(h, p) ==
  CASE press.button = "hold" -> [p EXCEPT !.phase = "held"]
    [] press.button = "defer" -> [p EXCEPT !.target = DeferFrom(p.target, now)]
    [] press.button = "date" ->
         [p EXCEPT !.target = press.target,
                   !.phase = IF h \in Pve THEN "approval" ELSE "scheduled"]
    [] press.button = "approve" -> [p EXCEPT !.phase = "scheduled"]

\* The plan that the pressed button asks for.
Asked(h, p) ==
  LET unapproved == IF h \in Pve THEN "approval" ELSE "scheduled"
  IN  CASE press.button = "hold" -> [p EXCEPT !.phase = "held"]
        [] press.button = "defer" ->
             [p EXCEPT !.target = DeferFrom(p.target, now), !.phase = unapproved]
        [] press.button = "date" ->
             [p EXCEPT !.target = press.target, !.phase = unapproved]
        [] press.button = "approve" -> [p EXCEPT !.phase = "scheduled"]

\* A mutant: the button's revision is not compared.
AcceptedAnyRevision ==
  LET h == press.host
      p == plan[h]
      q == Asked(h, p)
  IN  /\ press # NoPress
      /\ Changeable(p)
      /\ press.button \in {"date", "approve"} => q.target >= now + Lead
      /\ press.button # "hold" => ~Crowded(Occupied(h), q.target) /\ InWindow(h, q.target)

\* What a press must satisfy to be applied.
Accepted ==
  LET h == press.host
      p == plan[h]
      q == Asked(h, p)
  IN  /\ press # NoPress
      /\ Changeable(p) /\ p.revision = press.revision
      /\ press.button \in {"date", "approve"} => q.target >= now + Lead
      /\ press.button # "hold" => ~Crowded(Occupied(h), q.target) /\ InWindow(h, q.target)

\* applyInteraction.  The publication begins in the same turn.
ApplyInteraction ==
  LET h == press.host
      q == Revised(Asked(h, plan[h]))
  IN  /\ Accepted
      /\ q.revision \in Revisions /\ q.target \in Targets
      /\ plan' = [plan EXCEPT ![h] =
           IF press.button = "hold" THEN q ELSE [q EXCEPT !.evening = (h \in Pve)]]
      /\ handled' = {event \in handled : event.at >= now - Day}
      /\ inFlight' = inFlight \cup {[host |-> h, revision |-> q.revision]}
      /\ press' = NoPress
      /\ approval' = [approval EXCEPT ![h] =
           IF press.button = "approve"
           THEN [bootId |-> plan[h].bootId, target |-> press.seen] ELSE NoApproval]
      /\ UNCHANGED <<worldVars, snapshot, lockVars, inspection, pending, tick, doubtAt>>

\* ... or an error is shown and nothing changes.
RefuseInteraction ==
  /\ press # NoPress /\ ~Accepted
  /\ press' = NoPress
  /\ UNCHANGED <<worldVars, snapshot, plan, lockVars, inspection, handled,
                 pending, inFlight, tick, approval, doubtAt>>

-----------------------------------------------------------------------------
(* Publication of a plan *)

\* publish up to the call of Discord.
PublishStart(h) ==
  /\ h \in pending
  /\ pending' = pending \ {h}
  /\ inFlight' = IF plan[h].phase = "none" THEN inFlight
                 ELSE inFlight \cup {[host |-> h, revision |-> plan[h].revision]}
  /\ UNCHANGED <<worldVars, snapshot, plan, lockVars, inspection, handled,
                 tick, press, approval, doubtAt>>

\* publish after the answer of Discord.
PublishEnd(m, accepted) ==
  LET p == plan[m.host]
  IN  /\ m \in inFlight
      /\ inFlight' = inFlight \ {m}
      /\ plan' = IF accepted /\ p.phase # "none" /\ p.revision = m.revision
                 THEN [plan EXCEPT ![m.host].notified = m.revision] ELSE plan
      /\ UNCHANGED <<worldVars, snapshot, lockVars, inspection, handled,
                     pending, tick, press, approval, doubtAt>>

-----------------------------------------------------------------------------
(* The daily pass, the clock, restarts *)

TickStart ==
  /\ tick = NoTick /\ Clock(now) = CronHour
  /\ tick' = [at |-> now, next |-> 1]
  /\ UNCHANGED <<worldVars, snapshot, plan, lockVars, inspection, handled,
                 pending, inFlight, press, approval, doubtAt>>

\* One turn of the loop of tick, with the clock read before the loop.
TickHost ==
  LET h == HOSTS[tick.next]
      t == tick.at
      p == plan[h]
      s == snapshot[h]
      wanted == p.phase = "none" /\ s # NoSnapshot /\ s.required
                  /\ t - s.observedAt <= TickFresh
  IN  /\ tick # NoTick
      /\ \E a \in IF NeedsAlign(h, p) THEN Aligned(h, p, t)
                  ELSE IF wanted THEN Proposed(h, p, s, t) ELSE {p} :
         \E q \in IF a.phase # "scheduled" \/ t < WindowEnd(h, a.target) THEN {a}
                  ELSE IF NeedsCarry(h, a, t) THEN Carried(h, a, t)
                  ELSE Retargeted(h, a, t) :
           /\ q.revision \in Revisions
           /\ plan' = [plan EXCEPT ![h] = q]
           /\ pending' = IF Changeable(q) THEN pending \cup {h} ELSE pending
      /\ tick' = IF tick.next = Len(HOSTS) THEN NoTick ELSE [tick EXCEPT !.next = @ + 1]
      /\ UNCHANGED <<worldVars, snapshot, lockVars, inspection, handled,
                     inFlight, press, approval, doubtAt>>

\* The object is restarted: suspended handlers are lost, storage is kept.
Restart ==
  /\ pending' = {} /\ inFlight' = {} /\ tick' = NoTick /\ press' = NoPress
  /\ UNCHANGED <<worldVars, snapshot, plan, lockVars, inspection, handled,
                 approval, doubtAt>>

Reboot(h) ==
  /\ boot[h] < MaxBoot
  /\ boot' = [boot EXCEPT ![h] = @ + 1]
  /\ UNCHANGED <<now, snapshot, plan, lockVars, inspection, handled,
                 messageVars, approval, doubtAt>>

Advance ==
  /\ now < MaxTime
  /\ now' = now + 1
  /\ UNCHANGED <<boot, snapshot, plan, lockVars, inspection, handled,
                 messageVars, approval, doubtAt>>

-----------------------------------------------------------------------------

\* Plans stored by the versions that had no evening window.
LegacyPlans(h) ==
  [phase : {"scheduled", "approval", "held"}, revision : {1}, notified : {1},
   target : IF h \in Pve THEN LegacyTargets ELSE {}, bootId : {1},
   executionId : {0}, evening : {FALSE}]

\* Two hosts' plans that occupy a slot are an hour apart, whether they are
\* approved or not, however a button, the daily pass, a realignment or a
\* carrying over moved them (conflictingReboot, availableTarget and
\* validateSeparation look at the plans of that moment only).
SlotsSeparated ==
  \A h, k \in Hosts :
    h # k /\ Occupying(plan[h]) /\ Occupying(plan[k]) => ~Near(plan[h].target, plan[k].target)

Init ==
  /\ now = 0
  /\ boot = [h \in Hosts |-> 1]
  /\ snapshot = [h \in Hosts |-> NoSnapshot]
  /\ plan \in {p \in [Hosts -> {NoPlan} \cup UNION {LegacyPlans(h) : h \in Hosts}] :
                 \A h \in Hosts : p[h] \in {NoPlan} \cup LegacyPlans(h)}
  /\ SlotsSeparated
  /\ lastStart = [h \in Hosts |-> Never]
  /\ update = NoUpdate /\ gate = NoGate /\ executions = 0
  /\ inspection = NoInspection
  /\ handled = {} /\ pending = {} /\ inFlight = {}
  /\ tick = NoTick /\ press = NoPress
  /\ approval = [h \in Hosts |-> NoApproval]
  /\ doubtAt = 0

Next ==
  \/ Advance
  \/ Restart
  \/ TickStart
  \/ TickHost
  \/ ApplyInteraction
  \/ RefuseInteraction
  \/ \E h \in Hosts : Reboot(h) \/ Claim(h) \/ ClaimUpdate(h) \/ Recover(h) \/ PublishStart(h)
  \/ \E h \in Hosts, r \in Reports : Report(h, r)
  \/ \E h \in Hosts, outcome \in {"blocked", "failed", "complete"} :
       UpdateResult(h, outcome) \/ Result(h, outcome)
  \/ \E h \in Hosts, button \in Buttons \ {"date"} : Press(h, button, 0)
  \/ \E h \in Hosts, button \in Buttons \cap {"date"}, target \in PickedTargets :
       Press(h, button, target)
  \/ \E m \in inFlight, accepted \in BOOLEAN : PublishEnd(m, accepted)
  \/ \E o \in Observations : Observe(o)

Spec == Init /\ [][Next]_vars

-----------------------------------------------------------------------------
(* Properties *)

Phases == {"none", "scheduled", "approval", "held", "running", "failed"}
Plans == [phase : Phases, revision : Revisions, notified : Revisions, target : Targets,
          bootId : Nat, executionId : Nat, evening : BOOLEAN]
Snapshots == [bootId : Nat, required : BOOLEAN, healthy : BOOLEAN, observedAt : Nat]
Updates == [host : Hosts \cup {NoHost}, execution : Nat, failed : BOOLEAN]
OptionalTime == Nat \cup {Unset}
Gates == [host : Hosts \cup {NoHost}, execution : Nat, kind : {"none", "update", "reboot"},
          startedAt : Nat, baseline : SUBSET Checks, completedAt : OptionalTime,
          stableSince : OptionalTime, lastObservationAt : OptionalTime,
          held : {"no", "timeout", "operation"}]
Publications == [host : Hosts, revision : Revisions]
Presses == [host : Hosts \cup {NoHost}, button : Buttons \cup {"none"},
            revision : Revisions, seen : Targets, target : Targets]

\* The stored rows and the suspended handlers keep the shapes the code gives
\* them (the interfaces of policy.ts and environment-health.ts, and the tables
\* of index.ts).
TypeOK ==
  /\ now \in Nat /\ boot \in [Hosts -> Nat]
  /\ snapshot \in [Hosts -> Snapshots]
  /\ plan \in [Hosts -> Plans]
  /\ lastStart \in [Hosts -> Int]
  /\ update \in Updates /\ inspection \in Inspections(Nat) /\ gate \in Gates
  /\ executions \in Nat
  /\ handled \subseteq [execution : Nat, at : Nat]
  /\ pending \subseteq Hosts /\ inFlight \subseteq Publications
  /\ tick \in [at : Nat, next : 0..Len(HOSTS)] /\ (tick # NoTick => tick.next # 0)
  /\ press \in Presses /\ (press # NoPress => press.host \in Hosts /\ press.button \in Buttons)
  /\ approval \in [Hosts -> [bootId : Nat, target : Targets]]
  /\ doubtAt \in Nat

\* At most one package update or reboot is under way in the whole fleet, and a
\* failed one counts as under way: claim and claimUpdate look at the row, at
\* every plan and at the gate, and no handler opens a second one.
Exclusive ==
  /\ \A h, k \in Hosts : Executing(plan[h]) /\ Executing(plan[k]) => h = k
  /\ update # NoUpdate => \A h \in Hosts : ~Executing(plan[h])

\* The gate and the lock never part: a gate belongs to the execution that
\* holds the row or the plan, and a hypervisor holds neither without its gate.
\* A failed operation keeps a gate that no observation can open (observeGate
\* answers 'held' for it), so that only recover releases it.
GateBacked ==
  /\ gate # NoGate =>
       \/ /\ gate.kind = "update" /\ update # NoUpdate
          /\ update.host = gate.host /\ update.execution = gate.execution
       \/ /\ gate.kind = "reboot" /\ gate.host \in Pve /\ Executing(plan[gate.host])
          /\ plan[gate.host].executionId = gate.execution
  /\ update # NoUpdate => gate.kind = "update" /\ (update.failed => gate.held = "operation")
  /\ \A h \in Pve : Executing(plan[h]) =>
       /\ gate.kind = "reboot" /\ gate.host = h
       /\ plan[h].phase = "failed" => gate.held = "operation"

\* Who executes carries one of the execution ids drawn so far.
Numbered ==
  /\ \A h \in Hosts : Executing(plan[h]) => plan[h].executionId \in 1..executions
  /\ update # NoUpdate => update.host \in Hosts /\ update.execution \in 1..executions

\* The inductive form of the lock's invariants.
LockInv == TypeOK /\ Exclusive /\ GateBacked /\ Numbered

\* Reboots of different hosts never start within REBOOT_GAP of each other,
\* whatever was rescheduled, carried over or recovered in between.
StartsSeparated ==
  \A h, k \in Hosts :
    h # k /\ lastStart[h] # Never => ~Near(lastStart[h], lastStart[k])

\* A hypervisor's plan is scheduled exactly while the operator's approval of
\* it stands: given for this boot session, for a slot not later than the
\* present one, and not withdrawn since.  The daily pass, the carrying over
\* and a stale press neither invent an approval nor lose one.
ApprovalExact ==
  \A h \in Pve :
    /\ plan[h].phase = "scheduled" /\ plan[h].evening <=> approval[h] # NoApproval
    /\ approval[h] # NoApproval => /\ approval[h].bootId = plan[h].bootId
                                   /\ approval[h].target <= plan[h].target

\* An approval is applied to the very slot that the operator saw on the button,
\* whatever the daily pass and the reports did to the plan before the press
\* arrived.
ApprovalInformed ==
  [][\A h \in Hosts :
       approval'[h] # approval[h] /\ approval'[h] # NoApproval =>
         plan[h].target = approval'[h].target /\ plan'[h].target = approval'[h].target]_vars

\* A plan changes under a new revision only: what a button shows and what
\* Discord acknowledged is still what the plan says when the revisions agree.
\* The only change a revision survives is the start of the execution.
RevisionNamesSchedule ==
  [][\A h \in Hosts :
       LET p == plan[h]
           q == plan'[h]
       IN  p.phase # "none" /\ q.phase # "none" /\ q.revision = p.revision =>
             /\ q.target = p.target /\ q.evening = p.evening /\ q.bootId = p.bootId
             /\ q.phase = p.phase \/ (p.phase = "scheduled" /\ q.phase = "running")]_vars

\* An observation opens the gate only after the host's work was reported
\* complete and the observations since then showed no problem and no gap for
\* the whole stabilisation time.
PassEarned ==
  [][(\E o \in Observations : Observe(o)) /\ gate # NoGate /\ gate' = NoGate =>
       /\ gate.completedAt # Unset /\ now - gate.completedAt >= Stable
       /\ now - doubtAt' >= Stable /\ FreshAndHealthy(gate.host)]_vars
=============================================================================
