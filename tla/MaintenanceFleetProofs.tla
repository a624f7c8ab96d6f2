----------------------- MODULE MaintenanceFleetProofs -----------------------
(***************************************************************************)
(* Proofs about MaintenanceFleet, for every set of hosts and every value   *)
(* of its bounds.                                                          *)
(***************************************************************************)
EXTENDS MaintenanceFleetRefinement, TLAPS

-----------------------------------------------------------------------------
(* Plans: what the scheduling helpers keep *)

LEMMA Bounds ==
  /\ (\A r \in Revisions : r \in Nat) /\ 0 \in Revisions /\ 1 \in Revisions
  /\ (\A t \in Targets : t \in Nat) /\ 0 \in Targets
BY BoundAssumption DEF Revisions, Targets

LEMMA HostOrder ==
  /\ Len(HOSTS) \in Nat \ {0}
  /\ \A i \in 1..Len(HOSTS) : HOSTS[i] \in Hosts
BY HostsAssumption

\* Removing a plan leaves a plan that occupies nothing.
LEMMA RemovedPlan ==
  ASSUME NEW p \in Plans
  PROVE  Removed(p) \in Plans /\ Removed(p).phase = "none"
         /\ Removed(p).revision = p.revision
BY Bounds DEF Plans, Removed, Phases

\* Plans whose revision is not bounded yet.
RawPlans == [phase : Phases, revision : Nat, notified : Revisions, target : Targets,
             bootId : Nat, executionId : Nat, evening : BOOLEAN]

LEMMA BoundedPlan ==
  ASSUME NEW q \in RawPlans, q.revision \in Revisions
  PROVE  q \in Plans
BY DEF RawPlans, Plans

\* A revised plan differs in its revision and in what was announced of it.
LEMMA RevisedPlan ==
  ASSUME NEW p \in Plans
  PROVE  /\ Revised(p) \in RawPlans
         /\ Revised(p).revision = p.revision + 1 /\ Revised(p).notified = 0
         /\ Revised(p).phase = p.phase /\ Revised(p).target = p.target
         /\ Revised(p).bootId = p.bootId /\ Revised(p).evening = p.evening
         /\ Revised(p).executionId = p.executionId
<1>1. p.revision + 1 \in Nat
  <2>1. p.revision \in Nat
    BY Bounds DEF Plans
  <2> QED
    BY <2>1
<1>2. p \in RawPlans
  BY Bounds DEF Plans, RawPlans
<1>3. Revised(p) \in RawPlans
  <2> DEFINE r == [p EXCEPT !.revision = p.revision + 1]
  <2>1. r \in RawPlans
    BY <1>1, <1>2 DEF RawPlans
  <2>2. Revised(p) = [r EXCEPT !.notified = 0]
    BY <1>2 DEF Revised, RawPlans
  <2> QED
    BY <2>1, <2>2, Bounds DEF RawPlans
<1> QED
  BY <1>2, <1>3 DEF RawPlans, Revised

\* The realigned plan of a host is a plan, and executes nothing.
LEMMA AlignedPlan ==
  ASSUME NEW h \in Hosts, NEW p \in Plans, NEW t, NEW q \in Aligned(h, p, t)
  PROVE  q \in RawPlans /\ q.phase \in {"held", "approval"} /\ q.evening
         /\ q.revision = p.revision + 1 /\ q.bootId = p.bootId
<1>1. PICK u \in (IF Daytime(p.target)
                  THEN AvailableTargets(h, RealignFrom(h, p.target, t)) ELSE {p.target}) :
        q = [Revised(p) EXCEPT !.target = u, !.evening = TRUE,
                               !.phase = IF p.phase = "held" THEN "held" ELSE "approval"]
  BY DEF Aligned
<1>2. u \in Targets
  BY <1>1 DEF AvailableTargets, Plans
<1>3. PICK phase \in {"held", "approval"} :
        q = [Revised(p) EXCEPT !.target = u, !.evening = TRUE, !.phase = phase]
  BY <1>1
<1>4. [Revised(p) EXCEPT !.target = u] \in RawPlans
  BY <1>2, RevisedPlan DEF RawPlans
<1> QED
  BY <1>3, <1>4, RevisedPlan DEF RawPlans, Phases

\* A carried plan keeps its approval and its boot session.
LEMMA CarriedPlan ==
  ASSUME NEW h \in Hosts, NEW p \in Plans, NEW t, NEW q \in Carried(h, p, t)
  PROVE  q \in RawPlans /\ q.phase = p.phase /\ q.bootId = p.bootId
         /\ q.evening = p.evening /\ q.revision = p.revision + 1
<1>1. PICK u \in AvailableTargets(h, CarryFrom(t)) : q = [Revised(p) EXCEPT !.target = u]
  BY DEF Carried
<1>2. u \in Targets
  BY <1>1 DEF AvailableTargets
<1> QED
  BY <1>1, <1>2, RevisedPlan, Bounds DEF RawPlans, Phases

\* What the daily pass proposes, or moves to the next slot, is a plan that
\* executes nothing.
LEMMA ProposedPlan ==
  ASSUME NEW h \in Hosts, NEW p \in Plans, NEW s \in Snapshots, NEW t,
         NEW q \in Proposed(h, p, s, t) \cup Retargeted(h, p, t)
  PROVE  q \in RawPlans /\ q.phase = (IF h \in Pve THEN "approval" ELSE "scheduled")
         /\ q.revision = p.revision + 1
<1>1. PICK u \in AvailableTargets(h, NextMorning(h, t)) :
        \/ q = [Revised(p) EXCEPT !.target = u, !.evening = (h \in Pve),
                     !.bootId = s.bootId,
                     !.phase = IF h \in Pve THEN "approval" ELSE "scheduled"]
        \/ q = [Revised(p) EXCEPT !.target = u,
                     !.phase = IF h \in Pve THEN "approval" ELSE "scheduled"]
  BY DEF Proposed, Retargeted
<1>2. u \in Targets
  BY <1>1 DEF AvailableTargets
<1>3. (h \in Pve) \in BOOLEAN
  OBVIOUS
<1> QED
  BY <1>1, <1>2, <1>3, RevisedPlan, Bounds
  DEF RawPlans, Phases, Snapshots

-----------------------------------------------------------------------------
(* Gates *)

LEMMA AbsentRows ==
  /\ NoGate \in Gates /\ NoUpdate \in Updates
  /\ NoPress \in Presses /\ NoTick \in [at : Nat, next : 0..Len(HOSTS)]
BY Bounds, HostsAssumption
DEF NoGate, Gates, OptionalTime, Unset, NoUpdate, Updates, NoPress, Presses, NoTick

LEMMA OptionalTimes ==
  Unset \in OptionalTime /\ \A t \in Nat : t \in OptionalTime /\ t # Unset
BY DEF OptionalTime, Unset

\* Completing or holding a gate changes neither its owner nor its kind.
LEMMA FinishedGate ==
  ASSUME NEW g \in Gates, NEW h, NEW e, now \in Nat
  PROVE  LET f == Finished(g, h, e)
         IN  f \in Gates /\ f.host = g.host /\ f.execution = g.execution
             /\ f.kind = g.kind /\ f.held = g.held /\ (f = NoGate => g = NoGate)
<1> DEFINE f == [[g EXCEPT !.completedAt = now] EXCEPT !.stableSince = Unset]
<1>1. [g EXCEPT !.completedAt = now, !.stableSince = Unset] = f
  OBVIOUS
<1>2. [g EXCEPT !.completedAt = now] \in Gates
  BY OptionalTimes DEF Gates
<1>3. f \in Gates
  BY <1>2, OptionalTimes DEF Gates
<1>4. f.host = g.host /\ f.execution = g.execution /\ f.kind = g.kind /\ f.held = g.held
      /\ f.completedAt = now
  BY DEF Gates
<1>5. f # NoGate
  BY <1>4, OptionalTimes DEF NoGate
<1> QED
  BY <1>1, <1>3, <1>4, <1>5 DEF Finished

LEMMA HeldGate ==
  ASSUME NEW g \in Gates, NEW cause \in {"timeout", "operation"}
  PROVE  LET f == Held(g, cause)
         IN  f \in Gates /\ f.host = g.host /\ f.execution = g.execution
             /\ f.kind = g.kind /\ f.held = cause /\ f # NoGate
BY DEF Gates, Held, NoGate

\* An observation keeps the gate's owner; it opens no gate that is held for a
\* failed operation, and never turns such a gate into another one.
LEMMA ObservedGate ==
  ASSUME NEW g \in Gates, g # NoGate, NEW problem \in BOOLEAN, NEW t \in Nat, NEW fresh
  PROVE  LET o == ObserveGate(g, problem, t, fresh)
         IN  /\ o.gate \in Gates /\ o.gate.host = g.host
             /\ o.gate.execution = g.execution /\ o.gate.kind = g.kind
             /\ g.held = "operation" => o.gate = g /\ o.outcome = "held"
             /\ o.gate # NoGate
<1> DEFINE stable == StableAfter(g, problem, t, fresh)
           seen == [g EXCEPT !.stableSince = stable, !.lastObservationAt = t]
           clean == [seen EXCEPT !.stableSince = IF stable = Unset THEN t ELSE stable]
           next == IF problem THEN seen ELSE clean
<1>1. stable \in OptionalTime /\ t \in OptionalTime
  BY DEF StableAfter, Gates, OptionalTime
<1>2. seen \in Gates /\ seen.host = g.host /\ seen.execution = g.execution
      /\ seen.kind = g.kind /\ seen # NoGate
  <2>1. [g EXCEPT !.stableSince = stable] \in Gates
    BY <1>1 DEF Gates
  <2>2. seen \in Gates /\ seen.lastObservationAt = t
    BY <1>1, <2>1 DEF Gates
  <2>3. seen # NoGate
    BY <2>2, OptionalTimes DEF NoGate
  <2> QED
    BY <2>2, <2>3 DEF Gates
<1>3. next \in Gates /\ next.host = g.host /\ next.execution = g.execution
      /\ next.kind = g.kind /\ next # NoGate
  <2>1. clean \in Gates /\ clean.lastObservationAt = seen.lastObservationAt
    BY <1>1, <1>2 DEF Gates
  <2>2. clean # NoGate
    BY <2>1, <1>1, OptionalTimes DEF NoGate, Gates
  <2> QED
    BY <1>2, <2>1, <2>2 DEF Gates
<1>4. CASE g.held = "operation"
  BY <1>4 DEF ObserveGate
<1>5. CASE g.held # "operation"
  <2>1. CASE g.completedAt = Unset
    BY <1>2, <1>5, <2>1, HeldGate DEF ObserveGate
  <2>2. CASE g.completedAt # Unset
    <3> DEFINE o == ObserveGate(g, problem, t, fresh)
    <3>1. o.gate \in {next, Held(next, "timeout")}
      BY <1>5, <2>2 DEF ObserveGate
    <3> HIDE DEF next
    <3>2. \A x \in {next, Held(next, "timeout")} :
            x \in Gates /\ x.host = g.host /\ x.execution = g.execution
            /\ x.kind = g.kind /\ x # NoGate
      BY <1>3, HeldGate
    <3> HIDE DEF o
    <3>3. o.gate \in Gates /\ o.gate.host = g.host /\ o.gate.execution = g.execution
          /\ o.gate.kind = g.kind /\ o.gate # NoGate
      BY <3>1, <3>2
    <3> QED
      BY <1>5, <3>3 DEF o
  <2> QED
    BY <2>1, <2>2
<1> QED
  BY <1>4, <1>5

-----------------------------------------------------------------------------
(* Types *)

LEMMA InitType == Init => TypeOK
<1> SUFFICES ASSUME Init PROVE TypeOK
  OBVIOUS
<1>1. NoPlan \in Plans /\ NoSnapshot \in Snapshots /\ NoInspection \in Inspections(Nat)
      /\ NoApproval \in [bootId : Nat, target : Targets]
  BY Bounds DEF NoPlan, Plans, Phases, NoSnapshot, Snapshots, NoInspection, Inspections,
     NoApproval
<1>2. \A h \in Hosts : LegacyPlans(h) \subseteq Plans
  BY Bounds, InputAssumption DEF LegacyPlans, Plans, Phases, Targets
<1>3. plan \in [Hosts -> Plans]
  BY <1>1, <1>2 DEF Init
<1>4. Never \in Int
  BY SpanAssumption DEF Never
<1>5. \A n : tick = NoTick => (tick # NoTick => tick.next # 0)
  OBVIOUS
<1> QED
  BY <1>1, <1>3, <1>4, AbsentRows DEF Init, TypeOK

LEMMA SmallSteps ==
  ASSUME TypeOK, Advance \/ Restart \/ TickStart \/ RefuseInteraction
                 \/ \E h \in Hosts : Reboot(h) \/ PublishStart(h)
  PROVE  TypeOK'
<1>1. CASE Advance
  BY <1>1, BoundAssumption DEF TypeOK, Advance, lockVars, messageVars
<1>2. CASE Restart
  BY <1>2, AbsentRows DEF TypeOK, Restart, lockVars, worldVars
<1>3. CASE TickStart
  <2>1. tick' \in [at : Nat, next : 0..Len(HOSTS)] /\ tick'.next # 0
    BY <1>3, HostOrder DEF TickStart, TypeOK
  <2> QED
    BY <1>3, <2>1 DEF TypeOK, TickStart, lockVars, worldVars
<1>4. CASE RefuseInteraction
  BY <1>4, AbsentRows DEF TypeOK, RefuseInteraction, lockVars, worldVars
<1>5. ASSUME NEW h \in Hosts, Reboot(h) PROVE TypeOK'
  BY <1>5 DEF TypeOK, Reboot, lockVars, messageVars
<1>6. ASSUME NEW h \in Hosts, PublishStart(h) PROVE TypeOK'
  <2>1. [host |-> h, revision |-> plan[h].revision] \in Publications
    BY DEF TypeOK, Plans, Publications
  <2> QED
    BY <1>6, <2>1 DEF TypeOK, PublishStart, lockVars, worldVars
<1> QED
  BY <1>1, <1>2, <1>3, <1>4, <1>5, <1>6

LEMMA PressType ==
  ASSUME TypeOK, NEW h \in Hosts, NEW button \in Buttons, NEW target \in Targets,
         Press(h, button, target)
  PROVE  TypeOK'
<1>1. press' \in Presses /\ press'.host \in Hosts /\ press'.button \in Buttons
  BY DEF TypeOK, Press, Presses, Plans
<1> QED
  BY <1>1 DEF TypeOK, Press, lockVars, worldVars

LEMMA PublishEndType ==
  ASSUME TypeOK, NEW m \in inFlight, NEW accepted \in BOOLEAN, PublishEnd(m, accepted)
  PROVE  TypeOK'
<1>1. m.host \in Hosts /\ m.revision \in Revisions
  BY DEF TypeOK, Publications
<1>2. [plan[m.host] EXCEPT !.notified = m.revision] \in Plans
  <2>1. plan[m.host] \in Plans
    BY <1>1 DEF TypeOK
  <2> QED
    BY <1>1, <2>1 DEF Plans
<1>3. plan' \in [Hosts -> Plans]
  BY <1>1, <1>2 DEF TypeOK, PublishEnd
<1> QED
  BY <1>3 DEF TypeOK, PublishEnd, lockVars, worldVars

LEMMA StartedGateType ==
  ASSUME TypeOK, NEW h \in Hosts, NEW e \in Nat, NEW kind \in {"update", "reboot"}
  PROVE  LET g == StartedGate(h, e, kind)
         IN  g \in Gates /\ g.host = h /\ g.execution = e /\ g.kind = kind
             /\ g.held = "no" /\ g # NoGate
<1> DEFINE a == [NoGate EXCEPT !.host = h]
           b == [a EXCEPT !.execution = e]
           c == [b EXCEPT !.kind = kind]
           d == [c EXCEPT !.startedAt = now]
           g == [d EXCEPT !.baseline = inspection.bad]
<1>1. now \in Nat /\ inspection.bad \in SUBSET Checks
  BY DEF TypeOK, Inspections
<1>2. NoGate \in Gates /\ NoGate.held = "no" /\ NoGate.kind = "none"
  BY AbsentRows DEF NoGate
<1>3. a \in Gates /\ a.host = h /\ a.held = "no"
  BY <1>2 DEF Gates
<1>4. b \in Gates /\ b.host = h /\ b.held = "no" /\ b.execution = e
  BY <1>3 DEF Gates
<1>5. c \in Gates /\ c.host = h /\ c.held = "no" /\ c.execution = e /\ c.kind = kind
  BY <1>4 DEF Gates
<1>6. d \in Gates /\ d.host = h /\ d.held = "no" /\ d.execution = e /\ d.kind = kind
  BY <1>1, <1>5 DEF Gates
<1>7. g \in Gates /\ g.host = h /\ g.held = "no" /\ g.execution = e /\ g.kind = kind
  BY <1>1, <1>6 DEF Gates
<1>8. StartedGate(h, e, kind) = g
  BY DEF StartedGate
<1> QED
  BY <1>2, <1>7, <1>8

LEMMA ClaimType ==
  ASSUME TypeOK, NEW h \in Hosts, Claim(h)
  PROVE  TypeOK'
<1> DEFINE e == executions + 1
           q == [[plan[h] EXCEPT !.phase = "running"] EXCEPT !.executionId = e]
<1>1. e \in Nat
  BY DEF TypeOK
<1>2. q \in Plans
  <2>1. [plan[h] EXCEPT !.phase = "running"] \in Plans
    <3>1. plan[h] \in Plans
      BY DEF TypeOK
    <3> QED
      BY <3>1 DEF Plans, Phases
  <2> HIDE DEF e
  <2> QED
    BY <1>1, <2>1 DEF Plans
<1>3. plan' \in [Hosts -> Plans]
  <2>1. plan' = [plan EXCEPT ![h] = q]
    BY DEF Claim, TypeOK, Plans
  <2> QED
    BY <1>2, <2>1 DEF TypeOK
<1>4. gate' \in Gates
  BY <1>1, StartedGateType DEF Claim, TypeOK
<1>5. NoApproval \in [bootId : Nat, target : Targets]
  BY Bounds DEF NoApproval
<1> QED
  BY <1>1, <1>3, <1>4, <1>5 DEF TypeOK, Claim, messageVars, worldVars

LEMMA ClaimUpdateType ==
  ASSUME TypeOK, NEW h \in Hosts, ClaimUpdate(h)
  PROVE  TypeOK'
<1> DEFINE e == executions + 1
<1>1. e \in Nat
  BY DEF TypeOK
<1>2. gate' \in Gates
  BY <1>1, StartedGateType DEF ClaimUpdate
<1>3. [host |-> h, execution |-> e, failed |-> FALSE] \in Updates
  BY <1>1 DEF Updates
<1> QED
  BY <1>1, <1>2, <1>3 DEF TypeOK, ClaimUpdate, messageVars, worldVars

LEMMA HandleType ==
  ASSUME TypeOK, NEW e \in Nat, Handle(e)
  PROVE  handled' \subseteq [execution : Nat, at : Nat]
BY DEF TypeOK, Handle

LEMMA GateAfterType ==
  ASSUME TypeOK, NEW e \in Nat, NEW outcome
  PROVE  GateAfter(e, outcome) \in Gates
BY HeldGate, AbsentRows DEF GateAfter, TypeOK

LEMMA UpdateResultType ==
  ASSUME TypeOK, NEW h \in Hosts, NEW outcome \in {"blocked", "failed", "complete"},
         UpdateResult(h, outcome)
  PROVE  TypeOK'
<1>1. update.execution \in Nat
  BY DEF TypeOK, Updates
<1>2. update' \in Updates
  BY AbsentRows DEF UpdateResult, TypeOK, Updates
<1>3. gate' \in Gates
  BY <1>1, GateAfterType, FinishedGate DEF UpdateResult, TypeOK
<1>4. handled' \subseteq [execution : Nat, at : Nat]
  BY <1>1, HandleType DEF UpdateResult
<1> QED
  BY <1>2, <1>3, <1>4 DEF TypeOK, UpdateResult, messageVars, worldVars

LEMMA ResultType ==
  ASSUME TypeOK, NEW h \in Hosts, NEW outcome \in {"blocked", "failed", "complete"},
         Result(h, outcome)
  PROVE  TypeOK'
<1> DEFINE p == plan[h]
<1>1. p \in Plans /\ p.executionId \in Nat
  BY DEF TypeOK, Plans
<1>2. \A phase \in Phases : [Revised(p) EXCEPT !.phase = phase] \in RawPlans
  BY <1>1, RevisedPlan DEF RawPlans
<1>3. PICK q : q \in RawPlans /\ q.revision \in Revisions /\ plan' = [plan EXCEPT ![h] = q]
  <2>1. Removed(p) \in RawPlans
    BY <1>1, RemovedPlan, Bounds DEF Plans, RawPlans
  <2> QED
    BY <1>2, <2>1 DEF Result, Phases
<1>4. plan' \in [Hosts -> Plans]
  BY <1>3, BoundedPlan DEF TypeOK
<1>5. gate' \in Gates
  BY <1>1, GateAfterType DEF Result
<1>6. handled' \subseteq [execution : Nat, at : Nat]
  BY <1>1, HandleType DEF Result
<1> QED
  BY <1>4, <1>5, <1>6 DEF TypeOK, Result, worldVars

\* What a report leaves of a plan: nothing, the plan itself, or the same plan
\* realigned or carried over, which executes nothing.
LEMMA ReportedPlan ==
  ASSUME TypeOK, NEW h \in Hosts, NEW r \in Reports, Report(h, r)
  PROVE  LET p == plan[h]
             q == plan'[h]
             recovered == p.phase = "running" /\ p.bootId # boot[h] /\ r.healthy
             gated == recovered /\ h \in Pve /\ gate.execution = p.executionId
         IN  /\ q \in Plans /\ plan' = [plan EXCEPT ![h] = q]
             /\ Executing(p) => q = IF recovered /\ ~gated THEN Removed(p) ELSE p
             /\ ~Executing(p) => ~Executing(q)
             /\ q.bootId \in {p.bootId, 0}
<1> DEFINE p == plan[h]
           recovered == p.phase = "running" /\ p.bootId # boot[h] /\ r.healthy
           gated == recovered /\ h \in Pve /\ gate.execution = p.executionId
           obsolete == Changeable(p) /\ (p.bootId # boot[h] \/ ~r.required)
           kept == IF obsolete \/ (recovered /\ ~gated) THEN Removed(p) ELSE p
<1>1. p \in Plans
  BY DEF TypeOK
<1>2. kept \in Plans /\ kept.phase \in {p.phase, "none"} /\ kept.bootId \in {p.bootId, 0}
  <2>1. Removed(p).bootId = 0
    BY <1>1 DEF Removed, Plans
  <2> QED
    BY <1>1, <2>1, RemovedPlan
<1>3. Executing(p) => kept = IF recovered /\ ~gated THEN Removed(p) ELSE p
  BY DEF Executing, Changeable
<1> HIDE DEF kept
<1>4. PICK q \in IF NeedsAlign(h, kept) THEN Aligned(h, kept, now)
                 ELSE IF NeedsCarry(h, kept, now) THEN Carried(h, kept, now)
                 ELSE {kept} :
        q.revision \in Revisions /\ plan' = [plan EXCEPT ![h] = q]
  BY DEF Report, kept
<1>5. \/ q = kept
      \/ /\ NeedsAlign(h, kept) \/ NeedsCarry(h, kept, now)
         /\ q \in Plans /\ ~Executing(q) /\ q.bootId = kept.bootId
  <2>1. CASE NeedsAlign(h, kept)
    BY <1>2, <1>4, <2>1, AlignedPlan, BoundedPlan DEF Executing
  <2>2. CASE ~NeedsAlign(h, kept) /\ NeedsCarry(h, kept, now)
    BY <1>2, <1>4, <2>2, CarriedPlan, BoundedPlan DEF Executing, NeedsCarry
  <2> QED
    BY <1>4, <2>1, <2>2
<1>6. NeedsAlign(h, kept) \/ NeedsCarry(h, kept, now) => ~Executing(p)
  BY <1>2, <1>3, RemovedPlan, <1>1 DEF NeedsAlign, NeedsCarry, Executing, Changeable
<1>7. plan'[h] = q
  BY <1>4 DEF TypeOK
<1>8. ~Executing(p) => ~Executing(kept)
  BY <1>2 DEF Executing
<1> QED
  BY <1>2, <1>3, <1>4, <1>5, <1>6, <1>7, <1>8

LEMMA ReportType ==
  ASSUME TypeOK, NEW h \in Hosts, NEW r \in Reports, Report(h, r)
  PROVE  TypeOK'
<1>1. plan' \in [Hosts -> Plans]
  BY ReportedPlan DEF TypeOK
<1>2. gate' \in Gates
  BY FinishedGate DEF Report, TypeOK
<1>3. snapshot' \in [Hosts -> Snapshots]
  BY InputAssumption DEF Report, TypeOK, Snapshots
<1>4. approval' \in [Hosts -> [bootId : Nat, target : Targets]]
  BY Bounds DEF Report, TypeOK, NoApproval
<1>5. pending' \subseteq Hosts
  BY DEF Report, TypeOK
<1> QED
  BY <1>1, <1>2, <1>3, <1>4, <1>5 DEF TypeOK, Report, worldVars

LEMMA RecoverType ==
  ASSUME TypeOK, NEW h \in Hosts, Recover(h)
  PROVE  TypeOK'
<1> DEFINE p == plan[h]
           q == IF p.phase = "none" THEN p ELSE [Revised(p) EXCEPT !.phase = "held"]
<1>1. p \in Plans
  BY DEF TypeOK
<1>2. q \in Plans
  <2>1. [Revised(p) EXCEPT !.phase = "held"] \in RawPlans
    BY <1>1, RevisedPlan DEF RawPlans, Phases
  <2>2. q.revision \in Revisions
    BY DEF Recover
  <2> QED
    BY <1>1, <2>1, <2>2, BoundedPlan
<1>3. plan' = [plan EXCEPT ![h] = q] /\ q.revision \in Revisions
  BY DEF Recover
<1> HIDE DEF q
<1>4. plan' \in [Hosts -> Plans]
  BY <1>2, <1>3 DEF TypeOK
<1>5. inFlight' \subseteq Publications
  <2>1. [host |-> h, revision |-> q.revision] \in Publications
    BY <1>3 DEF Publications
  <2> QED
    BY <2>1 DEF Recover, TypeOK, q
<1>6. gate' \in Gates /\ update' \in Updates
  BY AbsentRows DEF Recover, TypeOK
<1>7. approval' \in [Hosts -> [bootId : Nat, target : Targets]]
  BY Bounds DEF Recover, TypeOK, NoApproval
<1> QED
  BY <1>4, <1>5, <1>6, <1>7 DEF TypeOK, Recover, worldVars

LEMMA ObserveType ==
  ASSUME TypeOK, NEW o \in Observations, Observe(o)
  PROVE  TypeOK'
<1> DEFINE i == [at |-> now, broken |-> o.broken, bad |-> o.bad]
           h == gate.host
           problem == ~FreshAndHealthy(h) \/ Regressed(i, gate.baseline, now, Fresh)
           seen == ObserveGate(gate, problem, now, Fresh)
<1>1. inspection' \in Inspections(Nat)
  BY InputAssumption DEF Observe, TypeOK, Inspections
<1>2. problem \in BOOLEAN
  BY DEF Regressed, FreshAndHealthy
<1> HIDE DEF problem
<1>3. gate # NoGate => seen.gate \in Gates
  BY <1>2, ObservedGate DEF TypeOK
<1>4. gate' \in {gate, NoGate} \/ (gate # NoGate /\ gate' = seen.gate)
  BY DEF Observe, problem
<1>5. gate' \in Gates
  BY <1>3, <1>4, AbsentRows DEF TypeOK
<1>6. update' \in {update, NoUpdate} /\ plan' \in {plan, [plan EXCEPT ![h] = Removed(plan[h])]}
  BY DEF Observe
<1>7. plan' \in [Hosts -> Plans]
  <2>1. plan \in [Hosts -> Plans]
    BY DEF TypeOK
  <2>2. h \in Hosts => Removed(plan[h]) \in Plans
    BY <2>1, RemovedPlan
  <2> HIDE DEF h
  <2> QED
    BY <1>6, <2>1, <2>2
<1>8. update' \in Updates /\ doubtAt' \in Nat
  BY <1>6, AbsentRows DEF TypeOK, Observe
<1> QED
  BY <1>1, <1>5, <1>7, <1>8 DEF TypeOK, Observe, worldVars, messageVars

\* What a press turns a changeable plan into: a plan that executes nothing.
LEMMA AskedPlan ==
  ASSUME TypeOK, Accepted,
         Revised(Asked(press.host, plan[press.host])).target \in Targets
  PROVE  LET h == press.host
             q == Asked(h, plan[h])
         IN  h \in Hosts /\ ~Executing(plan[h]) /\ q \in Plans /\ ~Executing(q)
             /\ q.revision = plan[h].revision
<1> DEFINE h == press.host
           p == plan[h]
           q == Asked(h, p)
           unapproved == IF h \in Pve THEN "approval" ELSE "scheduled"
<1>1. h \in Hosts /\ press.button \in {"hold", "defer", "date", "approve"}
  BY InputAssumption DEF TypeOK, Accepted
<1>2. p \in Plans /\ ~Executing(p)
  BY <1>1 DEF TypeOK, Accepted, Changeable, Executing
<1>3. PICK phase \in {"held", "scheduled", "approval"} :
        \E u : q = [p EXCEPT !.target = u, !.phase = phase]
               \/ q = [p EXCEPT !.phase = phase]
  <2>1. unapproved \in {"held", "scheduled", "approval"}
    OBVIOUS
  <2> HIDE DEF p, h, unapproved
  <2> QED
    BY <1>1, <2>1 DEF Asked, p, h, unapproved
<1>4. PICK target : q = [p EXCEPT !.target = target, !.phase = phase]
                    \/ q = [p EXCEPT !.phase = phase]
  BY <1>3
<1>5. CASE q = [p EXCEPT !.phase = phase]
  BY <1>1, <1>2, <1>5 DEF Plans, Phases, Executing
<1>6. CASE q = [p EXCEPT !.target = target, !.phase = phase]
  <2> DEFINE r == [p EXCEPT !.target = target]
  <2>1. q = [r EXCEPT !.phase = phase]
    BY <1>2, <1>6 DEF Plans
  <2>2. Revised(q).target = target
    BY <1>2, <2>1 DEF Plans, Revised
  <2>3. r \in Plans /\ r.revision = p.revision
    BY <1>2, <2>2 DEF Plans
  <2> HIDE DEF q, r
  <2>4. q \in Plans /\ ~Executing(q) /\ q.revision = r.revision
    BY <2>1, <2>3 DEF Plans, Phases, Executing
  <2> QED
    BY <1>1, <1>2, <2>3, <2>4 DEF q
<1> QED
  BY <1>4, <1>5, <1>6

\* What an accepted press leaves of the plan.
LEMMA AppliedPlan ==
  ASSUME TypeOK, ApplyInteraction
  PROVE  LET h == press.host
         IN  /\ h \in Hosts /\ ~Executing(plan[h]) /\ ~Executing(plan'[h])
             /\ plan'[h] \in Plans /\ plan' = [plan EXCEPT ![h] = plan'[h]]
<1> DEFINE h == press.host
           a == Asked(h, plan[h])
           q == Revised(a)
           f == IF press.button = "hold" THEN q ELSE [q EXCEPT !.evening = (h \in Pve)]
<1>1. q.target \in Targets /\ q.revision \in Revisions /\ plan' = [plan EXCEPT ![h] = f]
  BY DEF ApplyInteraction
<1>2. h \in Hosts /\ ~Executing(plan[h]) /\ a \in Plans /\ ~Executing(a)
  BY <1>1, AskedPlan DEF ApplyInteraction
<1> HIDE DEF a
<1>3. q \in Plans /\ ~Executing(q)
  BY <1>1, <1>2, RevisedPlan, BoundedPlan DEF Executing
<1> HIDE DEF q
<1>4. [q EXCEPT !.evening = (h \in Pve)] \in Plans
  <2>1. (h \in Pve) \in BOOLEAN
    OBVIOUS
  <2> HIDE DEF h
  <2> QED
    BY <1>3, <2>1 DEF Plans
<1>5. f \in Plans /\ ~Executing(f)
  BY <1>3, <1>4 DEF Executing, Plans
<1> HIDE DEF f
<1>6. plan'[h] = f
  BY <1>1, <1>2 DEF TypeOK
<1> QED
  BY <1>1, <1>2, <1>5, <1>6

LEMMA ApplyType ==
  ASSUME TypeOK, ApplyInteraction
  PROVE  TypeOK'
<1> DEFINE h == press.host
           q == Revised(Asked(h, plan[h]))
<1>1. h \in Hosts /\ plan' \in [Hosts -> Plans]
  BY AppliedPlan DEF TypeOK
<1>2. q.revision \in Revisions
  BY DEF ApplyInteraction
<1>3. [host |-> h, revision |-> q.revision] \in Publications
  BY <1>1, <1>2 DEF Publications
<1>4. inFlight' \subseteq Publications
  BY <1>3 DEF ApplyInteraction, TypeOK
<1>5. approval' \in [Hosts -> [bootId : Nat, target : Targets]]
  <2>1. [bootId |-> plan[h].bootId, target |-> press.seen] \in [bootId : Nat, target : Targets]
    BY <1>1 DEF TypeOK, Plans, Presses
  <2>2. NoApproval \in [bootId : Nat, target : Targets]
    BY Bounds DEF NoApproval
  <2> QED
    BY <2>1, <2>2 DEF ApplyInteraction, TypeOK
<1>6. handled' \subseteq [execution : Nat, at : Nat] /\ press' = NoPress
  BY DEF ApplyInteraction, TypeOK
<1> QED
  BY <1>1, <1>4, <1>5, <1>6, AbsentRows DEF TypeOK, ApplyInteraction, lockVars, worldVars

\* One turn of the daily pass leaves an executing plan alone and lets no
\* other plan execute.
LEMMA TickedPlan ==
  ASSUME TypeOK, TickHost
  PROVE  LET h == HOSTS[tick.next]
             q == plan'[h]
         IN  /\ h \in Hosts /\ q \in Plans /\ plan' = [plan EXCEPT ![h] = q]
             /\ Executing(plan[h]) => q = plan[h]
             /\ ~Executing(plan[h]) => ~Executing(q)
<1> DEFINE h == HOSTS[tick.next]
           t == tick.at
           p == plan[h]
           s == snapshot[h]
           wanted == p.phase = "none" /\ s # NoSnapshot /\ s.required
                       /\ t - s.observedAt <= TickFresh
<1>1. h \in Hosts
  BY HostOrder DEF TypeOK, TickHost
<1>2. p \in Plans /\ s \in Snapshots
  BY <1>1 DEF TypeOK
<1>3. PICK a \in IF NeedsAlign(h, p) THEN Aligned(h, p, t)
                 ELSE IF wanted THEN Proposed(h, p, s, t) ELSE {p} :
      \E q \in IF a.phase # "scheduled" \/ t < WindowEnd(h, a.target) THEN {a}
               ELSE IF NeedsCarry(h, a, t) THEN Carried(h, a, t)
               ELSE Retargeted(h, a, t) :
        q.revision \in Revisions /\ plan' = [plan EXCEPT ![h] = q]
  BY DEF TickHost
<1>4. PICK q \in IF a.phase # "scheduled" \/ t < WindowEnd(h, a.target) THEN {a}
                 ELSE IF NeedsCarry(h, a, t) THEN Carried(h, a, t)
                 ELSE Retargeted(h, a, t) :
        q.revision \in Revisions /\ plan' = [plan EXCEPT ![h] = q]
  BY <1>3
<1>5. a = p \/ (~Executing(p) /\ a \in RawPlans /\ ~Executing(a))
  <2>1. CASE NeedsAlign(h, p)
    BY <1>1, <1>2, <1>3, <2>1, AlignedPlan DEF NeedsAlign, Changeable, Executing
  <2>2. CASE ~NeedsAlign(h, p) /\ wanted
    <3>1. a \in RawPlans /\ a.phase \in {"approval", "scheduled"}
      BY <1>1, <1>2, <1>3, <2>2, ProposedPlan
    <3> QED
      BY <2>2, <3>1 DEF Executing
  <2> QED
    BY <1>3, <2>1, <2>2
<1>6. a \in RawPlans
  BY <1>2, <1>5, Bounds DEF Plans, RawPlans
<1>7. CASE q = a
  <2>1. a \in Plans
    BY <1>4, <1>6, <1>7, BoundedPlan
  <2> QED
    BY <1>1, <1>4, <1>5, <1>7, <2>1 DEF TypeOK
<1>8. CASE q # a
  <2>1. q \in Carried(h, a, t) \cup Retargeted(h, a, t) /\ a.phase = "scheduled"
    BY <1>4, <1>8
  <2>2. q.revision = a.revision + 1
    BY <1>6, <2>1 DEF Carried, Retargeted, Revised, RawPlans
  <2>3. a.revision \in Revisions
    BY <1>4, <1>6, <2>2, BoundAssumption DEF Revisions, RawPlans
  <2>4. a \in Plans
    BY <1>6, <2>3, BoundedPlan
  <2>5. q \in RawPlans /\ q.phase \in {"scheduled", "approval"}
    <3>1. CASE q \in Carried(h, a, t)
      BY <1>1, <2>1, <2>4, <3>1, CarriedPlan
    <3>2. CASE q \in Retargeted(h, a, t)
      BY <1>1, <1>2, <2>4, <3>2, ProposedPlan
    <3> QED
      BY <2>1, <3>1, <3>2
  <2>6. ~Executing(p) /\ ~Executing(q)
    BY <1>5, <2>1, <2>5 DEF Executing
  <2> QED
    BY <1>1, <1>4, <2>5, <2>6, BoundedPlan DEF TypeOK
<1> QED
  BY <1>7, <1>8

LEMMA TickHostType ==
  ASSUME TypeOK, TickHost
  PROVE  TypeOK'
<1>1. plan' \in [Hosts -> Plans]
  BY TickedPlan DEF TypeOK
<1>2. pending' \subseteq Hosts
  <2>1. pending \subseteq Hosts /\ tick.next \in 1..Len(HOSTS)
    BY HostOrder DEF TypeOK, TickHost
  <2>2. pending' \subseteq pending \cup {HOSTS[tick.next]}
    BY DEF TickHost
  <2> QED
    BY <2>1, <2>2, HostOrder
<1>3. tick' \in [at : Nat, next : 0..Len(HOSTS)] /\ (tick' # NoTick => tick'.next # 0)
  <2>1. tick.at \in Nat /\ tick.next \in 1..Len(HOSTS)
    BY HostOrder DEF TypeOK, TickHost
  <2>2. CASE tick.next = Len(HOSTS)
    BY <2>2, AbsentRows DEF TickHost
  <2>3. CASE tick.next # Len(HOSTS)
    BY <2>1, <2>3, HostOrder DEF TickHost, TypeOK
  <2> QED
    BY <2>2, <2>3
<1> QED
  BY <1>1, <1>2, <1>3 DEF TypeOK, TickHost, lockVars, worldVars

LEMMA StepType ==
  ASSUME TypeOK, [Next]_vars
  PROVE  TypeOK'
<1>1. CASE UNCHANGED vars
  BY <1>1 DEF TypeOK, vars, worldVars, lockVars, messageVars
<1>2. CASE \E h \in Hosts, button \in Buttons \ {"date"} : Press(h, button, 0)
  BY <1>2, PressType, Bounds
<1>3. CASE \E h \in Hosts, button \in Buttons \cap {"date"}, target \in PickedTargets :
             Press(h, button, target)
  <2>1. PickedTargets \subseteq Targets
    BY InputAssumption DEF Targets
  <2> QED
    BY <1>3, <2>1, PressType
<1> QED
  BY <1>1, <1>2, <1>3, SmallSteps, PublishEndType, ClaimType, ClaimUpdateType,
     UpdateResultType, ResultType, ReportType, RecoverType, ObserveType, ApplyType,
     TickHostType DEF Next

\* The stored rows and the suspended handlers keep their shapes in every
\* reachable state, whatever the hosts, the calendar and the bounds.
THEOREM TypeCorrect == Spec => []TypeOK
<1>1. Init => TypeOK
  BY InitType
<1>2. TypeOK /\ [Next]_vars => TypeOK'
  BY StepType
<1> QED
  BY <1>1, <1>2, PTL DEF Spec

-----------------------------------------------------------------------------
(* The lock *)

\* Nothing is under way: there is no gate either.
LEMMA IdleGate ==
  ASSUME LockInv, update = NoUpdate, \A h \in Pve : ~Executing(plan[h])
  PROVE  gate = NoGate
BY DEF LockInv, GateBacked

\* A host's running or failed plan excludes the update row, and a gate belongs
\* to it exactly when the host is a hypervisor.
LEMMA OwnGate ==
  ASSUME LockInv, NEW h \in Hosts, Executing(plan[h])
  PROVE  /\ update = NoUpdate
         /\ \A k \in Hosts : Executing(plan[k]) => k = h
         /\ h \in Pve => /\ gate # NoGate /\ gate.host = h /\ gate.kind = "reboot"
                         /\ gate.execution = plan[h].executionId
         /\ h \notin Pve => gate = NoGate
<1>1. update = NoUpdate /\ \A k \in Hosts : Executing(plan[k]) => k = h
  BY DEF LockInv, Exclusive
<1>2. NoGate.kind = "none"
  BY DEF NoGate
<1>3. CASE h \in Pve
  BY <1>1, <1>2, <1>3 DEF LockInv, GateBacked
<1>4. CASE h \notin Pve
  BY <1>1, <1>4, IdleGate, HostsAssumption
<1> QED
  BY <1>1, <1>3, <1>4

\* The update row excludes every running or failed plan, and owns the gate.
LEMMA OwnUpdate ==
  ASSUME LockInv, update # NoUpdate
  PROVE  /\ \A k \in Hosts : ~Executing(plan[k])
         /\ gate # NoGate /\ gate.kind = "update"
         /\ update.host = gate.host /\ update.execution = gate.execution
<1>1. gate.kind = "update" /\ \A k \in Hosts : ~Executing(plan[k])
  BY DEF LockInv, GateBacked, Exclusive
<1>2. NoGate.kind = "none"
  BY DEF NoGate
<1> QED
  BY <1>1, <1>2 DEF LockInv, GateBacked

\* A step that neither touches the row and the gate nor lets a plan begin or
\* end its execution keeps the lock.
LEMMA UntouchedLock ==
  ASSUME LockInv, TypeOK', UNCHANGED <<update, gate, executions>>,
         \A h \in Hosts :
           /\ Executing(plan[h]) => /\ plan'[h].phase = plan[h].phase
                                    /\ plan'[h].executionId = plan[h].executionId
           /\ ~Executing(plan[h]) => ~Executing(plan'[h])
  PROVE  LockInv'
<1>1. \A h \in Hosts : Executing(plan[h]) <=> Executing(plan'[h])
  BY DEF Executing
<1>2. Exclusive'
  BY <1>1 DEF LockInv, Exclusive
<1>3. GateBacked'
  BY <1>1, HostsAssumption DEF LockInv, GateBacked
<1>4. Numbered'
  BY <1>1 DEF LockInv, Numbered
<1> QED
  BY <1>2, <1>3, <1>4 DEF LockInv

LEMMA ClaimLock ==
  ASSUME LockInv, TypeOK', NEW h \in Hosts, Claim(h)
  PROVE  LockInv'
<1> DEFINE e == executions + 1
<1>1. update = NoUpdate /\ update' = NoUpdate /\ \A k \in Hosts : ~Executing(plan[k])
  BY DEF Claim, OthersIdle, Due, Executing
<1>2. gate = NoGate
  BY <1>1, IdleGate, HostsAssumption
<1>3. e \in Nat /\ executions' = e /\ e \in 1..executions'
  BY DEF LockInv, TypeOK, Claim
<1> HIDE DEF e
<1>4. /\ plan'[h].phase = "running" /\ plan'[h].executionId = e
      /\ \A k \in Hosts \ {h} : plan'[k] = plan[k]
  BY DEF Claim, LockInv, TypeOK, Plans, e
<1>5. \A k \in Hosts : Executing(plan'[k]) <=> k = h
  BY <1>1, <1>4 DEF Executing
<1>6. IF h \in Pve
      THEN gate' # NoGate /\ gate'.host = h /\ gate'.execution = e /\ gate'.kind = "reboot"
      ELSE gate' = NoGate
  BY <1>2, <1>3, StartedGateType DEF Claim, LockInv, e
<1>7. Exclusive' /\ Numbered'
  BY <1>1, <1>3, <1>4, <1>5 DEF Exclusive, Numbered
<1>8. GateBacked'
  BY <1>1, <1>4, <1>5, <1>6, HostsAssumption DEF GateBacked
<1> QED
  BY <1>7, <1>8 DEF LockInv

LEMMA ClaimUpdateLock ==
  ASSUME LockInv, TypeOK', NEW h \in Hosts, ClaimUpdate(h)
  PROVE  LockInv'
<1> DEFINE e == executions + 1
<1>1. \A k \in Hosts : ~Executing(plan'[k])
  BY DEF ClaimUpdate
<1>2. e \in Nat /\ executions' = e /\ e \in 1..executions'
  BY DEF LockInv, TypeOK, ClaimUpdate
<1>3. /\ update' = [host |-> h, execution |-> e, failed |-> FALSE]
      /\ gate' # NoGate /\ gate'.host = h /\ gate'.execution = e /\ gate'.kind = "update"
  BY <1>2, StartedGateType DEF ClaimUpdate, LockInv
<1>4. update' # NoUpdate
  BY <1>3, HostAssumption DEF NoUpdate
<1> QED
  BY <1>1, <1>2, <1>3, <1>4, HostsAssumption DEF LockInv, Exclusive, Numbered, GateBacked

LEMMA UpdateResultLock ==
  ASSUME LockInv, TypeOK', NEW h \in Hosts,
         NEW outcome \in {"blocked", "failed", "complete"}, UpdateResult(h, outcome)
  PROVE  LockInv'
<1>1. update # NoUpdate /\ update.host = h
  BY HostAssumption DEF UpdateResult, NoUpdate
<1>2. /\ \A k \in Hosts : ~Executing(plan'[k])
      /\ gate # NoGate /\ gate.kind = "update"
      /\ update.host = gate.host /\ update.execution = gate.execution
  BY <1>1, OwnUpdate DEF UpdateResult
<1>3. gate \in Gates /\ update \in Updates /\ update.execution \in 1..executions
  BY <1>1 DEF LockInv, TypeOK, Numbered
<1>4. CASE outcome = "failed"
  <2>1. update' = [update EXCEPT !.failed = TRUE] /\ gate' = Held(gate, "operation")
    BY <1>2, <1>4 DEF UpdateResult, GateAfter
  <2>2. update'.host = h /\ update'.execution = update.execution /\ update' # NoUpdate
    BY <1>1, <1>3, <2>1, HostAssumption DEF Updates, NoUpdate
  <2>3. gate' # NoGate /\ gate'.host = gate.host /\ gate'.execution = gate.execution
        /\ gate'.kind = "update" /\ gate'.held = "operation"
    BY <1>2, <1>3, <2>1, HeldGate
  <2> QED
    BY <1>1, <1>2, <1>3, <2>2, <2>3, HostsAssumption
    DEF LockInv, Exclusive, GateBacked, Numbered, UpdateResult
<1>5. CASE outcome = "complete"
  <2>1. update' = update /\ gate' = Finished(gate, h, update.execution)
    BY <1>5 DEF UpdateResult
  <2>2. gate' # NoGate /\ gate'.host = gate.host /\ gate'.execution = gate.execution
        /\ gate'.kind = "update" /\ gate'.held = gate.held
    BY <1>2, <1>3, <2>1, FinishedGate DEF LockInv, TypeOK
  <2> QED
    BY <1>1, <1>2, <1>3, <2>1, <2>2, HostsAssumption
    DEF LockInv, Exclusive, GateBacked, Numbered, UpdateResult
<1>6. CASE outcome = "blocked"
  <2>1. update' = NoUpdate /\ gate' = NoGate
    BY <1>2, <1>6 DEF UpdateResult, GateAfter
  <2> QED
    BY <1>2, <2>1, HostsAssumption DEF LockInv, Exclusive, GateBacked, Numbered
<1> QED
  BY <1>4, <1>5, <1>6

LEMMA ResultLock ==
  ASSUME LockInv, TypeOK', NEW h \in Hosts,
         NEW outcome \in {"blocked", "failed", "complete"}, Result(h, outcome)
  PROVE  LockInv'
<1> DEFINE p == plan[h]
           e == p.executionId
<1>1. p \in Plans /\ p.phase = "running" /\ Executing(p) /\ e \in 1..executions
  BY DEF Result, LockInv, TypeOK, Executing, Numbered
<1>2. /\ update = NoUpdate /\ update' = NoUpdate /\ executions' = executions
      /\ \A k \in Hosts \ {h} : ~Executing(plan[k]) /\ plan'[k] = plan[k]
  BY <1>1, OwnGate DEF Result, LockInv, TypeOK
<1>3. IF h \in Pve
      THEN /\ gate # NoGate /\ gate.host = h /\ gate.execution = e /\ gate.kind = "reboot"
           /\ gate' = IF outcome = "failed" THEN Held(gate, "operation") ELSE NoGate
      ELSE gate' = NoGate
  <2>1. CASE h \in Pve
    BY <1>1, <2>1, OwnGate DEF Result, GateAfter
  <2>2. CASE h \notin Pve
    <3>1. gate = NoGate /\ NoGate.execution = 0
      BY <1>1, <2>2, OwnGate DEF NoGate
    <3>2. e # 0
      BY <1>1 DEF LockInv, TypeOK
    <3> QED
      BY <2>2, <3>1, <3>2 DEF Result, GateAfter
  <2> QED
    BY <2>1, <2>2
<1>4. CASE outcome # "failed"
  <2>1. ~Executing(plan'[h])
    <3>1. plan'[h] = IF outcome = "complete" THEN Removed(p)
                     ELSE [Revised(p) EXCEPT !.phase = "held"]
      BY <1>4 DEF Result, LockInv, TypeOK
    <3>2. [Revised(p) EXCEPT !.phase = "held"].phase = "held"
      BY <1>1, RevisedPlan DEF RawPlans
    <3> QED
      BY <1>1, <3>1, <3>2, RemovedPlan DEF Executing
  <2>2. gate' = NoGate
    BY <1>3, <1>4
  <2> QED
    BY <1>2, <2>1, <2>2, HostsAssumption DEF LockInv, Exclusive, GateBacked, Numbered
<1>5. CASE outcome = "failed"
  <2>1. plan'[h].phase = "failed" /\ plan'[h].executionId = e
    <3>1. plan'[h] = [Revised(p) EXCEPT !.phase = "failed"]
      BY <1>5 DEF Result, LockInv, TypeOK
    <3> QED
      BY <1>1, <3>1, RevisedPlan DEF RawPlans
  <2>2. \A k \in Hosts : Executing(plan'[k]) <=> k = h
    BY <1>2, <2>1 DEF Executing
  <2>3. IF h \in Pve
        THEN gate' # NoGate /\ gate'.host = h /\ gate'.execution = e
             /\ gate'.kind = "reboot" /\ gate'.held = "operation"
        ELSE gate' = NoGate
    BY <1>3, <1>5, HeldGate DEF LockInv, TypeOK
  <2>4. Exclusive' /\ Numbered'
    BY <1>1, <1>2, <2>1, <2>2 DEF Exclusive, Numbered
  <2>5. GateBacked'
    BY <1>2, <2>1, <2>2, <2>3, HostsAssumption DEF GateBacked
  <2> QED
    BY <2>4, <2>5 DEF LockInv
<1> QED
  BY <1>4, <1>5

LEMMA RecoverLock ==
  ASSUME LockInv, TypeOK', NEW h \in Hosts, Recover(h)
  PROVE  LockInv'
<1>1. ~Executing(plan'[h])
  <2>1. plan[h] \in Plans
    BY DEF LockInv, TypeOK
  <2>2. plan'[h] = IF plan[h].phase = "none" THEN plan[h]
                   ELSE [Revised(plan[h]) EXCEPT !.phase = "held"]
    BY DEF Recover, LockInv, TypeOK
  <2>3. [Revised(plan[h]) EXCEPT !.phase = "held"].phase = "held"
    BY <2>1, RevisedPlan DEF RawPlans
  <2> QED
    BY <2>2, <2>3 DEF Executing
<1>2. \A k \in Hosts \ {h} : plan'[k] = plan[k]
  BY DEF Recover, LockInv, TypeOK
<1>3. /\ gate' = IF gate.host = h THEN NoGate ELSE gate
      /\ update' = IF update.host = h THEN NoUpdate ELSE update
      /\ executions' = executions
  BY DEF Recover
<1>4. \A k \in Hosts : Executing(plan'[k]) =>
        k # h /\ Executing(plan[k]) /\ plan'[k] = plan[k]
  BY <1>1, <1>2
<1>5. Exclusive' /\ Numbered'
  BY <1>3, <1>4 DEF LockInv, Exclusive, Numbered
<1>6. ASSUME update' # NoUpdate
      PROVE  gate' = gate /\ update' = update
  BY <1>3, <1>6, OwnUpdate
<1>7. ASSUME NEW k \in Hosts, Executing(plan'[k])
      PROVE  gate' = gate
  <2>1. Executing(plan[k]) /\ k # h
    BY <1>4, <1>7
  <2>2. gate.host = k \/ gate = NoGate
    BY <2>1, OwnGate
  <2> QED
    BY <1>3, <2>1, <2>2
<1>8. ASSUME gate' # NoGate
      PROVE  gate' = gate /\ gate.host # h
  BY <1>3, <1>8
<1>9. GateBacked'
  <2>1. gate' # NoGate =>
          \/ gate'.kind = "update" /\ update' # NoUpdate
             /\ update'.host = gate'.host /\ update'.execution = gate'.execution
          \/ gate'.kind = "reboot" /\ gate'.host \in Pve /\ Executing(plan'[gate'.host])
             /\ plan'[gate'.host].executionId = gate'.execution
    BY <1>2, <1>3, <1>8, HostsAssumption DEF LockInv, GateBacked
  <2>2. update' # NoUpdate =>
          gate'.kind = "update" /\ (update'.failed => gate'.held = "operation")
    BY <1>6 DEF LockInv, GateBacked
  <2>3. \A k \in Pve : Executing(plan'[k]) =>
          /\ gate'.kind = "reboot" /\ gate'.host = k
          /\ plan'[k].phase = "failed" => gate'.held = "operation"
    BY <1>4, <1>7, HostsAssumption DEF LockInv, GateBacked
  <2> QED
    BY <2>1, <2>2, <2>3 DEF GateBacked
<1> QED
  BY <1>5, <1>9 DEF LockInv

LEMMA ReportLock ==
  ASSUME LockInv, TypeOK', NEW h \in Hosts, NEW r \in Reports, Report(h, r)
  PROVE  LockInv'
<1> DEFINE p == plan[h]
           recovered == p.phase = "running" /\ p.bootId # boot[h] /\ r.healthy
           gated == recovered /\ h \in Pve /\ gate.execution = p.executionId
<1>1. /\ gate' = IF gated THEN Finished(gate, h, p.executionId) ELSE gate
      /\ update' = update /\ executions' = executions
  BY DEF Report
<1>2. gate' \in Gates /\ gate'.host = gate.host /\ gate'.execution = gate.execution
      /\ gate'.kind = gate.kind /\ gate'.held = gate.held /\ (gate' = NoGate <=> gate = NoGate)
  <2>1. gate \in Gates /\ now \in Nat
    BY DEF LockInv, TypeOK
  <2>2. gate = NoGate => gate' = gate
    BY <1>1, HostAssumption DEF Finished, NoGate
  <2> QED
    BY <1>1, <2>1, <2>2, FinishedGate
<1>3. /\ \A k \in Hosts \ {h} : plan'[k] = plan[k]
      /\ Executing(p) => plan'[h] = IF recovered /\ ~gated THEN Removed(p) ELSE p
      /\ ~Executing(p) => ~Executing(plan'[h])
  <2>1. TypeOK /\ plan \in [Hosts -> Plans]
    BY DEF LockInv, TypeOK
  <2> QED
    BY <2>1, ReportedPlan
<1>4. ASSUME Executing(p), h \in Pve
      PROVE  plan'[h] = p
  <2>1. gate.execution = p.executionId
    BY <1>4, OwnGate
  <2> QED
    BY <1>3, <1>4, <2>1
<1>5. \A k \in Hosts : Executing(plan'[k]) => Executing(plan[k]) /\ plan'[k] = plan[k]
  <2>1. ~Executing(Removed(p))
    BY RemovedPlan DEF Executing, LockInv, TypeOK
  <2> QED
    BY <1>3, <2>1
<1>6. \A k \in Pve : Executing(plan[k]) => plan'[k] = plan[k]
  BY <1>3, <1>4, HostsAssumption
<1>7. Exclusive' /\ Numbered'
  BY <1>1, <1>5 DEF LockInv, Exclusive, Numbered
<1>8. GateBacked'
  <2>1. gate' # NoGate =>
          \/ /\ gate'.kind = "update" /\ update' # NoUpdate
             /\ update'.host = gate'.host /\ update'.execution = gate'.execution
          \/ /\ gate'.kind = "reboot" /\ gate'.host \in Pve
             /\ Executing(plan'[gate'.host])
             /\ plan'[gate'.host].executionId = gate'.execution
    BY <1>1, <1>2, <1>6 DEF LockInv, GateBacked
  <2>2. update' # NoUpdate =>
          gate'.kind = "update" /\ (update'.failed => gate'.held = "operation")
    BY <1>1, <1>2 DEF LockInv, GateBacked
  <2>3. \A k \in Pve : Executing(plan'[k]) =>
          /\ gate'.kind = "reboot" /\ gate'.host = k
          /\ plan'[k].phase = "failed" => gate'.held = "operation"
    BY <1>2, <1>5, HostsAssumption DEF LockInv, GateBacked
  <2> QED
    BY <2>1, <2>2, <2>3 DEF GateBacked
<1> QED
  BY <1>7, <1>8 DEF LockInv

LEMMA ObserveLock ==
  ASSUME LockInv, TypeOK', NEW o \in Observations, Observe(o)
  PROVE  LockInv'
<1> DEFINE i == [at |-> now, broken |-> o.broken, bad |-> o.bad]
           h == gate.host
           problem == ~FreshAndHealthy(h) \/ Regressed(i, gate.baseline, now, Fresh)
           seen == ObserveGate(gate, problem, now, Fresh)
           passed == seen.outcome = "passed"
<1>1. CASE gate = NoGate
  <2>1. UNCHANGED <<update, plan, gate, executions>>
    BY <1>1 DEF Observe
  <2> QED
    BY <2>1, UntouchedLock
<1>2. CASE gate # NoGate
  <2>1. problem \in BOOLEAN /\ gate \in Gates /\ now \in Nat
    BY DEF Regressed, FreshAndHealthy, LockInv, TypeOK
  <2> HIDE DEF problem
  <2>2. /\ seen.gate \in Gates /\ seen.gate.host = gate.host
        /\ seen.gate.execution = gate.execution /\ seen.gate.kind = gate.kind
        /\ gate.held = "operation" => seen.gate = gate /\ seen.outcome = "held"
        /\ seen.gate # NoGate
    BY <1>2, <2>1, ObservedGate
  <2> HIDE DEF seen
  <2>3. /\ gate' = IF passed THEN NoGate ELSE seen.gate
        /\ update' = IF passed /\ gate.kind = "update" /\ update.host = h
                        /\ update.execution = gate.execution
                     THEN NoUpdate ELSE update
        /\ plan' = IF passed /\ gate.kind = "reboot" /\ plan[h].phase = "running"
                      /\ plan[h].executionId = gate.execution
                   THEN [plan EXCEPT ![h] = Removed(@)] ELSE plan
        /\ executions' = executions
    BY <1>2 DEF Observe, seen, problem
  <2>4. CASE passed
    <3>1. gate' = NoGate /\ gate.held # "operation"
      BY <2>2, <2>3, <2>4
    <3>2. CASE gate.kind = "update"
      <4>1. update' = NoUpdate /\ plan' = plan /\ \A k \in Hosts : ~Executing(plan[k])
        BY <1>2, <2>3, <2>4, <3>2, OwnUpdate DEF LockInv, GateBacked
      <4> QED
        BY <2>3, <3>1, <4>1, HostsAssumption DEF LockInv, Exclusive, GateBacked, Numbered
    <3>3. CASE gate.kind # "update"
      <4>1. h \in Pve /\ h \in Hosts /\ gate.kind = "reboot" /\ Executing(plan[h])
            /\ plan[h].executionId = gate.execution
        BY <1>2, <3>3, HostsAssumption DEF LockInv, GateBacked
      <4>2. plan[h].phase = "running"
        BY <3>1, <4>1 DEF LockInv, GateBacked, Executing
      <4>3. update = NoUpdate /\ \A k \in Hosts \ {h} : ~Executing(plan[k])
        BY <4>1, OwnGate
      <4>4. plan' = [plan EXCEPT ![h] = Removed(plan[h])] /\ update' = NoUpdate
        BY <2>3, <2>4, <4>1, <4>2, <4>3
      <4>5. \A k \in Hosts : ~Executing(plan'[k])
        BY <4>1, <4>3, <4>4, RemovedPlan DEF LockInv, TypeOK, Executing
      <4> QED
        BY <2>3, <3>1, <4>4, <4>5, HostsAssumption
        DEF LockInv, Exclusive, GateBacked, Numbered
    <3> QED
      BY <3>2, <3>3
  <2>5. CASE ~passed
    <3>1. gate' = seen.gate /\ update' = update /\ plan' = plan
      BY <2>3, <2>5
    <3> QED
      BY <1>2, <2>2, <2>3, <3>1, HostsAssumption DEF LockInv, Exclusive, GateBacked, Numbered
  <2> QED
    BY <2>4, <2>5
<1> QED
  BY <1>1, <1>2

LEMMA OtherStepsLock ==
  ASSUME LockInv, TypeOK',
         \/ Advance \/ Restart \/ TickStart \/ RefuseInteraction \/ UNCHANGED vars
         \/ TickHost \/ ApplyInteraction
         \/ \E h \in Hosts : Reboot(h) \/ PublishStart(h)
         \/ \E h \in Hosts : \E button, target : Press(h, button, target)
         \/ \E m \in inFlight, accepted \in BOOLEAN : PublishEnd(m, accepted)
  PROVE  LockInv'
<1>1. CASE \/ Advance \/ Restart \/ TickStart \/ RefuseInteraction \/ UNCHANGED vars
           \/ \E h \in Hosts : Reboot(h) \/ PublishStart(h)
           \/ \E h \in Hosts : \E button, target : Press(h, button, target)
  <2>1. UNCHANGED <<plan, update, gate, executions>>
    BY <1>1 DEF Advance, Restart, TickStart, RefuseInteraction, Reboot, PublishStart, Press,
       vars, lockVars
  <2> QED
    BY <2>1, UntouchedLock
<1>2. CASE TickHost
  <2>1. UNCHANGED <<update, gate, executions>>
    BY <1>2 DEF TickHost, lockVars
  <2>2. plan \in [Hosts -> Plans] /\ TypeOK
    BY DEF LockInv, TypeOK
  <2> QED
    BY <1>2, <2>1, <2>2, TickedPlan, UntouchedLock
<1>3. CASE ApplyInteraction
  <2>1. UNCHANGED <<update, gate, executions>>
    BY <1>3 DEF ApplyInteraction, lockVars
  <2>2. plan \in [Hosts -> Plans] /\ TypeOK
    BY DEF LockInv, TypeOK
  <2> QED
    BY <1>3, <2>1, <2>2, AppliedPlan, UntouchedLock
<1>4. ASSUME NEW m \in inFlight, NEW accepted \in BOOLEAN, PublishEnd(m, accepted)
      PROVE  LockInv'
  <2>1. UNCHANGED <<update, gate, executions>>
    BY <1>4 DEF PublishEnd, lockVars
  <2>2. plan' = plan \/ plan' = [plan EXCEPT ![m.host].notified = m.revision]
    BY <1>4 DEF PublishEnd
  <2>3. \A h \in Hosts : plan'[h].phase = plan[h].phase
                         /\ plan'[h].executionId = plan[h].executionId
    <3>1. plan \in [Hosts -> Plans]
      BY DEF LockInv, TypeOK
    <3>2. \A p \in Plans : /\ [p EXCEPT !.notified = m.revision].phase = p.phase
                           /\ [p EXCEPT !.notified = m.revision].executionId = p.executionId
      BY DEF Plans
    <3> QED
      BY <2>2, <3>1, <3>2
  <2> QED
    BY <2>1, <2>3, UntouchedLock DEF Executing
<1> QED
  BY <1>1, <1>2, <1>3, <1>4

LEMMA InitLock == Init => LockInv
<1> SUFFICES ASSUME Init PROVE LockInv
  OBVIOUS
<1>1. \A h \in Hosts : ~Executing(plan[h])
  <2>1. \A h, k \in Hosts : \A p \in {NoPlan} \cup LegacyPlans(k) : ~Executing(p)
    <3>1. NoPlan.phase = "none"
      BY DEF NoPlan
    <3>2. \A k : \A p \in LegacyPlans(k) : p.phase \in {"scheduled", "approval", "held"}
      BY DEF LegacyPlans
    <3> QED
      BY <3>1, <3>2 DEF Executing
  <2> QED
    BY <2>1 DEF Init
<1> QED
  BY <1>1, InitType, HostsAssumption DEF Init, LockInv, Exclusive, GateBacked, Numbered

LEMMA StepLock ==
  ASSUME LockInv, [Next]_vars
  PROVE  LockInv'
<1>1. TypeOK /\ TypeOK'
  BY StepType DEF LockInv
<1> QED
  BY <1>1, ClaimLock, ClaimUpdateLock, UpdateResultLock, ResultLock, RecoverLock,
     ReportLock, ObserveLock, OtherStepsLock DEF Next

\* The lock is inductive: one update or reboot at a time, and the gate never
\* parts from the execution it belongs to, for any number of hosts.
THEOREM LockSafe == Spec => []LockInv
BY InitLock, StepLock, PTL DEF Spec

\* At most one package update or reboot is under way in the whole fleet.
THEOREM OneAtATime == Spec => []Exclusive
<1>1. LockInv => Exclusive
  BY DEF LockInv
<1> QED
  BY <1>1, LockSafe, PTL

\* A hypervisor never executes without its gate, and a failed operation keeps
\* a gate that no observation opens.
THEOREM GateKept == Spec => []GateBacked
<1>1. LockInv => GateBacked
  BY DEF LockInv
<1> QED
  BY <1>1, LockSafe, PTL

-----------------------------------------------------------------------------
(* The stabilisation time *)

\* At instant t, when the stability was last in doubt at d: stability is
\* counted from an instant after the completion, and after the last doubt
\* unless the gate is held for a failed operation.
Timed(g, d, t) ==
  /\ g.completedAt # Unset => g.completedAt <= t
  /\ g.stableSince # Unset =>
       /\ g.completedAt # Unset /\ g.completedAt <= g.stableSince
       /\ g.held # "operation" => d <= g.stableSince

GateTimes == doubtAt <= now /\ Timed(gate, doubtAt, now)

LEMMA FreshGates ==
  /\ \A d, t : Timed(NoGate, d, t)
  /\ \A h, e, kind, d, t : Timed(StartedGate(h, e, kind), d, t)
BY DEF Timed, NoGate, StartedGate

LEMMA HeldTimes ==
  ASSUME NEW g \in Gates, NEW d \in Nat, NEW t \in Nat, Timed(g, d, t)
  PROVE  Timed(Held(g, "operation"), d, t)
BY DEF Timed, Held, Gates

LEMMA FinishedTimes ==
  ASSUME NEW g \in Gates, NEW h, NEW e, NEW d \in Nat, now \in Nat, Timed(g, d, now)
  PROVE  Timed(Finished(g, h, e), d, now)
<1> DEFINE a == [g EXCEPT !.completedAt = now]
           f == [a EXCEPT !.stableSince = Unset]
<1>1. f.completedAt = now /\ f.stableSince = Unset
  BY DEF Gates
<1>2. Finished(g, h, e) \in {g, f}
  BY DEF Finished
<1> HIDE DEF f
<1> QED
  BY <1>1, <1>2 DEF Timed

\* An observation keeps the times; what it passes has been completed and
\* stable for the whole time.
LEMMA ObservedTimes ==
  ASSUME NEW g \in Gates, NEW problem \in BOOLEAN, NEW t \in Nat, NEW d \in Nat, d <= t,
         Timed(g, d, t)
  PROVE  LET o == ObserveGate(g, problem, t, Fresh)
             doubt == IF \/ problem
                         \/ g.lastObservationAt # Unset /\ t - g.lastObservationAt > Fresh
                      THEN t ELSE d
         IN  /\ Timed(o.gate, doubt, t)
             /\ o.outcome = "passed" =>
                  /\ ~problem /\ g.completedAt # Unset
                  /\ t - g.completedAt >= Stable /\ t - doubt >= Stable
<1> DEFINE gap == g.lastObservationAt # Unset /\ t - g.lastObservationAt > Fresh
           doubt == IF problem \/ gap THEN t ELSE d
           stable == StableAfter(g, problem, t, Fresh)
           since == IF problem THEN stable ELSE IF stable = Unset THEN t ELSE stable
           a == [g EXCEPT !.stableSince = stable]
           seen == [a EXCEPT !.lastObservationAt = t]
           clean == [seen EXCEPT !.stableSince = IF stable = Unset THEN t ELSE stable]
           next == IF problem THEN seen ELSE clean
           o == ObserveGate(g, problem, t, Fresh)
<1> SUFFICES /\ Timed(o.gate, doubt, t)
             /\ o.outcome = "passed" =>
                  /\ ~problem /\ g.completedAt # Unset
                  /\ t - g.completedAt >= Stable /\ t - doubt >= Stable
  OBVIOUS
<1>1. /\ seen.stableSince = stable /\ seen.completedAt = g.completedAt /\ seen.held = g.held
      /\ next.stableSince = since /\ next.completedAt = g.completedAt /\ next.held = g.held
  BY DEF Gates
<1>2. /\ stable = (IF problem \/ gap THEN Unset ELSE g.stableSince)
      /\ g.completedAt \in Nat \cup {Unset} /\ g.stableSince \in Nat \cup {Unset}
  BY DEF StableAfter, Gates, OptionalTime
<1>3. seen \in Gates /\ next \in Gates
  <2>1. stable \in OptionalTime /\ t \in OptionalTime
    BY <1>2 DEF OptionalTime
  <2>2. a \in Gates
    BY <2>1 DEF Gates
  <2>3. seen \in Gates
    BY <2>1, <2>2 DEF Gates
  <2>4. clean \in Gates
    BY <2>1, <2>3 DEF Gates
  <2> QED
    BY <2>3, <2>4
<1>4. /\ g.held = "operation" => o.gate = g /\ o.outcome = "held"
      /\ g.held # "operation" /\ g.completedAt = Unset =>
           o.gate \in {seen, Held(seen, "operation")} /\ o.outcome # "passed"
      /\ g.held # "operation" /\ g.completedAt # Unset =>
           /\ o.gate \in {next, Held(next, "timeout")}
           /\ o.outcome = "passed" => ~problem /\ t - next.stableSince >= Stable
  BY DEF ObserveGate, seen, clean, next, a, stable
<1> HIDE DEF a, seen, clean, next, o, stable
<1>5. /\ Held(seen, "operation").stableSince = stable
      /\ Held(seen, "operation").completedAt = g.completedAt
      /\ Held(next, "timeout").stableSince = since
      /\ Held(next, "timeout").completedAt = g.completedAt
      /\ Held(next, "timeout").held = "timeout"
  BY <1>1, <1>3 DEF Held, Gates
<1>6. CASE g.held = "operation"
  BY <1>4, <1>6 DEF Timed
<1>7. CASE g.held # "operation" /\ g.completedAt = Unset
  <2>1. stable = Unset
    BY <1>2, <1>7 DEF Timed
  <2>2. o.gate.stableSince = Unset /\ o.gate.completedAt = Unset /\ o.outcome # "passed"
    BY <1>1, <1>4, <1>5, <1>7, <2>1
  <2> QED
    BY <2>2 DEF Timed
<1>8. CASE g.held # "operation" /\ g.completedAt # Unset
  <2>1. o.gate.stableSince = since /\ o.gate.completedAt = g.completedAt
    BY <1>1, <1>4, <1>5, <1>8
  <2>2. /\ g.completedAt \in Nat /\ g.completedAt <= t
        /\ g.stableSince # Unset => g.completedAt <= g.stableSince /\ d <= g.stableSince
    BY <1>2, <1>8 DEF Timed
  <2>3. since # Unset => since \in Nat /\ g.completedAt <= since /\ doubt <= since
    BY <1>2, <2>2
  <2>4. ~problem => since # Unset
    BY <1>2, OptionalTimes
  <2>5. Timed(o.gate, doubt, t)
    BY <1>8, <2>1, <2>2, <2>3 DEF Timed
  <2>6. o.outcome = "passed" => ~problem /\ t - since >= Stable
    BY <1>1, <1>4, <1>8
  <2>7. o.outcome = "passed" =>
          ~problem /\ t - g.completedAt >= Stable /\ t - doubt >= Stable
    <3>1. doubt \in Nat
      OBVIOUS
    <3> HIDE DEF doubt, since
    <3> QED
      BY <2>2, <2>3, <2>4, <2>6, <3>1, HealthAssumption
  <2> QED
    BY <1>8, <2>5, <2>7
<1> QED
  BY <1>6, <1>7, <1>8

LEMMA ObserveTimes ==
  ASSUME LockInv, GateTimes, NEW o \in Observations, Observe(o)
  PROVE  /\ GateTimes'
         /\ gate # NoGate /\ gate' = NoGate =>
              /\ gate.completedAt # Unset /\ now - gate.completedAt >= Stable
              /\ now - doubtAt' >= Stable /\ FreshAndHealthy(gate.host)
<1> DEFINE i == [at |-> now, broken |-> o.broken, bad |-> o.bad]
           problem == ~FreshAndHealthy(gate.host) \/ Regressed(i, gate.baseline, now, Fresh)
           seen == ObserveGate(gate, problem, now, Fresh)
           passed == seen.outcome = "passed"
<1>1. CASE gate = NoGate
  BY <1>1 DEF Observe, GateTimes, worldVars
<1>2. CASE gate # NoGate
  <2>1. problem \in BOOLEAN /\ gate \in Gates /\ now \in Nat /\ doubtAt \in Nat
    BY DEF Regressed, FreshAndHealthy, LockInv, TypeOK
  <2>2. /\ gate' = IF passed THEN NoGate ELSE seen.gate
        /\ doubtAt' = IF \/ problem
                         \/ /\ gate.lastObservationAt # Unset
                            /\ now - gate.lastObservationAt > Fresh
                      THEN now ELSE doubtAt
        /\ now' = now
    BY <1>2 DEF Observe, worldVars
  <2>3. ~problem => FreshAndHealthy(gate.host)
    OBVIOUS
  <2> HIDE DEF problem
  <2>4. seen.gate # NoGate
    BY <1>2, <2>1, ObservedGate
  <2>5. /\ Timed(seen.gate, doubtAt', now)
        /\ passed => /\ ~problem /\ gate.completedAt # Unset
                     /\ now - gate.completedAt >= Stable /\ now - doubtAt' >= Stable
    BY <2>1, <2>2, ObservedTimes DEF GateTimes
  <2> HIDE DEF seen
  <2>6. GateTimes'
    BY <2>1, <2>2, <2>5, FreshGates DEF GateTimes
  <2> QED
    BY <2>2, <2>3, <2>4, <2>5, <2>6
<1> QED
  BY <1>1, <1>2

LEMMA StepTimes ==
  ASSUME LockInv, GateTimes, [Next]_vars
  PROVE  GateTimes'
<1>1. gate \in Gates /\ now \in Nat /\ doubtAt \in Nat
  BY DEF LockInv, TypeOK
<1>2. CASE UNCHANGED <<gate, now, doubtAt>>
  BY <1>2 DEF GateTimes
<1>3. CASE Advance
  <2>1. UNCHANGED <<gate, doubtAt>> /\ now' = now + 1
    BY <1>3 DEF Advance, lockVars
  <2>2. Timed(gate, doubtAt, now + 1)
    BY <1>1 DEF GateTimes, Timed, Gates, OptionalTime
  <2> QED
    BY <1>1, <2>1, <2>2 DEF GateTimes
<1>4. ASSUME NEW h \in Hosts,
             gate' \in {gate, NoGate} \/ \E e, kind : gate' = StartedGate(h, e, kind),
             UNCHANGED <<now, doubtAt>>
      PROVE  GateTimes'
  BY <1>4, FreshGates DEF GateTimes
<1>5. ASSUME NEW h \in Hosts, NEW outcome, NEW e,
             \/ gate' = GateAfter(e, outcome) \/ gate' = Finished(gate, h, e) \/ gate' = gate,
             UNCHANGED <<now, doubtAt>>
      PROVE  GateTimes'
  BY <1>1, <1>5, FreshGates, HeldTimes, FinishedTimes DEF GateTimes, GateAfter
<1>6. ASSUME NEW h \in Hosts, Claim(h) \/ ClaimUpdate(h) \/ Recover(h) PROVE GateTimes'
  BY <1>4, <1>6 DEF Claim, ClaimUpdate, Recover, worldVars
<1>7. ASSUME NEW h \in Hosts, NEW r \in Reports, Report(h, r) PROVE GateTimes'
  BY <1>5, <1>7 DEF Report, worldVars
<1>8. ASSUME NEW h \in Hosts, NEW outcome \in {"blocked", "failed", "complete"},
             UpdateResult(h, outcome) \/ Result(h, outcome)
      PROVE  GateTimes'
  <2>1. UNCHANGED <<now, doubtAt>>
    BY <1>8 DEF UpdateResult, Result, worldVars
  <2>2. \E e : gate' = GateAfter(e, outcome) \/ gate' = Finished(gate, h, e)
    BY <1>8 DEF UpdateResult, Result
  <2> QED
    BY <1>5, <2>1, <2>2
<1>9. ASSUME NEW o \in Observations, Observe(o) PROVE GateTimes'
  BY <1>9, ObserveTimes
<1>10. CASE \/ Restart \/ TickStart \/ TickHost \/ ApplyInteraction \/ RefuseInteraction
            \/ \E h \in Hosts : Reboot(h) \/ PublishStart(h)
            \/ \E h \in Hosts, button \in Buttons : \E target : Press(h, button, target)
            \/ \E m \in inFlight, accepted \in BOOLEAN : PublishEnd(m, accepted)
            \/ UNCHANGED vars
  <2>1. UNCHANGED <<gate, now, doubtAt>>
    BY <1>10 DEF Restart, TickStart, TickHost, ApplyInteraction, RefuseInteraction, Reboot,
       PublishStart, Press, PublishEnd, vars, worldVars, lockVars
  <2> QED
    BY <1>2, <2>1
<1> QED
  BY <1>3, <1>6, <1>7, <1>8, <1>9, <1>10 DEF Next

\* An observation opens the gate only when the work was reported complete and
\* nothing was in doubt since then for the whole stabilisation time, for every
\* such time and any gaps between the observations.
THEOREM StabilityEarned == Spec => PassEarned
<1>1. Init => GateTimes
  BY FreshGates DEF Init, GateTimes
<1>2. Spec => [](LockInv /\ GateTimes)
  BY <1>1, InitLock, StepLock, StepTimes, PTL DEF Spec
<1> DEFINE Earned ==
      (\E o \in Observations : Observe(o)) /\ gate # NoGate /\ gate' = NoGate =>
        /\ gate.completedAt # Unset /\ now - gate.completedAt >= Stable
        /\ now - doubtAt' >= Stable /\ FreshAndHealthy(gate.host)
<1>3. LockInv /\ GateTimes => [Earned]_vars
  BY ObserveTimes
<1> QED
  BY <1>2, <1>3, PTL DEF PassEarned
=============================================================================
