-------------------- MODULE MaintenanceFleetRefinementProofs --------------------
(***************************************************************************)
(* MaintenanceFleet implements ExclusiveMaintenance, for every set of      *)
(* hosts and every calendar: the invariant of the lock tells which         *)
(* execution is the one under way, and each step moves it as promised.     *)
(***************************************************************************)
EXTENDS MaintenanceFleetProofs

\* How far the execution is that owns the gate.
GatePhase(g) ==
  IF g.held = "operation" THEN "stopped"
  ELSE IF g.completedAt # Unset THEN "settling" ELSE "working"

Idle == update = NoUpdate /\ \A h \in Hosts : ~Executing(plan[h])

\* The mapping, one case for each holder of the lock.  A host that is not a
\* hypervisor has no gate: its plan alone tells that it was stopped.
View ==
  /\ Idle => Holder = NoHost /\ Stage = "free"
  /\ update # NoUpdate => Holder \in Hosts /\ Holder = update.host /\ Stage = GatePhase(gate)
  /\ \A h \in Hosts : Executing(plan[h]) =>
       /\ Holder = h
       /\ Stage = IF h \notin Pve /\ plan[h].phase = "failed" THEN "stopped"
                  ELSE GatePhase(gate)

LEMMA Views == LockInv => View
<1> SUFFICES ASSUME LockInv PROVE View
  OBVIOUS
<1>1. NoUpdate.failed = FALSE /\ NoGate.held = "no" /\ NoGate.completedAt = Unset
  BY DEF NoUpdate, NoGate
<1>2. ASSUME Idle
      PROVE  Holder = NoHost /\ Stage = "free"
  BY <1>2 DEF Idle, Holder, Stage
<1>3. ASSUME update # NoUpdate
      PROVE  Holder \in Hosts /\ Holder = update.host /\ Stage = GatePhase(gate)
  <2>1. Holder = update.host /\ Holder \in Hosts /\ Holder # NoHost
    BY <1>3, HostAssumption DEF Holder, LockInv, Numbered
  <2>2. Stopped <=> gate.held = "operation"
    <3>1. \A h \in Hosts : plan[h].phase # "failed"
      BY <1>3, OwnUpdate DEF Executing
    <3>2. update.failed => gate.held = "operation"
      BY <1>3 DEF LockInv, GateBacked
    <3> QED
      BY <3>1, <3>2 DEF Stopped
  <2> QED
    BY <2>1, <2>2 DEF Stage, GatePhase
<1>4. ASSUME NEW h \in Hosts, Executing(plan[h])
      PROVE  /\ Holder = h
             /\ Stage = IF h \notin Pve /\ plan[h].phase = "failed" THEN "stopped"
                        ELSE GatePhase(gate)
  <2>1. update = NoUpdate /\ \A k \in Hosts : Executing(plan[k]) <=> k = h
    BY <1>4, OwnGate
  <2>2. Holder = h /\ Holder # NoHost
    BY <2>1, HostAssumption DEF Holder
  <2>3. Stopped <=> gate.held = "operation" \/ plan[h].phase = "failed"
    BY <1>1, <2>1 DEF Stopped, Executing
  <2>4. CASE h \in Pve
    <3>1. plan[h].phase = "failed" => gate.held = "operation"
      BY <1>4, <2>4 DEF LockInv, GateBacked
    <3> QED
      BY <2>2, <2>3, <2>4, <3>1 DEF Stage, GatePhase
  <2>5. CASE h \notin Pve
    <3>1. gate = NoGate
      BY <1>4, <2>5, OwnGate
    <3> QED
      BY <1>1, <2>2, <2>3, <2>5, <3>1 DEF Stage, GatePhase
  <2> QED
    BY <2>4, <2>5
<1> QED
  BY <1>2, <1>3, <1>4 DEF View

LEMMA ViewsNext == LockInv' => View'
BY Views, PTL

-----------------------------------------------------------------------------
(* How gates advance *)

Advances(a, b) ==
  \/ a = b
  \/ a = "working" /\ b = "settling"
  \/ a \in {"working", "settling"} /\ b = "stopped"

LEMMA FinishedPhase ==
  ASSUME NEW g \in Gates, NEW h, NEW e, now \in Nat
  PROVE  Advances(GatePhase(g), GatePhase(Finished(g, h, e)))
<1> DEFINE f == [[g EXCEPT !.completedAt = now] EXCEPT !.stableSince = Unset]
<1>1. [g EXCEPT !.completedAt = now, !.stableSince = Unset] = f
  OBVIOUS
<1>2. f.held = g.held /\ f.completedAt = now /\ now # Unset
  BY OptionalTimes DEF Gates
<1> HIDE DEF f
<1>3. Finished(g, h, e) = g \/ (Finished(g, h, e) = f /\ g.completedAt = Unset)
  BY <1>1 DEF Finished
<1> QED
  BY <1>2, <1>3 DEF GatePhase, Advances

LEMMA HeldPhase ==
  ASSUME NEW g \in Gates
  PROVE  /\ GatePhase(Held(g, "operation")) = "stopped"
         /\ g.held # "operation" => GatePhase(Held(g, "timeout")) = GatePhase(g)
BY DEF GatePhase, Held, Gates

LEMMA StartedPhase ==
  ASSUME TypeOK, NEW h \in Hosts, NEW e \in Nat, NEW kind \in {"update", "reboot"}
  PROVE  GatePhase(StartedGate(h, e, kind)) = "working"
<1> DEFINE a == [NoGate EXCEPT !.host = h]
           b == [a EXCEPT !.execution = e]
           c == [b EXCEPT !.kind = kind]
           d == [c EXCEPT !.startedAt = now]
           g == [d EXCEPT !.baseline = inspection.bad]
<1>1. StartedGate(h, e, kind) = g
  BY DEF StartedGate
<1>2. g.held = "no" /\ g.completedAt = Unset
  BY DEF NoGate
<1> HIDE DEF g
<1> QED
  BY <1>1, <1>2 DEF GatePhase

LEMMA ObservedPhase ==
  ASSUME NEW g \in Gates, g # NoGate, NEW problem \in BOOLEAN, NEW t \in Nat, NEW fresh
  PROVE  Advances(GatePhase(g), GatePhase(ObserveGate(g, problem, t, fresh).gate))
<1> DEFINE stable == StableAfter(g, problem, t, fresh)
           s1 == [g EXCEPT !.stableSince = stable]
           seen == [s1 EXCEPT !.lastObservationAt = t]
           clean == [seen EXCEPT !.stableSince = IF stable = Unset THEN t ELSE stable]
           next == IF problem THEN seen ELSE clean
           o == ObserveGate(g, problem, t, fresh)
<1>1. stable \in OptionalTime /\ t \in OptionalTime
  BY DEF StableAfter, Gates, OptionalTime
<1> HIDE DEF stable
<1>2. s1 \in Gates /\ s1.held = g.held /\ s1.completedAt = g.completedAt
  BY <1>1 DEF Gates
<1> HIDE DEF s1
<1>3. seen \in Gates /\ seen.held = g.held /\ seen.completedAt = g.completedAt
  BY <1>1, <1>2 DEF Gates
<1> HIDE DEF seen
<1>4. clean \in Gates /\ clean.held = g.held /\ clean.completedAt = g.completedAt
  BY <1>1, <1>3 DEF Gates
<1> HIDE DEF clean
<1>5. next \in Gates /\ GatePhase(next) = GatePhase(g) /\ GatePhase(seen) = GatePhase(g)
      /\ next.held = g.held
  BY <1>3, <1>4 DEF GatePhase
<1> HIDE DEF next
<1>6. o.gate \in {g, seen, next}
      \/ (g.held # "operation" /\ o.gate \in {Held(seen, "operation"), Held(next, "timeout")})
  BY DEF ObserveGate, next, clean, seen, s1, stable
<1> HIDE DEF o
<1>7. g.held # "operation" => GatePhase(g) \in {"working", "settling"}
  BY DEF GatePhase
<1> QED
  BY <1>3, <1>5, <1>6, <1>7, HeldPhase DEF Advances, o

-----------------------------------------------------------------------------
(* The steps of the abstract specification *)

Promised == [Exclusion!Next]_(Exclusion!vars)

LEMMA Starts ==
  ASSUME NEW h \in Hosts, Stage = "free", Holder' = h, Stage' = "working",
         executions' = executions + 1
  PROVE  Promised
BY DEF Promised, Exclusion!Next, Exclusion!Acquire

LEMMA GoesOn ==
  ASSUME Holder' = Holder, Advances(Stage, Stage'), executions' = executions
  PROVE  Promised
BY DEF Promised, Advances, Exclusion!Next, Exclusion!Complete, Exclusion!Stop, Exclusion!vars

LEMMA Ends ==
  ASSUME Stage # "free", Idle', View', executions' = executions
  PROVE  Promised
<1>1. Holder' = NoHost /\ Stage' = "free"
  BY DEF View
<1> QED
  BY <1>1 DEF Promised, Exclusion!Next, Exclusion!Release

\* Somebody is under way exactly when the lock is not idle.
LEMMA NotFree ==
  ASSUME LockInv, View
  PROVE  /\ update # NoUpdate => Stage # "free"
         /\ \A h \in Hosts : Executing(plan[h]) => Stage # "free"
<1>1. GatePhase(gate) # "free"
  BY DEF GatePhase
<1> QED
  BY <1>1 DEF View

\* A step that neither moves the row and the gate nor begins, stops or ends the
\* execution of a plan is a stutter.
LEMMA Untouched ==
  ASSUME View, View', UNCHANGED <<update, gate, executions>>,
         \A h \in Hosts :
           /\ Executing(plan[h]) => plan'[h].phase = plan[h].phase
           /\ ~Executing(plan[h]) => ~Executing(plan'[h])
  PROVE  Promised
<1>1. \A h \in Hosts : Executing(plan'[h]) <=> Executing(plan[h])
  BY DEF Executing
<1>2. Holder' = Holder /\ Stage' = Stage
  <2>1. CASE Idle
    <3>1. Idle'
      BY <1>1, <2>1 DEF Idle
    <3> QED
      BY <2>1, <3>1 DEF View
  <2>2. CASE update # NoUpdate
    BY <2>2 DEF View
  <2>3. ASSUME NEW h \in Hosts, Executing(plan[h])
        PROVE  Holder' = Holder /\ Stage' = Stage
    BY <1>1, <2>3 DEF View
  <2> QED
    BY <2>1, <2>2, <2>3 DEF Idle
<1> QED
  BY <1>2, GoesOn DEF Advances

-----------------------------------------------------------------------------
(* Each action *)

LEMMA ClaimPromised ==
  ASSUME LockInv, View, View', NEW h \in Hosts, Claim(h)
  PROVE  Promised
<1>1. Idle
  BY DEF Claim, OthersIdle, Due, Executing, Idle
<1>2. gate = NoGate
  BY <1>1, IdleGate, HostsAssumption DEF Idle
<1>3. TypeOK /\ executions + 1 \in Nat /\ executions' = executions + 1
  BY DEF LockInv, TypeOK, Claim
<1>4. plan'[h].phase = "running"
  BY DEF Claim, LockInv, TypeOK, Plans
<1>5. GatePhase(gate') = "working"
  <2>1. GatePhase(NoGate) = "working"
    BY DEF GatePhase, NoGate
  <2>2. gate' = NoGate \/ gate' = StartedGate(h, executions + 1, "reboot")
    BY <1>2 DEF Claim
  <2> QED
    BY <1>3, <2>1, <2>2, StartedPhase
<1>6. Holder' = h /\ Stage' = "working"
  BY <1>4, <1>5 DEF View, Executing
<1> QED
  BY <1>1, <1>3, <1>6, Starts DEF View

LEMMA ClaimUpdatePromised ==
  ASSUME LockInv, View, View', NEW h \in Hosts, ClaimUpdate(h)
  PROVE  Promised
<1>1. Idle
  BY DEF ClaimUpdate, Idle
<1>2. TypeOK /\ executions + 1 \in Nat /\ executions' = executions + 1
  BY DEF LockInv, TypeOK, ClaimUpdate
<1>3. GatePhase(gate') = "working"
  BY <1>2, StartedPhase DEF ClaimUpdate
<1>4. update' = [host |-> h, execution |-> executions + 1, failed |-> FALSE]
  BY DEF ClaimUpdate
<1>5. update' # NoUpdate /\ update'.host = h
  BY <1>4, HostAssumption DEF NoUpdate
<1> QED
  BY <1>1, <1>2, <1>3, <1>5, Starts DEF View

LEMMA UpdateResultPromised ==
  ASSUME LockInv, View, View', NEW h \in Hosts,
         NEW outcome \in {"blocked", "failed", "complete"}, UpdateResult(h, outcome)
  PROVE  Promised
<1>1. update # NoUpdate /\ update.host = h /\ executions' = executions
  BY HostAssumption DEF UpdateResult, NoUpdate
<1>2. /\ \A k \in Hosts : ~Executing(plan'[k])
      /\ gate # NoGate /\ update.execution = gate.execution
  BY <1>1, OwnUpdate DEF UpdateResult
<1>3. gate \in Gates /\ now \in Nat /\ update \in Updates
  BY DEF LockInv, TypeOK
<1>4. CASE outcome = "blocked"
  <2>1. Idle'
    BY <1>2, <1>4 DEF UpdateResult, Idle
  <2> QED
    BY <1>1, <2>1, Ends, NotFree
<1>5. CASE outcome # "blocked"
  <2>1. update' # NoUpdate /\ update'.host = update.host
    BY <1>1, <1>3, <1>5, HostAssumption DEF UpdateResult, Updates, NoUpdate
  <2>2. Advances(GatePhase(gate), GatePhase(gate'))
    <3>1. CASE outcome = "failed"
      <4>1. gate' = Held(gate, "operation")
        BY <1>2, <3>1 DEF UpdateResult, GateAfter
      <4>2. GatePhase(gate) \in {"working", "settling", "stopped"}
        BY DEF GatePhase
      <4> QED
        BY <1>3, <4>1, <4>2, HeldPhase DEF Advances
    <3>2. CASE outcome = "complete"
      BY <1>3, <3>2, FinishedPhase DEF UpdateResult
    <3> QED
      BY <1>5, <3>1, <3>2
  <2> QED
    BY <1>1, <2>1, <2>2, GoesOn DEF View
<1> QED
  BY <1>4, <1>5

LEMMA ResultPromised ==
  ASSUME LockInv, View, View', NEW h \in Hosts,
         NEW outcome \in {"blocked", "failed", "complete"}, Result(h, outcome)
  PROVE  Promised
<1> DEFINE p == plan[h]
<1>1. p \in Plans /\ p.phase = "running" /\ Executing(p) /\ executions' = executions
  BY DEF Result, LockInv, TypeOK, Executing
<1>2. /\ update = NoUpdate /\ update' = NoUpdate
      /\ \A k \in Hosts \ {h} : ~Executing(plan[k]) /\ plan'[k] = plan[k]
  BY <1>1, OwnGate DEF Result, LockInv, TypeOK
<1>3. CASE outcome # "failed"
  <2>1. ~Executing(plan'[h])
    <3>1. plan'[h] = IF outcome = "complete" THEN Removed(p)
                     ELSE [Revised(p) EXCEPT !.phase = "held"]
      BY <1>3 DEF Result, LockInv, TypeOK
    <3>2. [Revised(p) EXCEPT !.phase = "held"].phase = "held"
      BY <1>1, RevisedPlan DEF RawPlans
    <3> QED
      BY <1>1, <3>1, <3>2, RemovedPlan DEF Executing
  <2>2. Idle'
    BY <1>2, <2>1 DEF Idle
  <2> QED
    BY <1>1, <2>2, Ends, NotFree
<1>4. CASE outcome = "failed"
  <2>1. plan'[h].phase = "failed"
    <3>1. plan'[h] = [Revised(p) EXCEPT !.phase = "failed"]
      BY <1>4 DEF Result, LockInv, TypeOK
    <3> QED
      BY <1>1, <3>1, RevisedPlan DEF RawPlans
  <2>2. h \in Pve => GatePhase(gate') = "stopped"
    BY <1>1, <1>4, OwnGate, HeldPhase DEF Result, GateAfter, LockInv, TypeOK
  <2>3. Holder' = h /\ Stage' = "stopped"
    BY <2>1, <2>2 DEF View, Executing
  <2>4. Holder = h /\ Stage \in {"working", "settling", "stopped"}
    BY <1>1 DEF View, GatePhase
  <2> QED
    BY <1>1, <2>3, <2>4, GoesOn DEF Advances
<1> QED
  BY <1>3, <1>4

LEMMA RecoverPromised ==
  ASSUME LockInv, View, View', NEW h \in Hosts, Recover(h)
  PROVE  Promised
<1>1. /\ ~Executing(plan'[h])
      /\ \A k \in Hosts \ {h} : plan'[k] = plan[k]
  <2>1. plan[h] \in Plans /\ plan \in [Hosts -> Plans]
    BY DEF LockInv, TypeOK
  <2>2. plan' = [plan EXCEPT ![h] = IF plan[h].phase = "none" THEN plan[h]
                                    ELSE [Revised(plan[h]) EXCEPT !.phase = "held"]]
    BY DEF Recover
  <2>3. [Revised(plan[h]) EXCEPT !.phase = "held"].phase = "held"
    BY <2>1, RevisedPlan DEF RawPlans
  <2> QED
    BY <2>1, <2>2, <2>3 DEF Executing
<1>2. /\ gate' = IF gate.host = h THEN NoGate ELSE gate
      /\ update' = IF update.host = h THEN NoUpdate ELSE update
      /\ executions' = executions
  BY DEF Recover
<1>3. h # NoHost /\ NoGate.host = NoHost /\ NoUpdate.host = NoHost
  BY HostAssumption DEF NoGate, NoUpdate
<1>4. CASE update # NoUpdate /\ update.host = h
  <2>1. Idle'
    BY <1>1, <1>2, <1>4, OwnUpdate DEF Idle
  <2> QED
    BY <1>2, <1>4, <2>1, Ends, NotFree
<1>5. CASE Executing(plan[h])
  <2>1. Idle'
    BY <1>1, <1>2, <1>5, OwnGate DEF Idle
  <2> QED
    BY <1>2, <1>5, <2>1, Ends, NotFree
<1>6. CASE ~(update # NoUpdate /\ update.host = h) /\ ~Executing(plan[h])
  <2>1. update' = update
    BY <1>2, <1>6
  <2>2. gate.host # h
    <3>1. CASE update # NoUpdate
      BY <1>6, <3>1, OwnUpdate
    <3>2. ASSUME NEW k \in Hosts, Executing(plan[k])
          PROVE  gate.host # h
      BY <1>3, <1>6, <3>2, OwnGate
    <3>3. CASE Idle
      BY <1>3, <3>3, IdleGate, HostsAssumption DEF Idle
    <3> QED
      BY <3>1, <3>2, <3>3 DEF Idle
  <2> QED
    BY <1>1, <1>2, <1>6, <2>1, <2>2, Untouched
<1> QED
  BY <1>4, <1>5, <1>6

LEMMA ReportPromised ==
  ASSUME LockInv, View, View', NEW h \in Hosts, NEW r \in Reports, Report(h, r)
  PROVE  Promised
<1> DEFINE p == plan[h]
           recovered == p.phase = "running" /\ p.bootId # boot[h] /\ r.healthy
           gated == recovered /\ h \in Pve /\ gate.execution = p.executionId
<1>1. /\ gate' = IF gated THEN Finished(gate, h, p.executionId) ELSE gate
      /\ update' = update /\ executions' = executions
  BY DEF Report
<1>2. /\ \A k \in Hosts \ {h} : plan'[k] = plan[k]
      /\ Executing(p) => plan'[h] = IF recovered /\ ~gated THEN Removed(p) ELSE p
      /\ ~Executing(p) => ~Executing(plan'[h])
  <2>1. TypeOK /\ plan \in [Hosts -> Plans]
    BY DEF LockInv, TypeOK
  <2> QED
    BY <2>1, ReportedPlan
<1>3. p \in Plans /\ gate \in Gates /\ now \in Nat
  BY DEF LockInv, TypeOK
<1>4. gated => Executing(p)
  BY DEF Executing
<1> HIDE DEF gated, recovered
<1>5. CASE ~Executing(p)
  BY <1>1, <1>2, <1>4, <1>5, Untouched
<1>6. CASE Executing(p) /\ recovered /\ ~gated
  <2>1. Idle'
    BY <1>1, <1>2, <1>3, <1>6, OwnGate, RemovedPlan DEF Idle, Executing
  <2> QED
    BY <1>1, <1>6, <2>1, Ends, NotFree
<1>7. CASE Executing(p) /\ ~(recovered /\ ~gated)
  <2>1. plan'[h] = p
    BY <1>2, <1>7
  <2>2. Advances(GatePhase(gate), GatePhase(gate'))
    BY <1>1, <1>3, FinishedPhase DEF Advances
  <2>3. Holder = h /\ Holder' = h
    BY <1>7, <2>1 DEF View
  <2>4. CASE h \notin Pve /\ p.phase = "failed"
    BY <1>1, <1>7, <2>1, <2>3, <2>4, GoesOn DEF View, Advances
  <2>5. CASE ~(h \notin Pve /\ p.phase = "failed")
    <3>1. Stage = GatePhase(gate) /\ Stage' = GatePhase(gate')
      BY <1>7, <2>1, <2>5 DEF View
    <3> QED
      BY <1>1, <2>2, <2>3, <3>1, GoesOn
  <2> QED
    BY <2>4, <2>5
<1> QED
  BY <1>5, <1>6, <1>7

LEMMA ObservePromised ==
  ASSUME LockInv, View, View', NEW o \in Observations, Observe(o)
  PROVE  Promised
<1> DEFINE i == [at |-> now, broken |-> o.broken, bad |-> o.bad]
           h == gate.host
           problem == ~FreshAndHealthy(h) \/ Regressed(i, gate.baseline, now, Fresh)
           seen == ObserveGate(gate, problem, now, Fresh)
           passed == seen.outcome = "passed"
<1>1. CASE gate = NoGate
  <2>1. UNCHANGED <<update, plan, gate, executions>>
    BY <1>1 DEF Observe
  <2> QED
    BY <2>1, Untouched
<1>2. CASE gate # NoGate
  <2>1. problem \in BOOLEAN /\ gate \in Gates /\ now \in Nat
    BY DEF Regressed, FreshAndHealthy, LockInv, TypeOK
  <2> HIDE DEF problem
  <2>2. gate.held = "operation" => seen.outcome = "held"
    BY <1>2, <2>1, ObservedGate
  <2>3. Advances(GatePhase(gate), GatePhase(seen.gate))
    BY <1>2, <2>1, ObservedPhase
  <2> HIDE DEF seen
  <2>4. /\ gate' = IF passed THEN NoGate ELSE seen.gate
        /\ update' = IF passed /\ gate.kind = "update" /\ update.host = h
                        /\ update.execution = gate.execution
                     THEN NoUpdate ELSE update
        /\ plan' = IF passed /\ gate.kind = "reboot" /\ plan[h].phase = "running"
                      /\ plan[h].executionId = gate.execution
                   THEN [plan EXCEPT ![h] = Removed(@)] ELSE plan
        /\ executions' = executions
    BY <1>2 DEF Observe, seen, problem
  <2>5. CASE gate.kind = "update"
    <3>1. /\ update # NoUpdate /\ update.host = h /\ update.execution = gate.execution
          /\ plan' = plan /\ \A k \in Hosts : ~Executing(plan[k])
      BY <1>2, <2>4, <2>5, OwnUpdate DEF LockInv, GateBacked
    <3>2. CASE passed
      <4>1. Idle'
        BY <2>4, <2>5, <3>1, <3>2 DEF Idle
      <4> QED
        BY <2>4, <3>1, <4>1, Ends, NotFree
    <3>3. CASE ~passed
      BY <2>3, <2>4, <3>1, <3>3, GoesOn DEF View
    <3> QED
      BY <3>2, <3>3
  <2>6. CASE gate.kind # "update"
    <3>1. /\ h \in Pve /\ h \in Hosts /\ gate.kind = "reboot" /\ Executing(plan[h])
          /\ plan[h].executionId = gate.execution
      BY <1>2, <2>6, HostsAssumption DEF LockInv, GateBacked
    <3>2. update = NoUpdate /\ \A k \in Hosts \ {h} : ~Executing(plan[k])
      BY <3>1, OwnGate
    <3>3. CASE passed
      <4>1. plan[h].phase = "running"
        BY <2>2, <3>1, <3>3 DEF LockInv, GateBacked, Executing
      <4>2. plan' = [plan EXCEPT ![h] = Removed(plan[h])] /\ update' = NoUpdate
        BY <2>4, <3>1, <3>2, <3>3, <4>1
      <4>3. Idle'
        BY <3>1, <3>2, <4>2, RemovedPlan DEF LockInv, TypeOK, Executing, Idle
      <4> QED
        BY <2>4, <3>1, <4>3, Ends, NotFree
    <3>4. CASE ~passed
      <4>1. gate' = seen.gate /\ plan' = plan
        BY <2>4, <3>4
      <4> QED
        BY <2>3, <2>4, <3>1, <4>1, GoesOn DEF View
    <3> QED
      BY <3>3, <3>4
  <2> QED
    BY <2>5, <2>6
<1> QED
  BY <1>1, <1>2

LEMMA OtherStepsPromised ==
  ASSUME LockInv, View, View',
         \/ Advance \/ Restart \/ TickStart \/ RefuseInteraction \/ UNCHANGED vars
         \/ TickHost \/ ApplyInteraction
         \/ \E h \in Hosts : Reboot(h) \/ PublishStart(h)
         \/ \E h \in Hosts : \E button, target : Press(h, button, target)
         \/ \E m \in inFlight, accepted \in BOOLEAN : PublishEnd(m, accepted)
  PROVE  Promised
<1>1. CASE \/ Advance \/ Restart \/ TickStart \/ RefuseInteraction \/ UNCHANGED vars
           \/ \E h \in Hosts : Reboot(h) \/ PublishStart(h)
           \/ \E h \in Hosts : \E button, target : Press(h, button, target)
  <2>1. UNCHANGED <<plan, update, gate, executions>>
    BY <1>1 DEF Advance, Restart, TickStart, RefuseInteraction, Reboot, PublishStart, Press,
       vars, lockVars
  <2> QED
    BY <2>1, Untouched
<1>2. TypeOK /\ plan \in [Hosts -> Plans]
  BY DEF LockInv, TypeOK
<1>3. CASE TickHost
  <2>1. UNCHANGED <<update, gate, executions>>
    BY <1>3 DEF TickHost, lockVars
  <2> QED
    BY <1>2, <1>3, <2>1, TickedPlan, Untouched
<1>4. CASE ApplyInteraction
  <2>1. UNCHANGED <<update, gate, executions>>
    BY <1>4 DEF ApplyInteraction, lockVars
  <2> QED
    BY <1>2, <1>4, <2>1, AppliedPlan, Untouched
<1>5. ASSUME NEW m \in inFlight, NEW accepted \in BOOLEAN, PublishEnd(m, accepted)
      PROVE  Promised
  <2>1. UNCHANGED <<update, gate, executions>>
    BY <1>5 DEF PublishEnd, lockVars
  <2>2. plan' = plan \/ plan' = [plan EXCEPT ![m.host].notified = m.revision]
    BY <1>5 DEF PublishEnd
  <2>3. \A p \in Plans : [p EXCEPT !.notified = m.revision].phase = p.phase
    BY DEF Plans
  <2>4. \A h \in Hosts : plan'[h].phase = plan[h].phase
    BY <1>2, <2>2, <2>3
  <2> QED
    BY <2>1, <2>4, Untouched DEF Executing
<1> QED
  BY <1>1, <1>3, <1>4, <1>5

LEMMA StepPromised ==
  ASSUME LockInv, View, View', [Next]_vars
  PROVE  Promised
BY ClaimPromised, ClaimUpdatePromised, UpdateResultPromised, ResultPromised,
   RecoverPromised, ReportPromised, ObservePromised, OtherStepsPromised DEF Next

LEMMA InitPromised == Init => Exclusion!Init
<1> SUFFICES ASSUME Init PROVE Exclusion!Init
  OBVIOUS
<1>1. LockInv /\ View
  BY InitLock, Views
<1>2. Idle
  <2>1. NoPlan.phase = "none"
    BY DEF NoPlan
  <2>2. \A k : \A p \in LegacyPlans(k) : p.phase \in {"scheduled", "approval", "held"}
    BY DEF LegacyPlans
  <2> QED
    BY <2>1, <2>2 DEF Init, Idle, Executing
<1>3. executions = 0
  BY DEF Init
<1> QED
  BY <1>1, <1>2, <1>3 DEF View, Exclusion!Init

\* The controller gives out one execution at a time, under numbers that it
\* never used before, and a stopped execution only ends: every step of
\* index.ts's object is a step of ExclusiveMaintenance, or none.
THEOREM ExclusionImplemented == Spec => ImplementsExclusion
<1>1. LockInv /\ LockInv' /\ [Next]_vars => [Exclusion!Next]_(Exclusion!vars)
  BY Views, ViewsNext, StepPromised DEF Promised
<1> QED
  BY <1>1, InitPromised, LockSafe, PTL DEF Spec, ImplementsExclusion
=============================================================================
