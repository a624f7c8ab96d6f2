--------------------- MODULE MaintenanceFleetScheduleProofs ---------------------
(***************************************************************************)
(* The slots, the revisions and the approvals of MaintenanceFleet, for     *)
(* every set of hosts and every calendar: how a step may change one plan,  *)
(* and what follows for the fleet.                                         *)
(***************************************************************************)
EXTENDS MaintenanceFleetProofs, MaintenancePolicyProofs

\* The schedule of a plan is left alone, or its execution starts.
SameSchedule(p, q) ==
  /\ q.revision = p.revision /\ q.target = p.target
  /\ q.evening = p.evening /\ q.bootId = p.bootId
  /\ q.phase = p.phase \/ (p.phase = "scheduled" /\ q.phase = "running")

Gone(p, q) == q.phase = "none" /\ q.revision = p.revision

\* A new revision, whose slot is the present one or a free one.
Renewed(h, p, q) ==
  /\ q.revision > p.revision
  /\ Occupying(q) => \/ Occupying(p) /\ q.target = p.target
                     \/ ~Crowded(Occupied(h), q.target)

Changed(h, p, q) == SameSchedule(p, q) \/ Gone(p, q) \/ Renewed(h, p, q)

-----------------------------------------------------------------------------
(* How a step changes one plan *)

\* availableTarget returns instants that no other host occupies.
LEMMA FreeTarget ==
  ASSUME NEW h, NEW t, NEW u \in AvailableTargets(h, t)
  PROVE  u \in Targets /\ ~Crowded(Occupied(h), u)
<1> DEFINE c == Candidates(h, t)
<1> HIDE DEF c
<1>1. FirstFree(h, t, Occupied(h)) =
        {c[k] : k \in {i \in 0..MaxTurns :
                         /\ ~Crowded(Occupied(h), c[i])
                         /\ \A j \in 0..(i - 1) : Crowded(Occupied(h), c[j])}}
  BY DEF FirstFree, c
<1> QED
  BY <1>1 DEF AvailableTargets

LEMMA AlignedChange ==
  ASSUME NEW h \in Hosts, NEW p \in Plans, NEW t, NEW q \in Aligned(h, p, t), Changeable(p)
  PROVE  Renewed(h, p, q)
<1>1. PICK u \in (IF Daytime(p.target)
                  THEN AvailableTargets(h, RealignFrom(h, p.target, t)) ELSE {p.target}) :
        q = [Revised(p) EXCEPT !.target = u, !.evening = TRUE,
                               !.phase = IF p.phase = "held" THEN "held" ELSE "approval"]
  BY DEF Aligned
<1>2. u = p.target \/ ~Crowded(Occupied(h), u)
  BY <1>1, FreeTarget
<1>3. q.target = u /\ q.phase = IF p.phase = "held" THEN "held" ELSE "approval"
  BY <1>1, RevisedPlan DEF RawPlans
<1>4. q.revision > p.revision
  BY AlignedPlan, Bounds DEF Plans
<1> QED
  BY <1>2, <1>3, <1>4 DEF Renewed, Occupying, Changeable

\* What is moved by the daily pass or carried over lands on a free slot.
LEMMA MovedChange ==
  ASSUME NEW h \in Hosts, NEW p \in Plans, NEW s, NEW t,
         NEW q \in Carried(h, p, t) \cup Retargeted(h, p, t) \cup Proposed(h, p, s, t)
  PROVE  q.revision = p.revision + 1 /\ ~Crowded(Occupied(h), q.target)
<1>1. PICK u :
        /\ \E from : u \in AvailableTargets(h, from)
        /\ \/ q = [Revised(p) EXCEPT !.target = u]
           \/ q = [Revised(p) EXCEPT !.target = u,
                        !.phase = IF h \in Pve THEN "approval" ELSE "scheduled"]
           \/ q = [Revised(p) EXCEPT !.target = u, !.evening = (h \in Pve),
                        !.bootId = s.bootId,
                        !.phase = IF h \in Pve THEN "approval" ELSE "scheduled"]
  BY DEF Carried, Retargeted, Proposed
<1>2. q.target = u /\ q.revision = p.revision + 1
  BY <1>1, RevisedPlan DEF RawPlans
<1> QED
  BY <1>1, <1>2, FreeTarget

-----------------------------------------------------------------------------
(* Every step changes one plan at most, and in one of these ways *)

OneChange ==
  \/ UNCHANGED plan
  \/ \E h \in Hosts : /\ Changed(h, plan[h], plan'[h])
                      /\ \A k \in Hosts \ {h} : plan'[k] = plan[k]

\* A plan that is given back or stopped occupies no slot.
LEMMA ClosedChange ==
  ASSUME NEW h \in Hosts, NEW p \in Plans, NEW phase \in {"held", "failed"}
  PROVE  /\ Changed(h, p, [Revised(p) EXCEPT !.phase = phase])
         /\ Changed(h, p, Removed(p)) /\ Changed(h, p, p)
<1>1. [Revised(p) EXCEPT !.phase = phase].revision = p.revision + 1
      /\ [Revised(p) EXCEPT !.phase = phase].phase = phase
  BY RevisedPlan DEF RawPlans
<1>2. p.revision + 1 > p.revision
  BY Bounds DEF Plans
<1> QED
  BY <1>1, <1>2, RemovedPlan DEF Changed, Renewed, Gone, SameSchedule, Occupying

LEMMA ReportChange ==
  ASSUME TypeOK, NEW h \in Hosts, NEW r \in Reports, Report(h, r)
  PROVE  OneChange
<1> DEFINE p == plan[h]
           recovered == p.phase = "running" /\ p.bootId # boot[h] /\ r.healthy
           gated == recovered /\ h \in Pve /\ gate.execution = p.executionId
           obsolete == Changeable(p) /\ (p.bootId # boot[h] \/ ~r.required)
           kept == IF obsolete \/ (recovered /\ ~gated) THEN Removed(p) ELSE p
<1>1. p \in Plans
  BY DEF TypeOK
<1>2. kept = p \/ (kept = Removed(p) /\ kept.phase = "none")
  BY <1>1, RemovedPlan
<1> HIDE DEF kept
<1>3. PICK q \in IF NeedsAlign(h, kept) THEN Aligned(h, kept, now)
                 ELSE IF NeedsCarry(h, kept, now) THEN Carried(h, kept, now)
                 ELSE {kept} :
        plan' = [plan EXCEPT ![h] = q]
  BY DEF Report, kept
<1>4. Changed(h, p, q)
  <2>1. CASE NeedsAlign(h, kept)
    <3>1. kept = p /\ Changeable(p)
      BY <1>2, <2>1 DEF NeedsAlign, Changeable
    <3> QED
      BY <1>1, <1>3, <2>1, <3>1, AlignedChange DEF Changed
  <2>2. CASE ~NeedsAlign(h, kept) /\ NeedsCarry(h, kept, now)
    <3>1. kept = p
      BY <1>2, <2>2 DEF NeedsCarry
    <3>2. q.revision = p.revision + 1 /\ ~Crowded(Occupied(h), q.target)
      BY <1>1, <1>3, <2>2, <3>1, MovedChange
    <3> QED
      BY <1>1, <3>2, Bounds DEF Changed, Renewed, Plans
  <2>3. CASE q = kept
    BY <1>1, <1>2, <2>3, ClosedChange
  <2> QED
    BY <1>3, <2>1, <2>2, <2>3
<1> QED
  BY <1>3, <1>4 DEF OneChange, TypeOK

LEMMA TickChange ==
  ASSUME TypeOK, TickHost
  PROVE  OneChange
<1> DEFINE h == HOSTS[tick.next]
           t == tick.at
           p == plan[h]
           s == snapshot[h]
           wanted == p.phase = "none" /\ s # NoSnapshot /\ s.required
                       /\ t - s.observedAt <= TickFresh
<1>1. h \in Hosts
  BY HostOrder DEF TypeOK, TickHost
<1>2. p \in Plans /\ s \in Snapshots
  BY <1>1 DEF TypeOK
<1>3. PICK a \in IF NeedsAlign(h, p) THEN Aligned(h, p, t)
                 ELSE IF wanted THEN Proposed(h, p, s, t) ELSE {p} :
      \E q \in IF a.phase # "scheduled" \/ t < WindowEnd(h, a.target) THEN {a}
               ELSE IF NeedsCarry(h, a, t) THEN Carried(h, a, t)
               ELSE Retargeted(h, a, t) :
        q.revision \in Revisions /\ plan' = [plan EXCEPT ![h] = q]
  BY DEF TickHost
<1>4. PICK q \in IF a.phase # "scheduled" \/ t < WindowEnd(h, a.target) THEN {a}
                 ELSE IF NeedsCarry(h, a, t) THEN Carried(h, a, t)
                 ELSE Retargeted(h, a, t) :
        q.revision \in Revisions /\ plan' = [plan EXCEPT ![h] = q]
  BY <1>3
<1> HIDE DEF wanted
<1>5. a = p \/ (a \in RawPlans /\ Renewed(h, p, a))
  <2>1. CASE NeedsAlign(h, p)
    BY <1>1, <1>2, <1>3, <2>1, AlignedPlan, AlignedChange DEF NeedsAlign
  <2>2. CASE ~NeedsAlign(h, p) /\ wanted
    <3>1. a \in RawPlans
      BY <1>1, <1>2, <1>3, <2>2, ProposedPlan
    <3>2. a.revision = p.revision + 1 /\ ~Crowded(Occupied(h), a.target)
      BY <1>1, <1>2, <1>3, <2>2, MovedChange
    <3> QED
      BY <1>2, <3>1, <3>2, Bounds DEF Renewed, Plans
  <2> QED
    BY <1>3, <2>1, <2>2
<1>6. a \in RawPlans /\ p.revision \in Nat /\ a.revision \in Nat /\ a.revision >= p.revision
  BY <1>2, <1>5, Bounds DEF Plans, RawPlans, Renewed
<1>7. Changed(h, p, q)
  <2>1. CASE q = a
    BY <1>1, <1>2, <1>5, <2>1, ClosedChange DEF Changed
  <2>2. CASE q # a
    <3>1. q \in Carried(h, a, t) \cup Retargeted(h, a, t)
      BY <1>4, <2>2
    <3>2. q.revision = a.revision + 1
      BY <1>6, <3>1 DEF Carried, Retargeted, Revised, RawPlans
    <3>3. a \in Plans
      <4>1. a.revision \in Revisions
        BY <1>4, <1>6, <3>2, BoundAssumption DEF Revisions, RawPlans
      <4> QED
        BY <1>6, <4>1, BoundedPlan
    <3>4. ~Crowded(Occupied(h), q.target)
      BY <1>1, <3>1, <3>3, MovedChange
    <3>5. q.revision > p.revision
      BY <1>6, <3>2
    <3> QED
      BY <3>4, <3>5 DEF Changed, Renewed
  <2> QED
    BY <2>1, <2>2
<1> QED
  BY <1>1, <1>4, <1>7 DEF OneChange, TypeOK

\* An applied press asks for a slot that is free, or for none.
LEMMA ApplyChange ==
  ASSUME TypeOK, ApplyInteraction
  PROVE  OneChange
<1> DEFINE h == press.host
           a == Asked(h, plan[h])
           q == Revised(a)
           f == IF press.button = "hold" THEN q ELSE [q EXCEPT !.evening = (h \in Pve)]
<1>1. q.target \in Targets /\ q.revision \in Revisions /\ plan' = [plan EXCEPT ![h] = f]
  BY DEF ApplyInteraction
<1>2. h \in Hosts /\ a \in Plans /\ a.revision = plan[h].revision
  BY <1>1, AskedPlan DEF ApplyInteraction
<1>3. press.button # "hold" => ~Crowded(Occupied(h), a.target)
  BY DEF ApplyInteraction, Accepted
<1>4. press.button = "hold" => a.phase = "held"
  BY <1>2 DEF Asked, TypeOK, Plans
<1> HIDE DEF a
<1>5. q \in RawPlans /\ q.revision = a.revision + 1 /\ q.phase = a.phase /\ q.target = a.target
  BY <1>2, RevisedPlan
<1> HIDE DEF q
<1>6. f.revision = q.revision /\ f.phase = q.phase /\ f.target = q.target
  <2> HIDE DEF h
  <2> QED
    BY <1>5 DEF RawPlans
<1> HIDE DEF f
<1>7. plan'[h] = f /\ \A k \in Hosts \ {h} : plan'[k] = plan[k]
  BY <1>1, <1>2 DEF TypeOK
<1>8. Changed(h, plan[h], f)
  BY <1>2, <1>3, <1>4, <1>5, <1>6, Bounds DEF Changed, Renewed, Occupying, Plans
<1> QED
  BY <1>2, <1>7, <1>8 DEF OneChange

LEMMA ClaimChange ==
  ASSUME TypeOK, NEW h \in Hosts, Claim(h)
  PROVE  OneChange
<1> DEFINE r == [plan[h] EXCEPT !.phase = "running"]
           q == [r EXCEPT !.executionId = executions + 1]
<1>1. plan[h] \in Plans /\ plan[h].phase = "scheduled"
  BY DEF TypeOK, Claim, Due
<1>2. plan' = [plan EXCEPT ![h] = q]
  BY DEF Claim, TypeOK
<1>3. SameSchedule(plan[h], q)
  BY <1>1 DEF SameSchedule, Plans
<1> HIDE DEF q
<1> QED
  BY <1>2, <1>3 DEF OneChange, Changed, TypeOK

LEMMA ResultChange ==
  ASSUME TypeOK, NEW h \in Hosts, NEW outcome \in {"blocked", "failed", "complete"},
         Result(h, outcome)
  PROVE  OneChange
<1> DEFINE p == plan[h]
           q == CASE outcome = "complete" -> Removed(p)
                  [] outcome = "blocked" -> [Revised(p) EXCEPT !.phase = "held"]
                  [] outcome = "failed" -> [Revised(p) EXCEPT !.phase = "failed"]
<1>1. plan' = [plan EXCEPT ![h] = q] /\ p \in Plans
  BY DEF Result, TypeOK
<1>2. Changed(h, p, q)
  BY <1>1, ClosedChange
<1> HIDE DEF q
<1> QED
  BY <1>1, <1>2 DEF OneChange, TypeOK

LEMMA RecoverChange ==
  ASSUME TypeOK, NEW h \in Hosts, Recover(h)
  PROVE  OneChange
<1> DEFINE p == plan[h]
           q == IF p.phase = "none" THEN p ELSE [Revised(p) EXCEPT !.phase = "held"]
<1>1. plan' = [plan EXCEPT ![h] = q] /\ p \in Plans
  BY DEF Recover, TypeOK
<1>2. Changed(h, p, q)
  BY <1>1, ClosedChange
<1> HIDE DEF q
<1> QED
  BY <1>1, <1>2 DEF OneChange, TypeOK

LEMMA ObserveChange ==
  ASSUME TypeOK, NEW o \in Observations, Observe(o)
  PROVE  OneChange
<1> DEFINE h == gate.host
<1>1. plan' = plan \/ plan' = [plan EXCEPT ![h] = Removed(plan[h])]
  BY DEF Observe
<1>2. plan \in [Hosts -> Plans]
  BY DEF TypeOK
<1> HIDE DEF h
<1>3. CASE h \in Hosts
  BY <1>1, <1>2, <1>3, ClosedChange DEF OneChange
<1>4. CASE h \notin Hosts
  BY <1>1, <1>2, <1>4 DEF OneChange
<1> QED
  BY <1>3, <1>4

LEMMA PublishEndChange ==
  ASSUME TypeOK, NEW m \in inFlight, NEW accepted \in BOOLEAN, PublishEnd(m, accepted)
  PROVE  OneChange
<1> DEFINE q == [plan[m.host] EXCEPT !.notified = m.revision]
<1>1. m.host \in Hosts /\ plan \in [Hosts -> Plans]
  BY DEF TypeOK, Publications
<1>2. plan' = plan \/ plan' = [plan EXCEPT ![m.host] = q]
  BY DEF PublishEnd
<1>3. SameSchedule(plan[m.host], q)
  BY <1>1 DEF SameSchedule, Plans
<1> HIDE DEF q
<1> QED
  BY <1>1, <1>2, <1>3 DEF OneChange, Changed

LEMMA StepChange ==
  ASSUME TypeOK, [Next]_vars
  PROVE  OneChange
<1>1. CASE \/ Advance \/ Restart \/ TickStart \/ RefuseInteraction \/ UNCHANGED vars
           \/ \E h \in Hosts : Reboot(h) \/ PublishStart(h) \/ ClaimUpdate(h)
           \/ \E h \in Hosts : \E button, target : Press(h, button, target)
           \/ \E h \in Hosts, outcome \in {"blocked", "failed", "complete"} :
                UpdateResult(h, outcome)
  BY <1>1 DEF OneChange, Advance, Restart, TickStart, RefuseInteraction, Reboot,
     PublishStart, ClaimUpdate, Press, UpdateResult, vars
<1> QED
  BY <1>1, ReportChange, TickChange, ApplyChange, ClaimChange, ResultChange,
     RecoverChange, ObserveChange, PublishEndChange DEF Next

-----------------------------------------------------------------------------
(* Revisions *)

\* A plan changes under a new revision only (every write of a plan in index.ts
\* draws a revision, but for claim, publish and removal).
THEOREM RevisionsFresh == Spec => RevisionNamesSchedule
<1> DEFINE Kept == \A h \in Hosts :
             LET p == plan[h]
                 q == plan'[h]
             IN  p.phase # "none" /\ q.phase # "none" /\ q.revision = p.revision =>
                   /\ q.target = p.target /\ q.evening = p.evening /\ q.bootId = p.bootId
                   /\ q.phase = p.phase \/ (p.phase = "scheduled" /\ q.phase = "running")
<1>1. TypeOK /\ [Next]_vars => [Kept]_vars
  <2> SUFFICES ASSUME TypeOK, [Next]_vars, NEW h \in Hosts, Changed(h, plan[h], plan'[h]),
                      plan[h].phase # "none", plan'[h].phase # "none",
                      plan'[h].revision = plan[h].revision
               PROVE  SameSchedule(plan[h], plan'[h])
    BY StepChange DEF OneChange, SameSchedule
  <2>1. plan[h].revision \in Nat
    BY Bounds DEF TypeOK, Plans
  <2> QED
    BY <2>1 DEF Changed, Gone, Renewed
<1> QED
  BY <1>1, TypeCorrect, PTL DEF Spec, RevisionNamesSchedule

-----------------------------------------------------------------------------
(* Slots *)

LEMMA NearSymmetric ==
  ASSUME NEW s \in Int, NEW t \in Int
  PROVE  Near(s, t) <=> Near(t, s)
BY DEF Near

LEMMA StepSlots ==
  ASSUME TypeOK, TypeOK', SlotsSeparated, [Next]_vars
  PROVE  SlotsSeparated'
<1>1. \A h \in Hosts : plan[h].target \in Int /\ plan'[h].target \in Int
  <2>1. plan \in [Hosts -> Plans] /\ plan' \in [Hosts -> Plans]
    BY DEF TypeOK
  <2>2. \A p \in Plans : p.target \in Int
    BY Bounds DEF Plans
  <2> QED
    BY <2>1, <2>2
<1>2. CASE UNCHANGED plan
  BY <1>2 DEF SlotsSeparated
<1>3. ASSUME NEW h \in Hosts, Changed(h, plan[h], plan'[h]),
             \A k \in Hosts \ {h} : plan'[k] = plan[k]
      PROVE  SlotsSeparated'
  <2>1. ASSUME NEW k \in Hosts, k # h, Occupying(plan'[h]), Occupying(plan'[k])
        PROVE  ~Near(plan'[h].target, plan'[k].target)
    <3>1. Occupying(plan[k]) /\ plan'[k].target = plan[k].target
      BY <1>3, <2>1
    <3>2. CASE Occupying(plan[h]) /\ plan'[h].target = plan[h].target
      BY <2>1, <3>1, <3>2 DEF SlotsSeparated
    <3>3. CASE ~Crowded(Occupied(h), plan'[h].target)
      <4>1. plan[k].target \in Occupied(h)
        BY <2>1, <3>1 DEF Occupied
      <4>2. ~Near(plan[k].target, plan'[h].target)
        BY <3>3, <4>1 DEF Crowded
      <4> QED
        BY <1>1, <3>1, <4>2, NearSymmetric
    <3>4. SameSchedule(plan[h], plan'[h]) \/ Renewed(h, plan[h], plan'[h])
      BY <1>3, <2>1 DEF Changed, Gone, Occupying
    <3> QED
      BY <2>1, <3>2, <3>3, <3>4 DEF SameSchedule, Renewed, Occupying
  <2>2. ASSUME NEW j \in Hosts, NEW k \in Hosts, j # k,
               Occupying(plan'[j]), Occupying(plan'[k])
        PROVE  ~Near(plan'[j].target, plan'[k].target)
    <3>1. CASE j = h
      BY <2>1, <2>2, <3>1
    <3>2. CASE k = h
      BY <1>1, <2>1, <2>2, <3>2, NearSymmetric
    <3>3. CASE j # h /\ k # h
      BY <1>3, <2>2, <3>3 DEF SlotsSeparated
    <3> QED
      BY <3>1, <3>2, <3>3
  <2> QED
    BY <2>2 DEF SlotsSeparated
<1> QED
  BY <1>2, <1>3, StepChange DEF OneChange

\* Two plans that occupy a slot are an hour apart (conflictingReboot,
\* availableTarget and validateSeparation of index.ts), if those stored before
\* were.
THEOREM SlotsApart == Spec => []SlotsSeparated
<1>1. Init => SlotsSeparated
  BY DEF Init
<1>2. TypeOK /\ TypeOK' /\ SlotsSeparated /\ [Next]_vars => SlotsSeparated'
  BY StepSlots
<1> QED
  BY <1>1, <1>2, TypeCorrect, PTL DEF Spec

\* Only a claim starts a reboot.
LEMMA OtherStarts ==
  ASSUME [Next]_vars, \A h \in Hosts : ~Claim(h)
  PROVE  lastStart' = lastStart
<1>1. CASE UNCHANGED vars
  BY <1>1 DEF vars, lockVars, messageVars
<1>2. CASE Advance \/ Restart \/ TickStart \/ TickHost \/ RefuseInteraction \/ ApplyInteraction
  BY <1>2 DEF Advance, Restart, TickStart, TickHost, RefuseInteraction, ApplyInteraction,
     lockVars, messageVars
<1>3. ASSUME NEW k \in Hosts, Reboot(k) \/ ClaimUpdate(k) \/ Recover(k) \/ PublishStart(k)
      PROVE  lastStart' = lastStart
  BY <1>3 DEF Reboot, ClaimUpdate, Recover, PublishStart, lockVars, messageVars
<1>4. ASSUME NEW k \in Hosts, NEW r \in Reports, Report(k, r)
      PROVE  lastStart' = lastStart
  BY <1>4 DEF Report, messageVars
<1>5. ASSUME NEW k \in Hosts, NEW outcome, UpdateResult(k, outcome) \/ Result(k, outcome)
      PROVE  lastStart' = lastStart
  BY <1>5 DEF UpdateResult, Result, messageVars
<1>6. ASSUME NEW k \in Hosts, NEW button, NEW target, Press(k, button, target)
      PROVE  lastStart' = lastStart
  BY <1>6 DEF Press, lockVars
<1>7. ASSUME NEW m, NEW accepted, PublishEnd(m, accepted)
      PROVE  lastStart' = lastStart
  BY <1>7 DEF PublishEnd, lockVars
<1>8. ASSUME NEW o, Observe(o)
      PROVE  lastStart' = lastStart
  BY <1>8 DEF Observe, messageVars
<1> QED
  BY <1>1, <1>2, <1>3, <1>4, <1>5, <1>6, <1>7, <1>8 DEF Next

\* Reboots of different hosts start at least an hour apart (claim of index.ts).
THEOREM StartsApart == Spec => []StartsSeparated
<1>1. Init => StartsSeparated
  BY DEF Init, StartsSeparated
<1>2. TypeOK /\ TypeOK' /\ StartsSeparated /\ [Next]_vars => StartsSeparated'
  <2> SUFFICES ASSUME TypeOK, TypeOK', StartsSeparated, NEW h \in Hosts, Claim(h)
               PROVE  StartsSeparated'
    BY OtherStarts DEF StartsSeparated
  <2>1. /\ now \in Nat /\ lastStart' = [lastStart EXCEPT ![h] = now]
        /\ \A k \in Hosts : lastStart[k] \in Int /\ lastStart'[k] \in Int
        /\ \A k \in Hosts \ {h} : now - lastStart[k] >= Gap
    BY DEF TypeOK, Claim, OthersIdle
  <2>2. lastStart'[h] = now /\ \A k \in Hosts \ {h} : lastStart'[k] = lastStart[k]
    BY <2>1 DEF TypeOK
  <2>3. \A k \in Hosts \ {h} : ~Near(now, lastStart[k]) /\ ~Near(lastStart[k], now)
    BY <2>1, SpanAssumption DEF Near
  <2> QED
    BY <2>2, <2>3 DEF StartsSeparated
<1> QED
  BY <1>1, <1>2, TypeCorrect, PTL DEF Spec

-----------------------------------------------------------------------------
(* Approvals *)

\* What a press says of a slot is what the plan says, as long as the revisions
\* agree; and a plan never returns to an older revision.
PressInformed ==
  press # NoPress =>
    /\ press.revision <= plan[press.host].revision
    /\ plan[press.host].revision = press.revision /\ plan[press.host].phase # "none" =>
         plan[press.host].target = press.seen

LEMMA PressChange ==
  ASSUME [Next]_vars
  PROVE  \/ press' = press \/ press' = NoPress
         \/ \E h \in Hosts : \E button, target : Press(h, button, target)
<1>1. CASE UNCHANGED vars
  BY <1>1 DEF vars, lockVars, messageVars
<1>2. CASE Advance \/ Restart \/ TickStart \/ TickHost \/ RefuseInteraction \/ ApplyInteraction
  BY <1>2 DEF Advance, Restart, TickStart, TickHost, RefuseInteraction, ApplyInteraction,
     lockVars, messageVars
<1>3. ASSUME NEW k \in Hosts, Reboot(k) \/ ClaimUpdate(k) \/ Recover(k) \/ PublishStart(k) \/ Claim(k)
      PROVE  press' = press
  BY <1>3 DEF Reboot, ClaimUpdate, Recover, PublishStart, Claim, lockVars, messageVars
<1>4. ASSUME NEW k \in Hosts, NEW r \in Reports, Report(k, r)
      PROVE  press' = press
  BY <1>4 DEF Report, messageVars
<1>5. ASSUME NEW k \in Hosts, NEW outcome, UpdateResult(k, outcome) \/ Result(k, outcome)
      PROVE  press' = press
  BY <1>5 DEF UpdateResult, Result, messageVars
<1>7. ASSUME NEW m, NEW accepted, PublishEnd(m, accepted)
      PROVE  press' = press
  BY <1>7 DEF PublishEnd, lockVars
<1>8. ASSUME NEW o, Observe(o)
      PROVE  press' = press
  BY <1>8 DEF Observe, messageVars
<1> QED
  BY <1>1, <1>2, <1>3, <1>4, <1>5, <1>7, <1>8 DEF Next

LEMMA StepInformed ==
  ASSUME TypeOK, TypeOK', PressInformed, [Next]_vars
  PROVE  PressInformed'
<1>1. CASE press' = NoPress
  BY <1>1 DEF PressInformed
<1>2. CASE press' = press /\ press # NoPress
  <2> DEFINE h == press.host
  <2>1. h \in Hosts /\ press.revision \in Nat
    BY <1>2, Bounds DEF TypeOK, Presses
  <2> HIDE DEF h
  <2>2. plan[h].revision \in Nat /\ plan'[h].revision \in Nat
    BY <2>1, Bounds DEF TypeOK, Plans
  <2>3. plan'[h] = plan[h] \/ Changed(h, plan[h], plan'[h])
    BY <2>1, StepChange DEF OneChange
  <2>4. /\ press.revision <= plan[h].revision
        /\ plan[h].revision = press.revision /\ plan[h].phase # "none" =>
             plan[h].target = press.seen
    BY <1>2 DEF PressInformed, h
  <2>5. /\ press.revision <= plan'[h].revision
        /\ plan'[h].revision = press.revision /\ plan'[h].phase # "none" =>
             plan'[h].target = press.seen
    <3>1. CASE plan'[h] = plan[h]
      BY <2>4, <3>1
    <3>2. CASE SameSchedule(plan[h], plan'[h])
      BY <2>4, <3>2 DEF SameSchedule
    <3>3. CASE Gone(plan[h], plan'[h])
      BY <2>4, <3>3 DEF Gone
    <3>4. CASE Renewed(h, plan[h], plan'[h])
      BY <2>1, <2>2, <2>4, <3>4 DEF Renewed
    <3> QED
      BY <2>3, <3>1, <3>2, <3>3, <3>4 DEF Changed
  <2> QED
    BY <1>2, <2>5 DEF PressInformed, h
<1>3. ASSUME NEW h \in Hosts, NEW button, NEW target, Press(h, button, target)
      PROVE  PressInformed'
  <2>1. /\ press'.host = h /\ press'.revision = plan[h].revision
        /\ press'.seen = plan[h].target /\ plan' = plan
    BY <1>3 DEF Press
  <2>2. plan[h].revision \in Nat
    BY Bounds DEF TypeOK, Plans
  <2> QED
    BY <2>1, <2>2 DEF PressInformed
<1> QED
  BY <1>1, <1>2, <1>3, PressChange

\* Nobody but the operator gives an approval.
LEMMA ApprovalChange ==
  ASSUME TypeOK, [Next]_vars, ~ApplyInteraction, NEW h \in Hosts
  PROVE  approval'[h] \in {approval[h], NoApproval}
<1>1. CASE UNCHANGED vars
  BY <1>1 DEF vars, lockVars, messageVars, TypeOK
<1>2. CASE Advance \/ Restart \/ TickStart \/ TickHost \/ RefuseInteraction
  BY <1>2 DEF Advance, Restart, TickStart, TickHost, RefuseInteraction,
     lockVars, messageVars, TypeOK
<1>3. ASSUME NEW k \in Hosts, Reboot(k) \/ ClaimUpdate(k) \/ Recover(k) \/ PublishStart(k) \/ Claim(k)
      PROVE  approval'[h] \in {approval[h], NoApproval}
  BY <1>3 DEF Reboot, ClaimUpdate, Recover, PublishStart, Claim, lockVars, messageVars, TypeOK
<1>4. ASSUME NEW k \in Hosts, NEW r \in Reports, Report(k, r)
      PROVE  approval'[h] \in {approval[h], NoApproval}
  BY <1>4 DEF Report, messageVars, TypeOK
<1>5. ASSUME NEW k \in Hosts, NEW outcome, UpdateResult(k, outcome) \/ Result(k, outcome)
      PROVE  approval'[h] \in {approval[h], NoApproval}
  BY <1>5 DEF UpdateResult, Result, messageVars, TypeOK
<1>6. ASSUME NEW k \in Hosts, NEW button, NEW target, Press(k, button, target)
      PROVE  approval'[h] \in {approval[h], NoApproval}
  BY <1>6 DEF Press, lockVars, TypeOK
<1>7. ASSUME NEW m, NEW accepted, PublishEnd(m, accepted)
      PROVE  approval'[h] \in {approval[h], NoApproval}
  BY <1>7 DEF PublishEnd, lockVars, TypeOK
<1>8. ASSUME NEW o, Observe(o)
      PROVE  approval'[h] \in {approval[h], NoApproval}
  BY <1>8 DEF Observe, messageVars, TypeOK
<1> QED
  BY <1>1, <1>2, <1>3, <1>4, <1>5, <1>6, <1>7, <1>8 DEF Next

\* The approved slot is the one of the plan, before and after.
LEMMA ApplyInformed ==
  ASSUME TypeOK, PressInformed, ApplyInteraction, NEW h \in Hosts,
         approval'[h] # approval[h], approval'[h] # NoApproval
  PROVE  plan[h].target = approval'[h].target /\ plan'[h].target = approval'[h].target
<1>1. h = press.host /\ press.button = "approve" /\ approval'[h].target = press.seen
  BY DEF ApplyInteraction, TypeOK
<1>2. plan[h] \in Plans /\ Changeable(plan[h]) /\ plan[h].revision = press.revision
      /\ press # NoPress
  BY <1>1 DEF ApplyInteraction, Accepted, TypeOK
<1>3. plan[h].target = press.seen
  BY <1>1, <1>2 DEF PressInformed, Changeable
<1>4. Asked(h, plan[h]) = [plan[h] EXCEPT !.phase = "scheduled"]
  BY <1>1 DEF Asked
<1> DEFINE a == [plan[h] EXCEPT !.phase = "scheduled"]
           q == Revised(a)
<1>5. a \in Plans /\ a.target = plan[h].target
  BY <1>2 DEF Plans, Phases
<1>6. plan' = [plan EXCEPT ![h] = [q EXCEPT !.evening = (h \in Pve)]]
  BY <1>1, <1>4 DEF ApplyInteraction
<1> HIDE DEF a
<1>7. [q EXCEPT !.evening = (h \in Pve)].target = a.target
  BY <1>5, RevisedPlan DEF RawPlans
<1> HIDE DEF q
<1> QED
  BY <1>1, <1>3, <1>5, <1>6, <1>7 DEF TypeOK

\* An approval is applied to the slot that the operator saw on the button
\* (applyInteraction of index.ts compares the revisions only).
THEOREM ApprovalsInformed == Spec => ApprovalInformed
<1> DEFINE Informed == \A h \in Hosts :
             approval'[h] # approval[h] /\ approval'[h] # NoApproval =>
               plan[h].target = approval'[h].target /\ plan'[h].target = approval'[h].target
<1>1. Init => PressInformed
  BY DEF Init, PressInformed
<1>2. TypeOK /\ TypeOK' /\ PressInformed /\ [Next]_vars => PressInformed'
  BY StepInformed
<1>3. TypeOK /\ PressInformed /\ [Next]_vars => [Informed]_vars
  BY ApprovalChange, ApplyInformed
<1> QED
  BY <1>1, <1>2, <1>3, TypeCorrect, PTL DEF Spec, ApprovalInformed

-----------------------------------------------------------------------------
(* The slot of an approved plan *)

\* The target that availableTarget finds for a hypervisor.
LEMMA EveningTarget ==
  ASSUME NEW h \in Pve, NEW t \in Nat, ~Daytime(t), NEW u \in AvailableTargets(h, t)
  PROVE  u \in Nat /\ u >= t /\ ~Daytime(u)
<1>1. h \in Hosts /\ InWindow(h, t) /\ u \in FirstFree(h, t, Occupied(h))
  BY HostsAssumption DEF InWindow, AvailableTargets
<1>2. u \in Nat /\ u >= t /\ InWindow(h, u)
  <2> DEFINE obstacles == Occupied(h)
  <2>1. u \in FirstFree(h, t, obstacles)
    BY <1>1
  <2> HIDE DEF obstacles
  <2> QED
    BY <1>1, <2>1, FreeSlot
<1> QED
  BY <1>2 DEF InWindow

-----------------------------------------------------------------------------
(* What an approval says of a plan *)

\* The approval of a hypervisor and its plan agree, and a slot of the evening
\* window is in an evening: without it a report would take an approved plan for
\* one of the versions without evenings, and ask for a second approval.  The
\* boot session of a plan is a real one, so that an approval is never mistaken
\* for its absence.
Approved(h, p, a) ==
  /\ p.phase # "none" => p.bootId >= 1
  /\ h \in Pve =>
       /\ p.evening => ~Daytime(p.target)
       /\ p.phase = "scheduled" /\ p.evening <=> a # NoApproval
       /\ a # NoApproval => a.bootId = p.bootId /\ a.target <= p.target

AllApproved == \A h \in Hosts : Approved(h, plan[h], approval[h])

BootsKnown ==
  \A h \in Hosts : boot[h] >= 1 /\ (snapshot[h] # NoSnapshot => snapshot[h].bootId >= 1)

\* The inductive form of ApprovalExact.
ApprovalInv == TypeOK /\ PressInformed /\ BootsKnown /\ AllApproved

\* Only a scheduled plan of a hypervisor is approved.
LEMMA OnlyScheduled ==
  ASSUME NEW h \in Pve, NEW p, NEW a, Approved(h, p, a), p.phase # "scheduled"
  PROVE  a = NoApproval
BY DEF Approved

LEMMA RemovedApproval ==
  ASSUME NEW h, NEW p \in Plans
  PROVE  Approved(h, Removed(p), NoApproval)
<1>1. Removed(p).phase = "none" /\ ~Removed(p).evening
  BY DEF Removed, Plans
<1> QED
  BY <1>1 DEF Approved

\* Realigning a plan does not touch an approval: an approved plan is not
\* realigned.
LEMMA AlignedApproval ==
  ASSUME NEW h \in Hosts, NEW p \in Plans, NEW t \in Nat, NEW a, Approved(h, p, a),
         NeedsAlign(h, p), NEW q \in Aligned(h, p, t)
  PROVE  Approved(h, q, a)
<1>1. h \in Pve /\ Changeable(p) /\ (Daytime(p.target) \/ ~p.evening)
  BY DEF NeedsAlign
<1>2. a = NoApproval
  BY <1>1 DEF Approved
<1>3. /\ q.phase \in {"held", "approval"} /\ q.evening /\ q.bootId = p.bootId
  BY AlignedPlan
<1>4. PICK u \in (IF Daytime(p.target)
                  THEN AvailableTargets(h, RealignFrom(h, p.target, t)) ELSE {p.target}) :
        q = [Revised(p) EXCEPT !.target = u, !.evening = TRUE,
                               !.phase = IF p.phase = "held" THEN "held" ELSE "approval"]
  BY DEF Aligned
<1>5. q.target = u
  BY <1>4, RevisedPlan DEF RawPlans
<1>6. ~Daytime(u)
  <2>1. CASE ~Daytime(p.target)
    BY <1>4, <2>1
  <2>2. CASE Daytime(p.target)
    <3> DEFINE v == RealignFrom(h, p.target, t)
    <3>1. p.target \in Nat
      BY Bounds DEF Plans
    <3>2. v \in Nat /\ ~Daytime(v)
      BY <1>1, <3>1, RealignRule
    <3>3. u \in AvailableTargets(h, v)
      BY <1>4, <2>2
    <3> HIDE DEF v
    <3> QED
      BY <1>1, <3>2, <3>3, EveningTarget
  <2> QED
    BY <2>1, <2>2
<1>7. p.bootId >= 1
  BY <1>1 DEF Approved, Changeable
<1> QED
  BY <1>2, <1>3, <1>5, <1>6, <1>7 DEF Approved

\* A carried plan moves to a later evening, under its approval.
LEMMA CarriedApproval ==
  ASSUME NEW h \in Hosts, NEW p \in Plans, NEW t \in Nat, NEW a, Approved(h, p, a),
         a.target \in Nat, NeedsCarry(h, p, t), NEW q \in Carried(h, p, t)
  PROVE  Approved(h, q, a)
<1>1. h \in Pve /\ p.phase = "scheduled" /\ p.evening /\ t >= WindowEnd(h, p.target)
  BY DEF NeedsCarry
<1>2. q.phase = p.phase /\ q.bootId = p.bootId /\ q.evening = p.evening
  BY CarriedPlan
<1>3. PICK u \in AvailableTargets(h, CarryFrom(t)) : q = [Revised(p) EXCEPT !.target = u]
  BY DEF Carried
<1>4. q.target = u
  BY <1>3, RevisedPlan DEF RawPlans
<1>5. u \in Nat /\ u >= t /\ ~Daytime(u)
  <2> DEFINE v == CarryFrom(t)
  <2>1. v \in Nat /\ v >= t /\ ~Daytime(v)
    <3>1. v \in Nat /\ v >= t + Lead /\ ~Daytime(v)
      BY CarryRule
    <3> HIDE DEF v
    <3>2. Lead \in Nat
      BY SpanAssumption
    <3> QED
      BY <3>1, <3>2
  <2>2. u \in AvailableTargets(h, v)
    OBVIOUS
  <2> HIDE DEF v
  <2>3. u \in Nat /\ u >= v /\ ~Daytime(u)
    BY <1>1, <2>1, <2>2, EveningTarget
  <2> QED
    BY <2>1, <2>3
<1>6. u > p.target
  <2>1. p.target \in Nat /\ Day \in Nat
    BY Bounds, CalendarAssumption DEF Plans
  <2>2. /\ Midnight(p.target) \in Int /\ Clock(p.target) \in 0..(Day - 1)
        /\ p.target = Midnight(p.target) + Clock(p.target)
    <3>1. p.target \in Int
      BY <2>1
    <3> QED
      BY <3>1, Clocks
  <2>3. t >= Midnight(p.target) + Day
    BY <1>1 DEF WindowEnd
  <2> QED
    BY <1>5, <2>1, <2>2, <2>3
<1>7. /\ p.bootId >= 1 /\ a # NoApproval /\ a.bootId = p.bootId /\ a.target <= p.target
  BY <1>1 DEF Approved
<1>8. p.target \in Nat
  BY Bounds DEF Plans
<1>9. a.target <= u
  BY <1>5, <1>6, <1>7, <1>8
<1> QED
  BY <1>1, <1>2, <1>4, <1>5, <1>7, <1>9 DEF Approved

\* What the daily pass proposes for a hypervisor waits for its approval.
LEMMA ProposedApproval ==
  ASSUME NEW h \in Hosts, NEW p \in Plans, NEW s \in Snapshots, NEW t \in Nat, NEW a,
         Approved(h, p, a), p.phase = "none", s.bootId >= 1, NEW q \in Proposed(h, p, s, t)
  PROVE  Approved(h, q, a)
<1>1. PICK u \in AvailableTargets(h, NextMorning(h, t)) :
        q = [Revised(p) EXCEPT !.target = u, !.evening = (h \in Pve), !.bootId = s.bootId,
                      !.phase = IF h \in Pve THEN "approval" ELSE "scheduled"]
  BY DEF Proposed
<1>2. q.target = u /\ q.bootId = s.bootId
      /\ q.phase = IF h \in Pve THEN "approval" ELSE "scheduled"
  BY <1>1, RevisedPlan DEF RawPlans
<1>3. CASE h \notin Pve
  BY <1>2, <1>3 DEF Approved
<1>4. CASE h \in Pve
  <2> DEFINE v == NextMorning(h, t)
  <2>1. v \in Nat /\ ~Daytime(v)
    BY <1>4, NextMorningRule DEF InWindow
  <2>2. u \in AvailableTargets(h, v)
    OBVIOUS
  <2> HIDE DEF v
  <2>3. ~Daytime(u)
    BY <1>4, <2>1, <2>2, EveningTarget
  <2>4. a = NoApproval
    BY <1>4, OnlyScheduled
  <2> QED
    BY <1>2, <1>4, <2>3, <2>4 DEF Approved
<1> QED
  BY <1>3, <1>4

-----------------------------------------------------------------------------
(* Every step keeps every host's approval exact *)

\* A step that changes one host's plan and approval at most.
LEMMA OneApproved ==
  ASSUME TypeOK, AllApproved, NEW h \in Hosts, NEW q, NEW b,
         plan' = [plan EXCEPT ![h] = q], approval' = [approval EXCEPT ![h] = b],
         Approved(h, q, b)
  PROVE  AllApproved'
<1>1. plan'[h] = q /\ approval'[h] = b
  BY DEF TypeOK
<1>2. \A k \in Hosts \ {h} : plan'[k] = plan[k] /\ approval'[k] = approval[k]
  BY DEF TypeOK
<1>3. ASSUME NEW k \in Hosts PROVE Approved(k, plan'[k], approval'[k])
  <2>1. CASE k = h
    BY <1>1, <2>1
  <2>2. CASE k # h
    BY <1>2, <2>2 DEF AllApproved
  <2> QED
    BY <2>1, <2>2
<1> QED
  BY <1>3 DEF AllApproved, Approved

LEMMA SamePlanApproved ==
  ASSUME AllApproved, UNCHANGED <<plan, approval>>
  PROVE  AllApproved'
BY DEF AllApproved, Approved

\* A step that leaves every approval as it stands.
LEMMA KeptApproved ==
  ASSUME TypeOK, AllApproved, NEW h \in Hosts, NEW q,
         plan' = [plan EXCEPT ![h] = q], approval' = approval,
         Approved(h, q, approval[h])
  PROVE  AllApproved'
<1>1. approval' = [approval EXCEPT ![h] = approval[h]]
  BY DEF TypeOK
<1> QED
  BY <1>1, OneApproved

LEMMA ReportApproval ==
  ASSUME ApprovalInv, NEW h \in Hosts, NEW r \in Reports, Report(h, r)
  PROVE  AllApproved'
<1> DEFINE p == plan[h]
           recovered == p.phase = "running" /\ p.bootId # boot[h] /\ r.healthy
           gated == recovered /\ h \in Pve /\ gate.execution = p.executionId
           obsolete == Changeable(p) /\ (p.bootId # boot[h] \/ ~r.required)
           kept == IF obsolete \/ (recovered /\ ~gated) THEN Removed(p) ELSE p
           b == IF obsolete THEN NoApproval ELSE approval[h]
<1>1. p \in Plans /\ now \in Nat /\ TypeOK /\ AllApproved /\ b.target \in Nat
  <2>1. approval[h].target \in Nat /\ NoApproval.target \in Nat
    BY Bounds DEF ApprovalInv, TypeOK, NoApproval
  <2> QED
    BY <2>1 DEF ApprovalInv, TypeOK
<1>2. Approved(h, p, approval[h])
  BY <1>1 DEF AllApproved
<1>3. kept \in Plans /\ Approved(h, kept, b)
  <2>1. Removed(p) \in Plans /\ Approved(h, Removed(p), NoApproval)
    BY <1>1, RemovedPlan, RemovedApproval
  <2>2. CASE obsolete
    BY <2>1, <2>2
  <2>3. CASE ~obsolete /\ recovered /\ ~gated
    <3>1. kept = Removed(p) /\ b = approval[h] /\ p.phase # "scheduled"
      BY <2>3
    <3>2. h \in Pve => approval[h] = NoApproval
      BY <1>2, <3>1, OnlyScheduled
    <3>3. CASE h \in Pve
      BY <2>1, <3>1, <3>2, <3>3
    <3>4. CASE h \notin Pve
      BY <2>1, <3>1, <3>4 DEF Approved
    <3> QED
      BY <3>3, <3>4
  <2>4. CASE ~obsolete /\ ~(recovered /\ ~gated)
    BY <1>1, <1>2, <2>4
  <2> QED
    BY <2>2, <2>3, <2>4
<1>4. approval' = [approval EXCEPT ![h] = b]
  <2>1. approval' = IF obsolete THEN [approval EXCEPT ![h] = NoApproval] ELSE approval
    BY Zenon DEF Report
  <2>2. approval = [approval EXCEPT ![h] = approval[h]]
    BY <1>1 DEF TypeOK
  <2> HIDE DEF obsolete
  <2> QED
    BY <2>1, <2>2
<1> HIDE DEF kept, b
<1>5. PICK q \in IF NeedsAlign(h, kept) THEN Aligned(h, kept, now)
                 ELSE IF NeedsCarry(h, kept, now) THEN Carried(h, kept, now)
                 ELSE {kept} :
        plan' = [plan EXCEPT ![h] = q]
  BY DEF Report, kept
<1>6. Approved(h, q, b)
  <2>1. CASE NeedsAlign(h, kept)
    BY <1>1, <1>3, <1>5, <2>1, AlignedApproval
  <2>2. CASE ~NeedsAlign(h, kept) /\ NeedsCarry(h, kept, now)
    BY <1>1, <1>3, <1>5, <2>2, CarriedApproval
  <2>3. CASE ~NeedsAlign(h, kept) /\ ~NeedsCarry(h, kept, now)
    BY <1>3, <1>5, <2>3
  <2> QED
    BY <2>1, <2>2, <2>3
<1> QED
  BY <1>1, <1>4, <1>5, <1>6, OneApproved

LEMMA TickApproval ==
  ASSUME ApprovalInv, TickHost
  PROVE  AllApproved'
<1> DEFINE h == HOSTS[tick.next]
           t == tick.at
           p == plan[h]
           s == snapshot[h]
           wanted == p.phase = "none" /\ s # NoSnapshot /\ s.required
                       /\ t - s.observedAt <= TickFresh
           c == approval[h]
<1>0. TypeOK /\ AllApproved
  BY DEF ApprovalInv
<1>1. h \in Hosts
  BY <1>0, HostOrder DEF TypeOK, TickHost
<1>2. p \in Plans /\ s \in Snapshots /\ t \in Nat /\ c.target \in Nat
  BY <1>0, <1>1, Bounds DEF TypeOK
<1>3. Approved(h, p, c)
  BY <1>0, <1>1 DEF AllApproved
<1>4. wanted => s.bootId >= 1 /\ p.phase = "none"
  BY <1>1 DEF ApprovalInv, BootsKnown
<1>5. PICK a \in IF NeedsAlign(h, p) THEN Aligned(h, p, t)
                 ELSE IF wanted THEN Proposed(h, p, s, t) ELSE {p} :
      \E q \in IF a.phase # "scheduled" \/ t < WindowEnd(h, a.target) THEN {a}
               ELSE IF NeedsCarry(h, a, t) THEN Carried(h, a, t)
               ELSE Retargeted(h, a, t) :
        q.revision \in Revisions /\ plan' = [plan EXCEPT ![h] = q]
  BY DEF TickHost
<1>6. PICK q \in IF a.phase # "scheduled" \/ t < WindowEnd(h, a.target) THEN {a}
                 ELSE IF NeedsCarry(h, a, t) THEN Carried(h, a, t)
                 ELSE Retargeted(h, a, t) :
        q.revision \in Revisions /\ plan' = [plan EXCEPT ![h] = q]
  BY <1>5
<1> HIDE DEF wanted, p, s, t, h, c
<1>7. a \in RawPlans /\ Approved(h, a, c) /\ ~NeedsAlign(h, a)
  <2>1. CASE NeedsAlign(h, p)
    <3>1. a \in RawPlans /\ a.phase \in {"held", "approval"} /\ a.evening
      BY <1>1, <1>2, <1>5, <2>1, AlignedPlan
    <3>2. Approved(h, a, c)
      BY <1>1, <1>2, <1>3, <1>5, <2>1, AlignedApproval
    <3> QED
      BY <3>1, <3>2 DEF NeedsAlign, Approved
  <2>2. CASE ~NeedsAlign(h, p) /\ wanted
    <3>1. /\ a \in RawPlans /\ a.revision = p.revision + 1
          /\ a.phase = (IF h \in Pve THEN "approval" ELSE "scheduled")
      BY <1>1, <1>2, <1>5, <2>2, ProposedPlan
    <3>2. Approved(h, a, c)
      BY <1>1, <1>2, <1>3, <1>4, <1>5, <2>2, ProposedApproval
    <3>3. h \in Pve => a.evening
      <4>1. PICK u \in AvailableTargets(h, NextMorning(h, t)) :
              a = [Revised(p) EXCEPT !.target = u, !.evening = (h \in Pve), !.bootId = s.bootId,
                          !.phase = IF h \in Pve THEN "approval" ELSE "scheduled"]
        BY <1>5, <2>2 DEF Proposed
      <4> QED
        BY <1>2, <4>1, RevisedPlan DEF RawPlans
    <3> QED
      BY <3>1, <3>2, <3>3 DEF NeedsAlign, Approved
  <2>3. CASE ~NeedsAlign(h, p) /\ a = p
    BY <1>2, <1>3, <2>3, Bounds DEF Plans, RawPlans
  <2> QED
    BY <1>5, <2>1, <2>2, <2>3
<1>8. Approved(h, q, c)
  <2>1. CASE q = a
    BY <1>7, <2>1
  <2>2. CASE q # a
    <3>1. /\ q \in Carried(h, a, t) \cup Retargeted(h, a, t) /\ a.phase = "scheduled"
          /\ t >= WindowEnd(h, a.target) \/ ~(t < WindowEnd(h, a.target))
      BY <1>6, <2>2
    <3>2. q.revision = a.revision + 1
      BY <1>7, <3>1 DEF Carried, Retargeted, Revised, RawPlans
    <3>3. a \in Plans
      <4>1. a.revision \in Revisions
        BY <1>6, <1>7, <3>2, BoundAssumption DEF Revisions, RawPlans
      <4> QED
        BY <1>7, <4>1, BoundedPlan
    <3>4. CASE NeedsCarry(h, a, t)
      <4>1. q \in Carried(h, a, t)
        BY <1>6, <2>2, <3>4
      <4> QED
        BY <1>1, <1>2, <1>7, <3>3, <3>4, <4>1, CarriedApproval
    <3>5. CASE ~NeedsCarry(h, a, t)
      <4>1. q \in Retargeted(h, a, t)
        BY <1>6, <2>2, <3>5
      <4>2. h \notin Pve
        <5> SUFFICES ASSUME h \in Pve PROVE FALSE
          OBVIOUS
        <5>1. a.evening
          BY <1>7, <3>1 DEF NeedsAlign, Changeable
        <5>2. t >= WindowEnd(h, a.target)
          <6>1. Midnight(a.target) \in Int /\ Day \in Nat /\ t \in Int
            <7>1. a.target \in Int
              BY <3>3, Bounds DEF Plans
            <7>2. Midnight(a.target) \in Int
              BY <7>1, Clocks
            <7>3. Day \in Nat
              BY CalendarAssumption
            <7>4. t \in Int
              BY <1>2
            <7> QED
              BY <7>2, <7>3, <7>4
          <6> QED
            BY <3>1, <6>1 DEF WindowEnd
        <5> QED
          BY <3>1, <3>5, <5>1, <5>2 DEF NeedsCarry
      <4>3. q.bootId = a.bootId
        BY <3>3, <4>1, RevisedPlan DEF Retargeted, RawPlans
      <4>4. a.bootId >= 1
        BY <1>7, <3>1 DEF Approved
      <4> QED
        BY <4>2, <4>3, <4>4 DEF Approved
    <3> QED
      BY <3>4, <3>5
  <2> QED
    BY <2>1, <2>2
<1>9. plan' = [plan EXCEPT ![h] = q] /\ approval' = approval
  BY <1>6 DEF TickHost
<1> QED
  BY <1>0, <1>1, <1>8, <1>9, KeptApproved DEF c

\* An applied press gives the approval with the slot it names, or takes it
\* back with the slot it changes.
LEMMA ApplyApproval ==
  ASSUME ApprovalInv, ApplyInteraction
  PROVE  AllApproved'
<1> DEFINE h == press.host
           p == plan[h]
           a == Asked(h, p)
           q == Revised(a)
           f == IF press.button = "hold" THEN q ELSE [q EXCEPT !.evening = (h \in Pve)]
           b == IF press.button = "approve"
                THEN [bootId |-> p.bootId, target |-> press.seen] ELSE NoApproval
           unapproved == IF h \in Pve THEN "approval" ELSE "scheduled"
<1>0. TypeOK /\ AllApproved /\ PressInformed
  BY DEF ApprovalInv
<1>1. /\ q.target \in Targets /\ plan' = [plan EXCEPT ![h] = f]
      /\ approval' = [approval EXCEPT ![h] = b] /\ press # NoPress
      /\ Changeable(p) /\ p.revision = press.revision
      /\ press.button # "hold" => InWindow(h, a.target)
  BY DEF ApplyInteraction, Accepted
<1>2. h \in Hosts /\ a \in Plans
  BY <1>0, <1>1, AskedPlan DEF ApplyInteraction
<1>3. p \in Plans /\ Approved(h, p, approval[h])
  BY <1>0, <1>2 DEF TypeOK, AllApproved
<1>4. p.bootId >= 1 /\ p.bootId \in Nat /\ p.target \in Nat
  BY <1>1, <1>3, Bounds DEF Approved, Changeable, Plans
<1>5. press.button \in {"hold", "defer", "date", "approve"}
  BY <1>0, <1>1, InputAssumption DEF TypeOK
<1>6. p.target = press.seen
  BY <1>0, <1>1 DEF PressInformed, Changeable
<1>7. /\ a.bootId = p.bootId /\ a.evening = p.evening
      /\ press.button = "hold" => a.phase = "held" /\ a.target = p.target
      /\ press.button = "approve" => a.phase = "scheduled" /\ a.target = p.target
      /\ press.button \in {"defer", "date"} => a.phase = unapproved
  <2> HIDE DEF p, h, unapproved
  <2>1. CASE press.button = "hold"
    BY <1>3, <2>1 DEF Asked, Plans
  <2>2. CASE press.button = "approve"
    BY <1>3, <2>2 DEF Asked, Plans
  <2>3. CASE press.button \in {"defer", "date"}
    <3>1. PICK target : a = [p EXCEPT !.target = target, !.phase = unapproved]
      BY <2>3 DEF Asked, unapproved
    <3> QED
      BY <1>3, <2>3, <3>1 DEF Plans
  <2> QED
    BY <1>5, <2>1, <2>2, <2>3
<1> HIDE DEF a
<1>8. /\ q \in RawPlans /\ q.phase = a.phase /\ q.target = a.target
      /\ q.bootId = a.bootId /\ q.evening = a.evening
  BY <1>2, RevisedPlan
<1> HIDE DEF q
<1>9. /\ f.phase = q.phase /\ f.target = q.target /\ f.bootId = q.bootId
      /\ f.evening = IF press.button = "hold" THEN q.evening ELSE (h \in Pve)
  <2> HIDE DEF h
  <2>1. CASE press.button = "hold"
    BY <2>1
  <2>2. CASE press.button # "hold"
    BY <1>8, <2>2 DEF RawPlans
  <2> QED
    BY <2>1, <2>2
<1> HIDE DEF f
<1>10. Approved(h, f, b)
  <2>1. CASE h \notin Pve
    BY <1>4, <1>7, <1>8, <1>9, <2>1 DEF Approved
  <2>2. CASE h \in Pve /\ press.button = "hold"
    <3>1. b = NoApproval /\ f.phase = "held" /\ f.bootId = p.bootId
          /\ f.evening = p.evening /\ f.target = p.target
      BY <1>7, <1>8, <1>9, <2>2
    <3> HIDE DEF b, p
    <3> QED
      BY <1>1, <1>3, <1>4, <2>2, <3>1 DEF Approved
  <2>3. CASE h \in Pve /\ press.button \in {"defer", "date"}
    <3>1. b = NoApproval /\ f.phase = "approval" /\ f.bootId = p.bootId
      BY <1>7, <1>8, <1>9, <2>3
    <3>2. ~Daytime(f.target)
      BY <1>1, <1>8, <1>9, <2>3 DEF InWindow
    <3> HIDE DEF b, p
    <3> QED
      BY <1>4, <3>1, <3>2 DEF Approved
  <2>4. CASE h \in Pve /\ press.button = "approve"
    <3>1. /\ b = [bootId |-> p.bootId, target |-> press.seen]
          /\ f.phase = "scheduled" /\ f.bootId = p.bootId /\ f.target = p.target
          /\ f.evening = (h \in Pve)
      BY <1>7, <1>8, <1>9, <2>4
    <3>2. ~Daytime(f.target)
      BY <1>1, <1>8, <1>9, <2>4 DEF InWindow
    <3>3. b # NoApproval /\ b.bootId = f.bootId /\ b.target <= f.target
      <4>1. b.bootId = p.bootId /\ b.target = press.seen
        BY <3>1
      <4>2. NoApproval.bootId = 0
        BY DEF NoApproval
      <4> QED
        BY <1>4, <1>6, <3>1, <4>1, <4>2
    <3> HIDE DEF b, p
    <3> QED
      BY <1>4, <2>4, <3>1, <3>2, <3>3 DEF Approved
  <2> QED
    BY <1>5, <2>1, <2>2, <2>3, <2>4
<1> HIDE DEF b
<1> QED
  BY <1>0, <1>1, <1>2, <1>10, OneApproved

\* The execution of a plan uses its approval up.
LEMMA ClaimApproval ==
  ASSUME ApprovalInv, NEW h \in Hosts, Claim(h)
  PROVE  AllApproved'
<1> DEFINE r == [plan[h] EXCEPT !.phase = "running"]
           q == [r EXCEPT !.executionId = executions + 1]
<1>1. TypeOK /\ AllApproved /\ plan[h] \in Plans /\ plan[h].phase = "scheduled"
  BY DEF ApprovalInv, TypeOK, Claim, Due
<1>2. plan' = [plan EXCEPT ![h] = q] /\ approval' = [approval EXCEPT ![h] = NoApproval]
  BY <1>1 DEF Claim, TypeOK
<1>3. /\ q.phase = "running" /\ q.bootId = plan[h].bootId
      /\ q.evening = plan[h].evening /\ q.target = plan[h].target
  BY <1>1 DEF Plans
<1>4. Approved(h, plan[h], approval[h])
  BY <1>1 DEF AllApproved
<1> HIDE DEF q
<1>5. Approved(h, q, NoApproval)
  BY <1>1, <1>3, <1>4 DEF Approved
<1> QED
  BY <1>1, <1>2, <1>5, OneApproved

\* A plan that is stopped keeps its boot session and its slot, not its
\* approval.
LEMMA ClosedApproval ==
  ASSUME NEW h, NEW p \in Plans, NEW a, Approved(h, p, a), p.phase # "none",
         NEW phase \in {"held", "failed"}
  PROVE  Approved(h, [Revised(p) EXCEPT !.phase = phase], NoApproval)
<1> DEFINE q == [Revised(p) EXCEPT !.phase = phase]
<1>1. /\ q.phase = phase /\ q.bootId = p.bootId /\ q.evening = p.evening
      /\ q.target = p.target
  BY RevisedPlan DEF RawPlans
<1> HIDE DEF q
<1>2. Approved(h, q, NoApproval)
  BY <1>1 DEF Approved
<1> QED
  BY <1>2 DEF q

\* For a host that is no hypervisor, an approval says nothing.
LEMMA OtherApproval ==
  ASSUME NEW h, NEW p, NEW a, NEW b, Approved(h, p, a), h \notin Pve
  PROVE  Approved(h, p, b)
BY DEF Approved

LEMMA ResultApproval ==
  ASSUME ApprovalInv, NEW h \in Hosts, NEW outcome \in {"blocked", "failed", "complete"},
         Result(h, outcome)
  PROVE  AllApproved'
<1> DEFINE p == plan[h]
           q == CASE outcome = "complete" -> Removed(p)
                  [] outcome = "blocked" -> [Revised(p) EXCEPT !.phase = "held"]
                  [] outcome = "failed" -> [Revised(p) EXCEPT !.phase = "failed"]
<1>1. TypeOK /\ AllApproved /\ p \in Plans /\ Approved(h, p, approval[h])
  BY DEF ApprovalInv, TypeOK, AllApproved
<1>2. plan' = [plan EXCEPT ![h] = q] /\ approval' = approval /\ p.phase = "running"
  BY DEF Result
<1>3. Approved(h, q, NoApproval)
  BY <1>1, <1>2, RemovedApproval, ClosedApproval
<1> HIDE DEF q
<1>4. h \in Pve => approval[h] = NoApproval
  BY <1>1, <1>2, OnlyScheduled
<1>5. Approved(h, q, approval[h])
  BY <1>3, <1>4, OtherApproval
<1> QED
  BY <1>1, <1>2, <1>5, KeptApproved

LEMMA RecoverApproval ==
  ASSUME ApprovalInv, NEW h \in Hosts, Recover(h)
  PROVE  AllApproved'
<1> DEFINE p == plan[h]
           q == IF p.phase = "none" THEN p ELSE [Revised(p) EXCEPT !.phase = "held"]
<1>1. TypeOK /\ AllApproved /\ p \in Plans /\ Approved(h, p, approval[h])
  BY DEF ApprovalInv, TypeOK, AllApproved
<1>2. plan' = [plan EXCEPT ![h] = q] /\ approval' = [approval EXCEPT ![h] = NoApproval]
  BY DEF Recover
<1>3. Approved(h, q, NoApproval)
  <2>1. CASE p.phase = "none"
    <3>1. h \in Pve => approval[h] = NoApproval
      BY <1>1, <2>1, OnlyScheduled
    <3> QED
      BY <1>1, <2>1, <3>1, OtherApproval
  <2>2. CASE p.phase # "none"
    BY <1>1, <2>2, ClosedApproval
  <2> QED
    BY <2>1, <2>2
<1> HIDE DEF q
<1> QED
  BY <1>1, <1>2, <1>3, OneApproved

\* An observation removes a running plan at most, which has no approval left.
LEMMA ObserveApproval ==
  ASSUME ApprovalInv, NEW o \in Observations, Observe(o)
  PROVE  AllApproved'
<1> DEFINE h == gate.host
<1>1. TypeOK /\ AllApproved
  BY DEF ApprovalInv
<1>2. approval' = approval
  BY DEF Observe
<1>3. \/ plan' = plan
      \/ plan' = [plan EXCEPT ![h] = Removed(plan[h])] /\ plan[h].phase = "running"
  BY DEF Observe
<1> HIDE DEF h
<1>4. CASE plan' = plan
  BY <1>1, <1>2, <1>4, SamePlanApproved
<1>5. CASE /\ plan' = [plan EXCEPT ![h] = Removed(plan[h])] /\ plan[h].phase = "running"
           /\ h \in Hosts
  <2>1. plan[h] \in Plans /\ Approved(h, plan[h], approval[h])
    BY <1>1, <1>5 DEF TypeOK, AllApproved
  <2>2. Approved(h, Removed(plan[h]), NoApproval)
    BY <2>1, RemovedApproval
  <2>3. h \in Pve => approval[h] = NoApproval
    BY <1>5, <2>1, OnlyScheduled
  <2>4. Approved(h, Removed(plan[h]), approval[h])
    BY <2>2, <2>3, OtherApproval
  <2> QED
    BY <1>1, <1>2, <1>5, <2>4, KeptApproved
<1>6. CASE plan' = [plan EXCEPT ![h] = Removed(plan[h])] /\ h \notin Hosts
  <2>1. plan' = plan
    BY <1>1, <1>6 DEF TypeOK
  <2> QED
    BY <1>1, <1>2, <2>1, SamePlanApproved
<1> QED
  BY <1>3, <1>4, <1>5, <1>6

\* An acknowledgement changes what was announced of a plan only.
LEMMA PublishEndApproval ==
  ASSUME ApprovalInv, NEW m \in inFlight, NEW accepted \in BOOLEAN, PublishEnd(m, accepted)
  PROVE  AllApproved'
<1> DEFINE h == m.host
           q == [plan[h] EXCEPT !.notified = m.revision]
<1>1. TypeOK /\ AllApproved /\ h \in Hosts /\ plan[h] \in Plans
  BY DEF ApprovalInv, TypeOK, Publications
<1>2. plan' = plan \/ plan' = [plan EXCEPT ![h] = q]
  BY DEF PublishEnd
<1>3. approval' = approval
  BY DEF PublishEnd
<1>4. /\ q.phase = plan[h].phase /\ q.bootId = plan[h].bootId
      /\ q.evening = plan[h].evening /\ q.target = plan[h].target
  BY <1>1 DEF Plans
<1>5. Approved(h, plan[h], approval[h])
  BY <1>1 DEF AllApproved
<1> HIDE DEF q, h
<1>6. Approved(h, q, approval[h])
  BY <1>4, <1>5 DEF Approved
<1> QED
  BY <1>1, <1>2, <1>3, <1>6, KeptApproved, SamePlanApproved

LEMMA StepApproval ==
  ASSUME ApprovalInv, [Next]_vars
  PROVE  AllApproved'
<1>0. AllApproved
  BY DEF ApprovalInv
<1>1. CASE \/ Advance \/ Restart \/ TickStart \/ RefuseInteraction \/ UNCHANGED vars
           \/ \E h \in Hosts : Reboot(h) \/ PublishStart(h) \/ ClaimUpdate(h)
           \/ \E h \in Hosts : \E button, target : Press(h, button, target)
           \/ \E h \in Hosts, outcome \in {"blocked", "failed", "complete"} :
                UpdateResult(h, outcome)
  <2>1. UNCHANGED <<plan, approval>>
    BY <1>1 DEF Advance, Restart, TickStart, RefuseInteraction, Reboot,
       PublishStart, ClaimUpdate, Press, UpdateResult, vars
  <2> QED
    BY <1>0, <2>1, SamePlanApproved
<1> QED
  BY <1>1, ReportApproval, TickApproval, ApplyApproval, ClaimApproval, ResultApproval,
     RecoverApproval, ObserveApproval, PublishEndApproval DEF Next

\* The boot sessions that the hosts report are real ones.
LEMMA StepBoots ==
  ASSUME TypeOK, BootsKnown, [Next]_vars
  PROVE  BootsKnown'
<1>1. CASE UNCHANGED <<boot, snapshot>>
  BY <1>1 DEF BootsKnown
<1>2. ASSUME NEW h \in Hosts, Reboot(h)
      PROVE  BootsKnown'
  <2>1. \A k \in Hosts : boot[k] \in Nat /\ boot'[k] \in {boot[k], boot[k] + 1}
    BY <1>2 DEF Reboot, TypeOK
  <2>2. snapshot' = snapshot
    BY <1>2 DEF Reboot
  <2> QED
    BY <2>1, <2>2 DEF BootsKnown
<1>3. ASSUME NEW h \in Hosts, NEW r \in Reports, Report(h, r)
      PROVE  BootsKnown'
  <2> DEFINE s == [bootId |-> boot[h], required |-> r.required, healthy |-> r.healthy,
                   observedAt |-> now]
  <2>1. boot' = boot /\ snapshot' = [snapshot EXCEPT ![h] = s]
    BY <1>3 DEF Report, worldVars
  <2>2. s.bootId = boot[h]
    OBVIOUS
  <2> HIDE DEF s
  <2>3. snapshot'[h] = s /\ \A k \in Hosts \ {h} : snapshot'[k] = snapshot[k]
    BY <2>1 DEF TypeOK
  <2> QED
    BY <2>1, <2>2, <2>3 DEF BootsKnown
<1>4. CASE \/ Advance \/ Restart \/ TickStart \/ TickHost \/ RefuseInteraction
           \/ ApplyInteraction \/ UNCHANGED vars
  BY <1>1, <1>4 DEF Advance, Restart, TickStart, TickHost, RefuseInteraction,
     ApplyInteraction, vars, worldVars
<1>5. CASE \/ \E h \in Hosts : Claim(h) \/ ClaimUpdate(h) \/ Recover(h) \/ PublishStart(h)
           \/ \E h \in Hosts, outcome \in {"blocked", "failed", "complete"} :
                UpdateResult(h, outcome) \/ Result(h, outcome)
           \/ \E h \in Hosts : \E button, target : Press(h, button, target)
  BY <1>1, <1>5 DEF Claim, ClaimUpdate, Recover, PublishStart, UpdateResult, Result, Press,
     worldVars
<1>6. CASE \/ \E m \in inFlight, accepted \in BOOLEAN : PublishEnd(m, accepted)
           \/ \E o \in Observations : Observe(o)
  BY <1>1, <1>6 DEF PublishEnd, Observe, worldVars
<1> QED
  BY <1>2, <1>3, <1>4, <1>5, <1>6 DEF Next

LEMMA InitApproval == Init => PressInformed /\ BootsKnown /\ AllApproved
<1> SUFFICES ASSUME Init PROVE PressInformed /\ BootsKnown /\ AllApproved
  OBVIOUS
<1>1. PressInformed /\ BootsKnown
  BY DEF Init, PressInformed, BootsKnown
<1>2. ASSUME NEW h \in Hosts PROVE Approved(h, plan[h], approval[h])
  <2>1. approval[h] = NoApproval /\ plan[h] \in {NoPlan} \cup LegacyPlans(h)
    BY DEF Init
  <2>2. CASE plan[h] = NoPlan
    BY <2>1, <2>2 DEF NoPlan, Approved
  <2>3. CASE plan[h] \in LegacyPlans(h)
    <3>1. plan[h].bootId = 1 /\ plan[h].evening = FALSE
      BY <2>3 DEF LegacyPlans
    <3> QED
      BY <2>1, <3>1 DEF Approved
  <2> QED
    BY <2>1, <2>2, <2>3
<1> QED
  BY <1>1, <1>2 DEF AllApproved

\* A hypervisor's plan is scheduled exactly while the operator's approval of it
\* stands (report, tick, applyInteraction, claim, result and recover of
\* index.ts), for every calendar, fleet and set of stored plans.
THEOREM ApprovalsExact == Spec => []ApprovalExact
<1>1. Init => ApprovalInv
  BY InitType, InitApproval DEF ApprovalInv
<1>2. ApprovalInv /\ [Next]_vars => ApprovalInv'
  <2> SUFFICES ASSUME ApprovalInv, [Next]_vars PROVE ApprovalInv'
    OBVIOUS
  <2>1. TypeOK /\ PressInformed /\ BootsKnown
    BY DEF ApprovalInv
  <2>2. TypeOK'
    BY <2>1, StepType
  <2>3. PressInformed'
    BY <2>1, <2>2, StepInformed
  <2> QED
    BY <2>1, <2>2, <2>3, StepBoots, StepApproval DEF ApprovalInv
<1>3. ApprovalInv => ApprovalExact
  BY HostsAssumption DEF ApprovalInv, AllApproved, Approved, ApprovalExact
<1> QED
  BY <1>1, <1>2, <1>3, PTL DEF Spec
=============================================================================
