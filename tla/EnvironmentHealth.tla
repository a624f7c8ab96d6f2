------------------------- MODULE EnvironmentHealth -------------------------
(***************************************************************************)
(* The environment gate of the maintenance controller                      *)
(* (workers/maintenance-control/src/environment-health.ts): what one       *)
(* inspection of the monitoring says, and how the gate that follows a      *)
(* hypervisor's update or reboot advances on it.                           *)
(*                                                                         *)
(* An inspection keeps three things: when it was taken, whether it reports *)
(* a problem whatever came before (an error, a critical alarm, a stale or  *)
(* stopped collection), and the set of checks that are in a bad state (a   *)
(* firing warning, a failing probe, a missing signal or rule), which count *)
(* only when they were good in the baseline taken before the work.         *)
(***************************************************************************)
EXTENDS Integers

CONSTANTS
  Checks,       \* the monitored checks
  Stable,       \* HEALTH_STABLE_MS: ten minutes
  Timeout       \* HEALTH_TIMEOUT_MS: sixty minutes

ASSUME HealthAssumption == Stable \in Nat /\ Timeout \in Nat

\* An optional instant that is absent.
Unset == -1

Inspections(Times) == [at : Times, broken : BOOLEAN, bad : SUBSET Checks]

NoInspection == [at |-> 0, broken |-> TRUE, bad |-> {}]

StaleOrBroken(inspection, t, fresh) ==
  t - inspection.at > fresh \/ inspection.broken

\* healthProblems is not empty: without and with a baseline.
Problem(inspection, t, fresh) == StaleOrBroken(inspection, t, fresh)
Regressed(inspection, baseline, t, fresh) ==
  StaleOrBroken(inspection, t, fresh) \/ ~(inspection.bad \subseteq baseline)

\* Mutants: a gap in the observations is overlooked; a gap of exactly the
\* freshness bound counts too.
StableDespiteGap(g, problem, t, fresh) == IF problem THEN Unset ELSE g.stableSince
StableWithoutPause(g, problem, t, fresh) ==
  IF problem \/ (g.lastObservationAt # Unset /\ t - g.lastObservationAt >= fresh)
  THEN Unset ELSE g.stableSince

\* Stability is counted again after a problem or a gap in the observations.
StableAfter(g, problem, t, fresh) ==
  IF problem \/ (g.lastObservationAt # Unset /\ t - g.lastObservationAt > fresh)
  THEN Unset ELSE g.stableSince

Held(g, cause) == [g EXCEPT !.held = cause]

\* observeGate: the outcome and the gate it leaves.
ObserveGate(g, problem, t, fresh) ==
  LET stable == StableAfter(g, problem, t, fresh)
      seen == [g EXCEPT !.stableSince = stable, !.lastObservationAt = t]
      clean == [seen EXCEPT !.stableSince = IF stable = Unset THEN t ELSE stable]
      next == IF problem THEN seen ELSE clean
  IN  CASE g.held = "operation" -> [outcome |-> "held", gate |-> g]
        [] g.held # "operation" /\ g.completedAt = Unset ->
             IF t - g.startedAt >= Timeout
             THEN [outcome |-> "held", gate |-> Held(seen, "operation")]
             ELSE [outcome |-> "waiting", gate |-> seen]
        [] g.held # "operation" /\ g.completedAt # Unset ->
             IF ~problem /\ t - next.stableSince >= Stable
             THEN [outcome |-> "passed", gate |-> next]
             ELSE IF t - g.completedAt >= Timeout
             THEN [outcome |-> "held", gate |-> Held(next, "timeout")]
             ELSE [outcome |-> "waiting", gate |-> next]
=============================================================================
