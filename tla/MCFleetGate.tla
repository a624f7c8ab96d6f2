---------------------------- MODULE MCFleetGate ----------------------------
(***************************************************************************)
(* Instance of MaintenanceFleet for the environment gate of one            *)
(* hypervisor: one reboot or one package update, and monitoring that shows *)
(* problems and recovers.  The cron trigger and the agent act in every     *)
(* unit of time, which is what makes the gate open in the end.             *)
(***************************************************************************)
EXTENDS MCFleetLocks

ObserveOnce == inspection.at # now /\ \E o \in Observations : Observe(o)
ReportOnce(h) == snapshot[h].observedAt # now /\ \E r \in Reports : Report(h, r)

\* Bound: one observation and one report of each host in a unit of time.
OncePerUnit ==
  /\ inspection' # inspection => inspection.at # now
  /\ \A h \in Hosts :
       snapshot'[h] # snapshot[h] \/ (h \in pending' \ pending /\ plan'[h] = plan[h]) =>
         snapshot[h].observedAt # now
GapNext == Next /\ AnswerFirst /\ RebootsOnly /\ OncePerUnit
GateNext == GapNext /\ Punctual

GapSpec == Evening0 /\ [][GapNext]_vars

GateSpec ==
  /\ Evening0 /\ [][GateNext]_vars
  /\ WF_vars(Advance /\ Punctual /\ AnswerFirst)
  /\ WF_vars(ObserveOnce /\ AnswerFirst)
  /\ \A h \in Hosts : WF_vars(ReportOnce(h) /\ AnswerFirst)
  /\ \A h \in Hosts : WF_vars(PublishStart(h))
  /\ WF_vars(\E m \in inFlight, accepted \in BOOLEAN : PublishEnd(m, accepted))

\* Once the host's work is complete, the gate opens as soon as the monitoring
\* and the host's reports stay clean for the stabilisation time, also when it
\* had been held for a timeout: either it opens, or another problem is seen,
\* or the operation fails.  (Stated while the bounded clock leaves the time.)
GateOpens ==
  /\ gate.completedAt # Unset /\ gate.held # "operation"
  /\ now + Stable + 2 <= MaxTime
  ~> gate = NoGate \/ doubtAt = now \/ gate.held = "operation"
=============================================================================
