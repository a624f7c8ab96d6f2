------------------------- MODULE MaintenanceAgents -------------------------
(***************************************************************************)
(* The agents of the managed hosts                                         *)
(* (ansible/host-maintenance/files/maintenance-agent.py) together with the *)
(* controller they call.  A timer starts the agent every minute; a second  *)
(* one starts it with --update; a person starts it with --recover.  A file *)
(* lock lets one of them run at a time on a host.                          *)
(*                                                                         *)
(* An agent may stop between any two steps, a call may be lost before the  *)
(* controller or behind it, and the host may restart at any time: what     *)
(* survives are the two journals, which are replaced atomically.  A step   *)
(* of this module is one call of the controller with what the agent does   *)
(* on its answer, or one write of a journal with the command it announces. *)
(*                                                                         *)
(* Postponed backups are modelled in BackupReplay.  The operator's buttons *)
(* and the daily pass do not touch an execution and are left out here.     *)
(***************************************************************************)
EXTENDS MaintenanceFleet

VARIABLES
  at,            \* at[h]: where the agent of h is, "idle" when none runs
  answer,        \* answer[h]: the execution id that a claim returned
  journal,       \* journal[h]: execution.json
  updateJournal, \* updateJournal[h]: update.json
  packages,      \* packages[h]: "clean", being upgraded, or left "broken"
  stopped,       \* stopped[h]: the Loockit container of h is stopped
  work           \* work[h]: the execution that upgrades or reboots h now

agentVars == <<at, answer, journal, updateJournal, packages, stopped, work>>
allVars == <<vars, agentVars>>

NoJournal == [execution |-> 0, bootId |-> 0, outcome |-> "none", loockitStopped |-> FALSE]
NoUpdateJournal == [execution |-> 0, outcome |-> "none"]

\* The process of h goes on at a place, or ends.
Goes(h, place) == at' = [at EXCEPT ![h] = place]
Ends(h) == Goes(h, "idle")

\* Where the agent goes when the controller answered; a lost answer ends it.
GoesIf(h, answered, place) == Goes(h, IF answered THEN place ELSE "idle")

Upgrading(h) == packages[h] = "upgrading"
Rebooting(h) == work[h] # 0 /\ ~Upgrading(h)

-----------------------------------------------------------------------------
(* Results *)

\* A mutant: an interrupted execution is given up as if nothing had begun.
OutcomesOrBlocked(j) ==
  IF j.execution = 0 THEN {} ELSE IF j.outcome = "none" THEN {"blocked"} ELSE {j.outcome}

\* What a journal has to report: an interrupted execution reports nothing.
Outcomes(j) == {j.outcome} \ {"none"}

\* update-result: the controller takes it, has taken it before, or refuses it.
SendUpdateResult(h, outcome, answered) ==
  LET j == updateJournal[h]
      fresh == update.host = h /\ update.execution = j.execution /\ ~IsHandled(j.execution)
  IN  /\ at[h] = "idle" /\ outcome \in Outcomes(j)
      /\ \/ fresh /\ UpdateResult(h, outcome)
         \/ IsHandled(j.execution) /\ UNCHANGED vars
      /\ updateJournal' = IF answered /\ outcome # "failed"
                          THEN [updateJournal EXCEPT ![h] = NoUpdateJournal] ELSE updateJournal
      /\ UNCHANGED <<at, answer, journal, packages, stopped, work>>

\* result, at the end of the execution or by a later run of the agent, which
\* restarts the Loockit first and looks at a journal of this boot only.
SendResult(h, outcome, answered) ==
  LET j == journal[h]
      fresh == plan[h].phase = "running" /\ plan[h].executionId = j.execution
                 /\ ~IsHandled(j.execution)
  IN  /\ outcome \in Outcomes(j)
      /\ \/ at[h] = "result"
         \/ /\ at[h] = "idle" /\ updateJournal[h] = NoUpdateJournal
            /\ ~j.loockitStopped /\ j.bootId = boot[h]
      /\ \/ fresh /\ Result(h, outcome)
         \/ IsHandled(j.execution) /\ UNCHANGED vars
      /\ journal' = IF answered /\ ~j.loockitStopped
                    THEN [journal EXCEPT ![h] = NoJournal] ELSE journal
      /\ Ends(h)
      /\ UNCHANGED <<answer, updateJournal, packages, stopped, work>>

-----------------------------------------------------------------------------
(* The run of every minute: report, claim, checks, reboot *)

\* restore_loockit by a later run, which may end before it has saved the journal
\* or before it has noted the interruption.
RestoreLoockit(h, saved, noted) ==
  LET j == journal[h]
      unfinished == j.bootId = boot[h] /\ j.outcome = "none"
  IN  /\ at[h] = "idle" /\ updateJournal[h] = NoUpdateJournal /\ j.loockitStopped
      /\ stopped' = [stopped EXCEPT ![h] = FALSE]
      /\ journal' = IF ~saved THEN journal
                    ELSE [journal EXCEPT ![h] =
                            [j EXCEPT !.loockitStopped = FALSE,
                                      !.outcome = IF unfinished /\ noted THEN "blocked" ELSE @]]
      /\ UNCHANGED <<vars, at, answer, updateJournal, packages, work>>

\* A journal that keeps the run from reporting: one of an unfinished update,
\* of an execution in this boot, or of a boot that has not recovered.
MayReport(h) ==
  /\ updateJournal[h] = NoUpdateJournal
  /\ journal[h] # NoJournal => journal[h].bootId # boot[h] /\ ~journal[h].loockitStopped

\* report, and the journal of the boot before this one is removed.
ReportStep(h, r, answered) ==
  /\ at[h] = "idle" /\ MayReport(h)
  /\ Report(h, r)
  /\ GoesIf(h, answered, "claim")
  /\ journal' = IF answered THEN [journal EXCEPT ![h] = NoJournal] ELSE journal
  /\ UNCHANGED <<answer, updateJournal, packages, stopped, work>>

\* claim: an execution, or null.
ClaimStep(h, answered) ==
  /\ at[h] = "claim"
  /\ Claim(h)
  /\ GoesIf(h, answered, "claimed")
  /\ answer' = IF answered THEN [answer EXCEPT ![h] = executions'] ELSE answer
  /\ UNCHANGED <<journal, updateJournal, packages, stopped, work>>

\* The journal is written before anything is touched.
SaveClaim(h) ==
  /\ at[h] = "claimed"
  /\ journal' = [journal EXCEPT ![h] =
       [NoJournal EXCEPT !.execution = answer[h], !.bootId = boot[h]]]
  /\ answer' = [answer EXCEPT ![h] = 0]
  /\ Goes(h, "preflight")
  /\ UNCHANGED <<vars, updateJournal, packages, stopped, work>>

\* A check failed: the outcome is saved, then reported.
Block(h) ==
  /\ at[h] \in {"preflight", "ready"}
  /\ journal' = [journal EXCEPT ![h].outcome = "blocked"]
  /\ Goes(h, "result")
  /\ UNCHANGED <<vars, answer, updateJournal, packages, stopped, work>>

\* The checks hold, and the peer serves Loockit already.
Pass(h) ==
  /\ at[h] = "preflight" /\ ~Upgrading(h)
  /\ Goes(h, "ready")
  /\ UNCHANGED <<vars, answer, journal, updateJournal, packages, stopped, work>>

\* handoff_loockit: the flag is saved, then the container is stopped.
Handoff(h) ==
  /\ at[h] = "preflight" /\ h \in Pve /\ ~Upgrading(h)
  /\ journal' = [journal EXCEPT ![h].loockitStopped = TRUE]
  /\ Goes(h, "handoff")
  /\ UNCHANGED <<vars, answer, updateJournal, packages, stopped, work>>

StopLoockit(h) ==
  /\ at[h] = "handoff"
  /\ stopped' = [stopped EXCEPT ![h] = TRUE]
  /\ Goes(h, "stopped")
  /\ UNCHANGED <<vars, answer, journal, updateJournal, packages, work>>

\* The finally of handoff_loockit: docker start works or not, and the peer has
\* taken over or not.
EndHandoff(h, restarted, serving) ==
  /\ at[h] \in {"handoff", "stopped"} /\ (serving => at[h] = "stopped")
  /\ stopped' = IF restarted THEN [stopped EXCEPT ![h] = FALSE] ELSE stopped
  /\ journal' = [journal EXCEPT ![h].loockitStopped = ~restarted,
                                ![h].outcome = IF restarted /\ serving THEN "none" ELSE "blocked"]
  /\ Goes(h, IF restarted /\ serving THEN "ready" ELSE "result")
  /\ UNCHANGED <<vars, answer, updateJournal, packages, work>>

\* systemctl reboot: it works, fails, or times out and works all the same.
RebootCommand(h, accepted, failed) ==
  /\ at[h] = "ready" /\ (accepted \/ failed)
  /\ work' = IF accepted THEN [work EXCEPT ![h] = journal[h].execution] ELSE work
  /\ journal' = IF failed THEN [journal EXCEPT ![h].outcome = "failed"] ELSE journal
  /\ Goes(h, IF failed THEN "result" ELSE "idle")
  /\ UNCHANGED <<vars, answer, updateJournal, packages, stopped>>

\* No reboot is required any more.
NothingToReboot(h) ==
  /\ at[h] = "ready"
  /\ journal' = [journal EXCEPT ![h].outcome = "complete"]
  /\ Goes(h, "result")
  /\ UNCHANGED <<vars, answer, updateJournal, packages, stopped, work>>

-----------------------------------------------------------------------------
(* update_packages: report, update-claim, check, apt-get *)

\* The queued request (--update, or what is left of it after a refused claim)
\* reports again, unless a journal is there.
UpdateReport(h, r, answered) ==
  /\ at[h] = "idle" /\ h \in Pve
  /\ journal[h] = NoJournal /\ updateJournal[h] = NoUpdateJournal
  /\ Report(h, r)
  /\ GoesIf(h, answered, "updateClaim")
  /\ UNCHANGED <<answer, journal, updateJournal, packages, stopped, work>>

UpdateClaimStep(h, answered) ==
  /\ at[h] = "updateClaim"
  /\ ClaimUpdate(h)
  /\ GoesIf(h, answered, "updateClaimed")
  /\ answer' = IF answered THEN [answer EXCEPT ![h] = executions'] ELSE answer
  /\ UNCHANGED <<journal, updateJournal, packages, stopped, work>>

SaveUpdateClaim(h) ==
  /\ at[h] = "updateClaimed"
  /\ updateJournal' = [updateJournal EXCEPT ![h] =
       [NoUpdateJournal EXCEPT !.execution = answer[h]]]
  /\ answer' = [answer EXCEPT ![h] = 0]
  /\ Goes(h, "updateCheck")
  /\ UNCHANGED <<vars, journal, packages, stopped, work>>

BlockUpdate(h) ==
  /\ at[h] = "updateCheck"
  /\ updateJournal' = [updateJournal EXCEPT ![h].outcome = "blocked"]
  /\ Ends(h)
  /\ UNCHANGED <<vars, answer, journal, packages, stopped, work>>

StartUpgrade(h) ==
  /\ at[h] = "updateCheck" /\ ~Upgrading(h)
  /\ packages' = [packages EXCEPT ![h] = "upgrading"]
  /\ work' = [work EXCEPT ![h] = updateJournal[h].execution]
  /\ Goes(h, "upgrading")
  /\ UNCHANGED <<vars, answer, journal, updateJournal, stopped>>

\* A mutant: the exit status of apt-get is not looked at.
OutcomeUnchecked(success) == "complete"

OutcomeOf(success) == IF success THEN "complete" ELSE "failed"

EndUpgrade(h, success) ==
  /\ at[h] = "upgrading"
  /\ packages' = [packages EXCEPT ![h] = IF success THEN "clean" ELSE "broken"]
  /\ work' = [work EXCEPT ![h] = 0]
  /\ updateJournal' = [updateJournal EXCEPT ![h].outcome = OutcomeOf(success)]
  /\ Ends(h)
  /\ UNCHANGED <<vars, answer, journal, stopped>>

-----------------------------------------------------------------------------
(* --recover *)

\* A mutant: the package lock is not taken.
LockIgnored(h) == TRUE

\* The lock of dpkg is free: no upgrade that outlived its agent is running.
PackageLockFree(h) == ~Upgrading(h)

\* The person has seen to it that the packages are whole (dpkg --audit) and
\* that no accepted reboot is about to happen.
RecoverReport(h, r, answered) ==
  /\ at[h] = "idle" /\ PackageLockFree(h) /\ ~Rebooting(h)
  /\ packages' = [packages EXCEPT ![h] = "clean"]
  /\ Report(h, r)
  /\ GoesIf(h, answered, "recover")
  /\ UNCHANGED <<answer, journal, updateJournal, stopped, work>>

\* recover, and both journals are removed.
RecoverStep(h, answered) ==
  /\ at[h] = "recover"
  /\ Recover(h)
  /\ journal' = IF answered THEN [journal EXCEPT ![h] = NoJournal] ELSE journal
  /\ updateJournal' = IF answered THEN [updateJournal EXCEPT ![h] = NoUpdateJournal]
                      ELSE updateJournal
  /\ Ends(h)
  /\ UNCHANGED <<answer, packages, stopped, work>>

-----------------------------------------------------------------------------
(* Failures *)

\* The run ends: it is killed, a request is lost or refused, a command fails
\* outside of the handled places.  An upgrade may outlive it.
AgentEnds(h, survives) ==
  /\ at[h] # "idle"
  /\ answer' = [answer EXCEPT ![h] = 0]
  /\ IF Upgrading(h) /\ ~survives
     THEN packages' = [packages EXCEPT ![h] = "broken"] /\ work' = [work EXCEPT ![h] = 0]
     ELSE UNCHANGED <<packages, work>>
  /\ Ends(h)
  /\ UNCHANGED <<vars, journal, updateJournal, stopped>>

\* An upgrade that outlived its agent ends; nobody has seen how.
OrphanEnds(h) ==
  /\ at[h] # "upgrading" /\ Upgrading(h)
  /\ packages' = [packages EXCEPT ![h] = "broken"]
  /\ work' = [work EXCEPT ![h] = 0]
  /\ UNCHANGED <<vars, at, answer, journal, updateJournal, stopped>>

\* The host restarts, on command or not.
HostReboot(h) ==
  /\ Reboot(h)
  /\ answer' = [answer EXCEPT ![h] = 0]
  /\ packages' = [packages EXCEPT ![h] = IF Upgrading(h) THEN "broken" ELSE @]
  /\ work' = [work EXCEPT ![h] = 0]
  /\ Ends(h)
  /\ UNCHANGED <<journal, updateJournal, stopped>>

\* What the controller does without an agent.
ControllerAlone ==
  /\ \/ Advance
     \/ Restart
     \/ \E h \in Hosts : PublishStart(h)
     \/ \E m \in inFlight, accepted \in BOOLEAN : PublishEnd(m, accepted)
     \/ \E o \in Observations : Observe(o)
  /\ UNCHANGED agentVars

-----------------------------------------------------------------------------

AgentInit ==
  /\ at = [h \in Hosts |-> "idle"]
  /\ answer = [h \in Hosts |-> 0] /\ work = [h \in Hosts |-> 0]
  /\ journal = [h \in Hosts |-> NoJournal]
  /\ updateJournal = [h \in Hosts |-> NoUpdateJournal]
  /\ packages = [h \in Hosts |-> "clean"]
  /\ stopped = [h \in Hosts |-> FALSE]

AgentStep(h) ==
  \/ SaveClaim(h) \/ Block(h) \/ Pass(h) \/ Handoff(h) \/ StopLoockit(h)
  \/ NothingToReboot(h)
  \/ SaveUpdateClaim(h) \/ BlockUpdate(h) \/ StartUpgrade(h)
  \/ OrphanEnds(h) \/ HostReboot(h)
  \/ \E b \in BOOLEAN :
       \/ ClaimStep(h, b) \/ UpdateClaimStep(h, b)
       \/ EndUpgrade(h, b) \/ RecoverStep(h, b) \/ AgentEnds(h, b)
  \/ \E b, c \in BOOLEAN :
       RestoreLoockit(h, b, c) \/ EndHandoff(h, b, c) \/ RebootCommand(h, b, c)
  \/ \E r \in Reports, b \in BOOLEAN :
       ReportStep(h, r, b) \/ UpdateReport(h, r, b) \/ RecoverReport(h, r, b)
  \/ \E outcome \in {"blocked", "failed", "complete"}, b \in BOOLEAN :
       SendUpdateResult(h, outcome, b) \/ SendResult(h, outcome, b)

AgentNext == ControllerAlone \/ \E h \in Hosts : AgentStep(h)

AgentSpec == Init /\ AgentInit /\ [][AgentNext]_allVars

-----------------------------------------------------------------------------
(* Properties *)

\* Whatever is lost or dies, a host is upgraded or rebooted only while the
\* controller holds the very execution under which that work was begun; so no
\* two hosts are ever worked on at the same time (the claim, the journals, the
\* file lock and the lock of dpkg together).
WorkHeld ==
  /\ \A h \in Hosts : work[h] # 0 =>
       \/ update.host = h /\ update.execution = work[h]
       \/ Executing(plan[h]) /\ plan[h].executionId = work[h]
  /\ \A h, k \in Hosts : work[h] # 0 /\ work[k] # 0 => h = k

\* An upgrade begins on whole packages only: an interrupted or failed one is
\* never repeated by a later run, before a person has recovered the host
\* ("A process interruption is never treated as permission to retry").
NoBlindRetry ==
  [][\A h \in Hosts : Upgrading(h)' /\ ~Upgrading(h) => packages[h] = "clean"]_allVars

\* The gate waits for the environment to settle only after the work is really
\* over: the packages are whole, or the host has left the boot of its plan.
CompletedIsDone ==
  LET h == gate.host
  IN  gate.completedAt # Unset =>
        /\ work[h] = 0
        /\ gate.kind = "update" => packages[h] = "clean"
        /\ gate.kind = "reboot" => boot[h] # plan[h].bootId

\* While no agent runs, a stopped Loockit is noted in the journal, so that the
\* next run starts it.
StopNoted == \A h \in Hosts : stopped[h] /\ at[h] = "idle" => journal[h].loockitStopped
=============================================================================
