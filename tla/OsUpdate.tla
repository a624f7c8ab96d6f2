------------------------------ MODULE OsUpdate ------------------------------
(***************************************************************************)
(* Updates of the two monitoring machines                                  *)
(* (observability/reventer/os-update/controller.py and guest.py): the      *)
(* controller on each machine updates its peer, under a journal in an      *)
(* object that both can write conditionally, and restores the peer from a  *)
(* boot backup when anything fails.                                        *)
(*                                                                         *)
(* A run may fail at any step, which enters its exception handlers, or be  *)
(* killed at any step; a write of the journal may succeed with its answer  *)
(* lost for good.  Every write has its own time, so that the journal in    *)
(* memory equals the stored one exactly when nobody, this run included,    *)
(* has written since: that is known[v].                                    *)
(***************************************************************************)
EXTENDS Naturals, FiniteSets

CONSTANTS
  Machines,
  None,                \* no machine
  Slots,               \* the boot backups that the provider holds for free
  MaxRuns, MaxFaults   \* bounds for TLC

ASSUME MachinesAssumption ==
  /\ \E v, w \in Machines : v # w /\ Machines = {v, w}
  /\ None \notin Machines
ASSUME BoundsAssumption == Slots \in Nat /\ MaxRuns \in Nat /\ MaxFaults \in Nat

VARIABLES
  journal,   \* the stored journal
  mem,       \* mem[v]: the journal in the memory of the run on v
  known,     \* known[v]: whether it is the stored one
  at,        \* at[v]: where the run on v is, "idle" when there is none
  mode,      \* mode[v]: which part of the program it is in
  vm,        \* the machines
  backups,   \* the boot backups, by the run that asked for them
  runs,      \* runs that have acquired the journal
  overdue,   \* more than four hours have passed since the journal's gap_start
  faults     \* failures, kills and lost answers so far

controllers == <<mem, known, at, mode>>
vars == <<journal, controllers, vm, backups, runs, overdue, faults>>

Peer(v) == CHOOSE w \in Machines : w # v

IdleJournal == [phase |-> "idle", owner |-> 0, target |-> None, backup |-> 0,
                recovery |-> FALSE, gap |-> FALSE, pdc |-> FALSE]
Whole == [storage |-> TRUE, pdc |-> TRUE, stale |-> FALSE, upgrade |-> "none",
          restored |-> FALSE]
Goes(v, place) == at' = [at EXCEPT ![v] = place]
Enters(v, place, part) == Goes(v, place) /\ mode' = [mode EXCEPT ![v] = part]
Early == {"checking", "backup"}

\* health: the storage of a machine serves and collects.
Healthy(v) == vm[v].storage

-----------------------------------------------------------------------------
(* The journal *)

\* A mutant: the write is not conditional.
AlwaysCurrent(v) == TRUE

\* The compare-and-set of save.
Current(v) == known[v]

\* Where a failure leads: to the handlers, or out of the run.
Failed(v) ==
  CASE mode[v] = "update" -> "failing"
    [] mode[v] = "recover" -> "idle"
    [] mode[v] = "restart" -> IF at[v] = "block" THEN "idle" ELSE "block"
    [] mode[v] = "rollback" -> IF at[v] = "giveUp" THEN "restart" ELSE "giveUp"

\* save: written and known, or written with the answer lost for good.
Save(v, new, place) ==
  /\ Current(v)
  /\ journal' = new
  /\ \/ /\ mem' = [mem EXCEPT ![v] = new]
        /\ known' = [w \in Machines |-> w = v]
        /\ Goes(v, place)
        /\ UNCHANGED faults
     \/ /\ faults < MaxFaults /\ faults' = faults + 1
        /\ known' = [w \in Machines |-> FALSE]
        /\ Goes(v, Failed(v))
        /\ UNCHANGED mem
  /\ UNCHANGED <<mode, vm>>

-----------------------------------------------------------------------------
(* run *)

\* A mutant: an interrupted validation is left to nobody.
RestorableBeforeValidation(j) ==
  j.backup # 0 /\ j.phase \notin Early \cup {"blocked", "idle", "validating"}

\* The phases from which the surviving peer finishes the recorded rollback.
Restorable(j) == j.backup # 0 /\ j.phase \notin Early \cup {"blocked", "idle"}

\* The timer, or systemd after a failure, starts the controller, which loads the
\* journal: a new update, or the recovery of the one that an earlier run on this
\* machine left behind.
Start(v) ==
  /\ at[v] = "idle"
  /\ mem' = [mem EXCEPT ![v] = journal] /\ known' = [known EXCEPT ![v] = TRUE]
  /\ \/ journal.phase = "idle" /\ runs < MaxRuns /\ Enters(v, "acquire", "recover")
     \/ /\ journal.target = Peer(v) /\ journal.phase \in Early
        /\ Enters(v, "startStorage", "recover")
     \/ /\ journal.target = Peer(v) /\ Restorable(journal)
        /\ Enters(v, "restore", "recover")
  /\ UNCHANGED <<journal, vm, backups, runs, overdue, faults>>

\* acquire; the exception handlers cover what follows.
Acquire(v) ==
  LET new == [IdleJournal EXCEPT !.phase = "checking", !.owner = runs + 1, !.target = Peer(v)]
  IN  /\ at[v] = "acquire" /\ runs < MaxRuns
      /\ Current(v)
      /\ journal' = new /\ runs' = runs + 1
      /\ mode' = [mode EXCEPT ![v] = "update"]
      /\ \/ /\ mem' = [mem EXCEPT ![v] = new]
            /\ known' = [w \in Machines |-> w = v]
            /\ Goes(v, "check") /\ UNCHANGED faults
         \/ /\ faults < MaxFaults /\ faults' = faults + 1
            /\ known' = [w \in Machines |-> FALSE]
            /\ Goes(v, "idle") /\ UNCHANGED mem
      /\ UNCHANGED <<vm, backups, overdue>>

\* prune_backups: the newest verified backup of each machine is kept.
Pruned ==
  LET verified(w) == {b \in DOMAIN backups : backups[b].target = w /\ backups[b].verified}
      old == {b \in DOMAIN backups : \E c \in verified(backups[b].target) :
                                       backups[b].verified /\ c > b}
  IN  [b \in DOMAIN backups \ old |-> backups[b]]

\* A mutant: PDC is looked at when it has been stopped.
PdcForgotten(w) == FALSE

PdcRunning(w) == vm[w].pdc

Check(v) ==
  /\ at[v] = "check" /\ \A w \in Machines : Healthy(w)
  /\ backups' = Pruned
  /\ Save(v, [mem[v] EXCEPT !.pdc = PdcRunning(Peer(v))], "noteBackup")
  /\ UNCHANGED <<runs, overdue>>

-----------------------------------------------------------------------------
(* backup *)

\* ensure_backup_budget: a slot is left.
SlotLeft == Cardinality(DOMAIN backups) < Slots

NoteBackup(v) ==
  /\ at[v] = "noteBackup" /\ SlotLeft
  /\ Save(v, [mem[v] EXCEPT !.phase = "backup", !.gap = TRUE], "prepare")
  /\ overdue' = FALSE
  /\ UNCHANGED <<backups, runs>>

\* prepare: everything on the peer is stopped, and stays stopped at a boot.
Prepare(v) ==
  /\ at[v] = "prepare"
  /\ vm' = [vm EXCEPT ![Peer(v)] = [@ EXCEPT !.storage = FALSE, !.pdc = FALSE, !.stale = TRUE]]
  /\ Goes(v, "create")
  /\ UNCHANGED <<journal, mem, known, mode, backups, runs, overdue, faults>>

\* The retry token is the owner: asked again, it is the same backup.
CreateBackup(v) ==
  LET owner == mem[v].owner
  IN  /\ at[v] = "create"
      /\ backups' = [b \in DOMAIN backups \cup {owner} |->
           IF b \in DOMAIN backups THEN backups[b]
           ELSE [target |-> Peer(v), available |-> FALSE, verified |-> FALSE,
                 consistent |-> ~vm[Peer(v)].storage]]
      /\ Goes(v, "noteId")
      /\ UNCHANGED <<journal, mem, known, mode, vm, runs, overdue, faults>>

NoteBackupId(v) ==
  /\ at[v] = "noteId"
  /\ Save(v, [mem[v] EXCEPT !.backup = mem[v].owner], "wait")
  /\ UNCHANGED <<backups, runs, overdue>>

\* A mutant: the backup is not waited for.
RequestedBackup(b) == TRUE

Ready(b) == backups[b].available

AwaitBackup(v) ==
  /\ at[v] = "wait" /\ Ready(mem[v].backup) /\ Healthy(v)
  /\ Goes(v, "noteUpgrade")
  /\ UNCHANGED <<journal, mem, known, mode, vm, backups, runs, overdue, faults>>

BackupAvailable(b) ==
  /\ ~backups[b].available
  /\ backups' = [backups EXCEPT ![b].available = TRUE]
  /\ UNCHANGED <<journal, controllers, vm, runs, overdue, faults>>

-----------------------------------------------------------------------------
(* upgrade and validation *)

NoteUpgrade(v) ==
  /\ at[v] = "noteUpgrade"
  /\ Save(v, [mem[v] EXCEPT !.phase = "upgrading"], "upgrade")
  /\ UNCHANGED <<backups, runs, overdue>>

Upgrade(v) ==
  /\ at[v] = "upgrade"
  /\ vm' = [vm EXCEPT ![Peer(v)].upgrade = "scheduled"]
  /\ Goes(v, "reboot")
  /\ UNCHANGED <<journal, mem, known, mode, backups, runs, overdue, faults>>

\* The unit on the upgraded machine ends: it succeeds and reboots the machine,
\* which ends the controller there, or it fails.
UpgradeEnds(w, outcome) ==
  /\ vm[w].upgrade = "scheduled"
  /\ vm' = [vm EXCEPT ![w].upgrade = outcome,
                      ![w].storage = IF outcome = "succeeded" THEN FALSE ELSE @]
  /\ at' = IF outcome = "succeeded" THEN [at EXCEPT ![w] = "idle"] ELSE at
  /\ UNCHANGED <<journal, mem, known, mode, backups, runs, overdue, faults>>

AwaitReboot(v) ==
  /\ at[v] = "reboot" /\ vm[Peer(v)].upgrade = "succeeded" /\ Healthy(v)
  /\ Goes(v, "noteValidating")
  /\ UNCHANGED <<journal, mem, known, mode, vm, backups, runs, overdue, faults>>

NoteValidating(v) ==
  /\ at[v] = "noteValidating"
  /\ Save(v, [mem[v] EXCEPT !.phase = "validating"], "startStorage")
  /\ UNCHANGED <<backups, runs, overdue>>

\* start-storage, by validate and by every path that goes back.
StartStorage(v) ==
  /\ at[v] = "startStorage" /\ (mode[v] = "restart" \/ Healthy(v))
  /\ vm' = [vm EXCEPT ![Peer(v)].storage = TRUE]
  /\ Goes(v, "catchUp")
  /\ UNCHANGED <<journal, mem, known, mode, backups, runs, overdue, faults>>

\* A mutant: what was missed while the backup was restored is not fetched.
GapBeforeUpgrade(j) == j.gap /\ j.phase # "rollback-validation"

\* Whether there is anything to catch up with: the storage was stopped.
HasGap(j) == j.gap

\* catch_up, from the time at which the storage was stopped.
CatchUp(v) ==
  /\ at[v] = "catchUp" /\ (HasGap(mem[v]) => Healthy(v) /\ ~overdue)
  /\ vm' = IF HasGap(mem[v]) THEN [vm EXCEPT ![Peer(v)].stale = FALSE] ELSE vm
  /\ Goes(v, "activate")
  /\ UNCHANGED <<journal, mem, known, mode, backups, runs, overdue, faults>>

\* catch_up refuses an interval of more than four hours.
TooLate(v) ==
  /\ at[v] = "catchUp" /\ HasGap(mem[v]) /\ overdue
  /\ Goes(v, Failed(v))
  /\ UNCHANGED <<journal, mem, known, mode, vm, backups, runs, overdue, faults>>

\* activate: PDC runs again if it ran before.
Activate(v) ==
  /\ at[v] = "activate"
  /\ vm' = IF mem[v].pdc THEN [vm EXCEPT ![Peer(v)].pdc = TRUE] ELSE vm
  /\ Goes(v, IF mem[v].phase \in Early THEN "block" ELSE "verify")
  /\ UNCHANGED <<journal, mem, known, mode, backups, runs, overdue, faults>>

\* The backup has proved itself.
Verify(v) ==
  /\ at[v] = "verify"
  /\ backups' = [backups EXCEPT ![mem[v].backup].verified = TRUE]
  /\ Goes(v, IF mem[v].phase = "validating" THEN "finish" ELSE "block")
  /\ UNCHANGED <<journal, mem, known, mode, vm, runs, overdue, faults>>

Finish(v) ==
  /\ at[v] = "finish"
  /\ Save(v, [mem[v] EXCEPT !.phase = "idle", !.owner = 0, !.target = None], "idle")
  /\ UNCHANGED <<backups, runs, overdue>>

-----------------------------------------------------------------------------
(* Failures and rollback *)

\* The handler notes the failure, if it can, and goes back by the journal in
\* memory: before the upgrade it restarts, after it it restores.
Handle(v) ==
  /\ at[v] = "failing"
  /\ \/ Current(v) /\ known' = [w \in Machines |-> w = v]
     \/ Current(v) /\ known' = [w \in Machines |-> FALSE]
     \/ UNCHANGED known
  /\ IF Restorable(mem[v]) THEN Enters(v, "restore", "rollback")
     ELSE Enters(v, "startStorage", "restart")
  /\ UNCHANGED <<journal, mem, vm, backups, runs, overdue, faults>>

Restore(v) ==
  /\ at[v] = "restore" /\ Healthy(v)
  /\ Save(v, [mem[v] EXCEPT !.phase = "restoring"],
          IF mem[v].recovery THEN "replace" ELSE "noteVolume")
  /\ UNCHANGED <<backups, runs, overdue>>

\* The recovery volume; its retry token makes the creation repeatable.
NoteVolume(v) ==
  /\ at[v] = "noteVolume" /\ backups[mem[v].backup].available
  /\ Save(v, [mem[v] EXCEPT !.recovery = TRUE], "replace")
  /\ UNCHANGED <<backups, runs, overdue>>

\* The peer boots from the recovery volume: everything is as in the backup,
\* stopped and without the interval since; its controller is gone.
Replace(v) ==
  /\ at[v] = "replace"
  /\ vm' = IF vm[Peer(v)].restored THEN vm
           ELSE [vm EXCEPT ![Peer(v)] =
                   [storage |-> FALSE, pdc |-> FALSE, stale |-> TRUE, upgrade |-> "none",
                    restored |-> TRUE]]
  /\ at' = [at EXCEPT ![v] = "noteRestored", ![Peer(v)] = "idle"]
  /\ UNCHANGED <<journal, mem, known, mode, backups, runs, overdue, faults>>

\* The journal is read again before its last phase.
NoteRestored(v) ==
  /\ at[v] = "noteRestored"
  /\ Save(v, [mem[v] EXCEPT !.phase = "rollback-validation"], "startStorage")
  /\ UNCHANGED <<backups, runs, overdue>>

Block(v) ==
  /\ at[v] \in {"block", "giveUp"}
  /\ Save(v, [mem[v] EXCEPT !.phase = "blocked"],
          IF at[v] = "block" THEN "idle" ELSE "restart")
  /\ UNCHANGED <<backups, runs, overdue>>

\* The recovery failed: the owner restarts the storage of the original boot.
RestartOriginal(v) ==
  /\ at[v] = "restart"
  /\ vm' = IF Current(v) /\ ~vm[Peer(v)].restored
           THEN [vm EXCEPT ![Peer(v)].storage = TRUE] ELSE vm
  /\ Goes(v, "idle")
  /\ UNCHANGED <<journal, mem, known, mode, backups, runs, overdue, faults>>

\* A check, a call or a write fails.
Fail(v) ==
  /\ at[v] \notin {"idle", "failing", "restart"}
  /\ faults < MaxFaults /\ faults' = faults + 1
  /\ Goes(v, IF at[v] = "acquire" THEN "idle" ELSE Failed(v))
  /\ UNCHANGED <<journal, mem, known, mode, vm, backups, runs, overdue>>

\* The machine of a controller, or its process, dies.
Die(v) ==
  /\ at[v] # "idle"
  /\ faults < MaxFaults /\ faults' = faults + 1
  /\ Goes(v, "idle")
  /\ UNCHANGED <<journal, mem, known, mode, vm, backups, runs, overdue>>

\* More than four hours have passed since the storage was stopped: while a run
\* waits, or because the next one comes with the timer of the next day.  Only
\* catch_up asks, so that it is enough to let them pass where it does and
\* between two runs.
HoursPass ==
  /\ journal.gap /\ journal.phase \notin {"idle", "blocked"}
  /\ \A v \in Machines : journal.target = Peer(v) => at[v] \in {"idle", "catchUp"}
  /\ ~overdue /\ overdue' = TRUE
  /\ UNCHANGED <<journal, controllers, vm, backups, runs, faults>>

\* The operator has reviewed a blocked update, made both machines whole and
\* removes the journal.
Review ==
  /\ journal.phase = "blocked"
  /\ journal' = IdleJournal /\ known' = [v \in Machines |-> FALSE]
  /\ vm' = [v \in Machines |-> Whole]
  /\ UNCHANGED <<mem, at, mode, backups, runs, overdue, faults>>

-----------------------------------------------------------------------------

Init ==
  /\ journal = IdleJournal
  /\ mem = [v \in Machines |-> IdleJournal]
  /\ known = [v \in Machines |-> FALSE]
  /\ at = [v \in Machines |-> "idle"] /\ mode = [v \in Machines |-> "recover"]
  /\ vm = [v \in Machines |-> Whole]
  /\ backups = <<>> /\ runs = 0 /\ overdue = FALSE /\ faults = 0

Works(v) ==
  \/ Acquire(v) \/ Check(v) \/ NoteBackup(v) \/ Prepare(v) \/ CreateBackup(v)
  \/ NoteBackupId(v) \/ AwaitBackup(v) \/ NoteUpgrade(v) \/ Upgrade(v) \/ AwaitReboot(v)
  \/ NoteValidating(v) \/ StartStorage(v) \/ CatchUp(v) \/ TooLate(v)
  \/ Activate(v) \/ Verify(v)
  \/ Finish(v) \/ Handle(v) \/ Restore(v) \/ NoteVolume(v) \/ Replace(v)
  \/ NoteRestored(v) \/ Block(v) \/ RestartOriginal(v)

Next ==
  \/ Review \/ HoursPass
  \/ \E v \in Machines : Start(v) \/ Works(v) \/ Fail(v) \/ Die(v)
  \/ \E w \in Machines, outcome \in {"succeeded", "failed"} : UpgradeEnds(w, outcome)
  \/ \E b \in DOMAIN backups : BackupAvailable(b)

\* A step whose guard is false for good, a lost journal or a failed upgrade,
\* runs into its deadline.
Deadline(v) ==
  /\ ~ENABLED Works(v) /\ at[v] # "idle"
  /\ Goes(v, IF at[v] = "acquire" THEN "idle" ELSE Failed(v))
  /\ UNCHANGED <<journal, mem, known, mode, vm, backups, runs, overdue, faults>>

Spec == Init /\ [][Next \/ \E v \in Machines : Deadline(v)]_vars

\* The timers fire every day, a running controller goes on, and backups and
\* upgrades end.
Fairness ==
  /\ \A v \in Machines : WF_vars(Start(v)) /\ WF_vars(Works(v)) /\ WF_vars(Deadline(v))
  /\ \A w \in Machines : WF_vars(\E o \in {"succeeded", "failed"} : UpgradeEnds(w, o))
  /\ WF_vars(\E b \in DOMAIN backups : BackupAvailable(b))

FairSpec == Spec /\ Fairness

-----------------------------------------------------------------------------
(* Properties *)

\* Maintenance never takes down both storages: while one machine is worked on,
\* whatever failed or died, the other one serves.
OneServes == \E v \in Machines : vm[v].storage

\* PDC is never attached to a storage that is stopped or misses the interval
\* of the update, on no path back to service.
NoStalePdc == \A v \in Machines : vm[v].pdc => vm[v].storage /\ ~vm[v].stale

\* Packages are touched only with a consistent, available backup at hand, and
\* until that machine is whole again the journal names this backup and no
\* pruning removes it.
RecoveryPoint ==
  \A v \in Machines : vm[v].upgrade \in {"scheduled", "failed"} =>
    /\ journal.target = v /\ journal.backup \in DOMAIN backups
    /\ backups[journal.backup].available /\ backups[journal.backup].consistent
    /\ backups[journal.backup].target = v

\* A free journal means that both machines serve, are caught up and have their
\* PDC back.
FreeMeansWhole ==
  journal.phase = "idle" =>
    \A v \in Machines : vm[v].storage /\ vm[v].pdc /\ ~vm[v].stale

\* A blocked maintenance stays blocked until the operator has reviewed it: no
\* run that has fallen behind writes over it.
BlockedStays == [][journal.phase = "blocked" => journal'.phase = "blocked" \/ Review]_vars

\* What catch_up leaves to the operator (controller.py:216): more than four hours
\* after the storage was stopped, an update that was interrupted before the
\* upgrade or restored, of which no run is left that could block it.
LeftToOperator ==
  /\ overdue /\ journal.phase \in {"backup", "rollback-validation"}
  /\ \A v \in Machines : at[v] = "idle" \/ mode[v] = "recover"

\* No failure leaves the journal in a phase that nobody handles: an update that
\* was begun is completed or ends up blocked for the operator, unless its
\* recovery comes too late to catch up with what the storage has missed.
Concludes ==
  journal.phase # "idle" ~> journal.phase \in {"idle", "blocked"} \/ LeftToOperator
=============================================================================
