---------------------------- MODULE BackupReplay ----------------------------
(***************************************************************************)
(* Backups give way to an approved reboot                                  *)
(* (prepare_backups, replay_backups and replay_backup_item of              *)
(* ansible/host-maintenance/files/maintenance-agent.py): the agent notes   *)
(* the running vzdump tasks of both nodes in backup-replay.json, stops     *)
(* them, and after the reboot, or after the reboot was called off, submits *)
(* them again, once each.                                                  *)
(*                                                                         *)
(* The arguments of a task matter only by their signature: a job.  A task  *)
(* is its number in the order of the starts.  The journal execution.json   *)
(* is the execution it names; Loockit and the other checks are in          *)
(* MaintenanceAgents.                                                      *)
(***************************************************************************)
EXTENDS Naturals, Sequences, FiniteSets

CONSTANTS
  Jobs,            \* what a backup task may be asked for
  NodeOf,          \* the node on which a job runs
  Own,             \* the node of this agent
  MaxTasks, MaxExecution, MaxBoot  \* bounds for TLC

VARIABLES
  tasks,       \* the task history of both nodes: job and status of each
  units,       \* items whose job was handed to systemd but has not started
  queue,       \* backup-replay.json
  at,          \* where the agent is, "idle" when none runs
  current,     \* the item being submitted
  state,       \* the execution that execution.json names, 0 without the file
  executions, boot,
  cancelled,   \* history: tasks that the agent has stopped
  settled,     \* history: items that were seen done or failed
  successor,   \* history: superseded items, and the task noted instead
  submitted    \* history: how often the job of an item was handed over

agentVars == <<queue, at, current, state, executions>>
history == <<cancelled, settled, successor, submitted>>
vars == <<tasks, units, agentVars, boot, history>>

NoQueue == [items |-> <<>>, execution |-> 0, bootId |-> 0, resumeAllowed |-> FALSE]
NewItem == [state |-> "pending", since |-> 0, replay |-> 0, stopRequested |-> FALSE]
Running(t) == tasks[t].status = "active"
Active == {t \in DOMAIN tasks : Running(t)}
Node(t) == NodeOf[tasks[t].job]
Items == DOMAIN queue.items
Finished(item) == item.state \in {"done", "failed"}

\* Replaces one item and saves the queue.
SaveItem(t, item) == queue' = [queue EXCEPT !.items[t] = item]

-----------------------------------------------------------------------------
(* replay_backup_item *)

\* The tasks that may be the replay of a submitted item: later ones of the
\* same signature on the same node.
Candidates(t, item) ==
  {u \in item.since..Len(tasks) : u # t /\ tasks[u].job = tasks[t].job}

\* A mutant: an unresolved submission is tried again.
UnresolvedRetried(item) == {[item EXCEPT !.state = "pending"]}

\* A submission that no task answers is left for a person to look at.
Unresolved(item) == {item}

\* What the history makes of a submitted item.
Reconciled(t, item) ==
  LET found == Candidates(t, item)
  IN  IF found = {} THEN Unresolved(item)
      ELSE {[item EXCEPT !.state = "running", !.replay = u] : u \in found}

\* The replay has ended.
ReplayEnded(t) ==
  LET item == queue.items[t]
  IN  /\ item.replay # 0 /\ ~Finished(item) /\ ~Running(item.replay)
      /\ SaveItem(t, [item EXCEPT !.state =
           IF tasks[item.replay].status = "ok" THEN "done" ELSE "failed"])
      /\ settled' = settled \cup {t}
      /\ UNCHANGED <<tasks, units, at, current, state, executions, boot,
                     cancelled, successor, submitted>>

Submitted(item) == item.state = "submitting" /\ item.replay = 0

Reconcile(t) ==
  LET item == queue.items[t]
  IN  /\ Submitted(item)
      /\ \E found \in Reconciled(t, item) : SaveItem(t, found)
      /\ UNCHANGED <<tasks, units, at, current, state, executions, boot, history>>

\* The task finished between the inspection and its cancellation.
FoundFinished(t) ==
  LET item == queue.items[t]
  IN  /\ item.state = "pending" /\ tasks[t].status = "ok"
      /\ SaveItem(t, [item EXCEPT !.state = "done"])
      /\ settled' = settled \cup {t}
      /\ UNCHANGED <<tasks, units, at, current, state, executions, boot,
                     cancelled, successor, submitted>>

\* No task of the node is active: the submission is noted before it is made.
NoteSubmission(t) ==
  LET item == queue.items[t]
  IN  /\ item.state = "pending" /\ tasks[t].status \notin {"active", "ok"}
      /\ \A u \in Active : Node(u) # Node(t)
      /\ SaveItem(t, [item EXCEPT !.state = "submitting", !.since = Len(tasks) + 1])
      /\ at' = "submit" /\ current' = t
      /\ UNCHANGED <<tasks, units, state, executions, boot, history>>

\* systemd-run, which may be refused.
Submit(accepted) ==
  /\ at = "submit"
  /\ IF accepted
     THEN /\ units' = units \cup {current}
          /\ submitted' = [submitted EXCEPT ![current] = @ + 1]
     ELSE UNCHANGED <<units, submitted>>
  /\ at' = "idle" /\ current' = 0
  /\ UNCHANGED <<tasks, queue, state, executions, boot, cancelled, settled, successor>>

\* replay_backups: after a reboot, or when the reboot was called off.
ReplayAllowed == queue # NoQueue /\ (queue.bootId # boot \/ queue.resumeAllowed)

\* A mutant: a job that was handed over is taken for done.
AllHandedOver(items) == \A t \in DOMAIN items : items[t].state # "pending"

AllFinished(items) == \A t \in DOMAIN items : Finished(items[t])

ReplayItem(t) ==
  \/ /\ at = "idle" /\ ReplayAllowed
     /\ ReplayEnded(t) \/ Reconcile(t) \/ FoundFinished(t) \/ NoteSubmission(t)
  \/ at = "prepare" /\ Reconcile(t)

\* The queue is put away.
ReplayDone ==
  /\ at = "idle" /\ ReplayAllowed /\ AllFinished(queue.items)
  /\ queue' = NoQueue
  /\ UNCHANGED <<tasks, units, at, current, state, executions, boot, history>>

-----------------------------------------------------------------------------
(* prepare_backups, for an approved execution *)

\* The execution was claimed and journaled, and its checks hold.
Approved ==
  /\ at = "idle" /\ state = 0 /\ executions < MaxExecution
  /\ executions' = executions + 1 /\ state' = executions + 1
  /\ at' = "prepare"
  /\ UNCHANGED <<tasks, units, queue, current, boot, history>>

\* The submissions of an existing queue have been reconciled first.
Inspect ==
  /\ at = "prepare"
  /\ \A t \in Items : Submitted(queue.items[t]) => Candidates(t, queue.items[t]) = {}
  /\ at' = "capture"
  /\ UNCHANGED <<tasks, units, queue, current, state, executions, boot, history>>

\* The queue in memory: an older one is taken over by this execution.
TakenOver(item) == IF queue.execution = state THEN item ELSE [item EXCEPT !.stopRequested = FALSE]

\* Every new task is noted before any is stopped.
\* A task that replays an older item takes its place.  A queue without items
\* is not saved.
Capture ==
  LET fresh == Active \ Items
      replaced == {t \in Items : queue.items[t].replay \in fresh}
      kept == (Items \ replaced) \cup fresh
  IN  /\ at = "capture"
      /\ queue' = IF kept = {} THEN queue
                  ELSE [items |-> [t \in kept |-> IF t \in Items THEN TakenOver(queue.items[t])
                                                   ELSE NewItem],
                        execution |-> state, bootId |-> boot, resumeAllowed |-> FALSE]
      /\ successor' = [t \in DOMAIN successor \cup replaced |->
                         IF t \in replaced THEN queue.items[t].replay ELSE successor[t]]
      /\ at' = IF Active = {} THEN "reboot" ELSE "stop"
      /\ UNCHANGED <<tasks, units, current, state, executions, boot,
                     cancelled, settled, submitted>>

\* What is still to be stopped of the tasks that were listed.
ToStop == {t \in Active \cap Items : ~queue.items[t].stopRequested}

\* stopRequested is saved, then the task is stopped, which may fail.
StopTask(t, stops) ==
  /\ at = "stop" /\ t \in ToStop
  /\ SaveItem(t, [queue.items[t] EXCEPT !.stopRequested = TRUE])
  /\ IF stops
     THEN /\ tasks' = [tasks EXCEPT ![t].status = "stopped"]
          /\ cancelled' = cancelled \cup {t}
     ELSE UNCHANGED <<tasks, cancelled>>
  /\ UNCHANGED <<units, at, current, state, executions, boot, settled, successor, submitted>>

\* The loop looks again at what is active.
LookAgain ==
  /\ at = "stop" /\ ToStop = {}
  /\ at' = "capture"
  /\ UNCHANGED <<tasks, units, queue, current, state, executions, boot, history>>

-----------------------------------------------------------------------------
(* The end of the execution *)

\* A mutant: nothing is released.
NotReleased(q, e) == q

\* backup_release.
Released(q, e) == IF q.execution = e /\ q # NoQueue THEN [q EXCEPT !.resumeAllowed = TRUE] ELSE q

\* A task or a check stands in the way, or two minutes have passed: the backups
\* may go on, and the journal is removed after the result was delivered.
CalledOff ==
  /\ at \in {"prepare", "capture", "stop", "reboot"}
  /\ queue' = Released(queue, state)
  /\ at' = "blocked"
  /\ UNCHANGED <<tasks, units, current, state, executions, boot, history>>

ResultDelivered ==
  /\ at = "blocked"
  /\ at' = "idle" /\ state' = 0
  /\ UNCHANGED <<tasks, units, queue, current, executions, boot, history>>

\* The agent is killed; the next one waits for the journal to be dealt with, or,
\* when the outcome was saved, delivers the result of the blocked execution.
AgentStops ==
  /\ at # "idle"
  /\ at' = "idle" /\ current' = 0
  /\ state' \in {state} \cup (IF at = "blocked" THEN {0} ELSE {})
  /\ UNCHANGED <<tasks, units, queue, executions, boot, history>>

\* --recover, by a person.
Recover ==
  /\ at = "idle" /\ state # 0
  /\ queue' = Released(queue, state)
  /\ state' = 0
  /\ UNCHANGED <<tasks, units, at, current, executions, boot, history>>

\* The host restarts, on command or not: its tasks and units are gone, and the
\* next run of its agent removes the journal of the boot before.
Reboot ==
  /\ boot < MaxBoot /\ boot' = boot + 1
  /\ tasks' = [t \in DOMAIN tasks |->
       IF Running(t) /\ Node(t) = Own THEN [tasks[t] EXCEPT !.status = "stopped"] ELSE tasks[t]]
  /\ units' = {}
  /\ at' = "idle" /\ current' = 0 /\ state' = 0
  /\ UNCHANGED <<queue, executions, history>>

-----------------------------------------------------------------------------
(* The nodes *)

Begin(job) ==
  /\ Len(tasks) < MaxTasks
  /\ tasks' = Append(tasks, [job |-> job, status |-> "active"])

\* The scheduler starts a backup.
Schedule(job) ==
  /\ Begin(job)
  /\ submitted' = Append(submitted, 0)
  /\ UNCHANGED <<units, agentVars, boot, cancelled, settled, successor>>

\* A submitted unit gets its task, or fails before it has one.
UnitStarts(t) ==
  /\ t \in units /\ units' = units \ {t}
  /\ Begin(tasks[t].job)
  /\ submitted' = Append(submitted, 0)
  /\ UNCHANGED <<agentVars, boot, cancelled, settled, successor>>

UnitFails(t) ==
  /\ t \in units /\ units' = units \ {t}
  /\ UNCHANGED <<tasks, agentVars, boot, history>>

TaskEnds(t, status) ==
  /\ t \in Active
  /\ tasks' = [tasks EXCEPT ![t].status = status]
  /\ UNCHANGED <<units, agentVars, boot, history>>

-----------------------------------------------------------------------------

Init ==
  /\ tasks = <<>> /\ units = {} /\ queue = NoQueue
  /\ at = "idle" /\ current = 0 /\ state = 0 /\ executions = 0 /\ boot = 1
  /\ cancelled = {} /\ settled = {} /\ successor = <<>> /\ submitted = <<>>

Next ==
  \/ Approved \/ Inspect \/ Capture \/ LookAgain \/ CalledOff
  \/ ResultDelivered \/ AgentStops \/ Recover \/ Reboot \/ ReplayDone
  \/ \E accepted \in BOOLEAN : Submit(accepted)
  \/ \E t \in Items : ReplayItem(t)
  \/ \E t \in Items, stops \in BOOLEAN : StopTask(t, stops)
  \/ \E t \in Active, status \in {"ok", "failed"} : TaskEnds(t, status)
  \/ \E t \in units : UnitStarts(t) \/ UnitFails(t)
  \/ \E job \in Jobs : Schedule(job)

Spec == Init /\ [][Next]_vars

-----------------------------------------------------------------------------
(* Properties *)

\* A backup that the agent has stopped is never forgotten, whatever dies and
\* restarts: it is in the queue, or it was seen to its end, or the task that
\* replayed it was itself stopped and noted in its place.
NothingForgotten == cancelled \subseteq Items \cup settled \cup DOMAIN successor

\* An item is handed over at most once: a submission whose answer was lost is
\* looked up in the history of the tasks, never repeated ("never blind retry").
SubmittedOnce == \A t \in DOMAIN submitted : submitted[t] <= 1

\* A queue that waits for the reboot has an execution that still leads to one,
\* or that a person has to recover: no path leaves backups waiting unnoticed.
NotLeftWaiting ==
  queue # NoQueue /\ ~ReplayAllowed => state = queue.execution
=============================================================================
