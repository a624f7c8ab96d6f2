--------------------------- MODULE BackupReplayProofs ---------------------------
(***************************************************************************)
(* Postponed backups are neither forgotten nor submitted twice nor left    *)
(* waiting, for every set of jobs and any number of tasks and reboots.     *)
(***************************************************************************)
EXTENDS BackupReplay, TLAPS

Task == [job : Jobs, status : {"active", "ok", "failed", "stopped"}]
Item == [state : {"pending", "submitting", "running", "done", "failed"}, since : Nat,
         replay : Nat, stopRequested : BOOLEAN]

QueueType ==
  /\ queue = [items |-> queue.items, execution |-> queue.execution,
              bootId |-> queue.bootId, resumeAllowed |-> queue.resumeAllowed]
  /\ queue.items \in [Items -> Item]
  /\ queue.execution \in Nat /\ queue.bootId \in Nat /\ queue.resumeAllowed \in BOOLEAN

TaskType ==
  /\ tasks \in Seq(Task) /\ submitted \in Seq(Nat) /\ Len(submitted) = Len(tasks)
  /\ Items \subseteq 1..Len(tasks)

CountType == state \in Nat /\ executions \in Nat /\ boot \in Nat

\* A queue belongs to an execution, and to a boot that has begun.
QueueOwned ==
  /\ queue.bootId <= boot
  /\ queue = NoQueue \/ queue.execution # 0
  /\ at \in {"prepare", "capture", "stop", "reboot", "blocked"} => state # 0

\* Once an execution is called off its queue does not wait any more.
BlockedReleases == at = "blocked" => (queue # NoQueue => ReplayAllowed)

WaitInv == QueueOwned /\ BlockedReleases /\ NotLeftWaiting

\* What was handed over does not run and is not pending again; what is about to
\* be handed over was not handed over before.
SubmitInv ==
  /\ SubmittedOnce
  /\ \A t \in 1..Len(tasks) : submitted[t] # 0 =>
       /\ ~Running(t)
       /\ t \in Items => queue.items[t].state # "pending"
  /\ at = "submit" =>
       /\ current \in Items /\ queue.items[current].state # "pending"
       /\ submitted[current] = 0 /\ ~Running(current)

MemoryInv ==
  /\ NothingForgotten
  /\ \A t \in Items : Finished(queue.items[t]) => t \in settled

ReplayInv == QueueType /\ TaskType /\ CountType /\ WaitInv /\ SubmitInv /\ MemoryInv

-----------------------------------------------------------------------------

LEMMA NoItems == NoQueue.items = <<>> /\ DOMAIN NoQueue.items = {}
BY DEF NoQueue

\* A saved item changes nothing else of the queue.
LEMMA SavedItem ==
  ASSUME QueueType, NEW t \in Items, NEW item \in Item, SaveItem(t, item)
  PROVE  /\ QueueType' /\ Items' = Items
         /\ queue'.items[t] = item
         /\ \A u \in Items : u # t => queue'.items[u] = queue.items[u]
         /\ queue'.execution = queue.execution /\ queue'.bootId = queue.bootId
         /\ queue'.resumeAllowed = queue.resumeAllowed
         /\ queue # NoQueue /\ queue' # NoQueue
<1> DEFINE q == [items |-> [queue.items EXCEPT ![t] = item], execution |-> queue.execution,
                 bootId |-> queue.bootId, resumeAllowed |-> queue.resumeAllowed]
<1>1. queue' = q
  BY DEF SaveItem, QueueType
<1>2. q.items \in [Items -> Item]
  BY DEF QueueType
<1>3. Items' = Items
  BY <1>1, <1>2 DEF Items
<1>4. QueueType'
  BY <1>1, <1>2, <1>3 DEF QueueType
<1>5. queue # NoQueue /\ queue' # NoQueue
  BY <1>3, NoItems DEF Items
<1> QED
  BY <1>1, <1>3, <1>4, <1>5 DEF QueueType

\* A step that edits an item and nothing else that counts.
LEMMA ItemStep ==
  ASSUME ReplayInv, NEW t \in Items, NEW item \in Item, SaveItem(t, item),
         item.state # "pending" \/ item.state = queue.items[t].state,
         settled \subseteq settled', Finished(item) => t \in settled',
         UNCHANGED <<tasks, submitted, state, executions, boot, cancelled, successor>>,
         \/ at' = at /\ at # "submit"
         \/ /\ at' = "submit" /\ current' = t /\ item.state # "pending"
            /\ submitted[t] = 0 /\ ~Running(t)
  PROVE  ReplayInv'
<1> USE DEF ReplayInv
<1>1. /\ QueueType' /\ Items' = Items
      /\ queue'.items[t] = item
      /\ \A u \in Items : u # t => queue'.items[u] = queue.items[u]
      /\ queue'.execution = queue.execution /\ queue'.bootId = queue.bootId
      /\ queue'.resumeAllowed = queue.resumeAllowed
      /\ queue # NoQueue /\ queue' # NoQueue
  BY SavedItem
<1>2. TaskType' /\ CountType'
  BY <1>1 DEF TaskType, CountType
<1>3. WaitInv'
  BY <1>1 DEF WaitInv, QueueOwned, BlockedReleases, NotLeftWaiting, ReplayAllowed
<1>4. SubmitInv'
  <2>1. SubmittedOnce' /\ \A u : Running(u)' = Running(u)
    BY DEF SubmitInv, SubmittedOnce, Running
  <2>2. ASSUME NEW u \in 1..Len(tasks), submitted[u] # 0
        PROVE  ~Running(u) /\ (u \in Items => queue'.items[u].state # "pending")
    BY <1>1, <2>2 DEF SubmitInv
  <2> QED
    BY <1>1, <2>1, <2>2 DEF SubmitInv
<1>5. MemoryInv'
  BY <1>1 DEF MemoryInv, NothingForgotten, Finished
<1> QED
  BY <1>1, <1>2, <1>3, <1>4, <1>5

LEMMA ItemTyped ==
  ASSUME ReplayInv, NEW t \in Items
  PROVE  /\ queue.items[t] \in Item /\ t \in 1..Len(tasks) /\ t \in Nat
         /\ tasks[t] \in Task /\ submitted[t] \in Nat /\ DOMAIN tasks = 1..Len(tasks)
         /\ Len(tasks) \in Nat
BY DEF ReplayInv, QueueType, TaskType

\* The replay of an item: an end, a found task, or a noted submission.
LEMMA ReplayItemKeeps ==
  ASSUME ReplayInv, NEW t \in Items, ReplayItem(t)
  PROVE  ReplayInv'
<1> DEFINE old == queue.items[t]
<1> USE ItemTyped
<1>1. CASE ReplayEnded(t)
  <2> DEFINE new == [old EXCEPT !.state = IF tasks[old.replay].status = "ok" THEN "done" ELSE "failed"]
  <2>1. new \in Item /\ new.state # "pending"
    BY DEF Item
  <2>2. SaveItem(t, new) /\ settled' = settled \cup {t}
    BY <1>1 DEF ReplayEnded
  <2> QED
    BY <1>1, <2>1, <2>2, ItemStep DEF ReplayEnded, ReplayItem
<1>2. CASE Reconcile(t)
  <2>1. PICK new \in Reconciled(t, old) : SaveItem(t, new)
    BY <1>2 DEF Reconcile
  <2>2. new \in Item /\ new.state \in {"submitting", "running"}
    <3>1. CASE new = old
      BY <1>2, <3>1 DEF Reconcile, Submitted
    <3>2. CASE \E u \in Candidates(t, old) : new = [old EXCEPT !.state = "running", !.replay = u]
      <4>1. PICK u \in Candidates(t, old) : new = [old EXCEPT !.state = "running", !.replay = u]
        BY <3>2
      <4>2. u \in Nat
        BY DEF Candidates, Item
      <4> QED
        BY <4>1, <4>2 DEF Item
    <3> QED
      BY <2>1, <3>1, <3>2 DEF Reconciled, Unresolved
  <2>3. ~Finished(new)
    BY <2>2 DEF Finished
  <2> QED
    BY <1>2, <2>1, <2>2, <2>3, ItemStep DEF Reconcile, ReplayItem, history
<1>3. CASE FoundFinished(t)
  <2> DEFINE new == [old EXCEPT !.state = "done"]
  <2>1. new \in Item /\ new.state # "pending"
    BY DEF Item
  <2>2. SaveItem(t, new) /\ settled' = settled \cup {t}
    BY <1>3 DEF FoundFinished
  <2> QED
    BY <1>3, <2>1, <2>2, ItemStep DEF FoundFinished, ReplayItem
<1>4. CASE at = "idle" /\ NoteSubmission(t)
  <2> DEFINE new == [old EXCEPT !.state = "submitting", !.since = Len(tasks) + 1]
  <2>1. [old EXCEPT !.state = "submitting"] \in Item /\ Len(tasks) + 1 \in Nat
    BY DEF Item
  <2>2. new = [[old EXCEPT !.state = "submitting"] EXCEPT !.since = Len(tasks) + 1]
    BY DEF Item
  <2>3. new \in Item /\ new.state = "submitting"
    BY <2>1, <2>2 DEF Item
  <2>4. SaveItem(t, new) /\ ~Running(t) /\ old.state = "pending"
    BY <1>4, Zenon DEF NoteSubmission, Running
  <2>5. submitted[t] = 0
    BY <2>4 DEF ReplayInv, SubmitInv
  <2>6. /\ at' = "submit" /\ current' = t
        /\ UNCHANGED <<tasks, submitted, state, executions, boot, cancelled, settled, successor>>
    BY <1>4 DEF NoteSubmission, history
  <2> HIDE DEF new
  <2> QED
    BY <2>3, <2>4, <2>5, <2>6, ItemStep DEF Finished
<1> QED
  BY <1>1, <1>2, <1>3, <1>4 DEF ReplayItem

LEMMA SubmitKeeps ==
  ASSUME ReplayInv, NEW accepted \in BOOLEAN, Submit(accepted)
  PROVE  ReplayInv'
<1>1. /\ at = "submit" /\ at' = "idle" /\ UNCHANGED <<tasks, queue, state, executions, boot>>
      /\ UNCHANGED <<cancelled, settled, successor>>
      /\ submitted' = submitted \/ submitted' = [submitted EXCEPT ![current] = @ + 1]
  BY DEF Submit
<1>2. /\ current \in Items /\ current \in 1..Len(tasks) /\ submitted[current] = 0
      /\ queue.items[current].state # "pending" /\ ~Running(current)
  BY <1>1, ItemTyped DEF ReplayInv, SubmitInv
<1>3. /\ submitted' \in Seq(Nat) /\ Len(submitted') = Len(submitted)
      /\ \A u \in 1..Len(tasks) : submitted'[u] = submitted[u] \/ (u = current /\ submitted'[u] = 1)
  BY <1>1, <1>2 DEF ReplayInv, TaskType
<1>4. QueueType' /\ TaskType' /\ CountType' /\ WaitInv' /\ MemoryInv' /\ Items' = Items
  BY <1>1, <1>3 DEF ReplayInv, QueueType, TaskType, CountType, WaitInv, MemoryInv, QueueOwned,
     BlockedReleases, NotLeftWaiting, ReplayAllowed, NothingForgotten, Items
<1>5. SubmitInv'
  <2>1. \A u : Running(u)' = Running(u)
    BY <1>1 DEF Running
  <2>2. DOMAIN submitted = 1..Len(tasks) /\ DOMAIN submitted' = 1..Len(tasks)
    BY <1>3 DEF ReplayInv, TaskType
  <2>3. SubmittedOnce'
    BY <1>3, <2>2 DEF ReplayInv, SubmitInv, SubmittedOnce
  <2> QED
    BY <1>1, <1>2, <1>3, <1>4, <2>1, <2>3 DEF ReplayInv, SubmitInv
<1> QED
  BY <1>4, <1>5 DEF ReplayInv

\* The queue is put away with every item seen to its end.
LEMMA ReplayDoneKeeps ==
  ASSUME ReplayInv, ReplayDone
  PROVE  ReplayInv'
<1>1. /\ queue' = NoQueue /\ AllFinished(queue.items) /\ at = "idle" /\ at' = "idle"
      /\ UNCHANGED <<tasks, submitted, state, executions, boot, cancelled, settled, successor>>
  BY DEF ReplayDone, history
<1>2. Items' = {} /\ queue'.items = <<>> /\ queue'.execution = 0 /\ queue'.bootId = 0
      /\ queue'.resumeAllowed = FALSE
  BY <1>1, NoItems DEF Items, NoQueue
<1>3. QueueType'
  <2>1. queue'.items \in [{} -> Item]
    BY <1>2
  <2> QED
    BY <1>1, <1>2, <2>1 DEF QueueType, NoQueue
<1>4. TaskType' /\ CountType'
  BY <1>1, <1>2 DEF ReplayInv, TaskType, CountType
<1>5. WaitInv'
  BY <1>1, <1>2 DEF ReplayInv, CountType, WaitInv, QueueOwned, BlockedReleases, NotLeftWaiting
<1>6. SubmitInv'
  BY <1>1, <1>2 DEF ReplayInv, SubmitInv, SubmittedOnce, Running
<1>7. MemoryInv'
  BY <1>1, <1>2 DEF ReplayInv, MemoryInv, NothingForgotten, AllFinished, Items
<1> QED
  BY <1>3, <1>4, <1>5, <1>6, <1>7 DEF ReplayInv

-----------------------------------------------------------------------------

\* What depends on the queue and the tasks alone.
LEMMA SameQueue ==
  ASSUME ReplayInv, at' # "submit",
         UNCHANGED <<tasks, submitted, queue, cancelled, settled, successor>>
  PROVE  QueueType' /\ TaskType' /\ SubmitInv' /\ MemoryInv'
BY DEF ReplayInv, QueueType, TaskType, SubmitInv, MemoryInv, SubmittedOnce, Running,
       NothingForgotten, Items

LEMMA PlaceKeeps ==
  ASSUME ReplayInv, Approved \/ Inspect \/ LookAgain \/ ResultDelivered \/ AgentStops
  PROVE  ReplayInv'
<1> USE DEF ReplayInv, CountType, WaitInv, QueueOwned, BlockedReleases, NotLeftWaiting,
            ReplayAllowed
<1>1. /\ at' # "submit" /\ UNCHANGED <<tasks, submitted, queue, cancelled, settled, successor>>
  BY DEF Approved, Inspect, LookAgain, ResultDelivered, AgentStops, history
<1>2. CASE Approved
  BY <1>1, <1>2, SameQueue DEF Approved
<1>3. CASE Inspect \/ LookAgain
  BY <1>1, <1>3, SameQueue DEF Inspect, LookAgain
<1>4. CASE ResultDelivered
  BY <1>1, <1>4, SameQueue DEF ResultDelivered
<1>5. CASE AgentStops
  BY <1>1, <1>5, SameQueue DEF AgentStops
<1> QED
  BY <1>2, <1>3, <1>4, <1>5

\* backup_release changes nothing but the permission to go on.
LEMMA ReleaseKeeps ==
  ASSUME ReplayInv, CalledOff \/ Recover
  PROVE  ReplayInv'
<1>1. /\ queue' = Released(queue, state)
      /\ UNCHANGED <<tasks, submitted, executions, boot, cancelled, settled, successor>>
      /\ \/ at # "submit" /\ at' = "blocked" /\ state' = state /\ state # 0
         \/ at' = "idle" /\ state' = 0
  BY DEF CalledOff, Recover, history, ReplayInv, WaitInv, QueueOwned
<1>2. /\ queue'.items = queue.items /\ Items' = Items
      /\ queue'.execution = queue.execution /\ queue'.bootId = queue.bootId
      /\ queue'.resumeAllowed \in BOOLEAN
      /\ queue'.resumeAllowed = (queue.resumeAllowed \/ (queue.execution = state /\ queue # NoQueue))
      /\ queue' = [items |-> queue'.items, execution |-> queue'.execution,
                    bootId |-> queue'.bootId, resumeAllowed |-> queue'.resumeAllowed]
      /\ queue = NoQueue => queue' = NoQueue
  BY <1>1 DEF Released, ReplayInv, QueueType, Items
<1>3. QueueType' /\ TaskType' /\ CountType'
  BY <1>1, <1>2 DEF ReplayInv, QueueType, TaskType, CountType
<1>4. WaitInv'
  BY <1>1, <1>2 DEF ReplayInv, WaitInv, QueueOwned, BlockedReleases, NotLeftWaiting,
     ReplayAllowed, QueueType
<1>5. SubmitInv' /\ MemoryInv'
  BY <1>1, <1>2 DEF ReplayInv, SubmitInv, MemoryInv, SubmittedOnce, Running, NothingForgotten
<1> QED
  BY <1>3, <1>4, <1>5 DEF ReplayInv

-----------------------------------------------------------------------------

\* Running tasks are noted as new items; older items keep their states, or are
\* superseded by the task that replays them.
LEMMA CaptureKeeps ==
  ASSUME ReplayInv, Capture
  PROVE  ReplayInv'
<1> DEFINE fresh == Active \ Items
           replaced == {t \in Items : queue.items[t].replay \in fresh}
           kept == (Items \ replaced) \cup fresh
           items == [t \in kept |-> IF t \in Items THEN TakenOver(queue.items[t]) ELSE NewItem]
<1>1. /\ at = "capture" /\ at' \in {"reboot", "stop"}
      /\ queue' = IF kept = {} THEN queue
                  ELSE [items |-> items, execution |-> state, bootId |-> boot,
                        resumeAllowed |-> FALSE]
      /\ DOMAIN successor' = DOMAIN successor \cup replaced
      /\ UNCHANGED <<tasks, submitted, state, executions, boot, cancelled, settled>>
  BY DEF Capture
<1>2. state # 0 /\ state \in Nat /\ boot \in Nat
  BY <1>1 DEF ReplayInv, WaitInv, QueueOwned, CountType
<1>3. /\ \A t \in Items : t \in 1..Len(tasks)
      /\ \A t \in fresh : t \in 1..Len(tasks) /\ Running(t)
  BY DEF ReplayInv, TaskType, Active
<1>4. \A t \in kept : /\ items[t] \in Item
                      /\ t \in Items => items[t].state = queue.items[t].state
                      /\ t \notin Items => items[t].state = "pending" /\ t \in fresh
  <2>1. NewItem \in Item /\ NewItem.state = "pending"
    BY DEF NewItem, Item
  <2>2. ASSUME NEW t \in Items
        PROVE  /\ TakenOver(queue.items[t]) \in Item
               /\ TakenOver(queue.items[t]).state = queue.items[t].state
    BY <2>2, ItemTyped DEF TakenOver, Item
  <2> QED
    BY <2>1, <2>2
<1>5. CASE kept = {}
  <2>1. Items = {}
    BY <1>5
  <2>2. queue' = queue /\ Items' = {}
    BY <1>1, <1>5, <2>1 DEF Items
  <2> QED
    BY <1>1, <1>2, <2>1, <2>2 DEF ReplayInv, QueueType, TaskType, CountType, WaitInv, QueueOwned,
       BlockedReleases, NotLeftWaiting, ReplayAllowed, SubmitInv, SubmittedOnce, Running,
       MemoryInv, NothingForgotten
<1>6. CASE kept # {}
  <2> HIDE DEF items
  <2>1. queue' = [items |-> items, execution |-> state, bootId |-> boot, resumeAllowed |-> FALSE]
    BY <1>1, <1>6
  <2>2. DOMAIN items = kept /\ items \in [kept -> Item]
    BY <1>4 DEF items
  <2>3. Items' = kept
    BY <2>1, <2>2 DEF Items
  <2>4. QueueType'
    BY <1>2, <2>1, <2>2, <2>3 DEF QueueType
  <2>5. TaskType' /\ CountType'
    BY <1>1, <1>2, <1>3, <2>3 DEF ReplayInv, TaskType, CountType
  <2>6. WaitInv'
    BY <1>1, <1>2, <2>1 DEF WaitInv, QueueOwned, BlockedReleases, NotLeftWaiting
  <2>7. SubmitInv'
    <3>1. SubmittedOnce' /\ (\A u : Running(u)' = Running(u)) /\ at' # "submit"
      BY <1>1 DEF ReplayInv, SubmitInv, SubmittedOnce, Running
    <3>2. ASSUME NEW t \in 1..Len(tasks), submitted[t] # 0
          PROVE  ~Running(t) /\ (t \in kept => items[t].state # "pending")
      BY <1>3, <1>4, <3>2 DEF ReplayInv, SubmitInv
    <3> QED
      BY <1>1, <2>1, <2>3, <3>1, <3>2 DEF SubmitInv
  <2>8. MemoryInv'
    <3>1. cancelled' \subseteq Items' \cup settled' \cup DOMAIN successor'
      BY <1>1, <2>3 DEF ReplayInv, MemoryInv, NothingForgotten
    <3>2. ASSUME NEW t \in kept, items[t].state \in {"done", "failed"} PROVE t \in settled
      BY <1>4, <3>2 DEF ReplayInv, MemoryInv, Finished
    <3> QED
      BY <1>1, <2>1, <2>3, <3>1, <3>2 DEF MemoryInv, NothingForgotten, Finished
  <2> QED
    BY <2>4, <2>5, <2>6, <2>7, <2>8 DEF ReplayInv
<1> QED
  BY <1>5, <1>6

\* A task that leaves "active" changes nothing of the invariant.
LEMMA EndedTasks ==
  ASSUME ReplayInv, tasks' \in Seq(Task), Len(tasks') = Len(tasks),
         \A t \in 1..Len(tasks) : Running(t)' => Running(t),
         at' # "submit" \/ (at' = at /\ current' = current),
         UNCHANGED <<submitted, queue>>
  PROVE  TaskType' /\ SubmitInv'
<1>1. Items' = Items
  BY DEF Items
<1>2. TaskType'
  BY <1>1 DEF ReplayInv, TaskType
<1>3. SubmitInv'
  <2>1. SubmittedOnce'
    BY DEF ReplayInv, SubmitInv, SubmittedOnce
  <2>2. at' = "submit" => current \in 1..Len(tasks)
    BY ItemTyped DEF ReplayInv, SubmitInv
  <2> QED
    BY <1>1, <2>1, <2>2 DEF ReplayInv, SubmitInv
<1> QED
  BY <1>2, <1>3

LEMMA StopKeeps ==
  ASSUME ReplayInv, NEW t \in Items, NEW stops \in BOOLEAN, StopTask(t, stops)
  PROVE  ReplayInv'
<1> DEFINE new == [queue.items[t] EXCEPT !.stopRequested = TRUE]
<1>1. new \in Item /\ new.state = queue.items[t].state
  BY ItemTyped DEF Item
<1>2. /\ SaveItem(t, new) /\ at = "stop" /\ at' = "stop"
      /\ tasks' = tasks \/ tasks' = [tasks EXCEPT ![t].status = "stopped"]
      /\ cancelled' \subseteq cancelled \cup {t}
      /\ UNCHANGED <<submitted, state, executions, boot, settled, successor>>
  BY DEF StopTask
<1>3. /\ QueueType' /\ Items' = Items
      /\ \A u \in Items : queue'.items[u].state = queue.items[u].state
      /\ queue'.execution = queue.execution /\ queue'.bootId = queue.bootId
      /\ queue'.resumeAllowed = queue.resumeAllowed
      /\ queue # NoQueue /\ queue' # NoQueue
  BY <1>1, <1>2, SavedItem DEF ReplayInv
<1>4. /\ tasks' \in Seq(Task) /\ Len(tasks') = Len(tasks)
      /\ \A u \in 1..Len(tasks) : Running(u)' => Running(u)
  <2>1. t \in 1..Len(tasks) /\ tasks[t] \in Task /\ tasks \in Seq(Task)
    BY ItemTyped DEF ReplayInv, TaskType
  <2>2. [tasks[t] EXCEPT !.status = "stopped"] \in Task
    BY <2>1 DEF Task
  <2> QED
    BY <1>2, <2>1, <2>2 DEF Running, Task
<1>5. TaskType' /\ CountType'
  BY <1>2, <1>3, <1>4 DEF ReplayInv, TaskType, CountType
<1>6. WaitInv'
  BY <1>2, <1>3 DEF ReplayInv, WaitInv, QueueOwned, BlockedReleases, NotLeftWaiting, ReplayAllowed
<1>7. SubmitInv'
  <2>1. SubmittedOnce'
    BY <1>2 DEF ReplayInv, SubmitInv, SubmittedOnce
  <2> QED
    BY <1>2, <1>3, <1>4, <2>1 DEF ReplayInv, SubmitInv
<1>8. MemoryInv'
  BY <1>2, <1>3 DEF ReplayInv, MemoryInv, NothingForgotten, Finished
<1> QED
  BY <1>3, <1>5, <1>6, <1>7, <1>8 DEF ReplayInv

-----------------------------------------------------------------------------

\* A new task was never handed over.
LEMMA BegunTask ==
  ASSUME ReplayInv, NEW job \in Jobs, Begin(job), submitted' = Append(submitted, 0),
         UNCHANGED <<agentVars, boot, cancelled, settled, successor>>
  PROVE  ReplayInv'
<1>1. UNCHANGED <<queue, at, current, state, executions>> /\ Items' = Items
  BY DEF agentVars, Items
<1>2. /\ tasks' \in Seq(Task) /\ submitted' \in Seq(Nat)
      /\ Len(tasks') = Len(tasks) + 1 /\ Len(submitted') = Len(tasks) + 1
      /\ \A t \in 1..Len(tasks) : tasks'[t] = tasks[t] /\ submitted'[t] = submitted[t]
      /\ submitted'[Len(tasks) + 1] = 0
  <2>1. [job |-> job, status |-> "active"] \in Task
    BY DEF Task
  <2> QED
    BY <2>1 DEF Begin, ReplayInv, TaskType
<1>3. Len(tasks) \in Nat /\ DOMAIN submitted' = 1..(Len(tasks) + 1) /\ DOMAIN submitted = 1..Len(tasks)
  BY <1>2 DEF ReplayInv, TaskType
<1>4. QueueType' /\ TaskType' /\ CountType' /\ WaitInv' /\ MemoryInv'
  <2>1. Items \subseteq 1..(Len(tasks) + 1)
    BY <1>3 DEF ReplayInv, TaskType
  <2> QED
    BY <1>1, <1>2, <2>1 DEF ReplayInv, QueueType, TaskType, CountType, WaitInv, QueueOwned,
       BlockedReleases, NotLeftWaiting, ReplayAllowed, MemoryInv, NothingForgotten
<1>5. SubmitInv'
  <2>1. SubmittedOnce'
    BY <1>2, <1>3 DEF ReplayInv, SubmitInv, SubmittedOnce
  <2>2. \A t \in 1..Len(tasks) : Running(t)' = Running(t)
    BY <1>2 DEF Running
  <2>3. at = "submit" => current \in 1..Len(tasks)
    BY ItemTyped DEF ReplayInv, SubmitInv
  <2>4. ASSUME NEW t \in 1..Len(tasks'), submitted'[t] # 0
        PROVE  /\ ~Running(t)'
               /\ t \in Items' => queue'.items[t].state # "pending"
    <3>1. t \in 1..Len(tasks)
      BY <1>2, <1>3, <2>4
    <3>2. submitted[t] # 0
      BY <1>2, <2>4, <3>1
    <3>3. ~Running(t) /\ (t \in Items => queue.items[t].state # "pending")
      BY <3>1, <3>2 DEF ReplayInv, SubmitInv
    <3> QED
      BY <1>1, <2>2, <3>1, <3>3
  <2>5. at' = "submit" =>
          /\ current' \in Items' /\ queue'.items[current'].state # "pending"
          /\ submitted'[current'] = 0 /\ ~Running(current)'
    <3>1. at = "submit" =>
            /\ current \in Items /\ queue.items[current].state # "pending"
            /\ submitted[current] = 0 /\ ~Running(current)
      BY DEF ReplayInv, SubmitInv
    <3>2. at = "submit" => ~Running(current)'
      BY <1>1, <2>2, <2>3, <3>1 DEF Running
    <3> QED
      BY <1>1, <1>2, <2>3, <3>1, <3>2
  <2> QED
    BY <2>1, <2>4, <2>5 DEF SubmitInv
<1> QED
  BY <1>4, <1>5 DEF ReplayInv

LEMMA NodesKeep ==
  ASSUME ReplayInv,
         \/ \E t \in Active, status \in {"ok", "failed"} : TaskEnds(t, status)
         \/ \E t \in units : UnitFails(t)
         \/ Reboot \/ UNCHANGED vars
  PROVE  ReplayInv'
<1> USE DEF ReplayInv, CountType
<1>1. ASSUME NEW t \in Active, NEW status \in {"ok", "failed"}, TaskEnds(t, status)
      PROVE  ReplayInv'
  <2>1. /\ tasks' = [tasks EXCEPT ![t].status = status] /\ UNCHANGED <<agentVars, boot, history>>
        /\ t \in 1..Len(tasks) /\ tasks[t] \in Task /\ tasks \in Seq(Task)
    BY <1>1 DEF TaskEnds, Active, TaskType
  <2>2. [tasks[t] EXCEPT !.status = status] \in Task
    BY <2>1 DEF Task
  <2>3. /\ tasks' \in Seq(Task) /\ Len(tasks') = Len(tasks)
        /\ \A u \in 1..Len(tasks) : Running(u)' => Running(u)
    BY <2>1, <2>2 DEF Running, Task
  <2>4. TaskType' /\ SubmitInv'
    BY <2>1, <2>3, EndedTasks DEF agentVars, history
  <2> QED
    BY <2>1, <2>4 DEF agentVars, history, QueueType, WaitInv, QueueOwned, BlockedReleases,
       NotLeftWaiting, ReplayAllowed, MemoryInv, NothingForgotten, Items
<1>2. CASE UNCHANGED vars \/ \E t \in units : UnitFails(t)
  BY <1>2 DEF UnitFails, vars, agentVars, history, QueueType, TaskType, WaitInv, QueueOwned,
     BlockedReleases, NotLeftWaiting, ReplayAllowed, SubmitInv, SubmittedOnce, Running,
     MemoryInv, NothingForgotten, Items
<1>3. CASE Reboot
  <2>1. /\ boot' = boot + 1 /\ at' = "idle" /\ state' = 0 /\ UNCHANGED <<queue, executions, history>>
        /\ tasks' = [t \in DOMAIN tasks |->
             IF Running(t) /\ Node(t) = Own THEN [tasks[t] EXCEPT !.status = "stopped"] ELSE tasks[t]]
    BY <1>3 DEF Reboot
  <2>2. \A t \in 1..Len(tasks) : tasks[t] \in Task /\ [tasks[t] EXCEPT !.status = "stopped"] \in Task
    <3> SUFFICES ASSUME NEW t \in 1..Len(tasks)
                 PROVE  tasks[t] \in Task /\ [tasks[t] EXCEPT !.status = "stopped"] \in Task
      OBVIOUS
    <3>1. tasks[t] \in Task
      BY DEF TaskType
    <3> QED
      BY <3>1 DEF Task
  <2>3. /\ tasks' \in Seq(Task) /\ Len(tasks') = Len(tasks)
        /\ \A u \in 1..Len(tasks) : Running(u)' => Running(u)
    BY <2>1, <2>2 DEF Running, Task, TaskType
  <2>4. TaskType' /\ SubmitInv'
    BY <2>1, <2>3, EndedTasks DEF history
  <2> QED
    BY <2>1, <2>4 DEF history, QueueType, WaitInv, QueueOwned, BlockedReleases,
       NotLeftWaiting, ReplayAllowed, MemoryInv, NothingForgotten, Items
<1> QED
  BY <1>1, <1>2, <1>3

\* A unit that was submitted names a task.
UnitType == units \subseteq 1..Len(tasks)

LEMMA UnitsKeep ==
  ASSUME ReplayInv, UnitType, [Next]_vars
  PROVE  UnitType'
<1>1. ASSUME NEW accepted \in BOOLEAN, Submit(accepted) PROVE UnitType'
  <2>1. current \in 1..Len(tasks)
    BY <1>1, ItemTyped DEF Submit, ReplayInv, SubmitInv
  <2> QED
    BY <1>1, <2>1 DEF Submit, UnitType
<1>2. ASSUME NEW job, Begin(job), units' \subseteq units PROVE UnitType'
  <2>1. tasks \in Seq(Task) /\ Len(tasks') = Len(tasks) + 1 /\ Len(tasks) \in Nat
    BY <1>2 DEF Begin, ReplayInv, TaskType
  <2> QED
    BY <1>2, <2>1 DEF UnitType
<1>3. ASSUME Len(tasks') = Len(tasks), units' \subseteq units PROVE UnitType'
  BY <1>3 DEF UnitType
<1>4. ASSUME NEW t \in Active, NEW status, TaskEnds(t, status) PROVE UnitType'
  BY <1>3, <1>4 DEF TaskEnds, ReplayInv, TaskType
<1>5. ASSUME NEW t \in Items, NEW stops \in BOOLEAN, StopTask(t, stops) PROVE UnitType'
  BY <1>3, <1>5 DEF StopTask, ReplayInv, TaskType
<1>6. CASE Reboot
  <2>1. Len(tasks') = Len(tasks)
    BY <1>6 DEF Reboot, ReplayInv, TaskType
  <2> QED
    BY <1>3, <1>6, <2>1 DEF Reboot
<1>7. CASE \/ Approved \/ Inspect \/ Capture \/ LookAgain \/ CalledOff
           \/ ResultDelivered \/ AgentStops \/ Recover \/ ReplayDone \/ UNCHANGED vars
           \/ \E t \in Items : ReplayItem(t)
           \/ \E t \in units : UnitFails(t)
  BY <1>3, <1>7 DEF Approved, Inspect, Capture, LookAgain, CalledOff, ResultDelivered,
     AgentStops, Recover, ReplayDone, vars, ReplayItem, ReplayEnded, Reconcile, FoundFinished,
     NoteSubmission, UnitFails
<1> QED
  BY <1>1, <1>2, <1>4, <1>5, <1>6, <1>7 DEF Next, Schedule, UnitStarts

LEMMA ReplayStep ==
  ASSUME ReplayInv, UnitType, [Next]_vars
  PROVE  ReplayInv'
<1>1. ASSUME NEW t \in units, UnitStarts(t) PROVE ReplayInv'
  <2>1. t \in 1..Len(tasks) /\ tasks \in Seq(Task)
    BY DEF UnitType, ReplayInv, TaskType
  <2>2. tasks[t] \in Task
    BY <2>1
  <2>3. tasks[t].job \in Jobs
    BY <2>2 DEF Task
  <2> QED
    BY <1>1, <2>3, BegunTask DEF UnitStarts
<1>2. ASSUME NEW job \in Jobs, Schedule(job) PROVE ReplayInv'
  BY <1>2, BegunTask DEF Schedule
<1> QED
  BY <1>1, <1>2, ReplayItemKeeps, SubmitKeeps, ReplayDoneKeeps, PlaceKeeps, ReleaseKeeps,
     CaptureKeeps, StopKeeps, NodesKeep DEF Next

LEMMA ReplayInit == Init => ReplayInv /\ UnitType
<1> SUFFICES ASSUME Init PROVE ReplayInv /\ UnitType
  OBVIOUS
<1>1. Items = {} /\ queue.items = <<>> /\ Len(tasks) = 0
  BY NoItems DEF Init, Items
<1>2. QueueType /\ TaskType /\ CountType /\ UnitType
  BY <1>1 DEF Init, QueueType, TaskType, CountType, UnitType, NoQueue
<1>3. WaitInv /\ SubmitInv /\ MemoryInv
  BY <1>1 DEF Init, NoQueue, WaitInv, QueueOwned, BlockedReleases, NotLeftWaiting, SubmitInv,
     SubmittedOnce, MemoryInv, NothingForgotten
<1> QED
  BY <1>2, <1>3 DEF ReplayInv

\* The invariant: the three facts about the queue hold together with the types
\* of the tasks and of backup-replay.json.
THEOREM ReplaySafe == Spec => [](ReplayInv /\ UnitType)
<1>1. ReplayInv /\ UnitType /\ [Next]_vars => (ReplayInv /\ UnitType)'
  BY ReplayStep, UnitsKeep
<1> QED
  BY ReplayInit, <1>1, PTL DEF Spec

\* A backup that the agent has stopped is in the queue, or was seen to its end,
\* or is represented by the task that replayed it (prepare_backups and
\* replay_backups of maintenance-agent.py).
THEOREM AllRemembered == Spec => []NothingForgotten
<1>1. ReplayInv => NothingForgotten
  BY DEF ReplayInv, MemoryInv
<1> QED
  BY ReplaySafe, <1>1, PTL

\* An item is handed over at most once (replay_backup_item).
THEOREM HandedOverOnce == Spec => []SubmittedOnce
<1>1. ReplayInv => SubmittedOnce
  BY DEF ReplayInv, SubmitInv
<1> QED
  BY ReplaySafe, <1>1, PTL

\* No queue waits for a reboot to which no execution leads (backup_release).
THEOREM NoneLeftWaiting == Spec => []NotLeftWaiting
<1>1. ReplayInv => NotLeftWaiting
  BY DEF ReplayInv, WaitInv
<1> QED
  BY ReplaySafe, <1>1, PTL
=============================================================================
