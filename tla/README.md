# Verification of the maintenance system in my-infra

This directory holds TLA+ models of the parts of the repository that decide
something over time: who may update or reboot which home server, when, and
after what has been checked. TLC checks small instances of the models, TLAPS
proves some of the results for every instance.

## 1. The system

| Component | Source | State it keeps | Operations | Must hold |
|---|---|---|---|---|
| MaintenanceFleet, a Cloudflare Durable Object | `workers/maintenance-control/src/index.ts` | SQLite: `hosts` (snapshot, plan, `lastRebootStartedAt` of each host), `package_update` (at most one row), `environment` (inspection, gate), `events`, `notifications`; in memory: `delivering`, `reminding` | `report`, `claim`, `claimUpdate`, `updateResult`, `result`, `recover`, `interaction`, `tick`, `observeEnvironment`, `remindUpcoming` | one operation at a time, gate, separated slots, approvals, messages |
| Calendar rules | `.../policy.ts`, part of `index.ts` | none | default slots, evening window, separation, free-slot search | the search ends with a usable slot |
| Environment gate | `.../environment-health.ts` | the gate | `healthProblems`, `observeGate` | opens when it should and only then |
| Date picker | `.../date-picker.ts` | none | menus and their answers | not modelled |
| Loockit lease | `.../loockit-lease.ts` | one lease | GET, POST, PUT with a resource version | one leader |
| Maintenance agent of each host | `ansible/host-maintenance/files/maintenance-agent.py` | two journal files, the boot session, the queue of postponed backups | a run every minute, `--update`, `--recover` | no work without an execution, no blind retry, no forgotten backup, the door stays operable |
| Development host | `ansible/dev-application-server/files/dev-app-maintenance.py` | `reboot-plan.json` | notify at 19:00, reboot at 05:00 | no reboot without its announcement |
| reventer OS update | `observability/reventer/os-update/*.py` | a journal in object storage, boot backups, the machines | one machine at a time, rollback by the peer, catch-up of missed logs | one machine serves, recovery point, blocked stays blocked |
| PBS tiered backup | `ansible/pbs/files/pbs-tiered.py` | owned recovery pins, last confirmed copy | daily, housekeeping | a recoverable group stays so |
| Shared backup migration | `scripts/migrate-shared-backups-idrive.py` | none | configure, copy, verify | success means a complete target |
| TrueNAS monitoring module | `ansible/truenas/library/truenas_monitoring.py` | secret and metadata files | provision, two versions | success means a working secret |
| Loockit cutover and independence test | `scripts/migrate-loockit-coordinator.py`, `ansible/loockit-lxc/deploy-container.sh`, `scripts/verify-loockit-independence.py` | containers set aside; routes added | redeploy both; cut and restore routes | no two coordinators; all routes restored |
| annict recording sync | `docker/annict-rec-sync/sync.py` | none (EPGStation's reservations) | a daily run | every chosen programme is reserved |
| Home service monitor | `docker/home-service-monitor/monitor.py` | a snapshot per target | poll, scrape | what is shown was true |
| Others | exporters, router, remaining scripts, Terraform, Kubernetes, Ansible | none that is decided here | see section 6 | |

How they interact. Each agent calls `report` and then `claim` once a minute
over HTTPS and later `result`; hypervisors also `claimUpdate` and
`updateResult`. A cron trigger calls `observeEnvironment` every minute with a
fresh inspection of the monitoring, and `tick` at 19:00 Japan time. The
operator presses buttons on Discord messages that the object posts and edits.
The object runs one handler at a time, but only up to its next `await`, and
every `await` is a call of Discord (ten seconds at most): between such a call
and its answer every other handler may run. A restart of the object keeps the
database and loses every suspended handler. The two Loockit controllers hold
their lease in another Durable Object of the same worker; a hypervisor's agent
reads it, through both controllers, before it reboots. The other programs share
no state with these or with each other.

What is hard, and what must hold:

* *Exclusion.* Three agents, two kinds of work, failures, timeouts and manual
  recovery share one lock that is spread over a row, the plans and the gate;
  and an agent, its upgrade, its journal and its calls die independently.
* *The gate.* After work on a hypervisor nothing else may start until the
  environment was stable for ten minutes; an unlucky gap, timeout or restart
  must neither open the gate early nor leave it shut for ever.
* *The schedule.* Slots of different hosts stay an hour apart; hypervisors
  reboot in the evening only, with an approval that survives missed evenings
  but no change by hand; four paths move plans.
* *Stale pictures.* Discord shows a plan as it was; the press of a button and
  the answer to a publication arrive when the plan has moved on. Agents,
  monitors and scripts act on lists that are outdated when they use them.
* *Death between two notes.* Journals, queues, pins, keys and routes are noted
  before or after what they announce, and every program may die in between.

`PROJECT.json` lists each hazard with its line and the properties that cover it.

## 2. Modules

| Module | What it is |
|---|---|
| `MaintenancePolicy` | the calendar rules as operators; the loop of `availableTarget` is the recursive function `Candidates`, `FirstFree` the candidate at which it stops |
| `SlotSearch` | that search by one host at one instant, against occupied instants that are added one by one |
| `EnvironmentHealth` | what an inspection says, `ObserveGate` |
| `MaintenanceFleet` | the object: one action per handler |
| `ExclusiveMaintenance` | the abstract promise: one execution at a time, fresh numbers, a stopped execution never resumes |
| `MaintenanceFleetRefinement` | the mapping from the first to the second |
| `MaintenanceAgents` | the agents of all hosts, composed with `MaintenanceFleet` |
| `LoockitHandoff` | the availability checks of one agent, request by request |
| `BackupReplay` | the backups that an agent postpones |
| `DiscordOutbox` | stored notifications and the five-minute notice of the object |
| `LoockitLease` | the lease with two controllers as its environment |
| `OsUpdate`, `LogCatchUp` | the update of the two monitoring machines; its catch-up in detail |
| `TieredBackup`, `BackupMigration`, `MonitoringAccess`, `LoockitCutover`, `LoockitIndependence`, `DevReboot`, `AnnictSync`, `HomeMonitor` | one program each |
| `MaintenanceFleetProofs`, `MaintenanceFleetScheduleProofs`, `MaintenanceFleetRefinementProofs`, `MaintenancePolicyProofs`, `MaintenanceAgentsProofs`, `BackupReplayProofs`, `OsUpdateProofs`, `ServicesProofs` | theorems |
| `MCFleetSchedule`, `MCFleetLocks`, `MCFleetGate`, `MCSlotSearch`, `MCAgents`, `MCBackupReplay`, `MCOsUpdate`, `MCServices` | instances for TLC |

### How MaintenanceFleet corresponds to the code

A handler is one action up to its first `await`. What is left of it is always
the publication of a plan: a host in `pending` has a suspended handler that
will call `publish`, a member of `inFlight` is a `publish` that waits for
Discord with the revision it has read. `PublishStart` and `PublishEnd` are the
two halves of `publish`; `PublishEnd(m, FALSE)` is an error or a timeout.
`Restart` empties both. `TickStart` and `TickHost` are the loop of `tick`, one
host at a time, with the clock that was read before the loop; the model lets
the pass go on to the next host while the publication of the previous one is
still under way, which the code does not, so it has more behaviours.

| Action | Code |
|---|---|
| `Report`, `Claim`, `ClaimUpdate`, `UpdateResult`, `Result`, `Recover` | the methods of the same names; a call that the code refuses changes nothing and is no step |
| `Observe` | `observeEnvironment` |
| `Press`, `ApplyInteraction`, `RefuseInteraction` | a button of a message that shows the plan of that moment, applied later by `applyInteraction` or refused |
| `TickStart`, `TickHost` | `tick` |
| `Restart`, `Reboot`, `Advance` | the runtime, a host, the clock |

Representation. Revisions are fresh UUIDs in the code and a counter per host
here, kept when a plan is removed so that it never repeats; execution ids are
numbers drawn in order. An absent plan has the phase `"none"`. An inspection is
an error flag (which also stands for stale or stopped collection and critical
alarms) and a set of checks in a bad state, which count only if the baseline
had them good. `approval` and `doubtAt` are history variables: no action reads
them.

Abstracted or left out, and why it does not matter to the properties: reasons,
audit and `fingerprint` (nothing else reads them); `notifications` and
`advanceNotice` are in `DiscordOutbox`; `messageId` and `lastReminder` only
decide which message shows a plan; interaction ids (a repeated press carries an
old revision and is refused for that); rounding to minutes; the upper bound of
ninety days on a picked date; the upgrade of gates stored without a cause
(`index.ts:88`). An inspection is taken at the moment it is delivered.

### MaintenanceAgents

An action is one call of the controller with what the agent does on its answer,
or one write of a journal with the command it announces. The first argument
`answered` of such actions is FALSE when the controller has done its part and
the answer is lost, after which the agent ends; a call lost before the
controller is `AgentEnds`. `at[h]` is the place in the code, `journal` and
`updateJournal` are the two files, `stopped` the Loockit container, `packages`
the state of dpkg. `work[h]` is history: the execution that upgrades or reboots
h now.

| Actions | Code |
|---|---|
| `ReportStep`, `ClaimStep`, `SaveClaim`, `Block`, `Pass`, `RebootCommand`, `NothingToReboot`, `SendResult` | `main`: report, claim, journal, checks, `systemctl reboot`, result |
| `Handoff`, `StopLoockit`, `EndHandoff`, `RestoreLoockit` | `handoff_loockit` with its `finally`, `restore_loockit` by a later run |
| `UpdateReport`, `UpdateClaimStep`, `SaveUpdateClaim`, `BlockUpdate`, `StartUpgrade`, `EndUpgrade`, `SendUpdateResult` | `update_packages` and the delivery of its result |
| `RecoverReport`, `RecoverStep` | `--recover` |
| `AgentEnds`, `OrphanEnds`, `HostReboot` | the agent is killed (the upgrade with it or not), an orphaned upgrade ends, the host restarts |

`LoockitHandoff` refines the checks between `Pass` and `EndHandoff`: each
endpoint is read by a request of its own, what it says may change before the
next. `BackupReplay` has `backup-replay.json` (`queue`), the task history of
both nodes and the units of `systemd-run`; each note and each command is a
step of its own (`NoteSubmission` and `Submit`, `Capture` and `StopTask`), so
that a kill may come between them.

### The other modules

| Module | State and actions against the code |
|---|---|
| `DiscordOutbox` | `table` is the rows of `notifications`, in the order of `Rowid`; `DeliverStart`, `DeliverSend`, `DeliverEnd` are `deliverCompletions` around its `await`, `RemindStart` and `RemindEnd` are `notifyUpcoming`. A request is decided by `Arrives` or `Vanishes`, also after it was given up. `Reschedule` is every path that moves a plan |
| `LoockitLease` | `lease` is the stored record, `asked` the requests on their way; `Grant` and `Refuse` are `operate`, `GetRecord`, `Ask`, `StepDown` the controllers |
| `OsUpdate` | `journal` is the object in the bucket, `mem[v]` and `known[v]` what the run on v holds of it; `Save` is the conditional write. One action per step of `run`, of the two exception handlers and of the recovery by the peer. `overdue` is the answer of `catch_up`'s comparison with `gap_start` (`controller.py:216`), `TooLate` its refusal |
| `LogCatchUp` | the comparison of the two machines by groups of records, the import of a group record by record, its delayed visibility, records that collectors deliver late |
| `TieredBackup` | `pins`, `synced`, `lastSync` are `state.json`; setting a flag and saving its owner are two steps (`Protect`/`Own`, `Release`/`Disown`) |
| `BackupMigration` | one state per thread (`task[k]`); jobs that are resumed write meanwhile. `kept` are the versions in the target; `Configure` installs the `rule` by which noncurrent ones expire in the bucket without Object Lock (`Expires`), and `immutable` says which of the two buckets a behaviour is about |
| `MonitoringAccess` | one step per call of the NAS and per file |
| `LoockitCutover` | the script with both remote deployments, which go on without it |
| `LoockitIndependence` | remote commands with or without effect and answer, signals, restarts |
| `DevReboot` | a run that announces and saves, a run that reboots |
| `AnnictSync` | one step per request of a daily run, the guide with its tolerances |
| `HomeMonitor` | one polling thread of any kind of target, one step per request |

`MCServices` runs the programs of this table (but `OsUpdate`) and
`LoockitHandoff`: it extends them all, which is why names that they would share
carry the name of the program (`AnnictInit`, `MonitorNext`, `testVars`). They
share no state, so a behaviour is one of them: the variable `job` picks it and
leaves the variables of the others alone.
Notifications and the notice of one host are two jobs of one module.

## 3. Runs

Ten runs pass; two show what the code does against its own words (section 5).

| Run | Instance | Question | Bounds |
|---|---|---|---|
| `schedule` | `MCFleetSchedule.cfg`: two hypervisors, day of 6 units of which the last 3 are evening | do slots stay apart, does an approval mean what the operator saw, does a revision name one schedule | 8 units (a day, an evening and the next morning), 3 revisions per host and 4 in all, one publication outstanding |
| `legacy` | `MCFleetLegacy.cfg`: a hypervisor with a plan of the former version and a host of the other kind | does realignment withdraw approvals and keep slots apart, and does a button drawn before it approve nothing | the same |
| `locks` | `MCFleetLocks.cfg`: two approved hypervisors in one evening | is `LockInv` (types, exclusion, backing of the gate, numbering) preserved, are reboots an hour apart, is `ExclusiveMaintenance` implemented | 2 executions, 2 boots, 3 units, 2 revisions, timeout after 2 units |
| `gaps` | `MCFleetGate.cfg`'s host in `MCFleetGaps.cfg`: every inspection, health and missed observation | does the gate open only when it should | stable time 2, timeout 4, 7 units |
| `gate` | `MCFleetGate.cfg`: the same under fairness | does the gate open when it should | 8 units |
| `slots` | `MCSlotSearch.cfg`: half-hours of a real day, all three hosts, `SlotSearch` | does the search end, with a usable slot | every start, up to 4 of 12 occupied instants |
| `agents` | `MCAgents.cfg`: a hypervisor and the development host with their agents | is there ever work without its execution, on two hosts, after an interruption, or taken for done too early | 2 executions, 2 boots, 2 units |
| `agents_loockit` | `MCAgentsLoockit.cfg`: the same | is a stopped Loockit always noted (violated) | the same |
| `replay` | `MCBackupReplay.cfg`: one job on each of two nodes | is a postponed backup ever forgotten, submitted twice or left waiting | 3 tasks, 2 executions, 2 boots |
| `osupdate` | `MCOsUpdate.cfg`: two machines | does one always serve, is there always a recovery point, does every update conclude or end with the operator | 3 updates, 3 failures, kills or lost answers, 2 backup slots |
| `services` | `MCServices.cfg`: thirteen jobs | the property of each program, see below | per job |
| `cutover` | `MCServicesCutover.cfg` | do the two containers ever follow two coordinators (violated) | two hosts |

The jobs of `services`: `tiered` (two groups, two instants, one snapshot kept:
`StaysRecoverable`, `OperatorRespected`); `annict` (two works, five broadcasts,
two days: `NothingMissed`); `migration` (two keys, two versions,
either bucket: `CopyComplete`); `access` (two keys, both releases: `SecretWorks`); `cutover`
(`CompleteMeansSwitched`); `dev` (two days, three boots: `RebootAnnounced`);
`monitor` (five kinds of target, four minutes: `SnapshotTruthful`); `catchUp`
(three records, two of them equal, under two sets of labels: `CaughtUp`);
`test` (two routes in two containers: `RoutesRestored`); `handoff` (three nodes
with connectors: `StillServed`); `lease` (two controllers, a duration of 2 in
3 instants, three versions, two requests on their way: `OneLeader`); `outbox`
(two notifications) and `reminder` (two times, four revisions): `ToldOnce`.

Why the bounds are enough. Two hosts are enough for every pairwise property;
two executions let one follow another; the third revision lets a plan be
changed, changed again and acknowledged late; a day and a half holds a pass,
an approval, a missed evening and the pass after it; a stable time of two units
distinguishes a gap from an uninterrupted observation, and the timeout of four
lets a gate be held and open later. In `slots`, three hosts give at most four
occupied instants (a plan and a last start of each other host). The second boot
and execution of `agents` follow a recovered first one. In `replay` the third
task is the replay of one of two scheduled backups or a third one that competes
with it. Three faults let the handlers of a failure fail, and the recovery by
the peer after them. A second snapshot per group with one kept makes every prune
remove something; the third version of the lease replaces one that replaced
another; four revisions change the time of a notice and change it back.

Constraints of the instances, each named in its module: `Punctual` (agents
report, and monitoring is seen, in every unit of time), `AnswerFirst` (Discord
answers before anything else happens: only in the lock, gate and agent
instances, whose question it does not touch), `RebootsOnly` (hosts restart while
they execute), `OncePerUnit` (one observation and one report per unit), `Bounded`
of `MCFleetSchedule` (one publication outstanding, `MaxChanges` revisions),
`AgentBounded` of `MCAgents` (in addition: agents finish their steps within a
unit except upgrades and hand-offs, hosts restart while something is under way,
and are recovered while something of theirs is). `gaps` has no `Punctual`:
missed reports and observations are its subject. `AgedView` identifies states
that differ only in how old a report or an inspection beyond every freshness
bound is, and in when an execution was handled or in history variables that the
run does not look at.

Assumptions about the environment, each at its action:

* `TieredBackup`: the operator does not touch the protection of what a run is
  settling, and releases between runs; the server has one flag for both.
* `LoockitLease`: a controller leads for no longer than the duration of the
  lease after it sent the last request that was granted. The controllers are
  not part of this repository.
* `LoockitHandoff`: `StillServed` speaks of behaviours in which nothing else
  fails between the checks and the reboot (`calm`).
* `LogCatchUp`: a failed run is repeated after what it imported has become
  visible.
* `LoockitIndependence`: `RoutesRestored` exempts the route whose addition was
  never answered; that exemption is a hazard in `PROJECT.json`.
* `DiscordOutbox`: Discord never forgets a nonce. It does after some minutes,
  and the worker's own README (lines 134 to 135) accepts a duplicate then.
* `MaintenanceAgents`: the person who recovers a host has repaired its packages
  and has not ordered a reboot.

* `BackupMigration`: versions disappear from the target by the script's own
  lifecycle rule only; other rules, which `configure` preserves, are taken to
  delete nothing, and Object Lock to be respected. The 30 days are not counted:
  a noncurrent version may expire at any time, which only makes losses more
  frequent. Somebody may suspend versioning between two runs; what is written
  over then counts as lost.

Fairness. `gate`: the clock advances, and in each unit of time the cron trigger
observes and each agent reports: both are timers of one minute
(`wrangler.jsonc`, the agent's systemd timer). A suspended publication goes on
and gets an answer or an error, since every call of Discord is aborted after
ten seconds. Nothing is assumed about the operator, about success of a
publication or about the results of the work. `GateOpens` is stated for
instants that leave the bounded clock the time it needs. `osupdate`: both daily
timers fire, a running controller goes on or runs into the deadline that its
loops have (`Deadline`), and the provider's backups and an upgrade's unit end,
with either result. Nothing is assumed about the operator's review, and failures
are finite in number (`MaxFaults`). Four hours may pass at any time or never
(`HoursPass`, without fairness): a failed controller is started again after five
minutes, three times at most (`reventer-os-update.service`), and the timer comes
back a day later (`Persistent=false`). `Concludes` has three ends: completed,
blocked, or left to the operator (`LeftToOperator`). The third one is a recovery
that comes too late: it starts the storage, `catch_up` raises in every run, and
outside the exception handlers nobody blocks the journal, which stays in `backup`
or `rollback-validation` with PDC withheld until the operator has reseeded the
storage, as `os-update/README.md:40-41` says. A run that has its handlers must
still end in a blocked journal. What the operator does to such a journal is not
modelled.

Every property of a passing run has a mutant in `PROJECT.json`: an operator,
defined just before the definition it replaces, that makes the model as wrong as
a plausible bug would make the code, and that violates the property.

## 4. Proofs

`MaintenanceFleetProofs`, for every set of hosts, every visiting order and
calendar that satisfies the assumptions of `MaintenancePolicy`, and every bound:

* `TypeCorrect`: `Spec => []TypeOK`. First lemmas about the helpers (what
  `Removed`, `Revised`, `Aligned`, `Carried`, `Proposed`, `Finished`, `Held`,
  `ObserveGate` return), then one lemma per action.
* `LockSafe`: `Spec => []LockInv`, hence `OneAtATime` and `GateKept`.
  `Exclusive` alone is not inductive: that `claim` is refused while a
  hypervisor's gate is shut says nothing unless gate and execution belong
  together. `LockInv` adds `GateBacked` (who owns the gate) and `Numbered`
  (nobody executes under the number of the absent execution, so that
  `GateAfter` touches the gate of its own execution only). `IdleGate`,
  `OwnGate` and `OwnUpdate` extract the three situations of the lock; each
  action lemma starts from one of them.
* `StabilityEarned`: `Spec => PassEarned`. The gate keeps the start of the
  stable interval and the last observation, the property speaks of what really
  happened (`doubtAt`); the invariant (`GateTimes`) relates the two: stability is
  counted from an instant after the completion and, unless an operation failed,
  after the last doubt.

`MaintenancePolicyProofs` is about the calendar, for every day length, gap and
notice allowed by the assumptions:

* `SearchAlwaysEnds` and `SlotsUsable`: `SearchSpec => []SearchEnds` and
  `SearchSpec => []SlotFits`. The loop is the recursive function `Candidates`;
  the library's induction theorems cannot be instantiated here, so induction is
  replaced by the least counterexample (`Least`, from the well-foundedness of
  the naturals), which gives that `Candidates` exists, that every candidate lies
  in the window, and that two of them are a gap apart. Then `FreeCandidate` is
  a pigeonhole argument: an occupied instant is too close to at most two
  candidates, of different parities, and there are more candidates than twice
  the instants. The
  invariant is that the other hosts occupy two instants each at most.

`MaintenanceFleetScheduleProofs` puts both together:

* `SlotsApart`, `StartsApart`, `RevisionsFresh` and `ApprovalsInformed` rest on
  one lemma, `StepChange`: a step changes one plan at most, and either leaves its
  schedule alone, or removes it, or renews it under a greater revision with its
  present slot or a free one (`FreeTarget`: what `availableTarget` returns is not
  crowded). The first three follow directly. For the fourth, `PressInformed` says
  that a press on its way names no later revision than the plan has, and that
  equal revisions mean equal slots; a revision never returns.
* `ApprovalsExact`: `Spec => []ApprovalExact`. The invariant (`ApprovalInv`) adds
  that the slot of an evening plan is in an evening, else a report would take an
  approved plan for one of the former version and ask again; that boot sessions
  are real ones (`BootsKnown`); and `PressInformed`, since a press approves the
  slot that it saw. That a carried slot is not earlier than the missed one, and
  still in the evening, comes from the calendar lemmas.

`MaintenanceFleetRefinementProofs`:

* `ExclusionImplemented`: the refinement of `ExclusiveMaintenance`. `View` reads
  the mapping off the lock: nobody, the host of the row, or the one host whose
  plan executes, with the stage of the gate, or of the plan where a host has no
  gate. It follows from `LockInv`, in both states of a step. Each action then
  starts an execution, ends it, moves it along `Advances`, or is a stutter
  (`Starts`, `Ends`, `GoesOn`, `Untouched`).

`MaintenanceAgentsProofs`, about the agents of any set of hosts together with
the controller:

* `WorkUnderLock`, `CompletionIsTrue` and `NeverRetried`, from `AgentInv`, which
  contains `LockInv` and `CompletedIsDone`. `WorkHeld` is not inductive: an agent
  acts on an answer and on a journal, and while it does, the controller may be
  called by everybody else. `PreparedHeld`, `RebootHeld` and `UpdatingHeld` say,
  place by place, that what the agent goes by is still what the controller
  holds; `BrokenHeld` that packages which are not whole keep the row until a
  person has recovered the host. The controller's half is stated once
  (`PlanKept`, `RowKept`, `GateKeptOpen`: what its steps may do behind an
  agent's back), each agent step is then a lemma of its own.

`OsUpdateProofs`, about the two monitoring machines, for any number of updates,
faults and backup slots:

* `StorageServes`, `PdcFollowsStorage`, `BackupAtHand`, `FreeJournalIsWhole` and
  `BlockedUntilReview`, all from `OsInv`. Its core, `PhaseInv`, says what a stored
  phase means for the machine that is worked on: the journal is always written
  before the step that makes it true. `Placed` relates each run to it: a run
  that the journal does not name can only end (`Away`), the one that it names is
  where the journal says (`Here`, with a part for the update, for the return to
  service and for the restoring), and has the journal in its memory except after
  a write whose answer was lost; then its handlers go back by a journal that is
  one write behind (`FailInv`, `RestartInv`). Two lemmas carry the rest: `Moved`
  for a step on the machine, `Saved` for a conditional write in both of its
  outcomes; `Falls` covers failures, deaths and deadlines together. The guard of
  `Deadline` is an `ENABLED`, of which the proof uses nothing.

`BackupReplayProofs`:

* `AllRemembered`, `HandedOverOnce` and `NoneLeftWaiting`, all from one
  invariant, `ReplayInv`. None of the three is inductive alone. `SubmitInv` adds that what was handed over neither runs
  nor is pending again, and that what is about to be handed over never was;
  `WaitInv` that a queue belongs to an execution and to a boot that has begun,
  and is released once that execution is called off; `MemoryInv` that a finished
  item was seen to its end.

`ServicesProofs`, one section per program of `MCServices`, for every value of
its constants:

* `LeaseSafe`. That one controller leads is not inductive: `LeadsByRecord` adds that a leader is the holder of the record and
  leads no longer than the record's renewal plus the duration, so that a record
  changes hands only when its leader has stopped. `NamesThePresent` (a request
  that names the present version was sent after its renewal) gives the second
  half of `OneLeader`.
* `OperatorsFlags` and `AlwaysRecoverable`. The invariant
  follows the run of the tiered backup through its places: every group has a
  chosen snapshot, whose copy was seen, and those listed as protected still are,
  when the first pin is released; and a prune begins only with every recovery pin
  in place. The action property needs only the two steps that take something
  away, `Release` and `Prune`.
* `MigrationSafe`: what a thread is done with is in
  the target as it was listed, nothing is written over while versions are
  not kept, current versions are always kept, and what has been proved is kept or
  has expired, the latter under a rule that the bucket with Object Lock never has.
* `AnnouncedReboots`: what is saved, or about to be, was announced.
* `ChosenIsReserved`: what a run believes to be reserved is, or was withdrawn; and
  what it has chosen is settled but for the work at hand.
* `SecretIsCurrent`: `AccountsInv` says which accounts the run has still to create
  and that what it saw of them is so, `KeyInv` that the second file names the key whose secret is
  in the first one, which the module cannot see, and that both are those of the NAS
  but between the creation of a key and its files.
* `CutoverIsComplete`. A deployment goes on, fails or rolls back although the
  script has not got its answer. A host that has switched and has none under way
  stays so (`SettledOn`); `CutoverInv` says from which place of the script on that
  holds for the host that served, and for both.
* `OwnRoutesRemoved`. The plan is containers times networks, an entry of it a
  quotient and a remainder (`DivMod`, `PlanEntry`), and lists no route twice
  (`PlanOnce`). What was changed and what is to be added are its two parts in
  order (`InTurn`); a route that the test remembers is there and nobody else's
  unless its container has restarted (`HeldIsOwn`); any other one is reported or
  was never answered for (`Accounted`).
* `DoorServed`. The answers come one after the other, but from the second one of
  the peer on it keeps the lease while nothing else fails (`PeerServes`), and what
  was seen to run after the reboot still does (`SeenHolds`).
* `EverythingToldOnce`. A stored message has its id for a nonce, on its way too
  (`NoncesTell`), and a queued one is stored until it is shown (`StoredOrShown`). A
  notice is sent only for a time that is too near to be scheduled again; while
  that time stands, the plan keeps the nonce (`NoticesAgree`).
* `WindowCaughtUp`. Bags are compared by the copies of each record (`Copies`).
  What is there, on its way and still missing is never more than the source and
  the collectors account for (`NothingMadeUp`): so, when a run lists the other
  machine, nothing may be on its way but what collectors sent.
* `ScrapesTruthful`. `RecorderInv` follows a recording from one list of the
  recorder to the next in the order of the requests, which is why a recording that
  is in neither answer has not begun, and the two minutes of grace are more than a
  poll can take; `ItemsInv` and `BackupsInv` relate the answers to what has been
  true since. That a latest time exists is again the well-foundedness of the
  naturals (`LatestIsOne`).

The attempt to prove `DoorServed` found that the three states of an instance were
told apart by overlapping cases in `LoockitHandoff`; the order of the tests is
now the code's.

Assumptions on constants, each named in the module that declares it and
evaluated by TLC on every instance: the visiting order names every host
(`HostsAssumption`); hours lie within a day and a hypervisor's default hour in
the evening (`CalendarAssumption`); the gap and the windows are positive, and no
host's default hour lies within the notice after midnight (`SpanAssumption`; the
code has ten minutes against 05:00, 20:00 and 21:00); the times of the gate are
naturals (`HealthAssumption`); there are exactly two monitoring machines
(`MachinesAssumption`). For the services: the pair of Loockit has two
hosts (`HostsAssumption` of `LoockitCutover`, `PairAssumption`); the duration of
the lease is a natural number (a hypothesis of `LeaseSafe`); the
containers and the networks of the independence test are lists without
repetition (`ListsAssumption`); times of reboots are not zero, which stands for
none (`TimesAssumption`); the stream labels of a record are among its fields
(`SourceAssumption`); a recording may take at least two minutes to start, which
the code says by 120 seconds (`RecordingsAssumption`). The rest types bounds.

Only model-checked: `GateOpens` and `Concludes`, which are liveness under
fairness and out of this prover's reach. That a run visits what it should (that
every action fires) is TLC's to show as well.

## 5. Findings

* `agents_loockit`, `StopNoted`: `--recover` removes the journal of an
  execution that has stopped the Loockit container and has not started it again
  (`maintenance-agent.py:678-681`); nothing remembers the container, which the
  journal's flag exists for (`:122`, `:145`).
* `cutover`, `NeverMixed`: when the deployment on the second host fails, its
  rollback (`deploy-container.sh:23-30`) starts the old container, which follows
  the old coordinator beside the new active; the script promises "never run old
  and new lease owners together" (`migrate-loockit-coordinator.py:2`).

A third disagreement is listed as a hazard and has no run: two items of one
node may be submitted in one pass (`maintenance-agent.py:418`), because the
submission is asynchronous; Proxmox VE serialises the jobs itself.

## 6. Not modelled

* The date picker (`date-picker.ts`): stateless menus; what it returns enters
  the model as the picked instant.
* Which Discord message shows a plan (`messageId`, `lastReminder`) and the order
  of edits; the audit log; the HTTP router and its authentication.
* `parseInspection` and the collection behind it: an inspection is what it says.
* Of the agent: the request file of `--update` (it only repeats the attempt), the
  probe, and the parsing of command output.
* Of the OS update: the transfer of metrics and the health queries are one step.
* Collectors of the home monitor that translate a single answer.
* The tinytuya exporter, the IX2215 configuration, the Grafana and bootstrap
  scripts, the setup of accesses: sequential I/O without a decision that
  outlives it.
* Terraform, Kubernetes, Talos, Packer and Ansible declarations: their meaning
  lies in those tools.

## 7. Plan

1. Message identity in `DiscordOutbox`: which message shows a plan, edits that
   overtake each other, the daily reminder.
2. With the message identity modelled, `ToldOnce` for the messages of plans, by
   the invariant that it has for notifications.
3. The calendar of the date picker as operators over bounded inputs.
