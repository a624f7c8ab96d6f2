------------------------------ MODULE MCServices ------------------------------
(***************************************************************************)
(* The programs that share nothing with the maintenance of the fleet nor   *)
(* with each other, on small instances: a behaviour is one of them, "job", *)
(* and leaves the variables of the others alone.                           *)
(***************************************************************************)
EXTENDS TieredBackup, LoockitLease, BackupMigration, DevReboot, AnnictSync,
        MonitoringAccess, LoockitCutover, HomeMonitor, LogCatchUp,
        LoockitIndependence, LoockitHandoff, DiscordOutbox

CONSTANT Jobs   \* the programs to be checked

VARIABLE job

\* Two works: one with a short title is on two channels, and the guide is off
\* by one for the preferred of them; the other one, of which a part is enough,
\* is on one channel, twice.
work == CHOOSE w \in Works : TRUE
other == CHOOSE w \in Works : w # work
MCBroadcasts ==
  {[work |-> work, channel |-> 1, start |-> 0, rebroadcast |-> FALSE],
   [work |-> work, channel |-> 2, start |-> 0, rebroadcast |-> FALSE],
   [work |-> work, channel |-> 1, start |-> 2, rebroadcast |-> TRUE],
   [work |-> other, channel |-> 2, start |-> 1, rebroadcast |-> FALSE],
   [work |-> other, channel |-> 2, start |-> 3, rebroadcast |-> FALSE]}
MCTitleLength == [w \in Works |-> IF w = work THEN 1 ELSE 3]
NameOfWork == [w \in Works |-> IF w = work THEN 1 ELSE 0]
NameOfOther == [w \in Works |-> IF w = work THEN 0 ELSE 2]
MCGuide ==
  {[id |-> 1, channel |-> 1, start |-> 1, common |-> NameOfWork],
   [id |-> 2, channel |-> 2, start |-> 0, common |-> NameOfWork],
   [id |-> 3, channel |-> 2, start |-> 1, common |-> NameOfOther],
   [id |-> 4, channel |-> 2, start |-> 3, common |-> NameOfOther]}

\* Two equal records and one with the same fields but other stream labels.
MCSource ==
  [r \in {[stream |-> {"app"}, fields |-> {"app", "pod"}],
          [stream |-> {"app", "pod"}, fields |-> {"app", "pod"}]} |->
     IF r.stream = {"app"} THEN 2 ELSE 1]

MCTwo == <<1, 2>>
MCEndAt == <<5, 4>>

\* The stored notifications and the notice of one host do not touch each other:
\* each is a job of its own.
OutboxJob == UNCHANGED <<planVars, noticeVars>> /\ OutboxNext
ReminderJob == UNCHANGED outboxVars /\ OutboxNext

AllInit ==
  /\ job \in Jobs
  /\ Init /\ AnnictInit /\ MigrationInit /\ AccessInit /\ CutoverInit /\ DevInit
  /\ CatchUpInit /\ TestInit /\ HandoffInit /\ LeaseInit /\ OutboxInit
  /\ job = "monitor" \/ kind = "recorder"
  /\ job = "access" \/ ~legacy
  /\ job = "migration" \/ immutable
  /\ MonitorInit

\* The variables of the programs that do not run.
OthersUnchanged ==
  /\ UNCHANGED job
  /\ job # "tiered" => UNCHANGED vars
  /\ job # "annict" => UNCHANGED annictVars
  /\ job # "migration" => UNCHANGED migrationVars
  /\ job # "access" => UNCHANGED accessVars
  /\ job # "cutover" => UNCHANGED cutoverVars
  /\ job # "dev" => UNCHANGED devVars
  /\ job # "monitor" => UNCHANGED monitorVars
  /\ job # "catchUp" => UNCHANGED catchUpVars
  /\ job # "test" => UNCHANGED testVars
  /\ job # "handoff" => UNCHANGED handoffVars
  /\ job # "lease" => UNCHANGED leaseVars
  /\ job \notin {"outbox", "reminder"} => UNCHANGED messagesVars

AllNext ==
  \/ job = "tiered" /\ Next /\ OthersUnchanged
  \/ job = "annict" /\ AnnictNext /\ OthersUnchanged
  \/ job = "migration" /\ MigrationNext /\ OthersUnchanged
  \/ job = "access" /\ AccessNext /\ OthersUnchanged
  \/ job = "cutover" /\ CutoverNext /\ OthersUnchanged
  \/ job = "dev" /\ DevNext /\ OthersUnchanged
  \/ job = "monitor" /\ MonitorNext /\ OthersUnchanged
  \/ job = "catchUp" /\ CatchUpNext /\ OthersUnchanged
  \/ job = "test" /\ TestNext /\ OthersUnchanged
  \/ job = "handoff" /\ HandoffNext /\ OthersUnchanged
  \/ job = "lease" /\ LeaseNext /\ OthersUnchanged
  \/ job = "outbox" /\ OutboxJob /\ OthersUnchanged
  \/ job = "reminder" /\ ReminderJob /\ OthersUnchanged

allVars ==
  <<job, vars, annictVars, migrationVars, accessVars, cutoverVars, devVars, monitorVars,
    catchUpVars, testVars, handoffVars, leaseVars, messagesVars>>

AllSpec == AllInit /\ [][AllNext]_allVars
=============================================================================
