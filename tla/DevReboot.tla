------------------------------ MODULE DevReboot ------------------------------
(***************************************************************************)
(* The announced reboot of the development host                            *)
(* (ansible/dev-application-server/files/dev-app-maintenance.py): a run at *)
(* 19:00 announces tomorrow's 05:00 on Discord and saves the plan, a run   *)
(* at 05:00 reboots by the plan.  Either may be started at any time, and   *)
(* be killed; an announcement may arrive although its answer was lost.     *)
(*                                                                         *)
(* A day has three instants: 19:00, 05:00 with its quarter of an hour, and *)
(* the rest.  A plan without target is the absent file.                    *)
(***************************************************************************)
EXTENDS Naturals

CONSTANTS MaxClock, MaxBoots   \* bounds for TLC

VARIABLES
  clock,      \* instants since the first 19:00
  bootId,
  required,   \* /run/reboot-required
  saved,      \* reboot-plan.json
  notifyAt,   \* where the announcing run is
  draft,      \* the plan that it announces
  announced,  \* history: the plans that Discord has shown
  rebooted    \* history: the last reboot by the program, and whether it was due

storedVars == <<saved, notifyAt, draft>>
devVars == <<clock, bootId, required, storedVars, announced, rebooted>>

NoPlan == [target |-> 0, boot |-> 0]

\* target_time: 05:00 of the next day of the calendar; 05:00 and the rest of
\* the day are of the calendar day after that of the 19:00 before them.
Tomorrow == 3 * ((clock + 2) \div 3) + 1

\* A mutant: a plan outlives the boot in which it was announced.
MayRebootAnyBoot == required /\ clock = saved.target

\* may_reboot: for this boot, in the window.
MayReboot == required /\ saved.boot = bootId /\ clock = saved.target

\* notify.
Notify ==
  /\ notifyAt = "idle"
  /\ IF ~required THEN saved' = NoPlan /\ UNCHANGED <<notifyAt, draft>>
     ELSE /\ saved # [target |-> Tomorrow, boot |-> bootId]
          /\ draft' = [target |-> Tomorrow, boot |-> bootId]
          /\ notifyAt' = "send"
          /\ UNCHANGED saved
  /\ UNCHANGED <<clock, bootId, required, announced, rebooted>>

\* send_discord: three attempts, any of which may arrive without an answer.
Send(arrives, answered) ==
  /\ notifyAt = "send" /\ (answered => arrives)
  /\ announced' = IF arrives THEN announced \cup {draft} ELSE announced
  /\ notifyAt' = IF answered THEN "save" ELSE "idle"
  /\ UNCHANGED <<clock, bootId, required, saved, draft, rebooted>>

\* The plan is replaced at once, after the announcement.
Save ==
  /\ notifyAt = "save"
  /\ saved' = draft /\ notifyAt' = "idle"
  /\ UNCHANGED <<clock, bootId, required, draft, announced, rebooted>>

NewBoot ==
  /\ bootId < MaxBoots /\ bootId' = bootId + 1
  /\ required' = FALSE
  /\ notifyAt' = "idle"

\* reboot.
RebootByPlan ==
  /\ MayReboot
  /\ rebooted' = [plan |-> [target |-> clock, boot |-> bootId], due |-> required]
  /\ NewBoot
  /\ UNCHANGED <<clock, saved, draft, announced>>

RebootByHand ==
  /\ NewBoot
  /\ UNCHANGED <<clock, saved, draft, announced, rebooted>>

Killed ==
  /\ notifyAt # "idle" /\ notifyAt' = "idle"
  /\ UNCHANGED <<clock, bootId, required, saved, draft, announced, rebooted>>

\* Packages want a reboot.
Update ==
  /\ ~required /\ required' = TRUE
  /\ UNCHANGED <<clock, bootId, storedVars, announced, rebooted>>

ClockTicks ==
  /\ clock < MaxClock /\ clock' = clock + 1
  /\ UNCHANGED <<bootId, required, storedVars, announced, rebooted>>

DevInit ==
  /\ clock = 0 /\ bootId = 1 /\ required = FALSE
  /\ saved = NoPlan /\ notifyAt = "idle" /\ draft = NoPlan
  /\ announced = {} /\ rebooted = [plan |-> NoPlan, due |-> TRUE]

DevNext ==
  \/ Notify \/ Save \/ RebootByPlan \/ RebootByHand \/ Killed \/ Update \/ ClockTicks
  \/ \E arrives, answered \in BOOLEAN : Send(arrives, answered)

DevSpec == DevInit /\ [][DevNext]_devVars

-----------------------------------------------------------------------------
(* Properties *)

\* "Notify before rebooting, and reboot only in the announced window": a reboot
\* by the program was announced for that time, in that very boot, and was still
\* required, whatever was killed, lost or rebooted by hand.
RebootAnnounced ==
  rebooted.plan # NoPlan => rebooted.due /\ rebooted.plan \in announced
=============================================================================
