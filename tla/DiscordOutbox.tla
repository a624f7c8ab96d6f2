---------------------------- MODULE DiscordOutbox ----------------------------
(***************************************************************************)
(* What MaintenanceFleet tells the operator besides the plans themselves   *)
(* (queueCompletion, healthNotice, deliverCompletions and notifyUpcoming   *)
(* of workers/maintenance-control/src/index.ts): stored notifications,     *)
(* delivered one by one, and the notice five minutes before a reboot.      *)
(* Hosts share nothing here, so one of them is modelled.                   *)
(*                                                                         *)
(* A request is decided by Discord at any time, also after it was given up *)
(* or after the object has restarted.  Discord, as it is used here, shows  *)
(* messages of one nonce once; that it forgets a nonce after some minutes  *)
(* is left out.                                                            *)
(***************************************************************************)
EXTENDS Naturals

CONSTANTS
  Times,                      \* instants for which a reboot may be planned
  MaxQueued, MaxRevision      \* bounds for TLC

\* Zero stands for no time.
ASSUME TimesAssumption == Times \subseteq Nat \ {0}

VARIABLES
  reboot,     \* the plan, as far as a notice depends on it
  near,       \* the times that are less than five minutes away, or past
  table,      \* the rows of the table "notifications"
  queued,     \* ids drawn for it
  deliver,    \* the suspended deliverCompletions
  remind,     \* the suspended notifyUpcoming
  drawn,      \* nonces drawn for notices
  requests,   \* requests that Discord has not decided
  shown       \* what Discord has shown or edited

outboxVars == <<table, queued, deliver>>
planVars == <<reboot, near>>
noticeVars == <<remind, drawn>>
discordVars == <<requests, shown>>
messagesVars == <<planVars, outboxVars, noticeVars, discordVars>>

NoReboot == [time |-> 0, revision |-> 0, scheduled |-> FALSE, notified |-> FALSE,
             noticeTime |-> 0, nonce |-> 0, sent |-> FALSE]
NotDelivering == [on |-> FALSE, rest |-> {}, waiting |-> FALSE]
NotReminding == [on |-> FALSE, revision |-> 0, nonce |-> 0, about |-> 0]

Stored(item) == [kind |-> IF item.edit THEN "edit" ELSE "post", nonce |-> item.id,
                 about |-> item.id]
Notice == [kind |-> "notice", nonce |-> remind.nonce, about |-> remind.about]
SameMessage(r, s) == r.kind = s.kind /\ r.nonce = s.nonce

\* An answer without error.
Answered(r) == \E s \in shown : SameMessage(r, s)

-----------------------------------------------------------------------------
(* The plan: a reboot for a time *)

\* A mutant: a reboot may be scheduled for any moment ahead.
WithoutLead(t) == TRUE

\* validateLeadTime, and what carries a plan over: ten minutes ahead at least.
Schedulable(t) == t \notin near

\* A button or a pass makes a new revision; a plan that is carried over or put
\* into the evening forgets its notice, and any of them may leave it held.
Reschedule(t, scheduled, forgets) ==
  LET revised == [reboot EXCEPT !.time = t, !.revision = @ + 1,
                                !.scheduled = scheduled, !.notified = FALSE]
  IN  /\ reboot.revision < MaxRevision
      /\ scheduled => Schedulable(t)
      /\ reboot' = IF forgets THEN [revised EXCEPT !.noticeTime = 0, !.nonce = 0, !.sent = FALSE]
                   ELSE revised
      /\ UNCHANGED <<near, outboxVars, noticeVars, discordVars>>

Acknowledged ==
  /\ reboot.time # 0 /\ ~reboot.notified
  /\ reboot' = [reboot EXCEPT !.notified = TRUE]
  /\ UNCHANGED <<near, outboxVars, noticeVars, discordVars>>

Approaches(t) ==
  /\ t \notin near /\ near' = near \cup {t}
  /\ UNCHANGED <<reboot, outboxVars, noticeVars, discordVars>>

\* The reboot begins, or is obsolete.
Leaves ==
  /\ reboot.time # 0
  /\ reboot' = [NoReboot EXCEPT !.revision = reboot.revision]
  /\ UNCHANGED <<near, outboxVars, noticeVars, discordVars>>

-----------------------------------------------------------------------------
(* Stored notifications *)

\* queueCompletion, with the edit of the plan's message if it has one;
\* healthNotice and a blocked result queue one without.
Queue(edits) ==
  /\ queued < MaxQueued /\ queued' = queued + 1
  /\ table' = table \cup [id : {queued + 1}, edit : IF edits THEN BOOLEAN ELSE {FALSE}]
  /\ UNCHANGED <<planVars, deliver, noticeVars, discordVars>>

\* ORDER BY rowid: as they were queued, the edit after the message.
Rowid(item) == 2 * item.id + (IF item.edit THEN 1 ELSE 0)
First(items) == CHOOSE x \in items : \A y \in items : Rowid(x) <= Rowid(y)

\* deliverCompletions, by a report, an observation, the daily pass or a result.
DeliverStart ==
  /\ ~deliver.on /\ table # {}
  /\ deliver' = [on |-> TRUE, rest |-> table, waiting |-> FALSE]
  /\ UNCHANGED <<planVars, table, queued, noticeVars, discordVars>>

DeliverSend ==
  /\ deliver.on /\ deliver.rest # {} /\ ~deliver.waiting
  /\ requests' = requests \cup {Stored(First(deliver.rest))}
  /\ deliver' = [deliver EXCEPT !.waiting = TRUE]
  /\ UNCHANGED <<planVars, table, queued, noticeVars, shown>>

\* A mutant: an item is deleted whatever the answer.
DeletedAnyway(item, ok) == table \ {item}

\* DELETE after an answer without error only.
Kept(item, ok) == IF ok THEN table \ {item} ELSE table

DeliverEnd(ok) ==
  LET item == First(deliver.rest)
  IN  /\ deliver.waiting /\ (ok => Answered(Stored(item)))
      /\ table' = Kept(item, ok)
      /\ deliver' = [on |-> deliver.rest # {item}, rest |-> deliver.rest \ {item},
                     waiting |-> FALSE]
      /\ UNCHANGED <<planVars, queued, noticeVars, discordVars>>

-----------------------------------------------------------------------------
(* The notice five minutes before *)

\* A mutant: each attempt draws a nonce.
DrawsAlways == TRUE

\* The nonce is kept as long as the time is the same.
Draws == reboot.noticeTime # reboot.time

RemindStart ==
  LET nonce == IF Draws THEN drawn + 1 ELSE reboot.nonce
  IN  /\ reboot.scheduled /\ reboot.notified /\ reboot.time \in near /\ ~remind.on
      /\ ~(reboot.noticeTime = reboot.time /\ reboot.sent)
      /\ drawn' = IF Draws THEN drawn + 1 ELSE drawn
      /\ reboot' = IF Draws
                   THEN [reboot EXCEPT !.noticeTime = reboot.time, !.nonce = nonce,
                                       !.sent = FALSE]
                   ELSE reboot
      /\ remind' = [on |-> TRUE, revision |-> reboot.revision, nonce |-> nonce,
                    about |-> reboot.time]
      /\ requests' = requests \cup
           {[kind |-> "notice", nonce |-> nonce, about |-> reboot.time]}
      /\ UNCHANGED <<near, outboxVars, shown>>

\* It is noted as sent unless the plan has moved on.
RemindEnd(ok) ==
  LET same == reboot.revision = remind.revision /\ reboot.nonce = remind.nonce
                /\ reboot.time # 0
  IN  /\ remind.on /\ (ok => Answered(Notice))
      /\ reboot' = IF ok /\ same THEN [reboot EXCEPT !.sent = TRUE] ELSE reboot
      /\ remind' = NotReminding
      /\ UNCHANGED <<near, outboxVars, drawn, discordVars>>

-----------------------------------------------------------------------------
(* Discord, and the runtime of the object *)

\* The request arrives; a nonce that is known is answered by its message.
Arrives(r) ==
  /\ r \in requests /\ requests' = requests \ {r}
  /\ shown' = IF Answered(r) THEN shown ELSE shown \cup {r}
  /\ UNCHANGED <<planVars, outboxVars, noticeVars>>

Vanishes(r) ==
  /\ r \in requests /\ requests' = requests \ {r}
  /\ UNCHANGED <<planVars, outboxVars, noticeVars, shown>>

Restart ==
  /\ deliver' = NotDelivering /\ remind' = NotReminding
  /\ UNCHANGED <<planVars, table, queued, drawn, discordVars>>

OutboxInit ==
  /\ reboot = NoReboot /\ near = {}
  /\ table = {} /\ queued = 0 /\ deliver = NotDelivering
  /\ remind = NotReminding /\ drawn = 0
  /\ requests = {} /\ shown = {}

OutboxNext ==
  \/ Acknowledged \/ Leaves \/ DeliverStart \/ DeliverSend \/ RemindStart \/ Restart
  \/ \E t \in Times :
       Approaches(t) \/ \E scheduled, forgets \in BOOLEAN : Reschedule(t, scheduled, forgets)
  \/ \E yes \in BOOLEAN : Queue(yes) \/ DeliverEnd(yes) \/ RemindEnd(yes)
  \/ \E r \in requests : Arrives(r) \/ Vanishes(r)

OutboxSpec == OutboxInit /\ [][OutboxNext]_messagesVars

-----------------------------------------------------------------------------
(* Properties *)

\* Nothing that was queued is lost by an error, a timeout or a restart: it is
\* stored or was shown; and neither a stored notification nor the notice for
\* one time is shown twice, however often it is sent again and however the plan
\* changes meanwhile.
ToldOnce ==
  /\ \A n \in 1..queued :
       \/ \E item \in table : item.id = n /\ ~item.edit
       \/ \E r \in shown : r.kind = "post" /\ r.about = n
  /\ \A r, s \in shown : r.kind = s.kind /\ r.about = s.about => r = s
=============================================================================
