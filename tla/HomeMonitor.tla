----------------------------- MODULE HomeMonitor -----------------------------
(***************************************************************************)
(* The home service monitor (docker/home-service-monitor/monitor.py): a    *)
(* thread per target polls it by several requests and then replaces the    *)
(* target's snapshot; a scrape returns the snapshots as they are.  The     *)
(* threads share nothing else, so one of them is modelled, of any kind:    *)
(* the recorder, expected network devices, secrets, tuners, or backups.    *)
(*                                                                         *)
(* What is polled goes on meanwhile.  Time is in minutes; a poll takes     *)
(* less than one.                                                          *)
(***************************************************************************)
EXTENDS Naturals, Sequences, FiniteSets, FiniteSetsExt

CONSTANTS
  Reservations, StartAt, EndAt,  \* recordings and their times
  Grace,       \* the 120 seconds that a recording may take to start
  Items, Expected,  \* devices, secrets or tuners, and those that must be there
  MaxMinute    \* bound for TLC

ASSUME RecordingsAssumption ==
  /\ StartAt \in [Reservations -> Nat] /\ EndAt \in [Reservations -> Nat]
  /\ Grace \in Nat /\ Grace >= 2

VARIABLES
  minute, kind,
  recording,   \* recording[r]: "reserved", "recording" or "recorded"
  late,        \* history: recordings that did not start within their minute
  present, up, \* the items that are listed, and those that work
  written, finished, archived,  \* backups by time: begun, complete, copied
  pollAt,      \* the requests answered so far
  pollStart,   \* when the poll began
  answers,     \* what they returned
  during,      \* history: the items that have worked during the poll
  snapshot     \* the last poll: success, items or times shown, the bad ones

worldVars == <<recording, late, present, up, written, finished, archived>>
pollVars == <<pollAt, pollStart, answers, snapshot>>
monitorVars == <<minute, kind, worldVars, pollVars, during>>

-----------------------------------------------------------------------------
(* The collectors *)

\* The requests of a poll, in their order.
PollRequests ==
  [recorder |-> <<"reserves", "recording", "recorded">>,
   devices |-> <<"items", "details">>, secrets |-> <<"items">>, tuners |-> <<"items">>,
   backups |-> <<"local", "archive">>]

PollRequest == PollRequests[kind][pollAt + 1]
PollDone == pollAt = Len(PollRequests[kind])
NoAnswers == [q \in UNION {Range(PollRequests[k]) : k \in DOMAIN PollRequests} |-> {}]
In(state) == {r \in Reservations : recording[r] = state}
States(set) == {<<i, i \in up>> : i \in set}
Names(rows) == {row[1] : row \in rows}
Working(rows) == Names({row \in rows : row[2]})

\* What the services answer now.  A backup is listed before it is complete.
Answer ==
  CASE PollRequest = "reserves" -> {r \in Reservations : minute < EndAt[r]}
    [] PollRequest \in {"recording", "recorded"} -> In(PollRequest)
    [] PollRequest = "items" -> States(present)
    [] PollRequest = "local" -> {<<t, t \in finished>> : t \in written}
    [] PollRequest = "archive" -> archived

\* A mutant: a recording is expected at its very start.
NotStartedYet(a) ==
  {r \in a.reserves : StartAt[r] < minute /\ minute < EndAt[r]} \ (a.recording \cup a.recorded)

\* recorder_values: what should run and neither runs nor has run.
NotStarted(a) ==
  {r \in a.reserves : StartAt[r] + Grace < minute /\ minute < EndAt[r]}
    \ (a.recording \cup a.recorded)

\* Zero stands for no backup at all.
Latest(times) == Max(times \cup {0})

\* What each collector makes of the answers.
Evaluate(a) ==
  CASE kind = "recorder" -> [shown |-> a.reserves, bad |-> NotStarted(a)]
    [] kind = "devices" -> [shown |-> Expected, bad |-> Expected \ Working(a.details)]
    [] kind = "secrets" -> LET names == Expected \cup Names(a.items)
                           IN  [shown |-> names, bad |-> names \ Working(a.items)]
    [] kind = "tuners" -> [shown |-> Names(a.items), bad |-> Names(a.items) \ Working(a.items)]
    [] kind = "backups" -> [shown |-> {Latest(Working(a.local)), Latest(a.archive)}, bad |-> {}]

-----------------------------------------------------------------------------
(* collect_once and poll *)

\* One request; a secret's may be the second attempt.
Read ==
  /\ ~PollDone /\ PollRequest # "details"
  /\ answers' = [answers EXCEPT ![PollRequest] = Answer]
  /\ pollAt' = pollAt + 1
  /\ IF pollAt = 0 THEN pollStart' = minute /\ during' = up ELSE UNCHANGED <<pollStart, during>>
  /\ UNCHANGED <<minute, kind, worldVars, snapshot>>

\* The details of the expected devices that were listed, one by one; those of a
\* device that has gone by then cannot be had.
Undetailed == (Names(answers.items) \cap Expected) \ Names(answers.details)

ReadDetail(i) ==
  /\ kind = "devices" /\ pollAt = 1 /\ i \in Undetailed /\ i \in present
  /\ answers' = [answers EXCEPT !.details = @ \cup States({i})]
  /\ UNCHANGED <<minute, kind, worldVars, pollAt, pollStart, snapshot, during>>

DetailsRead ==
  /\ kind = "devices" /\ pollAt = 1 /\ Undetailed = {}
  /\ pollAt' = 2
  /\ UNCHANGED <<minute, kind, worldVars, answers, pollStart, snapshot, during>>

\* The snapshot is replaced as a whole; "seen" is history.
Replaces(success, values) ==
  /\ snapshot' = [success |-> success, shown |-> values.shown, bad |-> values.bad,
                  seen |-> during]
  /\ pollAt' = 0 /\ answers' = NoAnswers /\ pollStart' = 0
  /\ UNCHANGED <<minute, kind, worldVars, during>>

Publish ==
  /\ PollDone
  /\ kind = "tuners" => answers.items # {}
  /\ Replaces(TRUE, Evaluate(answers))

\* Any failure drops what the poll before has shown.
PollFails == Replaces(FALSE, [shown |-> {}, bad |-> {}])

-----------------------------------------------------------------------------
(* The services *)

Records(r) ==
  /\ kind = "recorder"
  /\ \/ recording[r] = "reserved" /\ StartAt[r] <= minute /\ minute < EndAt[r]
        /\ recording' = [recording EXCEPT ![r] = "recording"]
     \/ recording[r] = "recording" /\ recording' = [recording EXCEPT ![r] = "recorded"]
  /\ UNCHANGED <<minute, kind, late, present, up, written, finished, archived, pollVars, during>>

Changes(i) ==
  /\ kind \in {"devices", "secrets", "tuners"}
  /\ \/ i \in present /\ present' = present \ {i} /\ up' = up \ {i}
     \/ i \notin present /\ present' = present \cup {i} /\ UNCHANGED up
     \/ i \in present \ up /\ up' = up \cup {i} /\ UNCHANGED present
     \/ i \in up /\ up' = up \ {i} /\ UNCHANGED present
  /\ during' = during \cup up'
  /\ UNCHANGED <<minute, kind, recording, late, written, finished, archived, pollVars>>

BacksUp ==
  /\ kind = "backups"
  /\ \/ written' = written \cup {minute} /\ UNCHANGED <<finished, archived>>
     \/ \E t \in written \ finished : finished' = finished \cup {t} /\ UNCHANGED <<written, archived>>
     \/ \E t \in finished \ archived : archived' = archived \cup {t} /\ UNCHANGED <<written, finished>>
  /\ UNCHANGED <<minute, kind, recording, late, present, up, pollVars, during>>

MinutePasses ==
  /\ minute < MaxMinute /\ minute' = minute + 1
  /\ pollAt # 0 => pollStart = minute
  /\ late' = late \cup {r \in In("reserved") : StartAt[r] < minute}
  /\ UNCHANGED <<kind, recording, present, up, written, finished, archived, pollVars, during>>

MonitorInit ==
  /\ minute = 1 /\ kind \in DOMAIN PollRequests
  /\ recording = [r \in Reservations |-> "reserved"] /\ late = {}
  /\ present = {} /\ up = {}
  /\ written = {} /\ finished = {} /\ archived = {}
  /\ pollAt = 0 /\ pollStart = 0 /\ answers = NoAnswers /\ during = {}
  /\ snapshot = [success |-> FALSE, shown |-> {}, bad |-> {}, seen |-> {}]

MonitorNext ==
  \/ Read \/ DetailsRead \/ Publish \/ PollFails \/ BacksUp \/ MinutePasses
  \/ \E r \in Reservations : Records(r)
  \/ \E i \in Items : ReadDetail(i) \/ Changes(i)

MonitorSpec == MonitorInit /\ [][MonitorNext]_monitorVars

-----------------------------------------------------------------------------
(* Properties *)

\* What a scrape returns was true although its requests were made one after the
\* other: a recording said not to have started did not start in its minute, an
\* expected item said to work did so during the poll and none is left out, a
\* time of a backup is of a complete one, and a failed poll says nothing.
SnapshotTruthful ==
  IF ~snapshot.success THEN snapshot.shown = {} /\ snapshot.bad = {}
  ELSE /\ kind = "recorder" => snapshot.bad \subseteq late
       /\ kind \in {"devices", "secrets"} =>
            Expected \subseteq snapshot.shown /\ snapshot.shown \ snapshot.bad \subseteq snapshot.seen
       /\ kind = "tuners" => snapshot.shown # {}
       /\ kind = "backups" => snapshot.shown \subseteq finished \cup {0}
=============================================================================
