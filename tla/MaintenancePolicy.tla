------------------------- MODULE MaintenancePolicy -------------------------
(***************************************************************************)
(* The calendar rules of the maintenance controller                        *)
(* (workers/maintenance-control/src/policy.ts): which instants a host may  *)
(* be rebooted at, and when an approved slot is over.  Instants are        *)
(* integers counted from a midnight of Japan time, in a unit that the      *)
(* configuration chooses (a minute, or a coarser one).                     *)
(***************************************************************************)
EXTENDS Integers, Sequences

CONSTANTS
  Hosts,        \* the managed hosts
  HOSTS,        \* the order in which the controller visits them
  Pve,          \* the hypervisors among them: approval, evening window, gate
  Day,          \* units in a day
  Evening,      \* offset of 20:00 in a day: start of the hypervisors' window
  RebootHour,   \* offset of each host's default slot
  Gap,          \* REBOOT_GAP: one hour
  Lead,         \* ten minutes: the least notice of a new target
  DevWindow,    \* five minutes: window of a host that is not a hypervisor
  Fresh,        \* two minutes: a report or an inspection is fresh
  TickFresh     \* ten minutes: the daily pass accepts a report this old

ASSUME HostsAssumption ==
  /\ HOSTS \in Seq(Hosts) /\ HOSTS # <<>>
  /\ \A h \in Hosts : \E i \in 1..Len(HOSTS) : HOSTS[i] = h
  /\ Pve \subseteq Hosts
ASSUME CalendarAssumption ==
  /\ Day \in Nat \ {0} /\ Evening \in 0..(Day - 1)
  /\ RebootHour \in [Hosts -> 0..(Day - 1)]
  /\ \A h \in Pve : RebootHour[h] >= Evening
ASSUME SpanAssumption ==
  /\ Gap \in Nat \ {0} /\ Lead \in Nat /\ DevWindow \in Nat \ {0}
  /\ \A h \in Hosts : RebootHour[h] >= Lead
  /\ Fresh \in Nat \ {0} /\ TickFresh \in Nat

\* jstDate and the time of day of formatJst.
Clock(t) == t % Day
Midnight(t) == t - Clock(t)
Daytime(t) == Clock(t) < Evening

\* The next default slot: tonight if there is time left, else tomorrow; the
\* hosts that are not hypervisors always wait for tomorrow morning.
NextMorning(h, t) ==
  LET today == Midnight(t) + RebootHour[h]
  IN  IF h \in Pve /\ today >= t + Lead THEN today ELSE today + Day

\* A hypervisor's slot lasts until midnight, any other one five minutes.
WindowEnd(h, target) ==
  IF h \in Pve THEN Midnight(target) + Day ELSE target + DevWindow

InWindow(h, target) == h \in Pve => ~Daytime(target)

Near(s, t) == s - t < Gap /\ t - s < Gap

\* Mutants: the hour crosses midnight; the evening is that of the day before.
LaterAnyHour(h, t) == t + Gap
LaterSameEvening(h, t) ==
  IF h \in Pve /\ Daytime(t + Gap) THEN Midnight(t) + Evening ELSE t + Gap

\* One turn of the loop of availableTarget: an hour later, and back in the
\* evening when the hour crossed midnight.
Later(h, t) ==
  IF h \in Pve /\ Daytime(t + Gap) THEN Midnight(t + Gap) + Evening ELSE t + Gap

\* Every other host occupies at most two instants, and one instant excludes at
\* most two successive candidates: the loop turns at most this often.
MaxTurns == 4 * Len(HOSTS)

Candidates(h, t) ==
  LET c[k \in 0..MaxTurns] == IF k = 0 THEN t ELSE Later(h, c[k - 1]) IN c

\* conflictingReboot, for the instants that the other hosts occupy.
Crowded(occupied, t) == \E s \in occupied : Near(s, t)

\* availableTarget: the candidate at which its loop stops.
FirstFree(h, t, occupied) ==
  LET c == Candidates(h, t)
  IN  {c[k] : k \in {i \in 0..MaxTurns :
                       /\ ~Crowded(occupied, c[i])
                       /\ \A j \in 0..(i - 1) : Crowded(occupied, c[j])}}

\* First instant tried when an approved reboot missed its evening.
CarryFrom(t) ==
  LET earliest == t + Lead
      evening == Midnight(earliest) + Evening
  IN  IF earliest > evening THEN earliest ELSE evening

\* First instant tried for a plan whose stored target is in the daytime.
RealignFrom(h, target, t) ==
  LET sameDay == Midnight(target) + RebootHour[h]
  IN  IF sameDay >= t + Lead THEN sameDay ELSE NextMorning(h, t)

\* The next day at the same time of day.
DeferFrom(target, t) ==
  LET today == Midnight(t) + Clock(target)
  IN  (IF target > today THEN target ELSE today) + Day
=============================================================================
