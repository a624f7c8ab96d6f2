------------------------ MODULE ExclusiveMaintenance ------------------------
(***************************************************************************)
(* What the maintenance controller promises to its hosts: one package      *)
(* update or reboot at a time.  An execution starts when nothing is under  *)
(* way, under a number never used before; it may be reported complete and  *)
(* then waits for the environment to settle; it may be stopped, and a      *)
(* stopped execution is never resumed: it ends, or somebody ends it.       *)
(***************************************************************************)
EXTENDS Naturals

CONSTANTS Hosts, NoHost

VARIABLES
  holder,     \* the host whose execution is under way
  stage,      \* how far it is
  issued      \* how many executions have been started

vars == <<holder, stage, issued>>

Stages == {"free", "working", "settling", "stopped"}

Init == holder = NoHost /\ stage = "free" /\ issued = 0

Acquire(h) ==
  /\ stage = "free"
  /\ holder' = h /\ stage' = "working" /\ issued' = issued + 1

Complete ==
  /\ stage = "working" /\ stage' = "settling"
  /\ UNCHANGED <<holder, issued>>

Stop ==
  /\ stage \in {"working", "settling"} /\ stage' = "stopped"
  /\ UNCHANGED <<holder, issued>>

Release ==
  /\ stage # "free"
  /\ holder' = NoHost /\ stage' = "free"
  /\ UNCHANGED issued

Next == (\E h \in Hosts : Acquire(h)) \/ Complete \/ Stop \/ Release

Spec == Init /\ [][Next]_vars
=============================================================================
