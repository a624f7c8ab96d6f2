----------------------------- MODULE SlotSearch -----------------------------
(***************************************************************************)
(* The search for a free slot (availableTarget of index.ts) by one host,   *)
(* at one instant, against the instants that the other hosts occupy, which *)
(* are added one by one.                                                   *)
(***************************************************************************)
EXTENDS MaintenancePolicy, FiniteSets

CONSTANTS
  Instants,     \* the instants of the search
  Stored,       \* the targets of plans to be realigned
  Obstacles     \* the instants that other hosts may occupy

ASSUME SearchAssumption ==
  Instants \subseteq Nat /\ Stored \subseteq Nat /\ Obstacles \subseteq Int

VARIABLES
  host, instant, occupied

searchVars == <<host, instant, occupied>>

SearchInit == host \in Hosts /\ instant \in Instants /\ occupied = {}

\* Another host occupies an instant: its plan's target or its last start.
Occupy(t) ==
  /\ Cardinality(occupied) < 2 * (Len(HOSTS) - 1) /\ t \notin occupied
  /\ occupied' = occupied \cup {t}
  /\ UNCHANGED <<host, instant>>

SearchNext == \E t \in Obstacles : Occupy(t)

SearchSpec == SearchInit /\ [][SearchNext]_searchVars

\* Where the callers of availableTarget begin their search.
Starts ==
  {NextMorning(host, instant)} \cup
    IF host \in Pve THEN {CarryFrom(instant)} \cup {RealignFrom(host, t, instant) : t \in Stored}
    ELSE {}

\* The loop of availableTarget has no bound of its own: it ends whatever the
\* other hosts occupy, within two turns for each instant they do.
SearchEnds == \A start \in Starts : FirstFree(host, start, occupied) # {}

\* The slot it ends at can still be announced and used: it leaves the ten
\* minutes' notice, is an hour apart from every occupied instant, and lies in
\* the evening when the host is a hypervisor.
SlotFits ==
  \A start \in Starts : \A slot \in FirstFree(host, start, occupied) :
    /\ slot >= instant + Lead /\ InWindow(host, slot)
    /\ \A t \in occupied : slot - t >= Gap \/ t - slot >= Gap
=============================================================================
