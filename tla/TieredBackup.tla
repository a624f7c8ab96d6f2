---------------------------- MODULE TieredBackup ----------------------------
(***************************************************************************)
(* Two tiers of backups (ansible/pbs/files/pbs-tiered.py): the daily run   *)
(* verifies the snapshots of the local disk, copies them to the archive,   *)
(* and protects ("pins") the newest copied one of each group before it     *)
(* releases the pins it set earlier; housekeeping then prunes the local    *)
(* disk.  A run may die between any two calls of the backup server.        *)
(*                                                                         *)
(* A snapshot is its group and its time.  The server keeps one protection  *)
(* flag per snapshot, for the program and for the operator.                *)
(***************************************************************************)
EXTENDS Naturals, FiniteSets

CONSTANTS
  Groups,      \* the backup groups that must be recoverable
  Keep,        \* snapshots of a group that a prune leaves
  Recent,      \* 26 hours: how old a chosen snapshot may be
  MaxTime      \* bound for TLC

VARIABLES
  now,
  local, archive,  \* the snapshots of the two datastores
  protected,       \* local snapshots that cannot be pruned
  operators,       \* those among them that the operator protected
  pins, synced, lastSync,  \* state.json
  at,              \* where the run is, "idle" when none is under way
  chosen,          \* the snapshots selected by the daily run
  listing,         \* the local snapshots and protections that it has listed
  current,         \* the snapshot whose ownership is to be saved
  confirmed        \* history: snapshots whose copy in the archive was seen

file == <<pins, synced, lastSync>>
run == <<at, chosen, listing, current>>
vars == <<now, local, archive, protected, operators, file, run, confirmed>>

Snapshot == Groups \X (0..MaxTime)
None == <<>>
Of(set, g) == {s \in set : s[1] = g}
Newest(set) == CHOOSE s \in set : \A t \in set : t[2] <= s[2]
NoListing == [local |-> {}, protected |-> {}]

Ends == at' = "idle" /\ chosen' = {} /\ listing' = NoListing /\ current' = None

-----------------------------------------------------------------------------
(* daily *)

\* The verification of new and outdated snapshots, and select_verified: the
\* newest good snapshot of each group, none of which may be missing or old.
VerifyAndSelect(good) ==
  LET best == {Newest(Of(good, g)) : g \in {k \in Groups : Of(good, k) # {}}}
  IN  /\ at = "idle"
      /\ \A g \in Groups : \E s \in Of(best, g) : now - s[2] <= Recent
      /\ at' = "sync" /\ chosen' = best
      /\ UNCHANGED <<now, local, archive, protected, operators, file, listing, current, confirmed>>

\* The sync job copies verified snapshots, and may leave some behind; only the
\* chosen ones are looked at.
Sync(copied) ==
  /\ at = "sync"
  /\ archive' = archive \cup copied
  /\ at' = "copied"
  /\ UNCHANGED <<now, local, protected, operators, file, chosen, listing,
                 current, confirmed>>

\* require_copies, and the second listing of the local disk.
RequireCopies ==
  /\ at = "copied"
  /\ chosen \subseteq archive /\ chosen \subseteq local
  /\ listing' = [local |-> local, protected |-> protected]
  /\ confirmed' = confirmed \cup chosen
  /\ at' = "pins"
  /\ UNCHANGED <<now, local, archive, protected, operators, file, chosen, current>>

\* A mutant: a snapshot protected by somebody else is taken over.
AllUnowned == chosen \ pins

\* The chosen snapshots that nobody protects yet.
ToPin == chosen \ listing.protected

\* A mutant: old pins are released at any time.
ReleasableAtOnce == pins \ chosen

\* Pins are released only when every chosen snapshot is protected.
Releasable == IF ToPin = {} THEN pins \ chosen ELSE {}

\* set_protected, which is retried while the snapshot is busy ...
Protect(s) ==
  /\ at = "pins" /\ s \in ToPin /\ s \in local
  /\ protected' = protected \cup {s}
  /\ at' = "own" /\ current' = s
  /\ UNCHANGED <<now, local, archive, operators, file, chosen, listing, confirmed>>

\* ... and save_state with the new owner.
Own ==
  /\ at = "own"
  /\ pins' = pins \cup {current}
  /\ listing' = [listing EXCEPT !.protected = @ \cup {current}]
  /\ at' = "pins" /\ current' = None
  /\ UNCHANGED <<now, local, archive, protected, operators, synced, lastSync,
                 chosen, confirmed>>

Release(s) ==
  /\ at = "pins" /\ s \in Releasable
  /\ s \in listing.local => s \in local
  /\ protected' = protected \ {s}
  /\ at' = "disown" /\ current' = s
  /\ UNCHANGED <<now, local, archive, operators, file, chosen, listing, confirmed>>

Disown ==
  /\ at = "disown"
  /\ pins' = pins \ {current}
  /\ at' = "pins" /\ current' = None
  /\ UNCHANGED <<now, local, archive, protected, operators, synced, lastSync,
                 chosen, listing, confirmed>>

Confirm ==
  /\ at = "pins" /\ ToPin = {} /\ Releasable = {}
  /\ synced' = chosen /\ lastSync' = TRUE
  /\ at' = "housekeeping" /\ chosen' = {} /\ listing' = NoListing
  /\ UNCHANGED <<now, local, archive, protected, operators, pins, current, confirmed>>

-----------------------------------------------------------------------------
(* housekeeping, at the end of the daily run or by a timer of its own *)

\* A managed recovery pin is missing: nothing is pruned.
MissingPins == {s \in synced : s \notin local \/ s \notin protected}

Housekeeping ==
  /\ at \in {"idle", "housekeeping"}
  /\ lastSync /\ MissingPins = {}
  /\ at' = "prune"
  /\ UNCHANGED <<now, local, archive, protected, operators, file, chosen,
                 listing, current, confirmed>>

\* The prune job keeps the newest snapshots of a group, and the protected ones.
Prune ==
  LET newer(s) == {t \in Of(local, s[1]) : t[2] > s[2]}
  IN  /\ at = "prune"
      /\ local' = {s \in local : s \in protected \/ Cardinality(newer(s)) < Keep}
      /\ Ends
      /\ UNCHANGED <<now, archive, protected, operators, file, confirmed>>

\* A call fails, a check refuses to go on, or the run is killed.
RunEnds ==
  /\ at # "idle" /\ Ends
  /\ UNCHANGED <<now, local, archive, protected, operators, file, confirmed>>

-----------------------------------------------------------------------------
(* The hypervisors, the archive and the operator *)

Backup(g) ==
  /\ <<g, now>> \notin local
  /\ local' = local \cup {<<g, now>>}
  /\ UNCHANGED <<now, archive, protected, operators, file, run, confirmed>>

Advance ==
  /\ now < MaxTime /\ now' = now + 1
  /\ UNCHANGED <<local, archive, protected, operators, file, run, confirmed>>

\* A run goes by its listing from then on, and would not see a change of these.
Settling == IF at \in {"pins", "own", "disown"} THEN chosen ELSE {}

\* The operator leaves the pins of the program alone.  Protecting and deleting
\* go on during a run, except for the protection of what it is settling;
\* releases wait for its end.
OperatorProtects(s) ==
  /\ s \in local \ (protected \cup pins \cup Settling)
  /\ protected' = protected \cup {s} /\ operators' = operators \cup {s}
  /\ UNCHANGED <<now, local, archive, file, run, confirmed>>

OperatorReleases(s) ==
  /\ at = "idle" /\ s \in operators
  /\ protected' = protected \ {s} /\ operators' = operators \ {s}
  /\ UNCHANGED <<now, local, archive, file, run, confirmed>>

OperatorDeletes(s) ==
  /\ s \in local \ protected
  /\ local' = local \ {s}
  /\ UNCHANGED <<now, archive, protected, operators, file, run, confirmed>>

Operator == \E s \in local : OperatorProtects(s) \/ OperatorReleases(s) \/ OperatorDeletes(s)

-----------------------------------------------------------------------------

Init ==
  /\ now = 0 /\ local = {} /\ archive = {}
  /\ protected = {} /\ operators = {}
  /\ pins = {} /\ synced = {} /\ lastSync = FALSE
  /\ at = "idle" /\ chosen = {} /\ listing = NoListing /\ current = None
  /\ confirmed = {}

Next ==
  \/ Advance \/ Operator \/ RequireCopies \/ Own \/ Disown \/ Confirm
  \/ Housekeeping \/ Prune \/ RunEnds
  \/ \E g \in Groups : Backup(g)
  \/ \E good \in SUBSET local : VerifyAndSelect(good)
  \/ \E copied \in SUBSET chosen : Sync(copied)
  \/ \E s \in chosen : Protect(s)
  \/ \E s \in pins : Release(s)

Spec == Init /\ [][Next]_vars

-----------------------------------------------------------------------------
(* Properties *)

\* A group from which something can be recovered: a protected local snapshot
\* whose copy in the archive was confirmed.
Recoverable(g) == Of(local \cap protected \cap confirmed, g) # {}

KeepsRecoverable ==
  /\ \A g \in Groups : Recoverable(g) => Recoverable(g)'
  /\ synced \cap local \subseteq local'

\* Once a group is recoverable no step of the program takes that away, however
\* runs fail and die: new pins are set before old ones are released, and nothing
\* of the last confirmed copy is pruned.
StaysRecoverable == [][Operator \/ KeepsRecoverable]_vars

\* What the operator protected stays protected until the operator releases it:
\* the program never owns, and so never releases, such a snapshot.
OperatorRespected == operators \subseteq protected /\ operators \cap pins = {}
=============================================================================
