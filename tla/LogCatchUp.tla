----------------------------- MODULE LogCatchUp -----------------------------
(***************************************************************************)
(* How an updated monitoring machine gets the log records that it missed   *)
(* (catch_up of observability/reventer/os-update/controller.py with the    *)
(* verbs of guest.py): one window of time, whose records are complete on   *)
(* the machine that stayed.  OsUpdate has this as one step, CatchUp.       *)
(*                                                                         *)
(* An import becomes visible to queries some time after its answer, and    *)
(* the answer may be lost.  Meanwhile the collectors deliver late what     *)
(* they kept for the machine.  A run that fails begins the window again,   *)
(* on the same storage or on one restored from the boot backup.            *)
(*                                                                         *)
(* A record is the names of its stream labels and of all of its fields;    *)
(* the values are alike, and equal records are copies.                     *)
(***************************************************************************)
EXTENDS Naturals, Bags

CONSTANT Source   \* the bag of records on the machine that stayed

\* The stream labels of a record are among its fields.
ASSUME SourceAssumption ==
  /\ IsABag(Source)
  /\ LET Names == UNION {r.fields : r \in DOMAIN Source}
     IN  DOMAIN Source \subseteq [stream : SUBSET Names, fields : SUBSET Names]
  /\ \A r \in DOMAIN Source : r.stream \subseteq r.fields

VARIABLES
  catchAt,    \* where the run is
  visible,    \* the bag of records that a query of the other machine returns
  buffered,   \* accepted there, not yet visible
  missing,    \* what the run has found missing and not yet sent
  delivered   \* history: records that the collectors have delivered late

catchUpVars == <<catchAt, visible, buffered, missing, delivered>>

-----------------------------------------------------------------------------

\* A mutant: a record that is there at all is not missing.
MissingAtAll(destination) ==
  [r \in DOMAIN Source \ DOMAIN destination |-> Source[r]]

\* missing_logs: every copy counts.
Missing(destination) == Source (-) destination

\* A mutant: a batch is cut by its size only.
Uncut(rows, names) == DOMAIN rows

\* log_batches: the records whose stream labels have these names.
Group(rows, names) == {r \in DOMAIN rows : r.stream = names}

\* import-logs: the given fields, where a record has them, become its labels.
Labelled(r, names) == [r EXCEPT !.stream = names \cap r.fields]

\* export-logs on the other machine.
Export ==
  /\ catchAt = "export"
  /\ missing' = Missing(visible)
  /\ catchAt' = "import"
  /\ UNCHANGED <<visible, buffered, delivered>>

\* A batch is a part of a group, up to its size: here a single record, and a
\* larger batch is a series of them.  The request may fail before or after it
\* has been accepted.
Import(names, accepted, answered) ==
  /\ catchAt = "import" /\ (accepted \/ ~answered)
  /\ \E r \in Group(missing, names) :
       /\ buffered' = IF accepted THEN buffered (+) SetToBag({Labelled(r, names)})
                      ELSE buffered
       /\ missing' = missing (-) SetToBag({r})
  /\ catchAt' = IF answered THEN "import" ELSE "idle"
  /\ UNCHANGED <<visible, delivered>>

ImportsDone ==
  /\ catchAt = "import" /\ missing = EmptyBag
  /\ catchAt' = "poll"
  /\ UNCHANGED <<visible, buffered, missing, delivered>>

\* The window is polled until nothing is missing.
Matches ==
  /\ catchAt = "poll" /\ Missing(visible) = EmptyBag
  /\ catchAt' = "done"
  /\ UNCHANGED <<visible, buffered, missing, delivered>>

\* The deadline, a window or record beyond its budget, the metrics, a later
\* window, the health of the first machine; or the run is killed.
Fails ==
  /\ catchAt # "idle"
  /\ catchAt' = "idle" /\ missing' = EmptyBag
  /\ UNCHANGED <<visible, buffered, delivered>>

\* The window is begun, long after anything was imported.
BeginWindow ==
  /\ catchAt = "idle" /\ buffered = EmptyBag
  /\ catchAt' = "export"
  /\ UNCHANGED <<visible, buffered, missing, delivered>>

-----------------------------------------------------------------------------
(* The other machine *)

BecomesVisible(r) ==
  /\ BagIn(r, buffered)
  /\ buffered' = buffered (-) SetToBag({r}) /\ visible' = visible (+) SetToBag({r})
  /\ UNCHANGED <<catchAt, missing, delivered>>

\* A collector sends again what it could not deliver.
DeliversLate(r) ==
  /\ delivered (+) SetToBag({r}) \sqsubseteq Source
  /\ buffered' = buffered (+) SetToBag({r}) /\ delivered' = delivered (+) SetToBag({r})
  /\ UNCHANGED <<catchAt, visible, missing>>

\* The machine is restored from the backup.
Restored ==
  /\ catchAt = "idle"
  /\ visible' = EmptyBag /\ buffered' = EmptyBag /\ delivered' = EmptyBag
  /\ UNCHANGED <<catchAt, missing>>

CatchUpInit ==
  /\ catchAt = "idle"
  /\ visible = EmptyBag /\ buffered = EmptyBag /\ missing = EmptyBag /\ delivered = EmptyBag

CatchUpNext ==
  \/ BeginWindow \/ Export \/ ImportsDone \/ Matches \/ Fails \/ Restored
  \/ \E r \in DOMAIN missing, accepted, answered \in BOOLEAN :
       Import(r.stream, accepted, answered)
  \/ \E r \in DOMAIN buffered : BecomesVisible(r)
  \/ \E r \in DOMAIN Source : DeliversLate(r)

CatchUpSpec == CatchUpInit /\ [][CatchUpNext]_catchUpVars

-----------------------------------------------------------------------------
(* Properties *)

\* A completed window has every record as often as the source, under the same
\* labels, and whatever was repeated or restored, no import adds a copy or
\* changes a record: what is there beyond the source the collectors sent.
CaughtUp ==
  /\ catchAt = "done" => Source \sqsubseteq visible
  /\ visible (+) buffered \sqsubseteq Source (+) delivered
=============================================================================
