--------------------------- MODULE BackupMigration ---------------------------
(***************************************************************************)
(* The move of the current backups from one object store to another        *)
(* (scripts/migrate-shared-backups-idrive.py): eight threads copy or       *)
(* verify the listed objects while the backup jobs of the cluster should   *)
(* be suspended; nothing keeps somebody from resuming them meanwhile.      *)
(*                                                                         *)
(* An object is its version, 0 when there is none; a version stands for    *)
(* content, size and ETag.  A multipart upload appears when it completes.  *)
(* A target without versioning forgets what is written over.  One of the   *)
(* two buckets is modelled, "immutable" the one with Object Lock or the    *)
(* other one, in which noncurrent versions expire after 30 days; the days  *)
(* are not counted.                                                        *)
(***************************************************************************)
EXTENDS Naturals

CONSTANTS
  Keys,
  MaxVersion   \* bound for TLC

VARIABLES
  source, target,  \* the objects of the two stores
  suspended,       \* the CronJobs are suspended
  jobActive,       \* a backup job runs
  copyAt,          \* where the program is
  operation,       \* "copy" or "verify"
  listed,          \* the inventory with which it began
  got,             \* got[k]: what the thread of k has read, 0 before
  task,            \* task[k]: "waiting", "read", "written", "done" or "failed"
  latest,          \* history: the source when it was listed again
  immutable,       \* the bucket is the one with Object Lock
  versioned,       \* the target keeps versions, as "configure" has set it
  rule,            \* ... and lets noncurrent ones expire
  kept,            \* the versions that the target holds, current or not
  expired,         \* history: those that have expired
  proved           \* history: those that a run has reported as copied

settings == <<immutable, versioned, rule>>
versions == <<kept, expired, proved>>
program == <<copyAt, operation, listed, got, task, latest, settings, versions>>
migrationVars == <<source, target, suspended, jobActive, program>>

Absent == [k \in Keys |-> 0]
Listed == {k \in Keys : listed[k] # 0}
Goes(k, state) == task' = [task EXCEPT ![k] = state]

-----------------------------------------------------------------------------

\* configure: versions are kept, for good where there is Object Lock, and
\* validate_settings agrees.
Configure ==
  /\ copyAt = "idle" /\ versioned' = TRUE /\ rule' = ~immutable
  /\ UNCHANGED <<source, target, suspended, jobActive, copyAt, operation, listed, got,
                 task, latest, immutable, versions>>

\* A mutant: the settings are left to the operator.
AnySettings == TRUE

\* validate_settings, before anything is read or written.
ValidSettings == versioned

\* frozen, for a copy only, and the first inventory.
Begin(op) ==
  /\ copyAt = "idle" /\ ValidSettings
  /\ op = "copy" => suspended /\ ~jobActive
  /\ copyAt' = "work" /\ operation' = op
  /\ listed' = source
  /\ got' = Absent /\ task' = [k \in Keys |-> "waiting"]
  /\ UNCHANGED <<source, target, suspended, jobActive, latest, settings, versions>>

\* get_object with IfMatch: the listed version.
Get(k) ==
  /\ copyAt = "work" /\ k \in Listed /\ task[k] = "waiting"
  /\ source[k] = listed[k]
  /\ got' = [got EXCEPT ![k] = source[k]]
  /\ Goes(k, IF operation = "copy" THEN "read" ELSE "written")
  /\ UNCHANGED <<source, target, suspended, jobActive, copyAt, operation, listed,
                 latest, settings, versions>>

\* put_object, or complete_multipart_upload.
Put(k) ==
  /\ copyAt = "work" /\ task[k] = "read"
  /\ target' = [target EXCEPT ![k] = got[k]]
  /\ kept' = (IF versioned THEN kept ELSE kept \ {<<k, target[k]>>}) \cup {<<k, got[k]>>}
  /\ Goes(k, "written")
  /\ UNCHANGED <<source, suspended, jobActive, copyAt, operation, listed, got, latest,
                 settings, expired, proved>>

\* The hashes of the two downloads agree.
SameContent(k) == target[k] = got[k]

Compare(k) ==
  /\ copyAt = "work" /\ task[k] = "written" /\ SameContent(k)
  /\ Goes(k, "done")
  /\ UNCHANGED <<source, target, suspended, jobActive, copyAt, operation, listed,
                 got, latest, settings, versions>>

\* Any request or assertion of a thread fails; the others go on.
TaskFails(k) ==
  /\ copyAt = "work" /\ k \in Listed /\ task[k] \in {"waiting", "read", "written"}
  /\ Goes(k, "failed")
  /\ UNCHANGED <<source, target, suspended, jobActive, copyAt, operation, listed,
                 got, latest, settings, versions>>

\* A mutant: the source is not listed again.
NotListedAgain == TRUE

SourceUnchanged == source = listed

\* All threads are done, the second inventory equals the first, and the target
\* holds every key.
Passes ==
  /\ copyAt = "work" /\ \A k \in Listed : task[k] = "done" /\ target[k] # 0
  /\ SourceUnchanged
  /\ copyAt' = "passed" /\ latest' = source
  /\ proved' = proved \cup {<<k, target[k]>> : k \in Listed}
  /\ UNCHANGED <<source, target, suspended, jobActive, operation, listed, got, task,
                 settings, kept, expired>>

\* A failed thread or assertion, or the end of the process; or the report has
\* been read.
MigrationEnds ==
  /\ copyAt # "idle" /\ copyAt' = "idle"
  /\ UNCHANGED <<source, target, suspended, jobActive, operation, listed, got, task, latest,
                 settings, versions>>

-----------------------------------------------------------------------------
(* The cluster, and whoever changes the settings of the target *)

StopsVersioning ==
  /\ copyAt = "idle" /\ versioned' = FALSE
  /\ UNCHANGED <<source, target, suspended, jobActive, copyAt, operation, listed, got,
                 task, latest, immutable, rule, versions>>

\* A mutant: current versions expire, too.
EveryVersion == kept

\* NoncurrentVersionExpiration: what has been written over.
Outdated == {x \in kept : target[x[1]] # x[2]}

\* A version has been noncurrent for 30 days.
Expires ==
  /\ rule
  /\ \E x \in Outdated : kept' = kept \ {x} /\ expired' = expired \cup {x}
  /\ UNCHANGED <<source, target, suspended, jobActive, copyAt, operation, listed, got,
                 task, latest, settings, proved>>

Suspend ==
  /\ suspended' = ~suspended
  /\ UNCHANGED <<source, target, jobActive, program>>

JobStarts ==
  /\ ~suspended /\ ~jobActive /\ jobActive' = TRUE
  /\ UNCHANGED <<source, target, suspended, program>>

JobWrites(k) ==
  /\ jobActive /\ source[k] < MaxVersion
  /\ source' = [source EXCEPT ![k] = @ + 1]
  /\ UNCHANGED <<target, suspended, jobActive, program>>

JobEnds ==
  /\ jobActive /\ jobActive' = FALSE
  /\ UNCHANGED <<source, target, suspended, program>>

MigrationInit ==
  /\ source = Absent /\ target = Absent
  /\ suspended = FALSE /\ jobActive = FALSE
  /\ immutable \in BOOLEAN /\ versioned = FALSE /\ rule = FALSE
  /\ kept = {} /\ expired = {} /\ proved = {}
  /\ copyAt = "idle" /\ operation = "copy"
  /\ listed = Absent /\ got = Absent /\ latest = Absent
  /\ task = [k \in Keys |-> "waiting"]

MigrationNext ==
  \/ Configure \/ StopsVersioning \/ Expires \/ Passes \/ MigrationEnds
  \/ Suspend \/ JobStarts \/ JobEnds
  \/ \E op \in {"copy", "verify"} : Begin(op)
  \/ \E k \in Keys : Get(k) \/ Put(k) \/ Compare(k) \/ TaskFails(k) \/ JobWrites(k)

MigrationSpec == MigrationInit /\ [][MigrationNext]_migrationVars

-----------------------------------------------------------------------------
(* Properties *)

\* "PASSED" means that the target holds what the source held when it was
\* listed for the last time, even if the jobs were resumed in between.  What one
\* run has proved is never lost in the bucket with Object Lock, and in the other
\* one only when it has been replaced and has expired.
CopyComplete ==
  /\ copyAt = "passed" => \A k \in Keys : latest[k] # 0 => target[k] = latest[k]
  /\ \A x \in proved \ kept : ~immutable /\ x \in expired /\ target[x[1]] # x[2]
=============================================================================
