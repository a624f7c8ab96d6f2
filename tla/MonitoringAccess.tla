-------------------------- MODULE MonitoringAccess --------------------------
(***************************************************************************)
(* Access of the monitoring to a NAS                                       *)
(* (ansible/truenas/library/truenas_monitoring.py): a group, a read-only   *)
(* privilege, a user and an API key, whose secret the NAS tells only once  *)
(* and which is kept in two local files.  The module may be ended between  *)
(* any two calls; it is run again until it succeeds or refuses.            *)
(*                                                                         *)
(* On the older release ("legacy") there is only the key.  A key is its    *)
(* number, 0 for none.  What an account is allowed to do is reduced to     *)
(* "own" (as the module makes it) and "foreign" (anything it refuses).     *)
(***************************************************************************)
EXTENDS Naturals

CONSTANT MaxKeys   \* bound for TLC

VARIABLES
  legacy,
  nas,       \* accounts and key on the NAS
  secretOf,  \* the key whose secret the first file holds
  metaOf,    \* the key that the second file names
  issued,    \* keys issued so far
  setupAt,   \* where the module is
  view,      \* what it found on the NAS, "key" included
  created    \* the key it has just created

setupVars == <<setupAt, view, created>>
accessVars == <<legacy, nas, secretOf, metaOf, issued, setupVars>>

Accounts == {"group", "privilege", "user"}
Empty == [group |-> "none", privilege |-> "none", user |-> "none", key |-> 0]
SetupGoes(place) == setupAt' = place

-----------------------------------------------------------------------------

\* Accounts that are not exactly those of the module are neither adopted nor
\* widened.
ForeignAccounts ==
  \/ \E a \in Accounts : nas[a] = "foreign"
  \/ nas.group = "none" /\ (nas.user # "none" \/ nas.privilege # "none")

\* A mutant: it is enough that there are files.
AnyFilesAccepted == nas.key # 0 /\ secretOf = 0

\* Files there are must hold some secret and name the key of the NAS, and a key
\* must have a secret; whose secret it is cannot be seen.
FilesDiffer ==
  \/ (secretOf # 0 \/ metaOf # 0) /\ (secretOf = 0 \/ nas.key = 0 \/ metaOf # nas.key)
  \/ nas.key # 0 /\ secretOf = 0

InspectNas ==
  /\ setupAt = "idle"
  /\ ~FilesDiffer /\ (legacy \/ ~ForeignAccounts)
  /\ view' = nas
  /\ SetupGoes(IF legacy THEN "key" ELSE "group")
  /\ UNCHANGED <<legacy, nas, secretOf, metaOf, issued, created>>

\* One account after the other, when it was missing or, for the user, when its
\* settings had drifted; the creation of one that exists by now fails.
Ensure(a, next) ==
  /\ setupAt = a
  /\ IF view[a] = "none" THEN nas[a] = "none" /\ nas' = [nas EXCEPT ![a] = "own"]
     ELSE IF view[a] = "drifted" THEN nas' = [nas EXCEPT ![a] = "own"]
     ELSE UNCHANGED nas
  /\ SetupGoes(next)
  /\ UNCHANGED <<legacy, secretOf, metaOf, issued, view, created>>

CreateKey ==
  /\ setupAt = "key" /\ view.key = 0 /\ nas.key = 0 /\ issued < MaxKeys
  /\ issued' = issued + 1 /\ created' = issued + 1
  /\ nas' = [nas EXCEPT !.key = issued + 1]
  /\ SetupGoes("saveSecret")
  /\ UNCHANGED <<legacy, secretOf, metaOf, view>>

\* atomic_json, before any further request.
SaveSecret ==
  /\ setupAt = "saveSecret"
  /\ secretOf' = created
  /\ SetupGoes("saveMetadata")
  /\ UNCHANGED <<legacy, nas, metaOf, issued, view, created>>

SaveMetadata ==
  /\ setupAt = "saveMetadata"
  /\ metaOf' = created
  /\ SetupGoes("done")
  /\ UNCHANGED <<legacy, nas, secretOf, issued, view, created>>

\* The files are there, or the change of their modes fails.
KeyExists ==
  /\ setupAt = "key" /\ view.key # 0 /\ secretOf # 0 /\ metaOf # 0
  /\ SetupGoes("done")
  /\ UNCHANGED <<legacy, nas, secretOf, metaOf, issued, view, created>>

\* A call fails, the process is killed, or the result is reported.
SetupEnds ==
  /\ setupAt # "idle"
  /\ SetupGoes("idle") /\ created' = 0
  /\ UNCHANGED <<legacy, nas, secretOf, metaOf, issued, view>>

-----------------------------------------------------------------------------
(* The administrator, while the module does not run *)

ChangesAccount(a) ==
  /\ setupAt = "idle" /\ ~legacy
  /\ \E state \in {"none", "own", "drifted", "foreign"} :
       /\ state = "drifted" => a = "user"
       /\ nas' = [nas EXCEPT ![a] = state]
  /\ UNCHANGED <<legacy, secretOf, metaOf, issued, setupVars>>

\* Revokes the key, or cleans up the files of a failed run.
RevokesKey ==
  /\ setupAt = "idle" /\ nas.key # 0
  /\ nas' = [nas EXCEPT !.key = 0]
  /\ UNCHANGED <<legacy, secretOf, metaOf, issued, setupVars>>

RemovesFiles ==
  /\ setupAt = "idle"
  /\ secretOf' = 0 /\ metaOf' = 0
  /\ UNCHANGED <<legacy, nas, issued, setupVars>>

AccessInit ==
  /\ legacy \in BOOLEAN
  /\ nas = Empty /\ view = Empty
  /\ secretOf = 0 /\ metaOf = 0 /\ issued = 0
  /\ setupAt = "idle" /\ created = 0

AccessNext ==
  \/ InspectNas
  \/ Ensure("group", "privilege") \/ Ensure("privilege", "user") \/ Ensure("user", "key")
  \/ CreateKey \/ SaveSecret \/ SaveMetadata \/ KeyExists \/ SetupEnds
  \/ \E a \in Accounts : ChangesAccount(a)
  \/ RevokesKey \/ RemovesFiles

AccessSpec == AccessInit /\ [][AccessNext]_accessVars

-----------------------------------------------------------------------------
(* Properties *)

\* A run that succeeds leaves the monitoring with a secret that is the NAS's
\* current one, under its own read-only account, however earlier runs ended
\* between the creation of a key and its two files.
SecretWorks ==
  setupAt = "done" =>
    /\ nas.key # 0 /\ secretOf = nas.key /\ metaOf = nas.key
    /\ ~legacy => \A a \in Accounts : nas[a] = "own"
=============================================================================
