---------------------------- MODULE ServicesProofs ----------------------------
(***************************************************************************)
(* Proofs about the programs that share nothing with the maintenance of    *)
(* the fleet (the modules that MCServices runs), for every value of their  *)
(* constants.                                                              *)
(***************************************************************************)
EXTENDS TieredBackup, LoockitLease, BackupMigration, DevReboot, AnnictSync, MonitoringAccess, LoockitCutover,
        LoockitIndependence, LoockitHandoff, DiscordOutbox, LogCatchUp, HomeMonitor, TLAPS,
        FiniteSetTheorems, NaturalsInduction, WellFoundedInduction

-----------------------------------------------------------------------------
(* The pins of the tiered backup *)

Settles == at \in {"pins", "own", "disown"}

ListingIsRecord == listing = [local |-> listing.local, protected |-> listing.protected]

\* The flags of the operator, and what the run knows of them.
OperatorsSeen ==
  /\ OperatorRespected
  /\ Settles => operators \cap chosen \subseteq listing.protected
  /\ at = "own" => current \in chosen \ operators

\* A chosen snapshot of each group ...
EveryGroupChosen ==
  at = "sync" \/ at = "copied" \/ Settles => \A g \in Groups : Of(chosen, g) # {}

\* ... whose copy was seen, and which is still there once it is protected ...
PinsHold ==
  /\ Settles => /\ chosen \subseteq confirmed
                /\ chosen \cap listing.protected \subseteq protected \cap local
  /\ at = "own" => current \in protected \cap local

\* ... while a prune begins only with every recovery pin in place.
PruneAllowed == at = "prune" => synced \subseteq protected

TieredInv == ListingIsRecord /\ OperatorsSeen /\ EveryGroupChosen /\ PinsHold /\ PruneAllowed

LEMMA TieredInit == Init => TieredInv
BY DEF Init, NoListing, ListingIsRecord, TieredInv, OperatorsSeen, OperatorRespected, EveryGroupChosen, PinsHold,
       PruneAllowed, Settles

LEMMA RunKeeps ==
  ASSUME TieredInv,
         \/ \E good \in SUBSET local : VerifyAndSelect(good)
         \/ \E copied \in SUBSET chosen : Sync(copied)
         \/ RequireCopies \/ Own \/ Disown \/ Confirm
         \/ Housekeeping \/ Prune \/ RunEnds
  PROVE  TieredInv'
<1> USE DEF TieredInv, ListingIsRecord, OperatorsSeen, OperatorRespected, EveryGroupChosen, PinsHold,
            PruneAllowed, Settles
<1>1. ASSUME NEW good \in SUBSET local, VerifyAndSelect(good) PROVE TieredInv'
  <2> DEFINE best == {Newest(Of(good, g)) : g \in {k \in Groups : Of(good, k) # {}}}
  <2>1. /\ at' = "sync" /\ chosen' = best
        /\ \A g \in Groups : Of(best, g) # {}
        /\ UNCHANGED <<local, protected, operators, pins, synced, listing, current, confirmed>>
    BY <1>1 DEF VerifyAndSelect, file
  <2> HIDE DEF best
  <2> QED
    BY <2>1 DEF Of
<1>2. ASSUME NEW copied \in SUBSET chosen, Sync(copied) PROVE TieredInv'
  BY <1>2 DEF Sync, file, Of
<1>3. CASE RequireCopies
  BY <1>3 DEF RequireCopies, file, Of
<1>4. CASE Own
  <2>1. listing' = [local |-> listing.local, protected |-> listing.protected \cup {current}]
    BY <1>4, Zenon DEF Own
  <2>2. ListingIsRecord' /\ listing'.protected = listing.protected \cup {current}
    BY <2>1
  <2>3. /\ at = "own" /\ at' = "pins" /\ pins' = pins \cup {current}
        /\ UNCHANGED <<local, protected, operators, synced, chosen, confirmed>>
    BY <1>4 DEF Own
  <2> HIDE DEF ListingIsRecord
  <2> QED
    BY <2>2, <2>3 DEF Of
<1>5. CASE Disown
  BY <1>5 DEF Disown, Of
<1>6. CASE Confirm
  BY <1>6 DEF Confirm, NoListing
<1>7. CASE Housekeeping
  BY <1>7 DEF Housekeeping, MissingPins, file
<1>8. CASE Prune
  BY <1>8 DEF Prune, Ends, NoListing, file
<1>9. CASE RunEnds
  BY <1>9 DEF RunEnds, Ends, NoListing, file
<1> QED
  BY <1>1, <1>2, <1>3, <1>4, <1>5, <1>6, <1>7, <1>8, <1>9

LEMMA PinsKeep ==
  ASSUME TieredInv, NEW s, Protect(s) \/ (s \in pins /\ Release(s))
  PROVE  TieredInv'
<1> USE DEF TieredInv, ListingIsRecord, OperatorsSeen, OperatorRespected, EveryGroupChosen, PinsHold,
            PruneAllowed, Settles
<1>1. CASE Protect(s)
  BY <1>1 DEF Protect, ToPin, file, Of
<1>2. CASE s \in pins /\ Release(s)
  <2>1. s \in pins \ chosen /\ s \notin operators
    BY <1>2 DEF Release, Releasable
  <2> QED
    BY <1>2, <2>1 DEF Release, file, Of
<1> QED
  BY <1>1, <1>2

LEMMA OthersKeep ==
  ASSUME TieredInv, Operator \/ Advance \/ (\E g \in Groups : Backup(g)) \/ UNCHANGED vars
  PROVE  TieredInv'
<1> USE DEF TieredInv, ListingIsRecord, OperatorsSeen, OperatorRespected, EveryGroupChosen, PinsHold,
            PruneAllowed, Settles, Of
<1>1. ASSUME NEW s \in local, OperatorProtects(s) PROVE TieredInv'
  BY <1>1 DEF OperatorProtects, Settling, file, run
<1>2. ASSUME NEW s \in local, OperatorReleases(s) PROVE TieredInv'
  BY <1>2 DEF OperatorReleases, file, run
<1>3. ASSUME NEW s \in local, OperatorDeletes(s) PROVE TieredInv'
  BY <1>3 DEF OperatorDeletes, file, run
<1>4. CASE Advance
  BY <1>4 DEF Advance, file, run
<1>5. ASSUME NEW g \in Groups, Backup(g) PROVE TieredInv'
  BY <1>5 DEF Backup, file, run
<1>6. CASE UNCHANGED vars
  BY <1>6 DEF vars, file, run
<1> QED
  BY <1>1, <1>2, <1>3, <1>4, <1>5, <1>6 DEF Operator

LEMMA TieredStep == TieredInv /\ [Next]_vars => TieredInv'
BY RunKeeps, PinsKeep, OthersKeep DEF Next

\* What the operator protected stays protected until the operator releases it
\* (set_protected and the pins of pbs-tiered.py).
THEOREM OperatorsFlags == Spec => []OperatorRespected
<1>1. TieredInv => OperatorRespected
  BY DEF TieredInv, OperatorsSeen
<1> QED
  BY TieredInit, TieredStep, <1>1, PTL DEF Spec

-----------------------------------------------------------------------------

\* Only a release and a prune take anything away.
LEMMA ReleaseKeepsRecoverable ==
  ASSUME TieredInv, NEW s \in pins, Release(s)
  PROVE  KeepsRecoverable
<1>1. /\ at = "pins" /\ s \notin chosen /\ chosen \subseteq listing.protected
      /\ protected' = protected \ {s} /\ UNCHANGED <<local, synced, confirmed>>
  BY DEF Release, Releasable, ToPin, file
<1>2. chosen \subseteq local \cap protected' \cap confirmed
  BY <1>1 DEF TieredInv, PinsHold, Settles
<1>3. \A g \in Groups : Recoverable(g)'
  BY <1>1, <1>2 DEF TieredInv, EveryGroupChosen, Settles, Recoverable, Of
<1> QED
  BY <1>1, <1>3 DEF KeepsRecoverable

LEMMA PruneKeepsRecoverable ==
  ASSUME TieredInv, Prune
  PROVE  KeepsRecoverable
<1>1. /\ local \cap protected \subseteq local'
      /\ UNCHANGED <<protected, synced, confirmed>> /\ synced \subseteq protected
  BY DEF Prune, file, TieredInv, PruneAllowed
<1> QED
  BY <1>1 DEF KeepsRecoverable, Recoverable, Of

LEMMA GrowingKeepsRecoverable ==
  ASSUME local \subseteq local', protected \subseteq protected', confirmed \subseteq confirmed'
  PROVE  KeepsRecoverable
BY DEF KeepsRecoverable, Recoverable, Of

\* No step of the program takes away what a group can be recovered from, nor a
\* snapshot of the last confirmed copy (daily and housekeeping of pbs-tiered.py).
THEOREM AlwaysRecoverable == Spec => StaysRecoverable
<1>1. ASSUME TieredInv, [Next]_vars PROVE [Operator \/ KeepsRecoverable]_vars
  <2>1. CASE \E s \in pins : Release(s)
    BY <1>1, <2>1, ReleaseKeepsRecoverable
  <2>2. CASE Prune
    BY <1>1, <2>2, PruneKeepsRecoverable
  <2>3. CASE Operator \/ UNCHANGED vars
    BY <2>3
  <2>4. CASE \/ Advance \/ RequireCopies \/ Own \/ Disown \/ Confirm \/ Housekeeping \/ RunEnds
             \/ \E g \in Groups : Backup(g)
             \/ \E good \in SUBSET local : VerifyAndSelect(good)
             \/ \E copied \in SUBSET chosen : Sync(copied)
             \/ \E s \in chosen : Protect(s)
    <3>1. local \subseteq local' /\ protected \subseteq protected' /\ confirmed \subseteq confirmed'
      BY <2>4 DEF Advance, RequireCopies, Own, Disown, Confirm, Housekeeping, RunEnds,
                  Backup, VerifyAndSelect, Sync, Protect
    <3> QED
      BY <3>1, GrowingKeepsRecoverable
  <2> QED
    BY <1>1, <2>1, <2>2, <2>3, <2>4 DEF Next
<1> QED
  BY TieredInit, TieredStep, <1>1, PTL DEF Spec, StaysRecoverable

-----------------------------------------------------------------------------
(* The lease of Loockit: one leader, any number of requests on their way *)

Requests == [from : Holders, method : {"POST", "PUT"}, version : Nat, sentAt : Nat]

LeaseType ==
  /\ time \in Nat
  /\ lease.version \in Nat /\ lease.renewedAt \in Nat
  /\ lease.askedAt \in Nat /\ lease.before \in Nat
  /\ asked \subseteq Requests
  /\ known \in [Holders -> Nat] /\ until \in [Holders -> Nat]

\* Nothing comes from the future.
NothingAhead ==
  /\ lease.renewedAt <= time
  /\ lease.version = 0 => lease.renewedAt = 0
  /\ \A h \in Holders : known[h] <= lease.version
  /\ \A r \in asked : r.version <= lease.version /\ r.sentAt <= time

\* Whoever knows the version of the record has learned it after the renewal, so
\* a request that names it is younger than the record.
NamesThePresent ==
  \A r \in asked : r.version = lease.version => r.sentAt >= lease.renewedAt

\* Who leads is the holder of the record, and leads no longer than its lease.
LeadsByRecord ==
  \A h \in Holders : Leads(h) =>
    /\ lease.version # 0 /\ lease.holder = h
    /\ until[h] <= lease.renewedAt + Duration

InOrder == lease.version > 0 => lease.askedAt >= lease.before

LeaseInv == LeaseType /\ NothingAhead /\ NamesThePresent /\ LeadsByRecord /\ InOrder

LEMMA LeaseInvInit ==
  ASSUME Duration \in Nat, LeaseInit
  PROVE  LeaseInv
BY DEF LeaseInit, NoLease, LeaseInv, LeaseType, NothingAhead, NamesThePresent,
       LeadsByRecord, InOrder, Leads

\* The step that matters: the record changes hands only after the time of the
\* former holder.
LEMMA GrantKeeps ==
  ASSUME Duration \in Nat, LeaseInv, NEW r \in asked, NEW answered \in BOOLEAN, Grant(r, answered)
  PROVE  LeaseInv'
<1> DEFINE h == r.from
<1>1. /\ r \in Requests /\ h \in Holders /\ r.sentAt \in Nat /\ r.version \in Nat
      /\ r.sentAt <= time
  BY DEF LeaseInv, LeaseType, NothingAhead, Requests
<1>2. /\ lease'.version = lease.version + 1 /\ lease'.holder = h
      /\ lease'.renewedAt = time /\ lease'.askedAt = r.sentAt
      /\ lease'.before = lease.renewedAt
      /\ time' = time /\ asked' = asked \ {r}
  BY DEF Grant
<1>3. /\ until' \in [Holders -> Nat] /\ known' \in [Holders -> Nat]
      /\ \A k \in Holders : k # h => until'[k] = until[k]
      /\ until'[h] = until[h] \/ until'[h] = r.sentAt + Duration
      /\ \A k \in Holders : known'[k] <= lease.version + 1
  BY <1>1 DEF Grant, Later, LeaseInv, LeaseType, NothingAhead
<1>4. LeaseType'
  BY <1>1, <1>2, <1>3 DEF LeaseInv, LeaseType
<1>5. NothingAhead'
  BY <1>1, <1>2, <1>3 DEF LeaseInv, LeaseType, NothingAhead, Requests
<1>6. NamesThePresent'
  BY <1>2 DEF LeaseInv, LeaseType, NothingAhead, NamesThePresent, Requests
<1>7. LeadsByRecord'
  <2> SUFFICES ASSUME NEW k \in Holders, time < until'[k]
               PROVE  k = h /\ until'[k] <= time + Duration
    BY <1>2, <1>1 DEF LeadsByRecord, Leads, LeaseInv, LeaseType
  <2>1. CASE k = h
    <3>1. CASE until'[h] = until[h]
      BY <2>1, <3>1 DEF LeaseInv, LeaseType, NothingAhead, LeadsByRecord, Leads
    <3>2. CASE until'[h] = r.sentAt + Duration
      BY <1>1, <2>1, <3>2 DEF LeaseInv, LeaseType
    <3> QED
      BY <1>3, <3>1, <3>2
  <2>2. CASE k # h
    <3>1. /\ Leads(k) /\ lease.version # 0 /\ lease.holder = k
          /\ time < lease.renewedAt + Duration
      BY <1>3, <2>2 DEF LeaseInv, LeaseType, LeadsByRecord, Leads
    <3>2. HeldByOther(h)
      BY <2>2, <3>1 DEF HeldByOther
    <3> QED
      BY <3>2 DEF Grant
  <2> QED
    BY <2>1, <2>2
<1>8. InOrder'
  <2>1. CASE lease.version = 0
    BY <1>1, <1>2, <2>1 DEF InOrder, LeaseInv, NothingAhead
  <2>2. CASE lease.version # 0 /\ r.version = lease.version
    BY <1>1, <1>2, <2>2 DEF InOrder, LeaseInv, NamesThePresent
  <2>3. lease.version = 0 \/ r.version = lease.version
    BY DEF Grant, MatchesRecord
  <2> QED
    BY <2>1, <2>2, <2>3
<1> QED
  BY <1>4, <1>5, <1>6, <1>7, <1>8 DEF LeaseInv

LEMMA LeaseStep ==
  ASSUME Duration \in Nat, LeaseInv, [LeaseNext]_leaseVars
  PROVE  LeaseInv'
<1> USE DEF LeaseInv, LeaseType, NothingAhead, NamesThePresent, LeadsByRecord, InOrder,
            Leads
<1>1. CASE \E r \in asked, answered \in BOOLEAN : Grant(r, answered)
  BY <1>1, GrantKeeps
<1>2. CASE \E r \in asked : Refuse(r)
  BY <1>2 DEF Refuse
<1>3. ASSUME NEW h \in Holders, GetRecord(h) PROVE LeaseInv'
  BY <1>3 DEF GetRecord
<1>4. ASSUME NEW h \in Holders, Ask(h) PROVE LeaseInv'
  <2> DEFINE r == [from |-> h, method |-> IF known[h] = 0 THEN "POST" ELSE "PUT",
                   version |-> known[h], sentAt |-> time]
  <2>1. r \in Requests
    BY DEF Requests
  <2>2. asked' = asked \cup {r} /\ UNCHANGED <<time, lease, known, until>>
    BY <1>4 DEF Ask
  <2>3. r.version <= lease.version /\ r.sentAt = time
    OBVIOUS
  <2> HIDE DEF r
  <2> QED
    BY <2>1, <2>2, <2>3
<1>5. ASSUME NEW h \in Holders, StepDown(h) PROVE LeaseInv'
  BY <1>5 DEF StepDown
<1>6. CASE Tick
  BY <1>6 DEF Tick, Requests
<1>7. CASE UNCHANGED leaseVars
  BY <1>7 DEF leaseVars
<1> QED
  BY <1>1, <1>2, <1>3, <1>4, <1>5, <1>6, <1>7 DEF LeaseNext

\* Two controllers never lead at the same time, and no request that is older
\* than the record it replaces is granted (operate of loockit-lease.ts).
THEOREM LeaseSafe ==
  ASSUME Duration \in Nat
  PROVE  LeaseSpec => []OneLeader
<1>1. LeaseInit => LeaseInv
  BY LeaseInvInit
<1>2. LeaseInv /\ [LeaseNext]_leaseVars => LeaseInv'
  BY LeaseStep
<1>3. LeaseInv => OneLeader
  BY DEF LeaseInv, LeadsByRecord, InOrder, OneLeader
<1> QED
  BY <1>1, <1>2, <1>3, PTL DEF LeaseSpec

-----------------------------------------------------------------------------
(* "PASSED" of the backup migration *)

MigrationType ==
  /\ source \in [Keys -> Nat] /\ target \in [Keys -> Nat]
  /\ listed \in [Keys -> Nat] /\ got \in [Keys -> Nat] /\ latest \in [Keys -> Nat]
  /\ task \in [Keys -> {"waiting", "read", "written", "done", "failed"}]

\* A run works on a target that keeps versions; what a thread has read is what
\* was listed, and what it is done with is in the target.
ThreadsInStep ==
  copyAt = "work" =>
    /\ versioned
    /\ \A k \in Keys :
         /\ task[k] \in {"read", "written", "done"} => got[k] = listed[k]
         /\ task[k] = "done" => target[k] = got[k]

\* The current versions are kept, and what has been proved, too, unless it has
\* expired under the rule, which the bucket with Object Lock does not have.
NothingLost ==
  /\ \A k \in Keys : target[k] # 0 => <<k, target[k]>> \in kept
  /\ proved \subseteq (Keys \X (Nat \ {0})) \cap (kept \cup expired)
  /\ rule \/ expired # {} => ~immutable

PassedIsComplete ==
  copyAt = "passed" => \A k \in Keys : latest[k] # 0 => target[k] = latest[k]

MigrationInv == MigrationType /\ ThreadsInStep /\ NothingLost /\ PassedIsComplete

LEMMA PutKeeps ==
  ASSUME MigrationInv, NEW k \in Keys, Put(k)
  PROVE  MigrationInv'
<1>1. /\ copyAt = "work" /\ copyAt' = "work" /\ versioned /\ versioned' = versioned
      /\ target' = [target EXCEPT ![k] = got[k]]
      /\ kept' = kept \cup {<<k, got[k]>>}
      /\ UNCHANGED <<proved, expired, rule, immutable>>
      /\ task' = [task EXCEPT ![k] = "written"]
      /\ UNCHANGED <<source, listed, got, latest>>
  BY DEF Put, Goes, MigrationInv, ThreadsInStep, settings
<1>2. MigrationType'
  BY <1>1 DEF MigrationInv, MigrationType
<1>3. ThreadsInStep'
  <2> SUFFICES ASSUME NEW l \in Keys
               PROVE  /\ task'[l] \in {"read", "written", "done"} => got[l] = listed[l]
                      /\ task'[l] = "done" => target'[l] = got[l]
    BY <1>1 DEF ThreadsInStep
  <2>1. task[k] = "read"
    BY DEF Put
  <2> QED
    BY <1>1, <2>1 DEF MigrationInv, MigrationType, ThreadsInStep
<1>4. NothingLost'
  <2>1. \A l \in Keys : target'[l] = IF l = k THEN got[k] ELSE target[l]
    BY <1>1 DEF MigrationInv, MigrationType
  <2> QED
    BY <1>1, <2>1 DEF MigrationInv, NothingLost
<1>5. PassedIsComplete'
  BY <1>1 DEF PassedIsComplete
<1> QED
  BY <1>2, <1>3, <1>4, <1>5 DEF MigrationInv

LEMMA PassesKeeps ==
  ASSUME MigrationInv, Passes
  PROVE  MigrationInv'
<1>1. /\ copyAt = "work" /\ copyAt' = "passed" /\ latest' = source /\ source = listed
      /\ proved' = proved \cup {<<k, target[k]>> : k \in Listed}
      /\ \A k \in Listed : task[k] = "done" /\ target[k] # 0
      /\ UNCHANGED <<source, target, listed, got, task, kept, expired, rule, immutable>>
  BY DEF Passes, SourceUnchanged, settings
<1>2. MigrationType' /\ ThreadsInStep'
  BY <1>1 DEF MigrationInv, MigrationType, ThreadsInStep
<1>3. NothingLost'
  <2>1. ASSUME NEW k \in Listed
        PROVE  <<k, target[k]>> \in (Keys \X (Nat \ {0})) \cap kept
    <3>1. k \in Keys /\ target[k] \in Nat /\ target[k] # 0
      BY <1>1 DEF Listed, MigrationInv, MigrationType
    <3> QED
      BY <3>1 DEF MigrationInv, NothingLost
  <2> QED
    BY <1>1, <2>1 DEF MigrationInv, NothingLost
<1>4. PassedIsComplete'
  BY <1>1 DEF MigrationInv, MigrationType, ThreadsInStep, PassedIsComplete, Listed
<1> QED
  BY <1>2, <1>3, <1>4 DEF MigrationInv

\* What expires is not current, and the bucket is not the one with Object Lock.
LEMMA ExpiresKeeps ==
  ASSUME MigrationInv, Expires
  PROVE  MigrationInv'
<1>1. PICK x \in Outdated : kept' = kept \ {x} /\ expired' = expired \cup {x}
  BY DEF Expires
<1>2. /\ rule /\ x \in kept /\ target[x[1]] # x[2]
      /\ UNCHANGED <<source, target, listed, got, latest, task, copyAt, versioned, rule,
                     immutable, proved>>
  BY DEF Expires, Outdated, settings
<1>3. ASSUME NEW k \in Keys, target[k] # 0 PROVE <<k, target[k]>> \in kept'
  BY <1>1, <1>2, <1>3 DEF MigrationInv, NothingLost
<1>4. NothingLost'
  BY <1>1, <1>2, <1>3 DEF MigrationInv, NothingLost
<1>5. MigrationType' /\ ThreadsInStep' /\ PassedIsComplete'
  BY <1>2 DEF MigrationInv, MigrationType, ThreadsInStep, PassedIsComplete
<1> QED
  BY <1>4, <1>5 DEF MigrationInv

LEMMA MigrationStep ==
  ASSUME MigrationInv, [MigrationNext]_migrationVars
  PROVE  MigrationInv'
<1> USE DEF MigrationInv, MigrationType, ThreadsInStep, NothingLost, PassedIsComplete
<1>1. CASE Configure
  BY <1>1 DEF Configure, versions
<1>2. ASSUME NEW op \in {"copy", "verify"}, Begin(op) PROVE MigrationInv'
  BY <1>2 DEF Begin, ValidSettings, Absent, settings, versions
<1>3. ASSUME NEW k \in Keys, Get(k) PROVE MigrationInv'
  <2>1. /\ got' = [got EXCEPT ![k] = listed[k]]
        /\ \E state \in {"read", "written"} : task' = [task EXCEPT ![k] = state]
        /\ task[k] = "waiting" /\ copyAt = "work"
        /\ UNCHANGED <<source, target, copyAt, listed, latest, versioned, rule, immutable,
                       kept, expired, proved>>
    BY <1>3 DEF Get, Goes, settings, versions
  <2> QED
    BY <2>1
<1>4. ASSUME NEW k \in Keys, Put(k) PROVE MigrationInv'
  BY <1>4, PutKeeps
<1>5. ASSUME NEW k \in Keys, Compare(k) PROVE MigrationInv'
  BY <1>5 DEF Compare, SameContent, Goes, settings, versions
<1>6. ASSUME NEW k \in Keys, TaskFails(k) PROVE MigrationInv'
  BY <1>6 DEF TaskFails, Goes, settings, versions
<1>7. CASE Passes
  BY <1>7, PassesKeeps
<1>8. CASE MigrationEnds \/ StopsVersioning
  BY <1>8 DEF MigrationEnds, StopsVersioning, settings, versions
<1>9. CASE Suspend \/ JobStarts \/ JobEnds
  BY <1>9 DEF Suspend, JobStarts, JobEnds, program, settings, versions
<1>10. ASSUME NEW k \in Keys, JobWrites(k) PROVE MigrationInv'
  BY <1>10 DEF JobWrites, program, settings, versions
<1>11. CASE UNCHANGED migrationVars
  BY <1>11 DEF migrationVars, program, settings, versions
<1>12. CASE Expires
  BY <1>12, ExpiresKeeps
<1> QED
  BY <1>1, <1>2, <1>3, <1>4, <1>5, <1>6, <1>7, <1>8, <1>9, <1>10, <1>11, <1>12
     DEF MigrationNext

\* A run that reports success has copied what the source held when it was
\* listed for the last time; what it has proved stays where there is Object Lock,
\* and elsewhere until it has been replaced and has expired
\* (copy, verify, configure and validate_settings of
\* migrate-shared-backups-idrive.py).
THEOREM MigrationSafe == MigrationSpec => []CopyComplete
<1>1. MigrationInit => MigrationInv
  BY DEF MigrationInit, Absent, MigrationInv, MigrationType, ThreadsInStep, NothingLost,
         PassedIsComplete
<1>2. MigrationInv /\ [MigrationNext]_migrationVars => MigrationInv'
  BY MigrationStep
<1>3. MigrationInv => CopyComplete
  <2> SUFFICES ASSUME MigrationInv, NEW x \in proved \ kept
               PROVE  ~immutable /\ x \in expired /\ target[x[1]] # x[2]
    BY DEF MigrationInv, PassedIsComplete, CopyComplete
  <2>1. PICK k \in Keys, n \in Nat \ {0} : x = <<k, n>>
    BY DEF MigrationInv, NothingLost
  <2>2. x \in expired /\ ~immutable
    BY DEF MigrationInv, NothingLost
  <2>3. target[k] # n
    BY <2>1 DEF MigrationInv, NothingLost
  <2> QED
    BY <2>1, <2>2, <2>3
<1> QED
  BY <1>1, <1>2, <1>3, PTL DEF MigrationSpec

-----------------------------------------------------------------------------
(* The reboots of the development host *)

RebootType == bootId \in Nat \ {0} /\ rebooted.due \in BOOLEAN

\* What is stored, or about to be, was shown before.
StoredIsAnnounced ==
  /\ saved = NoPlan \/ saved \in announced
  /\ saved \in [target : Nat, boot : Nat]
  /\ notifyAt = "save" => draft \in announced
  /\ draft \in [target : Nat, boot : Nat]
  /\ clock \in Nat

RebootInv == RebootType /\ StoredIsAnnounced /\ RebootAnnounced

LEMMA RebootStep ==
  ASSUME RebootInv, [DevNext]_devVars
  PROVE  RebootInv'
<1> USE DEF RebootInv, RebootType, StoredIsAnnounced, RebootAnnounced, NoPlan
<1>1. CASE Notify
  <2>1. Tomorrow \in Nat
    BY DEF Tomorrow
  <2> QED
    BY <1>1, <2>1 DEF Notify
<1>2. ASSUME NEW arrives \in BOOLEAN, NEW answered \in BOOLEAN, Send(arrives, answered)
      PROVE  RebootInv'
  BY <1>2 DEF Send
<1>3. CASE Save
  BY <1>3 DEF Save
<1>4. CASE RebootByPlan
  <2>1. saved # NoPlan /\ saved = [target |-> clock, boot |-> bootId] /\ required
    BY <1>4 DEF RebootByPlan, MayReboot
  <2>2. rebooted' = [plan |-> saved, due |-> TRUE]
    BY <1>4, <2>1 DEF RebootByPlan
  <2> QED
    BY <1>4, <2>1, <2>2 DEF RebootByPlan, NewBoot
<1>5. CASE RebootByHand
  BY <1>5 DEF RebootByHand, NewBoot
<1>6. CASE Killed
  BY <1>6 DEF Killed
<1>7. CASE Update \/ ClockTicks
  BY <1>7 DEF Update, ClockTicks, storedVars
<1>8. CASE UNCHANGED devVars
  BY <1>8 DEF devVars, storedVars
<1> QED
  BY <1>1, <1>2, <1>3, <1>4, <1>5, <1>6, <1>7, <1>8 DEF DevNext

\* A reboot by the program was announced for that time in that boot and was
\* still required (may_reboot and notify of dev-app-maintenance.py).
THEOREM AnnouncedReboots == DevSpec => []RebootAnnounced
<1>1. DevInit => RebootInv
  BY DEF DevInit, RebootInv, RebootType, StoredIsAnnounced, RebootAnnounced, NoPlan
<1>2. RebootInv /\ [DevNext]_devVars => RebootInv'
  BY RebootStep
<1>3. RebootInv => RebootAnnounced
  BY DEF RebootInv
<1> QED
  BY <1>1, <1>2, <1>3, PTL DEF DevSpec

-----------------------------------------------------------------------------
(* The reservations of annict-rec-sync *)

\* What the operator has, or had and deleted.
Settled == reserves \cup withdrawn

\* What the run believes to be reserved is; and what it has chosen is either of
\* the work at hand or settled.
SyncInv ==
  /\ existing \subseteq Settled
  /\ syncAt # "reserve" => matched = {}
  /\ syncAt # "idle" => wanted \ matched \subseteq Settled

\* Deletions and others' reservations never unsettle a programme.
LEMMA NeverUnsettled ==
  ASSUME \E p \in Ids : ReservedByOthers(p) \/ Withdrawn(p), SyncInv
  PROVE  SyncInv'
BY DEF ReservedByOthers, Withdrawn, SyncInv, Settled, syncVars

LEMMA ReserveKeeps ==
  ASSUME SyncInv, NEW p \in Ids, NEW made \in BOOLEAN, NEW answered \in BOOLEAN,
         Reserve(p, made, answered)
  PROVE  SyncInv'
<1>1. CASE answered
  BY <1>1 DEF Reserve, SyncInv, Settled, ToReserve
<1>2. CASE ~answered
  BY <1>2 DEF Reserve, SyncInv, Settled, ToReserve
<1> QED
  BY <1>1, <1>2

LEMMA SyncKeeps ==
  ASSUME SyncInv, [AnnictNext]_annictVars
  PROVE  SyncInv'
<1> USE DEF SyncInv, Settled
<1>1. CASE UNCHANGED annictVars
  BY <1>1 DEF annictVars, syncVars
<1>2. CASE \E page \in SUBSET (Works \ todo) : FetchPage(page)
  BY <1>2 DEF FetchPage
<1>3. CASE StartRun \/ FetchReserves \/ WorkDone \/ SyncEnds \/ NextDay
  BY <1>3 DEF StartRun, FetchReserves, WorkDone, SyncEnds, NextDay, ToReserve, syncVars
<1>4. ASSUME NEW w \in Works, Choose(w) PROVE SyncInv'
  <2>1. /\ matched = {} /\ wanted \subseteq Settled
        /\ matched' = Chosen(w) /\ wanted' = wanted \cup Chosen(w)
        /\ UNCHANGED <<existing, reserves, withdrawn>> /\ syncAt' = "reserve"
    BY <1>4 DEF Choose
  <2> QED
    BY <2>1
<1>5. ASSUME NEW w \in Works,
             NothingUpcoming(w) \/ Streams(w) \/ \E unknown \in BOOLEAN : Skip(w, unknown)
      PROVE  SyncInv'
  BY <1>5 DEF NothingUpcoming, Streams, Skip, syncVars
<1>6. CASE \E p \in Ids : ReservedByOthers(p) \/ Withdrawn(p)
  BY <1>6, NeverUnsettled
<1>7. ASSUME NEW p \in Ids, NEW made \in BOOLEAN, NEW answered \in BOOLEAN,
             Reserve(p, made, answered)
      PROVE  SyncInv'
  BY <1>7, ReserveKeeps
<1> QED
  BY <1>1, <1>2, <1>3, <1>4, <1>5, <1>6, <1>7 DEF AnnictNext

\* annict-rec-sync: a run that comes to its end has reserved what it chose, or
\* the operator has deleted it.
THEOREM ChosenIsReserved == AnnictSpec => []NothingMissed
<1>1. AnnictInit => SyncInv
  BY DEF AnnictInit, SyncInv, Settled
<1>2. SyncInv /\ [AnnictNext]_annictVars => SyncInv'
  BY SyncKeeps
<1>3. SyncInv => NothingMissed
  BY DEF SyncInv, Settled, NothingMissed, SyncComplete
<1> QED
  BY <1>1, <1>2, <1>3, PTL DEF AnnictSpec

-----------------------------------------------------------------------------
(* The access of the monitoring *)

Account == {"none", "own", "drifted", "foreign"}
Access ==
  [group : Account \ {"drifted"}, privilege : Account \ {"drifted"}, user : Account, key : Nat]

AccessType ==
  /\ legacy \in BOOLEAN /\ nas \in Access /\ view \in Access
  /\ issued \in Nat /\ created \in Nat

\* Where the module waits to create the account a, or has done so before.
Ahead(a) ==
  \/ setupAt = "group"
  \/ setupAt = "privilege" /\ a # "group"
  \/ setupAt = "user" /\ a = "user"

\* Nobody else changes the NAS while the module runs: what it has found is still
\* there, and the accounts behind it are its own.
AccountsInv ==
  setupAt # "idle" /\ ~legacy =>
    \A a \in Accounts :
      IF Ahead(a) THEN view[a] = nas[a] /\ nas[a] # "foreign" ELSE nas[a] = "own"

\* The second file is written after the first and names the key whose secret is
\* in it, which the module cannot see; from the creation of a key to its files
\* the module knows the key.
KeyInv ==
  /\ metaOf # 0 => secretOf = metaOf
  /\ setupAt \in {"group", "privilege", "user", "key"} =>
       /\ view.key = nas.key
       /\ secretOf # 0 \/ metaOf # 0 => secretOf = nas.key /\ metaOf = nas.key
  /\ setupAt \in {"saveSecret", "saveMetadata"} =>
       created # 0 /\ created = nas.key /\ metaOf = 0
  /\ setupAt = "saveMetadata" => secretOf = nas.key
  /\ setupAt = "done" => nas.key # 0 /\ secretOf = nas.key /\ metaOf = nas.key

\* The steps of the module, in order.
Steps ==
  {"idle", "group", "privilege", "user", "key", "saveSecret", "saveMetadata", "done"}

AccessInv == setupAt \in Steps /\ AccessType /\ AccountsInv /\ KeyInv

LEMMA EnsureKeeps ==
  ASSUME AccessInv,
         \/ Ensure("group", "privilege") \/ Ensure("privilege", "user") \/ Ensure("user", "key")
  PROVE  AccessInv'
<1> USE DEF Ensure, SetupGoes, AccessInv, Steps
<1>1. AccessType'
  BY DEF AccessType, Access, Account
<1>2. AccountsInv'
  <2>1. CASE Ensure("group", "privilege")
    BY <2>1 DEF AccountsInv, Accounts, Ahead, AccessType, Access, Account
  <2>2. CASE Ensure("privilege", "user")
    BY <2>2 DEF AccountsInv, Accounts, Ahead, AccessType, Access, Account
  <2>3. CASE Ensure("user", "key")
    BY <2>3 DEF AccountsInv, Accounts, Ahead, AccessType, Access, Account
  <2> QED
    BY <2>1, <2>2, <2>3
<1>3. KeyInv'
  BY DEF KeyInv, AccessType, Access, Account
<1> QED
  BY <1>1, <1>2, <1>3

LEMMA KeyStepsKeep ==
  ASSUME AccessInv,
         InspectNas \/ CreateKey \/ SaveSecret \/ SaveMetadata \/ KeyExists \/ SetupEnds
  PROVE  AccessInv'
<1> USE DEF SetupGoes, AccessInv, Steps
<1>1. CASE InspectNas
  <2>1. AccessType'
    BY <1>1 DEF InspectNas, AccessType, Access, Account
  <2>2. AccountsInv'
    BY <1>1 DEF InspectNas, AccountsInv, Ahead, ForeignAccounts, Accounts
  <2>3. KeyInv'
    BY <1>1 DEF InspectNas, KeyInv, FilesDiffer
  <2> QED
    BY <1>1, <2>1, <2>2, <2>3 DEF InspectNas
<1>2. CASE CreateKey
  <2>1. AccessType'
    BY <1>2 DEF CreateKey, AccessType, Access, Account
  <2>2. AccountsInv'
    BY <1>2 DEF CreateKey, AccountsInv, Ahead, Accounts, AccessType, Access, Account
  <2>3. KeyInv'
    BY <1>2 DEF CreateKey, KeyInv, AccessType, Access, Account
  <2> QED
    BY <1>2, <2>1, <2>2, <2>3 DEF CreateKey
<1>3. CASE SaveSecret \/ SaveMetadata \/ KeyExists \/ SetupEnds
  <2>1. AccessType'
    BY <1>3 DEF SaveSecret, SaveMetadata, KeyExists, SetupEnds, AccessType
  <2>2. AccountsInv'
    BY <1>3 DEF SaveSecret, SaveMetadata, KeyExists, SetupEnds, AccountsInv, Ahead, Accounts
  <2>3. KeyInv'
    BY <1>3 DEF SaveSecret, SaveMetadata, KeyExists, SetupEnds, KeyInv
  <2> QED
    BY <1>3, <2>1, <2>2, <2>3 DEF SaveSecret, SaveMetadata, KeyExists, SetupEnds
<1> QED
  BY <1>1, <1>2, <1>3

\* The administrator acts only while the module does not run.
LEMMA AdministratorKeeps ==
  ASSUME AccessInv,
         RevokesKey \/ RemovesFiles \/ \E a \in Accounts : ChangesAccount(a)
  PROVE  AccessInv'
<1>1. setupAt = "idle" /\ UNCHANGED <<setupAt, legacy, issued, created, view>>
  BY DEF RevokesKey, RemovesFiles, ChangesAccount, setupVars
<1>2. nas' \in Access
  BY DEF RevokesKey, RemovesFiles, ChangesAccount, Accounts, AccessInv, AccessType, Access, Account
<1>3. metaOf' # 0 => secretOf' = metaOf'
  BY DEF RevokesKey, RemovesFiles, ChangesAccount, AccessInv, KeyInv
<1> QED
  BY <1>1, <1>2, <1>3 DEF AccessInv, AccessType, AccountsInv, KeyInv, Steps

\* truenas_monitoring: a successful run leaves the current secret in its files,
\* and the monitoring its own account.
THEOREM SecretIsCurrent == AccessSpec => []SecretWorks
<1>1. AccessInit => AccessInv
  BY DEF AccessInit, Empty, AccessInv, AccessType, Access, Account, AccountsInv, KeyInv, Steps
<1>2. AccessInv /\ [AccessNext]_accessVars => AccessInv'
  <2>1. AccessInv /\ UNCHANGED accessVars => AccessInv'
    BY DEF accessVars, setupVars, AccessInv, AccessType, AccountsInv, Ahead, KeyInv
  <2> QED
    BY <2>1, EnsureKeeps, KeyStepsKeep, AdministratorKeeps DEF AccessNext
<1>3. AccessInv => SecretWorks
  BY DEF AccessInv, AccountsInv, Ahead, KeyInv, SecretWorks
<1> QED
  BY <1>1, <1>2, <1>3, PTL DEF AccessSpec

-----------------------------------------------------------------------------
(* The cutover of the Loockit pair *)

Container == [running : BOOLEAN, origin : {"old", "new", "none"}]

CutoverType ==
  /\ box \in [Hosts -> Container] /\ aside \in [Hosts -> {"old", "new", "none"}]
  /\ deploying \in [Hosts -> {"no", "pull", "swap", "run", "health"}]
  /\ cutAt \in {"idle", "stop", "deploy", "deploying", "await", "complete"}
  /\ cutAt # "idle" => active \in Hosts
  /\ cutAt \in {"deploy", "deploying", "await", "complete"} => stage \in Hosts

\* No deployment is under way on h, and it has switched: nothing undoes it.
SettledOn(h) == deploying[h] = "no" /\ Switched(h)

\* The host that served settles before the other one is deployed, and both
\* before the pair is awaited.
CutoverInv ==
  /\ CutoverType
  /\ cutAt \in {"deploy", "deploying"} /\ stage # active => SettledOn(active)
  /\ cutAt \in {"await", "complete"} => \A h \in Hosts : SettledOn(h)

LEMMA TheOther ==
  ASSUME NEW h \in Hosts
  PROVE  Other(h) \in Hosts /\ Other(h) # h /\ Hosts = {h, Other(h)}
<1>1. \E g \in Hosts : g # h
  BY HostsAssumption
<1> QED
  BY <1>1, HostsAssumption DEF Other

LEMMA ProgramKeeps ==
  ASSUME CutoverInv,
         \/ StopStandby \/ Deploy \/ Check \/ Complete \/ ProgramEnds
         \/ \E h \in Hosts : Inspect(h)
  PROVE  CutoverInv'
<1> USE DEF CutoverInv, CutoverType, Container, SettledOn, Switched, RunsOn
<1>1. CASE StopStandby
  <2>1. /\ Other(active) \in Hosts
        /\ box' = [box EXCEPT ![Other(active)] = [@ EXCEPT !.running = FALSE]]
    BY <1>1, TheOther DEF StopStandby
  <2>2. \A c \in Container : [c EXCEPT !.running = FALSE] \in Container
    OBVIOUS
  <2>3. box' \in [Hosts -> Container]
    <3> HIDE DEF Container
    <3> QED
      BY <2>1, <2>2
  <2> QED
    BY <1>1, <2>3 DEF StopStandby
<1>2. CASE Deploy
  BY <1>2 DEF Deploy, Deploys
<1>3. CASE Check
  <2>1. SettledOn(stage) /\ UNCHANGED <<box, aside, deploying, active>>
    BY <1>3 DEF Check
  <2>2. CASE stage = active
    BY <1>3, <2>1, <2>2, TheOther DEF Check
  <2>3. CASE stage # active
    <3>1. cutAt = "deploying" /\ active \in Hosts /\ stage \in Hosts /\ SettledOn(active)
      BY <1>3, <2>3 DEF Check
    <3>2. Hosts = {active, stage}
      <4> HIDE DEF CutoverInv, CutoverType, Container, SettledOn, Switched, RunsOn
      <4>1. Hosts = {active, Other(active)}
        BY <3>1, TheOther
      <4> QED
        BY <2>3, <3>1, <4>1
    <3> QED
      BY <1>3, <2>1, <2>3, <3>1, <3>2 DEF Check
  <2> QED
    BY <2>2, <2>3
<1>4. CASE Complete \/ ProgramEnds \/ \E h \in Hosts : Inspect(h)
  BY <1>4 DEF Complete, ProgramEnds, Inspect
<1> QED
  BY <1>1, <1>2, <1>3, <1>4

\* A deployment touches its own host only.
LEMMA DeploymentKeeps ==
  ASSUME CutoverInv, NEW h \in Hosts,
         \/ PutAside(h) \/ RunNew(h) \/ Healthy(h) \/ Rollback(h)
         \/ \E found \in BOOLEAN : Pulled(h, found)
  PROVE  CutoverInv'
<1>1. deploying[h] # "no" /\ UNCHANGED programVars
  BY DEF PutAside, RunNew, Healthy, Rollback, Pulled
<1>2. CutoverType'
  <2>1. \A c \in Container : c.origin \in {"old", "new", "none"} /\ [c EXCEPT !.running = FALSE] \in Container
    BY DEF Container
  <2>2. \A origin \in {"old", "new", "none"} : [running |-> TRUE, origin |-> origin] \in Container
    BY DEF Container
  <2>3. CASE PutAside(h)
    <3>1. box' = [box EXCEPT ![h] = [@ EXCEPT !.running = FALSE]]
      BY <2>3 DEF PutAside
    <3> QED
      BY <2>1, <2>3, <3>1 DEF CutoverInv, CutoverType, PutAside, Deploys, programVars
  <2>4. CASE RunNew(h)
    BY <2>2, <2>4 DEF CutoverInv, CutoverType, RunNew, Deploys, programVars
  <2>5. CASE Rollback(h)
    BY <2>2, <2>5 DEF CutoverInv, CutoverType, Rollback, Deploys, programVars
  <2>6. CASE Healthy(h) \/ \E found \in BOOLEAN : Pulled(h, found)
    BY <2>6 DEF CutoverInv, CutoverType, Healthy, Pulled, Deploys, programVars
  <2> QED
    BY <2>3, <2>4, <2>5, <2>6
<1>3. \A g \in Hosts \ {h} : box'[g] = box[g] /\ deploying'[g] = deploying[g]
  BY DEF CutoverInv, CutoverType, PutAside, RunNew, Healthy, Rollback, Pulled, Deploys
<1> QED
  BY <1>1, <1>2, <1>3 DEF CutoverInv, CutoverType, SettledOn, Switched, RunsOn, programVars

\* migrate-loockit-coordinator: completion means both containers have switched.
THEOREM CutoverIsComplete == CutoverSpec => []CompleteMeansSwitched
<1>1. CutoverInit => CutoverInv
  BY DEF CutoverInit, CutoverInv, CutoverType, Container
<1>2. CutoverInv /\ [CutoverNext]_cutoverVars => CutoverInv'
  <2>1. CutoverInv /\ UNCHANGED cutoverVars => CutoverInv'
    BY DEF cutoverVars, programVars, CutoverInv, CutoverType, SettledOn, Switched, RunsOn
  <2> QED
    BY <2>1, ProgramKeeps, DeploymentKeeps DEF CutoverNext
<1>3. CutoverInv => CompleteMeansSwitched
  BY DEF CutoverInv, SettledOn, Switched, CompleteMeansSwitched
<1> QED
  BY <1>1, <1>2, <1>3, PTL DEF CutoverSpec

-----------------------------------------------------------------------------
(* The plan of the independence test: container by container *)

LEMMA DivMod ==
  ASSUME NEW n \in Nat \ {0}, NEW a \in Nat
  PROVE  a \div n \in Nat /\ a % n \in 0..(n - 1) /\ a = n * (a \div n) + (a % n)
OBVIOUS

LEMMA TimesMonotonic ==
  ASSUME NEW n \in Nat, NEW a \in Nat, NEW b \in Nat, a <= b
  PROVE  n * a \in Nat /\ n * b \in Nat /\ n * a <= n * b
OBVIOUS

LEMMA PlanEntry ==
  ASSUME NEW i \in 1..Len(Plan)
  PROVE  \E q \in 0..(Len(Containers) - 1), r \in 0..(Len(Cidrs) - 1) :
           /\ i = Len(Cidrs) * q + r + 1
           /\ Plan[i] = <<Containers[q + 1], Cidrs[r + 1]>>
<1> DEFINE n == Len(Cidrs)
           m == Len(Containers)
           q == (i - 1) \div n
           r == (i - 1) % n
<1>1. n \in Nat /\ m \in Nat /\ m * n \in Nat
  BY ListsAssumption
<1>2. Len(Plan) = m * n /\ i \in 1..(m * n)
  BY <1>1 DEF Plan
<1>3. n # 0 /\ m # 0
  BY <1>1, <1>2
<1>4. q \in Nat /\ r \in 0..(n - 1) /\ i - 1 = n * q + r
  <2>1. i - 1 \in Nat /\ n \in Nat \ {0}
    BY <1>1, <1>2, <1>3
  <2> HIDE DEF n
  <2> QED
    BY <2>1, DivMod
<1>5. Plan[i] = <<Containers[q + 1], Cidrs[r + 1]>>
  BY <1>2, <1>4 DEF Plan
<1> HIDE DEF n, m, q, r
<1>6. q < m
  <2>1. CASE m <= q
    <3>1. n * m <= n * q /\ n * m \in Nat /\ n * q \in Nat
      BY <1>1, <1>4, <2>1, TimesMonotonic
    <3>2. n * m = m * n
      BY <1>1
    <3> QED
      BY <1>1, <1>2, <1>4, <3>1, <3>2
  <2> QED
    BY <1>1, <1>4, <2>1
<1>7. q \in 0..(m - 1) /\ i = n * q + r + 1
  BY <1>1, <1>2, <1>4, <1>6
<1> QED
  BY <1>4, <1>5, <1>7 DEF n, m

\* No pair is planned twice.
LEMMA PlanOnce ==
  ASSUME NEW i \in 1..Len(Plan), NEW j \in 1..Len(Plan), Plan[i] = Plan[j]
  PROVE  i = j
<1>1. PICK q \in 0..(Len(Containers) - 1), r \in 0..(Len(Cidrs) - 1) :
        i = Len(Cidrs) * q + r + 1 /\ Plan[i] = <<Containers[q + 1], Cidrs[r + 1]>>
  BY PlanEntry
<1>2. PICK p \in 0..(Len(Containers) - 1), s \in 0..(Len(Cidrs) - 1) :
        j = Len(Cidrs) * p + s + 1 /\ Plan[j] = <<Containers[p + 1], Cidrs[s + 1]>>
  BY PlanEntry
<1>3. Containers[q + 1] = Containers[p + 1] /\ Cidrs[r + 1] = Cidrs[s + 1]
  BY <1>1, <1>2
<1>4. q + 1 = p + 1 /\ r + 1 = s + 1
  BY <1>3, ListsAssumption DEF IsInjective
<1> QED
  BY <1>1, <1>2, <1>4

\* The first route of a container is planned before its other ones.
LEMMA FirstRoute ==
  ASSUME NEW i \in 1..Len(Plan), NEW j \in 1..Len(Plan), i < j, Plan[j][2] = Cidrs[1]
  PROVE  Plan[i][1] # Plan[j][1]
<1>1. PICK q \in 0..(Len(Containers) - 1), r \in 0..(Len(Cidrs) - 1) :
        i = Len(Cidrs) * q + r + 1 /\ Plan[i] = <<Containers[q + 1], Cidrs[r + 1]>>
  BY PlanEntry
<1>2. PICK p \in 0..(Len(Containers) - 1), s \in 0..(Len(Cidrs) - 1) :
        j = Len(Cidrs) * p + s + 1 /\ Plan[j] = <<Containers[p + 1], Cidrs[s + 1]>>
  BY PlanEntry
<1>3. s = 0
  <2>1. s + 1 \in DOMAIN Cidrs /\ 1 \in DOMAIN Cidrs /\ Cidrs[s + 1] = Cidrs[1]
    BY <1>2, ListsAssumption
  <2>2. s + 1 = 1
    BY <2>1, ListsAssumption DEF IsInjective
  <2> QED
    BY <2>2
<1>4. ASSUME Plan[i][1] = Plan[j][1] PROVE FALSE
  <2>1. q + 1 \in DOMAIN Containers /\ p + 1 \in DOMAIN Containers
    BY ListsAssumption
  <2>2. Containers[q + 1] = Containers[p + 1]
    BY <1>1, <1>2, <1>4
  <2>3. q = p
    BY <2>1, <2>2, ListsAssumption DEF IsInjective
  <2>4. Len(Cidrs) * q \in Nat
    BY ListsAssumption
  <2> QED
    BY <1>1, <1>2, <1>3, <2>3, <2>4
<1> QED
  BY <1>4

-----------------------------------------------------------------------------
(* The routes of the independence test *)

Planned == {Plan[i] : i \in 1..Len(Plan)}
Held == {changed[i] : i \in 1..Len(changed)}

\* What was added is a beginning of the plan, and what is to be added the rest.
InTurn ==
  /\ changed \in Seq(Planned) /\ toAdd \in Seq(Planned)
  /\ testAt \in {"show", "add", "cleanup"} =>
       \A i \in 1..Len(changed) : i \in 1..Len(Plan) /\ changed[i] = Plan[i]
  /\ testAt \in {"show", "add"} =>
       /\ Len(changed) + Len(toAdd) = Len(Plan)
       /\ \A i \in 1..Len(toAdd) : toAdd[i] = Plan[Len(changed) + i]
  /\ testAt = "add" => toAdd # <<>>

\* A route that the program knows to have added is there and is its own, unless
\* the container has been replaced, which the program then notices.
HeldIsOwn ==
  testAt \in {"show", "add", "cleanup"} =>
    \A r \in Held : r[1] \notin restarted => r \in routes \ foreign

\* The other routes of the test are accounted for.
Accounted ==
  /\ testAt \in {"show", "add", "cleanup", "ended"} =>
       routes \ foreign \subseteq Held \cup manual \cup unanswered
  /\ testAt = "idle" => routes = foreign
  /\ testAt = "ended" => changed = <<>>

Places == {"idle", "show", "add", "cleanup", "ended", "stopped"}

TestInv ==
  testAt \in Places /\ foreign \subseteq routes /\ InTurn /\ HeldIsOwn /\ Accounted

LEMMA PlanType == Plan \in Seq(Planned) /\ Len(Plan) \in Nat
<1>1. Len(Containers) * Len(Cidrs) \in Nat
  BY ListsAssumption
<1>2. Len(Plan) = Len(Containers) * Len(Cidrs) /\ DOMAIN Plan = 1..Len(Plan)
  BY <1>1 DEF Plan
<1>3. Plan = [i \in 1..Len(Plan) |-> Plan[i]]
  BY <1>2 DEF Plan
<1> QED
  BY <1>1, <1>2, <1>3 DEF Planned

LEMMA RestKeeps ==
  ASSUME TestInv,
         \/ \E i \in 1..Len(Plan) : OtherAdds(Plan[i])
         \/ \E i \in 1..Len(Containers) : ContainerRestarts(Containers[i])
  PROVE  TestInv'
<1>1. UNCHANGED <<testAt, toAdd, changed, manual, unanswered>>
  BY DEF OtherAdds, ContainerRestarts
<1>2. ASSUME NEW route, OtherAdds(route) PROVE TestInv'
  BY <1>1, <1>2 DEF OtherAdds, TestInv, InTurn, Held, HeldIsOwn, Accounted
<1>3. ASSUME NEW c, ContainerRestarts(c) PROVE TestInv'
  BY <1>1, <1>3 DEF ContainerRestarts, RoutesOf, TestInv, InTurn, Held, HeldIsOwn, Accounted
<1> QED
  BY <1>2, <1>3

LEMMA EndsKeep ==
  ASSUME TestInv, Watched \/ Interrupted \/ CleanedUp \/ CleanupStops \/ Inspected
  PROVE  TestInv'
<1> USE DEF TestInv, InTurn, Held, HeldIsOwn, Accounted, Places
<1>1. CASE Watched
  BY <1>1 DEF Watched, ToCleanup
<1>2. CASE Interrupted
  BY <1>2 DEF Interrupted, ToCleanup
<1>3. CASE CleanedUp
  BY <1>3 DEF CleanedUp
<1>4. CASE CleanupStops \/ Inspected
  BY <1>4 DEF CleanupStops, Inspected
<1> QED
  BY <1>1, <1>2, <1>3, <1>4

LEMMA StartKeeps ==
  ASSUME TestInv, StartTest
  PROVE  TestInv'
<1>1. changed' = <<>> /\ Len(changed') = 0 /\ toAdd' = Plan /\ Held' = {}
  BY DEF StartTest, Held
<1> QED
  BY <1>1, PlanType DEF StartTest, TestInv, InTurn, HeldIsOwn, Accounted, Places

\* A container whose process is looked up has no route of the test yet.
LEMMA ShowKeeps ==
  ASSUME TestInv, Show
  PROVE  TestInv'
<1>1. /\ testAt = "show" /\ testAt' = "add" /\ toAdd # <<>> /\ LookUp
      /\ UNCHANGED <<routes, foreign, toAdd, changed, manual, unanswered>>
  BY DEF Show
<1>2. InTurn' /\ Accounted'
  BY <1>1 DEF TestInv, InTurn, Accounted, Held
<1>3. HeldIsOwn'
  <2>1. CASE Head(toAdd)[2] = Cidrs[1]
    <3> DEFINE next == Len(changed) + 1
    <3>1. /\ Len(changed) \in Nat /\ Len(toAdd) \in Nat /\ Len(toAdd) > 0
          /\ Len(changed) + Len(toAdd) = Len(Plan) /\ Head(toAdd) = Plan[next]
      BY <1>1 DEF TestInv, InTurn
    <3>2. next \in 1..Len(Plan)
      BY <3>1
    <3>3. ASSUME NEW r \in Held PROVE r[1] # Head(toAdd)[1]
      <4>1. PICK i \in 1..Len(changed) : r = Plan[i] /\ i \in 1..Len(Plan)
        BY <1>1 DEF TestInv, InTurn, Held
      <4> QED
        BY <2>1, <3>1, <3>2, <4>1, FirstRoute
    <3> QED
      BY <1>1, <2>1, <3>3 DEF TestInv, HeldIsOwn, Held, LookUp
  <2>2. CASE Head(toAdd)[2] # Cidrs[1]
    BY <1>1, <2>2 DEF TestInv, HeldIsOwn, Held, LookUp
  <2> QED
    BY <2>1, <2>2
<1> QED
  BY <1>1, <1>2, <1>3 DEF TestInv, Places

LEMMA AddKeeps ==
  ASSUME TestInv, NEW added \in BOOLEAN, NEW answered \in BOOLEAN, Add(added, answered)
  PROVE  TestInv'
<1> DEFINE route == Head(toAdd)
<1>1. /\ testAt = "add" /\ (answered => added)
      /\ added => route[1] \notin restarted /\ route \notin routes
      /\ routes' = IF added THEN routes \cup {route} ELSE routes
      /\ unanswered' = IF added /\ ~answered THEN unanswered \cup {route} ELSE unanswered
      /\ changed' = IF answered THEN Append(changed, route) ELSE changed
      /\ UNCHANGED <<foreign, restarted, manual>>
  BY DEF Add, Noted
<1>2. /\ changed \in Seq(Planned) /\ toAdd \in Seq(Planned) /\ toAdd # <<>>
      /\ Len(changed) + Len(toAdd) = Len(Plan)
      /\ \A i \in 1..Len(changed) : i \in 1..Len(Plan) /\ changed[i] = Plan[i]
      /\ \A i \in 1..Len(toAdd) : toAdd[i] = Plan[Len(changed) + i]
  BY <1>1 DEF TestInv, InTurn
<1>3. route \in Planned /\ route = Plan[Len(changed) + 1]
  BY <1>2
<1>4. (foreign' \subseteq routes' /\ route \notin foreign) \/ ~added
  BY <1>1 DEF TestInv
<1> HIDE DEF route
<1>5. CASE answered
  <2>1. testAt' = "show" /\ toAdd' = Tail(toAdd) /\ changed' = Append(changed, route)
    BY <1>1, <1>5 DEF Add
  <2>2. InTurn'
    <3>1. /\ changed' \in Seq(Planned) /\ toAdd' \in Seq(Planned)
          /\ Len(changed') = Len(changed) + 1 /\ Len(toAdd') = Len(toAdd) - 1
          /\ \A i \in 1..Len(changed) : changed'[i] = changed[i]
          /\ changed'[Len(changed) + 1] = route
          /\ \A i \in 1..Len(toAdd') : toAdd'[i] = toAdd[i + 1]
      BY <1>2, <1>3, <2>1
    <3>2. \A i \in 1..Len(changed') : i \in 1..Len(Plan) /\ changed'[i] = Plan[i]
      BY <1>2, <1>3, <3>1
    <3>3. \A i \in 1..Len(toAdd') : toAdd'[i] = Plan[Len(changed') + i]
      BY <1>2, <3>1
    <3> QED
      BY <1>2, <2>1, <3>1, <3>2, <3>3 DEF InTurn
  <2>3. Held' = Held \cup {route}
    BY <1>2, <2>1 DEF Held
  <2>4. HeldIsOwn' /\ Accounted'
    BY <1>1, <1>4, <1>5, <2>1, <2>3 DEF TestInv, HeldIsOwn, Accounted
  <2> QED
    BY <1>1, <1>4, <1>5, <2>1, <2>2, <2>4 DEF TestInv, Places
<1>6. CASE ~answered
  <2>1. testAt' = "cleanup" /\ toAdd' = <<>> /\ changed' = changed
    BY <1>1, <1>6 DEF Add, ToCleanup
  <2>2. InTurn'
    BY <1>2, <2>1 DEF InTurn
  <2>3. HeldIsOwn' /\ Accounted'
    BY <1>1, <1>4, <1>6, <2>1 DEF TestInv, HeldIsOwn, Accounted, Held
  <2> QED
    BY <1>1, <2>1, <2>2, <2>3 DEF TestInv, Places
<1> QED
  BY <1>5, <1>6

\* A deletion touches one route, and each was added once.
LEMMA DeleteKeeps ==
  ASSUME TestInv, NEW deleted \in BOOLEAN, NEW answered \in BOOLEAN, Delete(deleted, answered)
  PROVE  TestInv'
<1> DEFINE route == Last(changed)
           n == Len(changed)
<1>1. /\ testAt = "cleanup" /\ changed # <<>> /\ (answered => deleted)
      /\ deleted => route[1] \notin restarted /\ route \in routes
      /\ routes' = IF deleted THEN routes \ {route} ELSE routes
      /\ manual' = IF answered THEN manual ELSE manual \cup {route}
      /\ changed' = Front(changed)
      /\ UNCHANGED <<foreign, restarted, testAt, toAdd, unanswered>>
  BY DEF Delete
<1>2. /\ changed \in Seq(Planned) /\ n \in Nat /\ n > 0 /\ route = changed[n]
      /\ \A i \in 1..n : i \in 1..Len(Plan) /\ changed[i] = Plan[i]
  BY <1>1 DEF TestInv, InTurn, Last
<1>3. /\ changed' \in Seq(Planned) /\ Len(changed') = n - 1
      /\ \A i \in 1..(n - 1) : changed'[i] = changed[i]
  <2>1. changed' = SubSeq(changed, 1, n - 1)
    BY <1>1 DEF Front
  <2>2. 1 \in Nat /\ n - 1 \in Nat /\ n - 1 <= Len(changed)
    BY <1>2
  <2> HIDE DEF n
  <2>3. changed' \in Seq(Planned)
    BY <1>2, <2>1, <2>2
  <2>4. Len(changed') = n - 1
    BY <1>2, <2>1, <2>2
  <2> QED
    BY <1>2, <2>1, <2>2, <2>3, <2>4
<1> HIDE DEF route, n
<1>4. /\ route \in Held /\ route \notin Held'
      /\ Held' \subseteq Held /\ Held \subseteq Held' \cup {route}
  <2>1. route \in Held
    BY <1>2 DEF Held, n
  <2>2. ASSUME NEW i \in 1..(n - 1) PROVE changed'[i] # route /\ changed'[i] \in Held
    BY <1>2, <1>3, PlanOnce DEF Held, n
  <2>3. ASSUME NEW i \in 1..n, changed[i] # route PROVE changed[i] \in Held'
    BY <1>2, <1>3, <2>3 DEF Held
  <2> QED
    BY <1>3, <2>1, <2>2, <2>3 DEF Held, n
<1>5. InTurn'
  BY <1>1, <1>2, <1>3 DEF TestInv, InTurn
<1>6. deleted => route \notin foreign
  BY <1>1, <1>4 DEF TestInv, HeldIsOwn
<1>7. HeldIsOwn' /\ Accounted' /\ foreign' \subseteq routes'
  BY <1>1, <1>4, <1>6 DEF TestInv, HeldIsOwn, Accounted
<1> QED
  BY <1>1, <1>5, <1>7 DEF TestInv

\* verify-loockit-independence: its routes are removed, and only its routes.
THEOREM OwnRoutesRemoved == TestSpec => []RoutesRestored
<1>1. TestInit => TestInv
  BY DEF TestInit, TestInv, Places, InTurn, HeldIsOwn, Accounted
<1>2. TestInv /\ [TestNext]_testVars => TestInv'
  <2>1. TestInv /\ UNCHANGED testVars => TestInv'
    BY DEF testVars, TestInv, InTurn, Held, HeldIsOwn, Accounted
  <2> QED
    BY <2>1, RestKeeps, EndsKeep, StartKeeps, ShowKeeps, AddKeeps, DeleteKeeps DEF TestNext
<1>3. TestInv => RoutesRestored
  BY DEF TestInv, Accounted, Held, RoutesRestored
<1> QED
  BY <1>1, <1>2, <1>3, PTL DEF TestSpec

-----------------------------------------------------------------------------
(* The door during a reboot *)

\* Only a process that runs leads.
LeaderRuns == alive \subseteq Pair /\ (leader = Nobody \/ leader \in alive)

\* From the second answer of the peer on it keeps the lease: nobody takes it
\* unless something fails.
PeerServes ==
  /\ handoffAt \in {"checkTunnels", "cleared", "down"} => leader = Peer
  /\ handoffAt \in {"cleared", "down"} => tunnels \ {Self} # {}

\* After the reboot: what was looked at runs, and what was seen serving leads.
SeenHolds ==
  /\ handoffAt = "recovering" => looked \subseteq alive /\ serving \subseteq {leader} \cap alive
  /\ handoffAt = "recovered" => alive = Pair /\ leader \in Pair /\ tunnels # {}

HandoffInv == LeaderRuns /\ (calm => PeerServes /\ SeenHolds)

LEMMA CheckKeeps ==
  ASSUME HandoffInv,
         \/ StartHandoff \/ SeePeer \/ SeeLocal \/ SeeTunnel \/ SeeTakeover \/ Timeout
         \/ CheckPeer \/ CheckTunnels \/ CheckAgain \/ Blocked \/ Reported
  PROVE  HandoffInv'
BY DEF StartHandoff, SeePeer, SeeLocal, SeeTunnel, SeeTakeover, Timeout, CheckPeer, CheckTunnels,
       CheckAgain, Blocked, Reported, AgentGoes, State, Connected, HandoffInv, LeaderRuns,
       PeerServes, SeenHolds

LEMMA RebootKeeps ==
  ASSUME HandoffInv, Stop \/ RestartLocal \/ Reboot \/ Booted
  PROVE  HandoffInv'
BY PairAssumption DEF Stop, RestartLocal, Reboot, Booted, AgentGoes, Pair, HandoffInv, LeaderRuns,
       PeerServes, SeenHolds

LEMMA RecoveryKeeps ==
  ASSUME HandoffInv, RecoveryCheck \/ Recovered \/ \E n \in Pair : LookAt(n)
  PROVE  HandoffInv'
<1> USE DEF HandoffInv, LeaderRuns, PeerServes, SeenHolds
<1>1. CASE RecoveryCheck
  BY <1>1 DEF RecoveryCheck
<1>2. CASE Recovered
  <2>1. serving # {} /\ tunnels # {}
    BY <1>2, FS_EmptySet DEF Recovered, Connected
  <2> QED
    BY <1>2, <2>1 DEF Recovered, AgentGoes
<1>3. ASSUME NEW n \in Pair, LookAt(n) PROVE HandoffInv'
  <2>1. n \in alive /\ (State(n) = "ready" => n = leader)
    BY <1>3 DEF LookAt, State
  <2>2. serving' \subseteq serving \cup (IF State(n) = "ready" THEN {n} ELSE {})
    BY <1>3 DEF LookAt
  <2> QED
    BY <1>3, <2>1, <2>2 DEF LookAt
<1> QED
  BY <1>1, <1>2, <1>3

\* A failure ends the calm; without one, a lease or a connector is only gained.
LEMMA PairKeeps ==
  ASSUME HandoffInv,
         \/ \E n \in Pair : \/ TakesOver(n) \/ ProcessStarts(n)
                            \/ \E dies \in BOOLEAN : ProcessFails(n, dies)
         \/ \E n \in Nodes : Disconnects(n) \/ Connects(n)
  PROVE  HandoffInv'
<1> USE DEF HandoffInv, LeaderRuns, agent
<1>1. ASSUME NEW n \in Pair, TakesOver(n) \/ ProcessStarts(n) PROVE HandoffInv'
  <2>1. CASE TakesOver(n)
    BY <1>1, <2>1, PairAssumption DEF TakesOver, PeerServes, SeenHolds, Pair
  <2>2. CASE ProcessStarts(n)
    BY <1>1, <2>2 DEF ProcessStarts, PeerServes, SeenHolds
  <2> QED
    BY <1>1, <2>1, <2>2
<1>2. ASSUME NEW n \in Pair, NEW dies \in BOOLEAN, ProcessFails(n, dies) PROVE HandoffInv'
  BY <1>2 DEF ProcessFails
<1>3. ASSUME NEW n \in Nodes, Disconnects(n) PROVE HandoffInv'
  BY <1>3 DEF Disconnects
<1>4. ASSUME NEW n \in Nodes, Connects(n) PROVE HandoffInv'
  BY <1>4 DEF Connects, PeerServes, SeenHolds
<1> QED
  BY <1>1, <1>2, <1>3, <1>4

\* maintenance-agent: the door stays operable while a hypervisor restarts.
THEOREM DoorServed == HandoffSpec => []StillServed
<1>1. HandoffInit => HandoffInv
  BY DEF HandoffInit, HandoffInv, LeaderRuns, PeerServes, SeenHolds
<1>2. HandoffInv /\ [HandoffNext]_handoffVars => HandoffInv'
  <2>1. HandoffInv /\ UNCHANGED handoffVars => HandoffInv'
    BY DEF handoffVars, agent, HandoffInv, LeaderRuns, PeerServes, SeenHolds
  <2> QED
    BY <2>1, CheckKeeps, RebootKeeps, RecoveryKeeps, PairKeeps DEF HandoffNext
<1>3. HandoffInv => StillServed
  BY DEF HandoffInv, PeerServes, SeenHolds, StillServed
<1> QED
  BY <1>1, <1>2, <1>3, PTL DEF HandoffSpec

-----------------------------------------------------------------------------
(* What MaintenanceFleet tells the operator *)

\* A stored message has its id for a nonce, and Discord shows a nonce once.
NoncesTell ==
  /\ \A r \in requests \cup shown : r.kind # "notice" => r.nonce = r.about
  /\ \A r, s \in shown : SameMessage(r, s) => r = s

\* What was queued and is not shown is still stored.
StoredOrShown ==
  /\ queued \in Nat
  /\ \A n \in 1..queued :
       \/ \E item \in table : item.id = n /\ ~item.edit
       \/ \E r \in shown : r.kind = "post" /\ r.about = n

\* A notice is sent for a time that is near, which nobody can schedule any more;
\* while that time stands, the plan keeps the nonce, and so one nonce is all that
\* is ever used for it.
NoticesAgree ==
  /\ \A r \in requests \cup shown : r.kind = "notice" =>
       /\ r.about \in near
       /\ reboot.scheduled /\ reboot.time = r.about =>
            reboot.noticeTime = r.about /\ reboot.nonce = r.nonce
  /\ \A r, s \in requests \cup shown :
       r.kind = "notice" /\ s.kind = "notice" /\ r.about = s.about => r.nonce = s.nonce

RebootPlan ==
  [time : Nat, revision : Nat, scheduled : BOOLEAN, notified : BOOLEAN,
   noticeTime : Nat, nonce : Nat, sent : BOOLEAN]

OutboxInv == reboot \in RebootPlan /\ drawn \in Nat /\ NoncesTell /\ StoredOrShown /\ NoticesAgree

LEMMA PlanKeeps ==
  ASSUME OutboxInv,
         \/ Acknowledged \/ Leaves
         \/ \E t \in Times :
              Approaches(t)
                \/ \E scheduled, forgets \in BOOLEAN : Reschedule(t, scheduled, forgets)
  PROVE  OutboxInv'
<1> USE DEF OutboxInv
<1>1. UNCHANGED <<outboxVars, noticeVars, discordVars>>
  BY DEF Acknowledged, Leaves, Approaches, Reschedule
<1>2. NoncesTell' /\ StoredOrShown' /\ drawn' \in Nat
  BY <1>1 DEF NoncesTell, SameMessage, StoredOrShown, outboxVars, noticeVars, discordVars
<1>3. reboot' \in RebootPlan /\ NoticesAgree'
  <2> USE DEF NoticesAgree, discordVars, RebootPlan
  <2>1. CASE Acknowledged
    BY <1>1, <2>1 DEF Acknowledged
  <2>2. CASE Leaves
    BY <1>1, <2>2 DEF Leaves, NoReboot
  <2>3. ASSUME NEW t \in Times, Approaches(t) PROVE reboot' \in RebootPlan /\ NoticesAgree'
    BY <1>1, <2>3 DEF Approaches
  <2>4. ASSUME NEW t \in Times, NEW scheduled \in BOOLEAN, NEW forgets \in BOOLEAN,
               Reschedule(t, scheduled, forgets)
        PROVE  reboot' \in RebootPlan /\ NoticesAgree'
    <3>1. /\ reboot' \in RebootPlan /\ reboot'.time = t /\ reboot'.scheduled = scheduled
          /\ near' = near
      <4> DEFINE revised == [reboot EXCEPT !.time = t, !.revision = @ + 1,
                                           !.scheduled = scheduled, !.notified = FALSE]
      <4>1. revised \in RebootPlan /\ revised.time = t /\ revised.scheduled = scheduled
        <5>1. t \in Nat /\ reboot.revision + 1 \in Nat
          BY TimesAssumption
        <5>2. revised.time = t /\ revised.scheduled = scheduled
          OBVIOUS
        <5>3. revised \in RebootPlan
          BY <5>1
        <5> QED
          BY <5>2, <5>3
      <4>2. /\ reboot' = IF forgets
                         THEN [revised EXCEPT !.noticeTime = 0, !.nonce = 0, !.sent = FALSE]
                         ELSE revised
            /\ near' = near
        BY <2>4 DEF Reschedule
      <4> HIDE DEF revised
      <4> QED
        BY <4>1, <4>2
    <3>2. scheduled => t \notin near
      BY <2>4 DEF Reschedule, Schedulable
    <3> QED
      BY <1>1, <3>1, <3>2
  <2> QED
    BY <2>1, <2>2, <2>3, <2>4
<1> QED
  BY <1>2, <1>3

LEMMA DeliveryKeeps ==
  ASSUME OutboxInv,
         DeliverStart \/ DeliverSend \/ \E yes \in BOOLEAN : Queue(yes) \/ DeliverEnd(yes)
  PROVE  OutboxInv'
<1> USE DEF OutboxInv
<1>1. UNCHANGED <<planVars, noticeVars, shown>>
  BY DEF DeliverStart, DeliverSend, Queue, DeliverEnd, discordVars
<1>2. \A r \in requests' \ requests : r.kind # "notice" /\ r.nonce = r.about
  <2>1. requests' \ requests \subseteq {Stored(First(deliver.rest))}
    BY DEF DeliverStart, DeliverSend, Queue, DeliverEnd, discordVars
  <2>2. \A item : Stored(item).kind # "notice" /\ Stored(item).nonce = Stored(item).about
    BY DEF Stored
  <2> QED
    BY <2>1, <2>2
<1>3. NoncesTell'
  BY <1>1, <1>2 DEF NoncesTell, SameMessage
<1>4. NoticesAgree'
  BY <1>1, <1>2 DEF NoticesAgree, planVars
<1>5. StoredOrShown'
  <2> USE DEF StoredOrShown
  <2>1. CASE DeliverStart \/ DeliverSend
    BY <1>1, <2>1 DEF DeliverStart, DeliverSend
  <2>2. ASSUME NEW edits \in BOOLEAN, Queue(edits) PROVE StoredOrShown'
    <3> DEFINE row == [id |-> queued + 1, edit |-> FALSE]
    <3>1. queued' = queued + 1 /\ table \subseteq table' /\ row \in table'
      BY <2>2 DEF Queue
    <3>2. row.id = queued + 1 /\ ~row.edit
      OBVIOUS
    <3> HIDE DEF row
    <3> QED
      BY <1>1, <3>1, <3>2
  <2>3. ASSUME NEW ok \in BOOLEAN, DeliverEnd(ok) PROVE StoredOrShown'
    <3> DEFINE item == First(deliver.rest)
    <3>1. /\ queued' = queued /\ table \ {item} \subseteq table'
          /\ ~ok => table' = table
          /\ ok => Answered(Stored(item))
      BY <2>3 DEF DeliverEnd, Kept
    <3> HIDE DEF item
    <3>2. ASSUME ok, ~item.edit PROVE \E r \in shown : r.kind = "post" /\ r.about = item.id
      <4>1. PICK r \in shown : SameMessage(Stored(item), r)
        BY <3>1, <3>2 DEF Answered
      <4>2. r.kind = "post" /\ r.nonce = item.id
        BY <3>2, <4>1 DEF SameMessage, Stored
      <4> QED
        BY <4>2 DEF NoncesTell
    <3> QED
      BY <1>1, <3>1, <3>2
  <2> QED
    BY <2>1, <2>2, <2>3
<1> QED
  BY <1>1, <1>3, <1>4, <1>5 DEF planVars, noticeVars

\* A time of which a notice is known keeps its nonce; any other draws one.
LEMMA RemindKeeps ==
  ASSUME OutboxInv, RemindStart \/ \E yes \in BOOLEAN : RemindEnd(yes)
  PROVE  OutboxInv'
<1> USE DEF OutboxInv
<1>1. CASE RemindStart
  <2> DEFINE nonce == IF Draws THEN drawn + 1 ELSE reboot.nonce
             notice == [kind |-> "notice", nonce |-> nonce, about |-> reboot.time]
  <2>1. /\ reboot.scheduled /\ reboot.time \in near /\ requests' = requests \cup {notice}
        /\ UNCHANGED <<near, outboxVars, shown>>
        /\ reboot' = IF Draws THEN [reboot EXCEPT !.noticeTime = reboot.time, !.nonce = nonce,
                                                  !.sent = FALSE]
                     ELSE reboot
        /\ drawn' = IF Draws THEN drawn + 1 ELSE drawn
    BY <1>1 DEF RemindStart
  <2>2. nonce \in Nat
    BY DEF RebootPlan
  <2>3. notice.kind = "notice" /\ notice.about = reboot.time /\ notice.nonce = nonce
    OBVIOUS
  <2>4. reboot' \in RebootPlan /\ drawn' \in Nat
    BY <2>1, <2>2 DEF RebootPlan
  <2>5. /\ reboot'.time = reboot.time /\ reboot'.noticeTime = reboot.time
        /\ reboot'.nonce = nonce
    BY <2>1 DEF RebootPlan, Draws
  <2>6. \A r \in requests \cup shown :
          r.kind = "notice" /\ r.about = reboot.time => r.nonce = nonce
    BY <2>1 DEF NoticesAgree, Draws
  <2> HIDE DEF nonce, notice
  <2>7. NoncesTell'
    BY <2>1, <2>3 DEF NoncesTell, SameMessage
  <2>8. StoredOrShown'
    BY <2>1 DEF StoredOrShown, outboxVars
  <2>9. NoticesAgree'
    BY <2>1, <2>3, <2>5, <2>6 DEF NoticesAgree
  <2> QED
    BY <2>4, <2>7, <2>8, <2>9
<1>2. ASSUME NEW ok \in BOOLEAN, RemindEnd(ok) PROVE OutboxInv'
  <2>1. /\ UNCHANGED <<near, outboxVars, drawn, discordVars>>
        /\ reboot' = reboot \/ reboot' = [reboot EXCEPT !.sent = TRUE]
    BY <1>2 DEF RemindEnd
  <2>2. /\ reboot' \in RebootPlan /\ reboot'.time = reboot.time /\ reboot'.nonce = reboot.nonce
        /\ reboot'.scheduled = reboot.scheduled /\ reboot'.noticeTime = reboot.noticeTime
    BY <2>1 DEF RebootPlan
  <2> QED
    BY <2>1, <2>2 DEF outboxVars, discordVars, NoncesTell, SameMessage, StoredOrShown, NoticesAgree
<1> QED
  BY <1>1, <1>2

\* Discord answers a known nonce by the message that it shows already.
LEMMA DiscordKeeps ==
  ASSUME OutboxInv, Restart \/ \E r \in requests : Arrives(r) \/ Vanishes(r)
  PROVE  OutboxInv'
<1> USE DEF OutboxInv
<1>1. UNCHANGED <<planVars, table, queued, drawn>>
  BY DEF Restart, Arrives, Vanishes, outboxVars, noticeVars
<1>2. /\ requests' \cup shown' \subseteq requests \cup shown /\ shown \subseteq shown'
      /\ shown' = shown \/ \E r \in requests : ~Answered(r) /\ shown' = shown \cup {r}
  BY DEF Restart, Arrives, Vanishes, discordVars
<1>3. NoncesTell'
  BY <1>2 DEF NoncesTell, Answered, SameMessage
<1>4. StoredOrShown'
  BY <1>1, <1>2 DEF StoredOrShown
<1>5. NoticesAgree'
  BY <1>1, <1>2 DEF NoticesAgree, planVars
<1> QED
  BY <1>1, <1>3, <1>4, <1>5 DEF planVars

\* maintenance-control: what is to be told is told, and not twice.
THEOREM EverythingToldOnce == OutboxSpec => []ToldOnce
<1>1. OutboxInit => OutboxInv
  BY DEF OutboxInit, NoReboot, OutboxInv, RebootPlan, NoncesTell, StoredOrShown, NoticesAgree
<1>2. OutboxInv /\ [OutboxNext]_messagesVars => OutboxInv'
  <2>1. OutboxInv /\ UNCHANGED messagesVars => OutboxInv'
    BY DEF messagesVars, planVars, outboxVars, noticeVars, discordVars, OutboxInv, NoncesTell,
           SameMessage, StoredOrShown, NoticesAgree
  <2> QED
    BY <2>1, PlanKeeps, DeliveryKeeps, RemindKeeps, DiscordKeeps DEF OutboxNext
<1>3. OutboxInv => ToldOnce
  BY DEF OutboxInv, NoncesTell, SameMessage, StoredOrShown, NoticesAgree, ToldOnce
<1> QED
  BY <1>1, <1>2, <1>3, PTL DEF OutboxSpec

-----------------------------------------------------------------------------
(* Bags, by the copies that they have of each record *)

Copies(e, B) == IF e \in DOMAIN B THEN B[e] ELSE 0
Single(e) == SetToBag({e})

LEMMA CopiesType ==
  ASSUME NEW B, IsABag(B), NEW e
  PROVE  Copies(e, B) \in Nat /\ (e \in DOMAIN B <=> Copies(e, B) > 0)
BY DEF IsABag, Copies

LEMMA CopiesOfSum ==
  ASSUME NEW A, IsABag(A), NEW B, IsABag(B)
  PROVE  IsABag(A (+) B) /\ \A e : Copies(e, A (+) B) = Copies(e, A) + Copies(e, B)
<1>1. DOMAIN (A (+) B) = DOMAIN A \cup DOMAIN B
  BY DEF (+)
<1>2. ASSUME NEW e \in DOMAIN (A (+) B) PROVE (A (+) B)[e] = Copies(e, A) + Copies(e, B)
  BY <1>2 DEF (+), Copies
<1>3. IsABag(A (+) B)
  <2>1. ASSUME NEW e \in DOMAIN (A (+) B) PROVE (A (+) B)[e] \in {n \in Nat : n > 0}
    BY <1>1, <1>2, CopiesType
  <2>2. A (+) B = [e \in DOMAIN (A (+) B) |-> (A (+) B)[e]]
    BY DEF (+)
  <2> QED
    BY <2>1, <2>2 DEF IsABag
<1>4. ASSUME NEW e PROVE Copies(e, A (+) B) = Copies(e, A) + Copies(e, B)
  BY <1>1, <1>2 DEF Copies
<1> QED
  BY <1>3, <1>4

LEMMA CopiesOfDifference ==
  ASSUME NEW A, IsABag(A), NEW B, IsABag(B)
  PROVE  /\ IsABag(A (-) B)
         /\ \A e : Copies(e, A (-) B) =
              IF Copies(e, A) > Copies(e, B) THEN Copies(e, A) - Copies(e, B) ELSE 0
<1> DEFINE D == [e \in DOMAIN A |-> IF e \in DOMAIN B THEN A[e] - B[e] ELSE A[e]]
<1>1. A (-) B = [e \in {d \in DOMAIN D : D[d] > 0} |-> D[e]]
  BY DEF (-)
<1>2. DOMAIN D = DOMAIN A /\ \A e \in DOMAIN A : D[e] = Copies(e, A) - Copies(e, B)
  BY DEF Copies, IsABag
<1> HIDE DEF D
<1>3. ASSUME NEW e \in DOMAIN (A (-) B) PROVE e \in DOMAIN A /\ (A (-) B)[e] = D[e] /\ D[e] > 0
  BY <1>1, <1>2
<1>4. IsABag(A (-) B)
  <2>1. ASSUME NEW e \in DOMAIN (A (-) B) PROVE (A (-) B)[e] \in {n \in Nat : n > 0}
    BY <1>2, <1>3, CopiesType
  <2>2. A (-) B = [e \in DOMAIN (A (-) B) |-> (A (-) B)[e]]
    BY <1>1
  <2> QED
    BY <2>1, <2>2 DEF IsABag
<1>5. ASSUME NEW e
      PROVE  Copies(e, A (-) B) =
               IF Copies(e, A) > Copies(e, B) THEN Copies(e, A) - Copies(e, B) ELSE 0
  <2>1. CASE e \in DOMAIN (A (-) B)
    BY <2>1, <1>2, <1>3, CopiesType DEF Copies
  <2>2. CASE e \notin DOMAIN (A (-) B)
    <3>1. e \in DOMAIN A => ~(D[e] > 0)
      BY <2>2, <1>1, <1>2
    <3> QED
      BY <2>2, <3>1, <1>2, CopiesType DEF Copies
  <2> QED
    BY <2>1, <2>2
<1> QED
  BY <1>4, <1>5

LEMMA CopiesOfSingle ==
  ASSUME NEW r
  PROVE  IsABag(Single(r)) /\ \A e : Copies(e, Single(r)) = IF e = r THEN 1 ELSE 0
BY DEF Single, SetToBag, IsABag, Copies

LEMMA CopiesOfEmpty == IsABag(EmptyBag) /\ \A e : Copies(e, EmptyBag) = 0
BY DEF EmptyBag, SetToBag, IsABag, Copies

LEMMA SubbagByCopies ==
  ASSUME NEW A, IsABag(A), NEW B, IsABag(B)
  PROVE  A \sqsubseteq B <=> \A e : Copies(e, A) <= Copies(e, B)
<1>1. ASSUME A \sqsubseteq B, NEW e PROVE Copies(e, A) <= Copies(e, B)
  BY <1>1, CopiesType DEF \sqsubseteq, Copies
<1>2. ASSUME \A e : Copies(e, A) <= Copies(e, B) PROVE A \sqsubseteq B
  <2>1. ASSUME NEW e \in DOMAIN A PROVE e \in DOMAIN B /\ A[e] <= B[e]
    <3>1. Copies(e, A) > 0 /\ Copies(e, A) <= Copies(e, B)
      BY <1>2, CopiesType
    <3>2. Copies(e, A) \in Nat /\ Copies(e, B) \in Nat
      BY CopiesType
    <3>3. e \in DOMAIN B
      BY <3>1, <3>2, CopiesType
    <3> QED
      BY <3>1, <3>3 DEF Copies
  <2> QED
    BY <2>1 DEF \sqsubseteq
<1> QED
  BY <1>1, <1>2

-----------------------------------------------------------------------------
(* The missed log records *)

BagsType == IsABag(visible) /\ IsABag(buffered) /\ IsABag(missing) /\ IsABag(delivered)

\* Every record of which there are more copies than the source has came from a
\* collector, even with all that is missing sent: so while a run is to list the
\* other machine, nothing may be on its way there but what collectors sent.
NothingMadeUp ==
  /\ \A e : Copies(e, visible) + Copies(e, buffered) + Copies(e, missing)
              <= Copies(e, Source) + Copies(e, delivered)
  /\ catchAt = "export" => \A e : Copies(e, buffered) <= Copies(e, delivered)

\* What the run sends it has read from the source.
FromSource == \A e : Copies(e, missing) <= Copies(e, Source)

WindowComplete == catchAt = "done" => \A e : Copies(e, Source) <= Copies(e, visible)

CatchUpInv == BagsType /\ NothingMadeUp /\ FromSource /\ WindowComplete

\* A record that is sent with its own group keeps its labels.
LEMMA ImportKeepsLabels ==
  ASSUME NEW r \in DOMAIN Source
  PROVE  Labelled(r, r.stream) = r
<1>1. PICK Label : DOMAIN Source \subseteq [stream : SUBSET Label, fields : SUBSET Label]
  BY SourceAssumption
<1>2. r.stream \cap r.fields = r.stream
  BY SourceAssumption
<1> QED
  BY <1>1, <1>2 DEF Labelled

LEMMA ExportKeeps ==
  ASSUME CatchUpInv, Export
  PROVE  CatchUpInv'
<1> USE DEF CatchUpInv
<1>1. IsABag(missing') /\ \A e : Copies(e, missing') =
        IF Copies(e, Source) > Copies(e, visible) THEN Copies(e, Source) - Copies(e, visible) ELSE 0
  BY SourceAssumption, CopiesOfDifference DEF Export, Missing, BagsType
<1>2. BagsType'
  BY <1>1 DEF Export, BagsType
<1>3. ASSUME NEW e
      PROVE  Copies(e, visible) + Copies(e, buffered) + Copies(e, missing')
               <= Copies(e, Source) + Copies(e, delivered)
  <2>1. /\ Copies(e, visible) \in Nat /\ Copies(e, buffered) \in Nat
        /\ Copies(e, Source) \in Nat /\ Copies(e, delivered) \in Nat /\ Copies(e, missing) \in Nat
    BY SourceAssumption, CopiesType DEF BagsType
  <2>2. /\ Copies(e, visible) + Copies(e, buffered) + Copies(e, missing)
             <= Copies(e, Source) + Copies(e, delivered)
        /\ Copies(e, buffered) <= Copies(e, delivered)
    BY DEF Export, NothingMadeUp
  <2> QED
    BY <1>1, <2>1, <2>2
<1>4. NothingMadeUp' /\ WindowComplete'
  BY <1>3 DEF Export, NothingMadeUp, WindowComplete
<1>5. FromSource'
  <2>1. ASSUME NEW e PROVE Copies(e, missing') <= Copies(e, Source)
    <3>1. Copies(e, Source) \in Nat /\ Copies(e, visible) \in Nat
      BY SourceAssumption, CopiesType DEF BagsType
    <3> QED
      BY <1>1, <3>1
  <2> QED
    BY <2>1 DEF FromSource
<1> QED
  BY <1>2, <1>4, <1>5

LEMMA ImportKeeps ==
  ASSUME CatchUpInv, NEW q \in DOMAIN missing, NEW accepted \in BOOLEAN, NEW answered \in BOOLEAN,
         Import(q.stream, accepted, answered)
  PROVE  CatchUpInv'
<1> USE DEF CatchUpInv
<1>1. PICK r \in Group(missing, q.stream) :
        /\ buffered' = IF accepted THEN buffered (+) SetToBag({Labelled(r, q.stream)}) ELSE buffered
        /\ missing' = missing (-) SetToBag({r})
  BY DEF Import
<1>2. r \in DOMAIN missing /\ r \in DOMAIN Source /\ Labelled(r, q.stream) = r
  <2>1. r \in DOMAIN missing /\ r.stream = q.stream
    BY DEF Group
  <2>2. Copies(r, missing) > 0 /\ Copies(r, missing) \in Nat /\ Copies(r, Source) \in Nat
    BY <2>1, SourceAssumption, CopiesType DEF BagsType
  <2>3. r \in DOMAIN Source
    BY <2>2, SourceAssumption, CopiesType DEF FromSource
  <2> QED
    BY <2>1, <2>3, ImportKeepsLabels
<1>3. /\ IsABag(missing')
      /\ \A e : Copies(e, missing') =
           IF Copies(e, missing) > Copies(e, Single(r))
             THEN Copies(e, missing) - Copies(e, Single(r)) ELSE 0
  BY <1>1, CopiesOfSingle, CopiesOfDifference DEF BagsType, Single
<1>4. /\ IsABag(buffered')
      /\ \A e : \/ Copies(e, buffered') = Copies(e, buffered)
                \/ Copies(e, buffered') = Copies(e, buffered) + Copies(e, Single(r))
  <2>1. CASE accepted
    <3>1. buffered' = buffered (+) Single(r)
      BY <1>1, <1>2, <2>1 DEF Single
    <3> QED
      BY <3>1, CopiesOfSingle, CopiesOfSum DEF BagsType
  <2>2. CASE ~accepted
    BY <1>1, <2>2 DEF BagsType
  <2> QED
    BY <2>1, <2>2
<1>5. UNCHANGED <<visible, delivered>> /\ catchAt' \in {"import", "idle"}
  BY DEF Import
<1>6. BagsType' /\ WindowComplete'
  BY <1>3, <1>4, <1>5 DEF BagsType, WindowComplete
<1>7. ASSUME NEW e
      PROVE  /\ Copies(e, visible) + Copies(e, buffered') + Copies(e, missing')
                  <= Copies(e, Source) + Copies(e, delivered)
             /\ Copies(e, missing') <= Copies(e, Source)
  <2>1. /\ Copies(e, visible) \in Nat /\ Copies(e, buffered) \in Nat
        /\ Copies(e, Source) \in Nat /\ Copies(e, delivered) \in Nat /\ Copies(e, missing) \in Nat
    BY SourceAssumption, CopiesType DEF BagsType
  <2>2. Copies(e, visible) + Copies(e, buffered) + Copies(e, missing)
          <= Copies(e, Source) + Copies(e, delivered)
    BY DEF NothingMadeUp
  <2>3. Copies(e, Single(r)) = IF e = r THEN 1 ELSE 0
    BY CopiesOfSingle
  <2>4. e = r => Copies(e, missing) > 0
    BY <1>2, CopiesType DEF BagsType
  <2>5. Copies(e, missing') = Copies(e, missing) - Copies(e, Single(r))
    BY <1>3, <2>1, <2>3, <2>4
  <2>6. Copies(e, buffered') <= Copies(e, buffered) + Copies(e, Single(r)) /\ Copies(e, buffered') \in Nat
    BY <1>4, <2>1, <2>3
  <2>7. Copies(e, missing) <= Copies(e, Source)
    BY DEF FromSource
  <2> QED
    BY <2>1, <2>2, <2>3, <2>5, <2>6, <2>7
<1> QED
  BY <1>5, <1>6, <1>7 DEF NothingMadeUp, FromSource

\* What becomes visible was on its way; what a collector sends is noted.
LEMMA OtherMachineKeeps ==
  ASSUME CatchUpInv,
         \/ \E r \in DOMAIN buffered : BecomesVisible(r)
         \/ \E r \in DOMAIN Source : DeliversLate(r)
  PROVE  CatchUpInv'
<1> USE DEF CatchUpInv
<1>1. ASSUME NEW r \in DOMAIN buffered, BecomesVisible(r) PROVE CatchUpInv'
  <2>0. /\ buffered' = buffered (-) Single(r) /\ visible' = visible (+) Single(r)
        /\ IsABag(Single(r)) /\ IsABag(buffered) /\ IsABag(visible)
    BY <1>1, CopiesOfSingle DEF BecomesVisible, BagsType, Single
  <2>1. /\ IsABag(buffered')
        /\ \A e : Copies(e, buffered') =
             IF Copies(e, buffered) > Copies(e, Single(r))
               THEN Copies(e, buffered) - Copies(e, Single(r)) ELSE 0
    BY <2>0, CopiesOfDifference
  <2>2. /\ IsABag(visible')
        /\ \A e : Copies(e, visible') = Copies(e, visible) + Copies(e, Single(r))
    BY <2>0, CopiesOfSum
  <2>3. UNCHANGED <<catchAt, missing, delivered>>
    BY <1>1 DEF BecomesVisible
  <2>4. ASSUME NEW e
        PROVE  /\ Copies(e, buffered') <= Copies(e, buffered)
               /\ Copies(e, visible') >= Copies(e, visible)
               /\ Copies(e, visible') + Copies(e, buffered') = Copies(e, visible) + Copies(e, buffered)
               /\ Copies(e, visible) \in Nat /\ Copies(e, buffered) \in Nat
               /\ Copies(e, visible') \in Nat /\ Copies(e, buffered') \in Nat
               /\ Copies(e, Source) \in Nat /\ Copies(e, delivered) \in Nat
               /\ Copies(e, missing) \in Nat
    <3>1. /\ Copies(e, visible) \in Nat /\ Copies(e, buffered) \in Nat
          /\ Copies(e, Source) \in Nat /\ Copies(e, delivered) \in Nat
          /\ Copies(e, missing) \in Nat
      BY SourceAssumption, CopiesType DEF BagsType
    <3>2. Copies(e, Single(r)) = IF e = r THEN 1 ELSE 0
      BY CopiesOfSingle
    <3>3. e = r => Copies(e, buffered) > 0
      BY CopiesType DEF BagsType
    <3> QED
      BY <2>1, <2>2, <3>1, <3>2, <3>3
  <2>5. BagsType' /\ FromSource'
    BY <2>1, <2>2, <2>3 DEF BagsType, FromSource
  <2>6. NothingMadeUp' /\ WindowComplete'
    BY <2>3, <2>4 DEF NothingMadeUp, WindowComplete
  <2> QED
    BY <2>5, <2>6
<1>2. ASSUME NEW r \in DOMAIN Source, DeliversLate(r) PROVE CatchUpInv'
  <2>0. /\ buffered' = buffered (+) Single(r) /\ delivered' = delivered (+) Single(r)
        /\ IsABag(Single(r)) /\ IsABag(buffered) /\ IsABag(delivered)
    BY <1>2, CopiesOfSingle DEF DeliversLate, BagsType, Single
  <2>1. /\ IsABag(buffered')
        /\ \A e : Copies(e, buffered') = Copies(e, buffered) + Copies(e, Single(r))
    BY <2>0, CopiesOfSum
  <2>2. /\ IsABag(delivered')
        /\ \A e : Copies(e, delivered') = Copies(e, delivered) + Copies(e, Single(r))
    BY <2>0, CopiesOfSum
  <2>3. UNCHANGED <<catchAt, visible, missing>>
    BY <1>2 DEF DeliversLate
  <2>4. ASSUME NEW e
        PROVE  /\ Copies(e, visible) \in Nat /\ Copies(e, buffered) \in Nat
               /\ Copies(e, Source) \in Nat /\ Copies(e, delivered) \in Nat
               /\ Copies(e, missing) \in Nat /\ Copies(e, Single(r)) \in Nat
    BY SourceAssumption, CopiesType, CopiesOfSingle DEF BagsType
  <2>5. BagsType' /\ FromSource' /\ WindowComplete'
    BY <2>1, <2>2, <2>3 DEF BagsType, FromSource, WindowComplete
  <2>6. NothingMadeUp'
    BY <2>1, <2>2, <2>3, <2>4 DEF NothingMadeUp
  <2> QED
    BY <2>5, <2>6
<1> QED
  BY <1>1, <1>2

LEMMA WindowKeeps ==
  ASSUME CatchUpInv, BeginWindow \/ ImportsDone \/ Matches \/ Fails \/ Restored
  PROVE  CatchUpInv'
<1> USE DEF CatchUpInv
<1>1. \A e : /\ Copies(e, visible) \in Nat /\ Copies(e, buffered) \in Nat
             /\ Copies(e, Source) \in Nat /\ Copies(e, delivered) \in Nat
             /\ Copies(e, missing) \in Nat
  BY SourceAssumption, CopiesType DEF BagsType
<1>2. CASE BeginWindow
  <2>1. \A e : Copies(e, buffered) = 0
    BY <1>2, CopiesOfEmpty DEF BeginWindow
  <2> QED
    BY <1>1, <1>2, <2>1 DEF BeginWindow, BagsType, NothingMadeUp, FromSource, WindowComplete
<1>3. CASE ImportsDone
  BY <1>3 DEF ImportsDone, BagsType, NothingMadeUp, FromSource, WindowComplete
<1>4. CASE Matches
  <2>1. ASSUME NEW e PROVE Copies(e, Source) <= Copies(e, visible)
    <3>1. Copies(e, Missing(visible)) = 0
      BY <1>4, CopiesOfEmpty DEF Matches
    <3>2. Copies(e, Missing(visible)) =
            IF Copies(e, Source) > Copies(e, visible)
              THEN Copies(e, Source) - Copies(e, visible) ELSE 0
      BY SourceAssumption, CopiesOfDifference DEF Missing, BagsType
    <3> QED
      BY <1>1, <3>1, <3>2
  <2> QED
    BY <1>4, <2>1 DEF Matches, BagsType, NothingMadeUp, FromSource, WindowComplete
<1>5. CASE Fails
  <2>1. IsABag(missing') /\ (\A e : Copies(e, missing') = 0)
    BY <1>5, CopiesOfEmpty DEF Fails
  <2>2. NothingMadeUp'
    BY <1>1, <1>5, <2>1 DEF Fails, NothingMadeUp
  <2> QED
    BY <1>1, <1>5, <2>1, <2>2 DEF Fails, BagsType, FromSource, WindowComplete
<1>6. CASE Restored
  <2>1. /\ IsABag(visible') /\ IsABag(buffered') /\ IsABag(delivered')
        /\ \A e : Copies(e, visible') = 0 /\ Copies(e, buffered') = 0 /\ Copies(e, delivered') = 0
    BY <1>6, CopiesOfEmpty DEF Restored
  <2> QED
    BY <1>1, <1>6, <2>1 DEF Restored, BagsType, NothingMadeUp, FromSource, WindowComplete
<1> QED
  BY <1>2, <1>3, <1>4, <1>5, <1>6

\* controller: a caught-up window is complete, and nothing in it is made up.
THEOREM WindowCaughtUp == CatchUpSpec => []CaughtUp
<1>1. CatchUpInit => CatchUpInv
  <2>1. ASSUME CatchUpInit PROVE CatchUpInv
    <3>1. BagsType
      BY <2>1, CopiesOfEmpty DEF CatchUpInit, BagsType
    <3>2. ASSUME NEW e
          PROVE  /\ Copies(e, visible) = 0 /\ Copies(e, buffered) = 0
                 /\ Copies(e, missing) = 0 /\ Copies(e, delivered) = 0
                 /\ Copies(e, Source) \in Nat
      BY <2>1, CopiesOfEmpty, SourceAssumption, CopiesType DEF CatchUpInit
    <3> QED
      BY <2>1, <3>1, <3>2 DEF CatchUpInit, CatchUpInv, NothingMadeUp, FromSource, WindowComplete
  <2> QED
    BY <2>1
<1>2. CatchUpInv /\ [CatchUpNext]_catchUpVars => CatchUpInv'
  <2>1. CatchUpInv /\ UNCHANGED catchUpVars => CatchUpInv'
    BY DEF catchUpVars, CatchUpInv, BagsType, NothingMadeUp, FromSource, WindowComplete
  <2> QED
    BY <2>1, ExportKeeps, ImportKeeps, OtherMachineKeeps, WindowKeeps DEF CatchUpNext
<1>3. CatchUpInv => CaughtUp
  <2>1. ASSUME CatchUpInv PROVE CaughtUp
    <3>1. IsABag(Source) /\ BagsType
      BY <2>1, SourceAssumption DEF CatchUpInv
    <3>2. catchAt = "done" => Source \sqsubseteq visible
      BY <2>1, <3>1, SubbagByCopies DEF CatchUpInv, BagsType, WindowComplete
    <3>3. /\ IsABag(visible (+) buffered) /\ IsABag(Source (+) delivered)
          /\ \A e : /\ Copies(e, visible (+) buffered) = Copies(e, visible) + Copies(e, buffered)
                    /\ Copies(e, Source (+) delivered) = Copies(e, Source) + Copies(e, delivered)
      BY <3>1, CopiesOfSum DEF BagsType
    <3>4. ASSUME NEW e
          PROVE  Copies(e, visible (+) buffered) <= Copies(e, Source (+) delivered)
      <4>1. /\ Copies(e, visible) \in Nat /\ Copies(e, buffered) \in Nat
            /\ Copies(e, Source) \in Nat /\ Copies(e, delivered) \in Nat
            /\ Copies(e, missing) \in Nat
        BY <3>1, CopiesType DEF BagsType
      <4>2. Copies(e, visible) + Copies(e, buffered) + Copies(e, missing)
              <= Copies(e, Source) + Copies(e, delivered)
        BY <2>1 DEF CatchUpInv, NothingMadeUp
      <4> QED
        BY <3>3, <4>1, <4>2
    <3>5. visible (+) buffered \sqsubseteq Source (+) delivered
      BY <3>3, <3>4, SubbagByCopies
    <3> QED
      BY <3>2, <3>5 DEF CaughtUp
  <2> QED
    BY <2>1
<1> QED
  BY <1>1, <1>2, <1>3, PTL DEF CatchUpSpec

-----------------------------------------------------------------------------
(* The snapshots of the monitor *)

Kinds == {"recorder", "devices", "secrets", "tuners", "backups"}
Asked == {"reserves", "recording", "recorded", "items", "details", "local", "archive"}

MonitorType ==
  /\ minute \in Nat /\ minute # 0 /\ pollStart \in Nat
  /\ kind \in Kinds /\ pollAt \in Nat /\ pollAt <= Len(PollRequests[kind])
  /\ recording \in [Reservations -> {"reserved", "recording", "recorded"}]
  /\ DOMAIN answers = Asked /\ (pollAt = 0 => answers = NoAnswers)
  /\ pollAt # 0 => pollStart <= minute /\ minute <= pollStart + 1

\* Nobody may miss r yet when this poll begins, or its start was missed.
Excused(r) == r \in late \/ pollStart <= StartAt[r] + 1

\* A recording passes from one list of the recorder to the next, in the order
\* in which they are requested.
RecorderInv ==
  /\ \A r \in Reservations : recording[r] = "reserved" /\ StartAt[r] + 1 < minute => r \in late
  /\ answers.reserves \subseteq Reservations
  /\ pollAt >= 2 => \A r \in Reservations \ answers.recording : recording[r] = "recorded" \/ Excused(r)
  /\ pollAt >= 3 => \A r \in Reservations \ (answers.recording \cup answers.recorded) : Excused(r)

ItemsInv ==
  pollAt # 0 => /\ up \subseteq during
                /\ Working(answers.items) \subseteq during /\ Working(answers.details) \subseteq during

\* A copy is of a complete backup, and a complete backup stays.
BackupsInv ==
  /\ archived \subseteq finished /\ finished \subseteq written /\ written \subseteq 1..minute
  /\ Working(answers.local) \subseteq finished /\ answers.archive \subseteq archived

MonitorInv ==
  /\ MonitorType /\ SnapshotTruthful
  /\ kind = "recorder" => RecorderInv
  /\ kind \in {"devices", "secrets", "tuners"} => ItemsInv
  /\ kind = "backups" => BackupsInv

LEMMA Nothing == DOMAIN NoAnswers = Asked /\ \A q \in Asked : NoAnswers[q] = {}
<1>1. DOMAIN PollRequests = Kinds
  BY DEF PollRequests, Kinds
<1>2. /\ Range(PollRequests["recorder"]) = {"reserves", "recording", "recorded"}
      /\ Range(PollRequests["devices"]) = {"items", "details"}
      /\ Range(PollRequests["secrets"]) = {"items"}
      /\ Range(PollRequests["tuners"]) = {"items"}
      /\ Range(PollRequests["backups"]) = {"local", "archive"}
  BY DEF PollRequests, Range
<1>3. UNION {Range(PollRequests[k]) : k \in DOMAIN PollRequests} = Asked
  BY <1>1, <1>2 DEF Kinds, Asked
<1> QED
  BY <1>3 DEF NoAnswers

\* The requests, kind by kind.
LEMMA Order ==
  ASSUME kind \in Kinds, pollAt \in Nat
  PROVE  /\ kind = "recorder" =>
              /\ Len(PollRequests[kind]) = 3
              /\ pollAt = 0 => PollRequest = "reserves"
              /\ pollAt = 1 => PollRequest = "recording"
              /\ pollAt = 2 => PollRequest = "recorded"
         /\ kind = "devices" =>
              /\ Len(PollRequests[kind]) = 2
              /\ pollAt = 0 => PollRequest = "items"
              /\ pollAt = 1 => PollRequest = "details"
         /\ kind \in {"secrets", "tuners"} =>
              /\ Len(PollRequests[kind]) = 1
              /\ pollAt = 0 => PollRequest = "items"
         /\ kind = "backups" =>
              /\ Len(PollRequests[kind]) = 2
              /\ pollAt = 0 => PollRequest = "local"
              /\ pollAt = 1 => PollRequest = "archive"
<1>1. /\ PollRequests["recorder"] = <<"reserves", "recording", "recorded">>
      /\ PollRequests["devices"] = <<"items", "details">>
      /\ PollRequests["secrets"] = <<"items">> /\ PollRequests["tuners"] = <<"items">>
      /\ PollRequests["backups"] = <<"local", "archive">>
  BY DEF PollRequests
<1>2. /\ Len(PollRequests["recorder"]) = 3 /\ PollRequests["recorder"][1] = "reserves"
      /\ PollRequests["recorder"][2] = "recording" /\ PollRequests["recorder"][3] = "recorded"
  BY <1>1
<1>3. /\ Len(PollRequests["devices"]) = 2
      /\ PollRequests["devices"][1] = "items" /\ PollRequests["devices"][2] = "details"
  BY <1>1
<1>4. /\ Len(PollRequests["secrets"]) = 1 /\ PollRequests["secrets"][1] = "items"
      /\ Len(PollRequests["tuners"]) = 1 /\ PollRequests["tuners"][1] = "items"
  BY <1>1
<1>5. /\ Len(PollRequests["backups"]) = 2
      /\ PollRequests["backups"][1] = "local" /\ PollRequests["backups"][2] = "archive"
  BY <1>1
<1>6. 0 + 1 = 1 /\ 1 + 1 = 2 /\ 2 + 1 = 3
  OBVIOUS
<1>7. CASE kind = "recorder"
  BY <1>2, <1>6, <1>7, Zenon DEF PollRequest
<1>8. CASE kind = "devices"
  BY <1>3, <1>6, <1>8, Zenon DEF PollRequest
<1>9. CASE kind \in {"secrets", "tuners"}
  BY <1>4, <1>6, <1>9, Zenon DEF PollRequest
<1>10. CASE kind = "backups"
  BY <1>5, <1>6, <1>10, Zenon DEF PollRequest
<1> QED
  BY <1>7, <1>8, <1>9, <1>10 DEF Kinds

LEMMA WorkOf == ASSUME NEW S PROVE Working(States(S)) = S \cap up /\ Names(States(S)) = S
<1>1. ASSUME NEW i PROVE <<i, i \in up>>[1] = i /\ (<<i, i \in up>>[2] <=> i \in up)
  BY Zenon
<1>2. ASSUME NEW i PROVE i \in Names(States(S)) <=> i \in S
  <2>1. ASSUME i \in Names(States(S)) PROVE i \in S
    <3>1. PICK row \in States(S) : i = row[1]
      BY <2>1, Zenon DEF Names
    <3>2. PICK s \in S : row = <<s, s \in up>>
      BY Zenon DEF States
    <3> QED
      BY <1>1, <3>1, <3>2, Zenon
  <2>2. ASSUME i \in S PROVE i \in Names(States(S))
    <3>1. <<i, i \in up>> \in States(S)
      BY <2>2, Zenon DEF States
    <3> QED
      BY <1>1, <3>1, Zenon DEF Names
  <2> QED
    BY <2>1, <2>2
<1>3. ASSUME NEW i \in Working(States(S)) PROVE i \in S \cap up
  <2>1. PICK row \in States(S) : row[2] /\ i = row[1]
    BY Zenon DEF Working, Names
  <2>2. PICK s \in S : row = <<s, s \in up>>
    BY Zenon DEF States
  <2> QED
    BY <1>1, <2>1, <2>2, Zenon
<1>4. ASSUME NEW i \in S \cap up PROVE i \in Working(States(S))
  <2>1. <<i, i \in up>> \in States(S)
    BY Zenon DEF States
  <2> QED
    BY <1>1, <2>1, Zenon DEF Working, Names
<1> QED
  BY <1>2, <1>3, <1>4

LEMMA WorkEmpty == Working({}) = {} /\ Names({}) = {}
BY DEF Working, Names

LEMMA WorkTogether == ASSUME NEW S, NEW T PROVE Working(S \cup T) = Working(S) \cup Working(T)
BY DEF Working, Names

LEMMA MonitorStarts == MonitorInit => MonitorInv
<1> SUFFICES ASSUME MonitorInit PROVE MonitorInv
  OBVIOUS
<1>1. kind \in Kinds
  BY DEF MonitorInit, Kinds, PollRequests
<1>2. /\ answers.reserves = {} /\ answers.items = {} /\ answers.details = {}
      /\ answers.local = {} /\ answers.archive = {}
  BY Nothing DEF MonitorInit, Asked
<1>3. MonitorType
  <2>1. Len(PollRequests[kind]) \in Nat
    BY <1>1, Order DEF MonitorInit, Kinds
  <2> QED
    BY <1>1, <2>1, Nothing DEF MonitorInit, MonitorType
<1>4. SnapshotTruthful
  BY DEF MonitorInit, SnapshotTruthful
<1>5. RecorderInv /\ ItemsInv
  BY <1>2, RecordingsAssumption DEF MonitorInit, RecorderInv, ItemsInv
<1>6. BackupsInv
  BY <1>2, WorkEmpty DEF MonitorInit, BackupsInv
<1> QED
  BY <1>3, <1>4, <1>5, <1>6 DEF MonitorInv

\* Most steps leave what was shown, and only add to what it was shown for.
LEMMA StillTruthful ==
  ASSUME SnapshotTruthful, snapshot' = snapshot, kind' = kind,
         late \subseteq late', finished \subseteq finished'
  PROVE  SnapshotTruthful'
BY DEF SnapshotTruthful

LEMMA ReadTypes ==
  ASSUME MonitorInv, Read
  PROVE  /\ MonitorType'
         /\ \A q \in Asked : answers'[q] = IF q = PollRequest THEN Answer ELSE answers[q]
<1>1. MonitorType
  BY DEF MonitorInv
<1>2. answers' = [answers EXCEPT ![PollRequest] = Answer]
  BY DEF Read
<1>3. DOMAIN answers' = Asked
  BY <1>1, <1>2 DEF MonitorType
<1>4. \A q \in Asked : answers'[q] = IF q = PollRequest THEN Answer ELSE answers[q]
  BY <1>1, <1>2, Zenon DEF MonitorType
<1>5. /\ pollAt' = pollAt + 1 /\ UNCHANGED <<minute, kind, recording>>
      /\ IF pollAt = 0 THEN pollStart' = minute ELSE UNCHANGED pollStart
  BY DEF Read, worldVars
<1>6. pollAt + 1 <= Len(PollRequests[kind])
  <2>1. pollAt # Len(PollRequests[kind]) /\ Len(PollRequests[kind]) \in Nat
    BY <1>1, Order DEF Read, PollDone, MonitorType, Kinds
  <2> QED
    BY <1>1, <2>1 DEF MonitorType
<1>7. MonitorType'
  BY <1>1, <1>3, <1>5, <1>6 DEF MonitorType
<1> QED
  BY <1>4, <1>7

LEMMA RecorderReads ==
  ASSUME MonitorInv, Read, kind = "recorder"
  PROVE  RecorderInv'
<1>1. MonitorType /\ RecorderInv
  BY DEF MonitorInv
<1>2. \A q \in Asked : answers'[q] = IF q = PollRequest THEN Answer ELSE answers[q]
  BY ReadTypes
<1>3. /\ pollAt' = pollAt + 1 /\ UNCHANGED <<minute, kind, recording, late>>
      /\ IF pollAt = 0 THEN pollStart' = minute ELSE UNCHANGED pollStart
      /\ ~PollDone
  BY DEF Read, worldVars
<1>4. pollAt = 0 \/ pollAt = 1 \/ pollAt = 2
  <2>1. Len(PollRequests[kind]) = 3 /\ pollAt \in Nat
    BY <1>1, Order, Zenon DEF MonitorType
  <2>2. pollAt <= 3 /\ pollAt # 3
    BY <1>1, <1>3, <2>1, Zenon DEF MonitorType, PollDone
  <2> QED
    BY <2>1, <2>2
<1>5. \A r \in Reservations : StartAt[r] \in Nat
  BY RecordingsAssumption
<1>6. pollAt # 0 => \A r \in Reservations : Excused(r) => Excused(r)'
  BY <1>1, <1>3, <1>5 DEF Excused, MonitorType
<1> USE DEF MonitorType
<1>7. CASE pollAt = 0
  <2>1. answers'.reserves \subseteq Reservations
    BY <1>1, <1>2, <1>7, Order, Zenon DEF Answer, Asked
  <2> QED
    BY <1>1, <1>3, <1>7, <2>1 DEF RecorderInv
<1>8. CASE pollAt = 1
  <2>1. PollRequest = "recording"
    BY <1>1, <1>8, Order
  <2>2. answers'.recording = In("recording") /\ answers'.reserves = answers.reserves
    BY <1>2, <2>1 DEF Answer, Asked
  <2>3. ASSUME NEW r \in Reservations \ In("recording"), recording[r] # "recorded" PROVE Excused(r)
    <3>1. recording[r] = "reserved"
      BY <1>1, <2>3 DEF In
    <3>2. r \in late \/ ~(StartAt[r] + 1 < minute)
      BY <1>1, <3>1 DEF RecorderInv
    <3> QED
      BY <1>1, <1>5, <1>8, <3>2 DEF Excused
  <2> QED
    BY <1>1, <1>3, <1>6, <1>8, <2>2, <2>3 DEF RecorderInv
<1>9. CASE pollAt = 2
  <2>1. PollRequest = "recorded"
    BY <1>1, <1>9, Order
  <2>2. /\ answers'.recorded = In("recorded")
        /\ answers'.reserves = answers.reserves /\ answers'.recording = answers.recording
    BY <1>2, <2>1 DEF Answer, Asked
  <2>3. \A r \in Reservations \ (answers.recording \cup In("recorded")) : Excused(r)
    BY <1>1, <1>9 DEF RecorderInv, In
  <2> QED
    BY <1>1, <1>3, <1>6, <1>9, <2>2, <2>3 DEF RecorderInv
<1> QED
  BY <1>4, <1>7, <1>8, <1>9

LEMMA ItemsRead ==
  ASSUME MonitorInv, Read, kind \in {"devices", "secrets", "tuners"}
  PROVE  ItemsInv'
<1>1. MonitorType /\ ItemsInv
  BY DEF MonitorInv
<1>2. \A q \in Asked : answers'[q] = IF q = PollRequest THEN Answer ELSE answers[q]
  BY ReadTypes
<1>3. /\ UNCHANGED up /\ ~PollDone /\ PollRequest # "details"
      /\ IF pollAt = 0 THEN during' = up ELSE UNCHANGED during
  BY DEF Read, worldVars
<1>4. pollAt = 0
  <2>1. CASE kind = "devices"
    <3>1. Len(PollRequests[kind]) = 2 /\ pollAt \in Nat /\ pollAt # 1
      BY <1>1, <1>3, <2>1, Order, Zenon DEF MonitorType
    <3>2. pollAt <= 2 /\ pollAt # 2
      BY <1>1, <1>3, <3>1, Zenon DEF MonitorType, PollDone
    <3> QED
      BY <3>1, <3>2
  <2>2. CASE kind \in {"secrets", "tuners"}
    <3>1. Len(PollRequests[kind]) = 1 /\ pollAt \in Nat
      BY <1>1, <2>2, Order, Zenon DEF MonitorType
    <3>2. pollAt <= 1 /\ pollAt # 1
      BY <1>1, <1>3, <3>1, Zenon DEF MonitorType, PollDone
    <3> QED
      BY <3>1, <3>2
  <2> QED
    BY <2>1, <2>2
<1>5. PollRequest = "items"
  BY <1>1, <1>4, Order DEF MonitorType
<1>6. answers'.items = States(present) /\ answers'.details = {}
  BY <1>1, <1>2, <1>4, <1>5, Nothing DEF Answer, Asked, MonitorType
<1>7. Working(answers.items)' = present \cap up /\ Working(answers.details)' = {}
  BY <1>6, WorkOf, WorkEmpty DEF Working, Names
<1> QED
  BY <1>3, <1>4, <1>7 DEF ItemsInv

LEMMA BackupsRead ==
  ASSUME MonitorInv, Read, kind = "backups"
  PROVE  BackupsInv'
<1>1. MonitorType /\ BackupsInv
  BY DEF MonitorInv
<1>2. \A q \in Asked : answers'[q] = IF q = PollRequest THEN Answer ELSE answers[q]
  BY ReadTypes
<1>3. UNCHANGED <<minute, written, finished, archived>> /\ ~PollDone
  BY DEF Read, worldVars
<1>4. pollAt = 0 \/ pollAt = 1
  <2>1. Len(PollRequests[kind]) = 2 /\ pollAt \in Nat
    BY <1>1, Order, Zenon DEF MonitorType
  <2>2. pollAt <= 2 /\ pollAt # 2
    BY <1>1, <1>3, <2>1, Zenon DEF MonitorType, PollDone
  <2> QED
    BY <2>1, <2>2
<1>5. CASE pollAt = 0
  <2>1. PollRequest = "local"
    BY <1>1, <1>5, Order DEF MonitorType
  <2>2. answers'.local = {<<t, t \in finished>> : t \in written} /\ answers'.archive = answers.archive
    BY <1>2, <2>1, Zenon DEF Answer, Asked
  <2>3. ASSUME NEW t \in Working(answers'.local) PROVE t \in finished
    <3>1. PICK row \in answers'.local : row[2] /\ t = row[1]
      BY Zenon DEF Working, Names
    <3>2. PICK s \in written : row = <<s, s \in finished>>
      BY <2>2, <3>1, Zenon
    <3>3. <<s, s \in finished>>[1] = s /\ (<<s, s \in finished>>[2] <=> s \in finished)
      BY Zenon
    <3> QED
      BY <3>1, <3>2, <3>3, Zenon
  <2> QED
    BY <1>1, <1>3, <2>2, <2>3 DEF BackupsInv, Working, Names
<1>6. CASE pollAt = 1
  <2>1. PollRequest = "archive"
    BY <1>1, <1>6, Order DEF MonitorType
  <2>2. answers'.archive = archived /\ answers'.local = answers.local
    BY <1>2, <2>1 DEF Answer, Asked
  <2> QED
    BY <1>1, <1>3, <2>2 DEF BackupsInv, Working, Names
<1> QED
  BY <1>4, <1>5, <1>6

LEMMA ReadKeeps == ASSUME MonitorInv, Read PROVE MonitorInv'
<1>1. /\ MonitorType' /\ SnapshotTruthful
      /\ UNCHANGED <<kind, snapshot, late, finished>>
  BY ReadTypes DEF MonitorInv, Read, worldVars
<1>2. SnapshotTruthful'
  BY <1>1, StillTruthful
<1> QED
  BY <1>1, <1>2, RecorderReads, ItemsRead, BackupsRead DEF MonitorInv

\* The details of one device more.
LEMMA DetailKeeps == ASSUME MonitorInv, NEW i, ReadDetail(i) PROVE MonitorInv'
<1>1. MonitorType /\ SnapshotTruthful /\ ItemsInv
  BY DEF MonitorInv, ReadDetail
<1>2. /\ kind = "devices" /\ pollAt = 1
      /\ answers' = [answers EXCEPT !.details = @ \cup States({i})]
      /\ UNCHANGED <<minute, kind, recording, late, up, finished, pollAt, pollStart, snapshot, during>>
  BY DEF ReadDetail, worldVars
<1>3. /\ DOMAIN answers' = Asked /\ answers'.items = answers.items
      /\ answers'.details = answers.details \cup States({i})
  BY <1>1, <1>2 DEF MonitorType, Asked
<1>4. MonitorType'
  BY <1>1, <1>2, <1>3 DEF MonitorType
<1>5. Working(answers'.details) = Working(answers.details) \cup ({i} \cap up)
  BY <1>3, WorkOf, WorkTogether
<1>6. ItemsInv'
  BY <1>1, <1>2, <1>3, <1>5 DEF ItemsInv, Working, Names
<1>7. SnapshotTruthful'
  BY <1>1, <1>2, StillTruthful
<1> QED
  BY <1>2, <1>4, <1>6, <1>7 DEF MonitorInv

LEMMA DetailsKeep == ASSUME MonitorInv, DetailsRead PROVE MonitorInv'
<1>1. MonitorType /\ SnapshotTruthful /\ ItemsInv
  BY DEF MonitorInv, DetailsRead
<1>2. /\ kind = "devices" /\ pollAt = 1 /\ pollAt' = 2
      /\ UNCHANGED <<minute, kind, recording, late, up, finished, answers, pollStart, snapshot, during>>
  BY DEF DetailsRead, worldVars
<1>3. Len(PollRequests[kind]) = 2
  BY <1>1, <1>2, Order DEF MonitorType
<1>4. MonitorType'
  BY <1>1, <1>2, <1>3 DEF MonitorType
<1>5. ItemsInv' /\ SnapshotTruthful'
  BY <1>1, <1>2, StillTruthful DEF ItemsInv, Working, Names
<1> QED
  BY <1>2, <1>4, <1>5 DEF MonitorInv

\* A poll that ends leaves nothing of its answers.
LEMMA EndKeeps ==
  ASSUME MonitorInv, NEW success, NEW values, Replaces(success, values), SnapshotTruthful'
  PROVE  MonitorInv'
<1>1. MonitorType
  BY DEF MonitorInv
<1>2. /\ pollAt' = 0 /\ answers' = NoAnswers /\ pollStart' = 0
      /\ UNCHANGED <<minute, kind, recording, late, written, finished, archived>>
  BY DEF Replaces, worldVars
<1>3. /\ DOMAIN answers' = Asked
      /\ answers'.reserves = {} /\ answers'.local = {} /\ answers'.archive = {}
  BY <1>2, Nothing DEF Asked
<1>4. MonitorType'
  <2>1. Len(PollRequests[kind]) \in Nat
    BY <1>1, Order DEF MonitorType, Kinds
  <2> QED
    BY <1>1, <1>2, <1>3, <2>1 DEF MonitorType
<1>5. kind = "recorder" => RecorderInv'
  BY <1>1, <1>2, <1>3 DEF MonitorInv, RecorderInv
<1>6. kind = "backups" => BackupsInv'
  BY <1>1, <1>2, <1>3, WorkEmpty DEF MonitorInv, BackupsInv, Working, Names
<1> QED
  BY <1>2, <1>4, <1>5, <1>6 DEF MonitorInv, ItemsInv

LEMMA FailureKeeps == ASSUME MonitorInv, PollFails PROVE MonitorInv'
<1>1. SnapshotTruthful'
  BY DEF PollFails, Replaces, SnapshotTruthful
<1> QED
  BY <1>1, EndKeeps DEF PollFails

\* The latest of times that are past is one of them.
LEMMA LatestIsOne ==
  ASSUME NEW n \in Nat, NEW T \in SUBSET (1..n)
  PROVE  Latest(T) \in T \cup {0}
<1> DEFINE Before == OpToRel(<, Nat)
<1> DEFINE Ages == {n - t : t \in T \cup {0}}
<1>1. IsWellFoundedOn(Before, Nat)
  BY NatLessThanWellFounded
<1>2. \A x, y \in Nat : x < y => <<x, y>> \in Before
  BY DEF OpToRel
<1> HIDE DEF Before
<1>3. Ages \subseteq Nat /\ Ages # {}
  OBVIOUS
<1> HIDE DEF Ages
<1>4. PICK x \in Ages : \A y \in Ages : ~ (<<y, x>> \in Before)
  BY <1>1, <1>3, WFMin
<1> USE DEF Ages
<1>5. PICK t \in T \cup {0} : x = n - t
  OBVIOUS
<1>6. ASSUME NEW s \in T \cup {0} PROVE t >= s
  <2>1. n - s \in Ages /\ n - s \in Nat /\ x \in Nat
    BY <1>3, <1>4
  <2>2. ~(n - s < x)
    BY <1>2, <1>4, <2>1
  <2> QED
    BY <1>5, <2>2
<1> QED
  BY <1>6 DEF Latest, Max

LEMMA RecorderTruthful ==
  ASSUME MonitorInv, Publish, kind = "recorder"
  PROVE  NotStarted(answers) \subseteq late
<1>1. MonitorType /\ RecorderInv /\ PollDone
  BY DEF MonitorInv, Publish
<1>2. Len(PollRequests[kind]) = 3
  BY <1>1, Order DEF MonitorType
<1>3. /\ pollAt = 3 /\ minute \in Nat /\ pollStart \in Nat /\ minute <= pollStart + 1
  BY <1>1, <1>2 DEF PollDone, MonitorType
<1>4. ASSUME NEW r \in NotStarted(answers) PROVE r \in late
  <2>1. /\ r \in Reservations \ (answers.recording \cup answers.recorded)
        /\ StartAt[r] + Grace < minute
    BY <1>1, <1>4 DEF NotStarted, RecorderInv
  <2>2. Excused(r)
    BY <1>1, <1>3, <2>1 DEF RecorderInv
  <2>3. StartAt[r] \in Nat /\ Grace \in Nat /\ Grace >= 2
    BY <2>1, RecordingsAssumption
  <2> QED
    BY <1>3, <2>1, <2>2, <2>3 DEF Excused
<1> QED
  BY <1>4

LEMMA PublishKeeps == ASSUME MonitorInv, Publish PROVE MonitorInv'
<1>1. MonitorType
  BY DEF MonitorInv
<1>2. /\ snapshot' = [success |-> TRUE, shown |-> Evaluate(answers).shown,
                      bad |-> Evaluate(answers).bad, seen |-> during]
      /\ Replaces(TRUE, Evaluate(answers))
      /\ PollDone /\ UNCHANGED <<kind, late, finished>>
  BY DEF Publish, Replaces, worldVars
<1>3. snapshot'.success /\ snapshot'.seen = during
  BY <1>2
<1>4. snapshot'.shown = Evaluate(answers).shown /\ snapshot'.bad = Evaluate(answers).bad
  BY <1>2
<1>5. CASE kind = "recorder"
  <2>1. snapshot'.bad = NotStarted(answers)
    BY <1>4, <1>5, Zenon DEF Evaluate
  <2>2. SnapshotTruthful'
    BY <1>2, <1>3, <1>5, <2>1, RecorderTruthful DEF SnapshotTruthful
  <2> QED
    BY <1>2, <2>2, EndKeeps
<1>6. CASE kind = "devices"
  <2>1. pollAt # 0
    <3>1. Len(PollRequests[kind]) = 2
      BY <1>1, <1>6, Order DEF MonitorType
    <3>2. pollAt = 2
      BY <1>2, <3>1, Zenon DEF PollDone
    <3> QED
      BY <3>2
  <2>2. Evaluate(answers) = [shown |-> Expected, bad |-> Expected \ Working(answers.details)]
    BY <1>6 DEF Evaluate
  <2>3. Working(answers.details) \subseteq during
    BY <1>6, <2>1 DEF MonitorInv, ItemsInv
  <2>4. SnapshotTruthful'
    BY <1>2, <1>3, <1>4, <1>6, <2>2, <2>3 DEF SnapshotTruthful
  <2> QED
    BY <1>2, <2>4, EndKeeps
<1>7. CASE kind = "secrets"
  <2> DEFINE expectedOrNamed == Expected \cup Names(answers.items)
  <2>1. pollAt # 0
    <3>1. Len(PollRequests[kind]) = 1
      BY <1>1, <1>7, Order DEF MonitorType
    <3>2. pollAt = 1
      BY <1>2, <3>1, Zenon DEF PollDone
    <3> QED
      BY <3>2
  <2>2. Evaluate(answers) = [shown |-> expectedOrNamed, bad |-> expectedOrNamed \ Working(answers.items)]
    BY <1>7, Zenon DEF Evaluate
  <2>3. Working(answers.items) \subseteq during
    BY <1>7, <2>1 DEF MonitorInv, ItemsInv
  <2>4. SnapshotTruthful'
    BY <1>2, <1>3, <1>4, <1>7, <2>2, <2>3 DEF SnapshotTruthful
  <2> QED
    BY <1>2, <2>4, EndKeeps
<1>8. CASE kind = "tuners"
  <2>1. snapshot'.shown = Names(answers.items)
    BY <1>4, <1>8 DEF Evaluate
  <2>2. answers.items # {}
    BY <1>8 DEF Publish
  <2>3. SnapshotTruthful'
    BY <1>2, <1>3, <1>8, <2>1, <2>2 DEF SnapshotTruthful, Names
  <2> QED
    BY <1>2, <2>3, EndKeeps
<1>9. CASE kind = "backups"
  <2>1. snapshot'.shown = {Latest(Working(answers.local)), Latest(answers.archive)}
    BY <1>4, <1>9 DEF Evaluate
  <2>2. /\ minute \in Nat /\ finished \in SUBSET (1..minute)
        /\ Working(answers.local) \subseteq finished /\ answers.archive \subseteq finished
    BY <1>1, <1>9 DEF MonitorInv, BackupsInv, MonitorType
  <2>3. /\ Latest(Working(answers.local)) \in finished \cup {0}
        /\ Latest(answers.archive) \in finished \cup {0}
    BY <2>2, LatestIsOne
  <2>4. SnapshotTruthful'
    BY <1>2, <1>3, <1>9, <2>1, <2>3 DEF SnapshotTruthful
  <2> QED
    BY <1>2, <2>4, EndKeeps
<1> QED
  BY <1>1, <1>5, <1>6, <1>7, <1>8, <1>9 DEF MonitorType, Kinds

LEMMA RecordsKeep == ASSUME MonitorInv, NEW s \in Reservations, Records(s) PROVE MonitorInv'
<1>1. MonitorType /\ SnapshotTruthful /\ kind = "recorder" /\ RecorderInv
  BY DEF MonitorInv, Records
<1>2. UNCHANGED <<minute, kind, late, finished, pollAt, pollStart, answers, snapshot>>
  BY DEF Records, pollVars
<1>3. /\ recording' \in [Reservations -> {"reserved", "recording", "recorded"}]
      /\ \A r \in Reservations : /\ recording'[r] = "reserved" => recording[r] = "reserved"
                                 /\ recording[r] = "recorded" => recording'[r] = "recorded"
  BY <1>1 DEF Records, MonitorType
<1>4. MonitorType' /\ SnapshotTruthful'
  BY <1>1, <1>2, <1>3, StillTruthful DEF MonitorType
<1>5. RecorderInv'
  BY <1>1, <1>2, <1>3 DEF RecorderInv, Excused
<1> QED
  BY <1>1, <1>2, <1>4, <1>5 DEF MonitorInv

LEMMA ChangesKeep == ASSUME MonitorInv, NEW i, Changes(i) PROVE MonitorInv'
<1>1. /\ MonitorType /\ SnapshotTruthful /\ ItemsInv
      /\ kind \in {"devices", "secrets", "tuners"}
  BY DEF MonitorInv, Changes
<1>2. /\ UNCHANGED <<minute, kind, recording, late, finished, pollAt, pollStart, answers, snapshot>>
      /\ during' = during \cup up'
  BY DEF Changes, pollVars
<1>3. MonitorType' /\ SnapshotTruthful'
  BY <1>1, <1>2, StillTruthful DEF MonitorType
<1>4. ItemsInv'
  BY <1>1, <1>2 DEF ItemsInv, Working, Names
<1> QED
  BY <1>1, <1>2, <1>3, <1>4 DEF MonitorInv

LEMMA BackingUpKeeps == ASSUME MonitorInv, BacksUp PROVE MonitorInv'
<1>1. MonitorType /\ SnapshotTruthful /\ kind = "backups" /\ BackupsInv
  BY DEF MonitorInv, BacksUp
<1>2. UNCHANGED <<minute, kind, recording, late, pollAt, pollStart, answers, snapshot>>
  BY DEF BacksUp, pollVars
<1>3. /\ archived' \subseteq finished' /\ finished' \subseteq written'
      /\ written' \subseteq written \cup {minute}
      /\ finished \subseteq finished' /\ archived \subseteq archived'
  BY <1>1 DEF BacksUp, BackupsInv
<1>4. MonitorType' /\ SnapshotTruthful'
  BY <1>1, <1>2, <1>3, StillTruthful DEF MonitorType
<1>5. minute \in 1..minute
  BY <1>1 DEF MonitorType
<1>6. BackupsInv'
  BY <1>1, <1>2, <1>3, <1>5 DEF BackupsInv, Working, Names
<1> QED
  BY <1>1, <1>2, <1>4, <1>6 DEF MonitorInv

LEMMA MinuteKeeps == ASSUME MonitorInv, MinutePasses PROVE MonitorInv'
<1>1. MonitorType /\ SnapshotTruthful
  BY DEF MonitorInv
<1>2. /\ minute' = minute + 1 /\ (pollAt # 0 => pollStart = minute)
      /\ late' = late \cup {r \in In("reserved") : StartAt[r] < minute}
      /\ UNCHANGED <<kind, recording, up, written, finished, archived,
                     pollAt, pollStart, answers, snapshot, during>>
  BY DEF MinutePasses, pollVars
<1>3. MonitorType' /\ SnapshotTruthful'
  BY <1>1, <1>2, StillTruthful DEF MonitorType
<1>4. ASSUME kind = "recorder" PROVE RecorderInv'
  <2>1. RecorderInv
    BY <1>4 DEF MonitorInv
  <2>2. ASSUME NEW r \in Reservations, recording[r] = "reserved", StartAt[r] + 1 < minute'
        PROVE  r \in late'
    <3>1. StartAt[r] \in Nat
      BY RecordingsAssumption
    <3> QED
      BY <1>1, <1>2, <2>2, <3>1 DEF In, MonitorType
  <2> QED
    BY <1>2, <2>1, <2>2 DEF RecorderInv, Excused
<1>5. ASSUME kind \in {"devices", "secrets", "tuners"} PROVE ItemsInv'
  BY <1>2, <1>5 DEF MonitorInv, ItemsInv, Working, Names
<1>6. ASSUME kind = "backups" PROVE BackupsInv'
  BY <1>1, <1>2, <1>6 DEF MonitorInv, MonitorType, BackupsInv, Working, Names
<1> QED
  BY <1>2, <1>3, <1>4, <1>5, <1>6 DEF MonitorInv

LEMMA MonitorStep == MonitorInv /\ [MonitorNext]_monitorVars => MonitorInv'
<1>1. MonitorInv /\ UNCHANGED monitorVars => MonitorInv'
  BY DEF monitorVars, worldVars, pollVars, MonitorInv, MonitorType, SnapshotTruthful, RecorderInv, Excused,
         ItemsInv, BackupsInv, Working, Names
<1> QED
  BY <1>1, ReadKeeps, DetailKeeps, DetailsKeep, PublishKeeps, FailureKeeps, RecordsKeep, ChangesKeep,
     BackingUpKeeps, MinuteKeeps DEF MonitorNext

\* What a scrape of the monitor returns was true, although the requests of a poll
\* are made one after the other (collect_once and the collectors of monitor.py).
THEOREM ScrapesTruthful == MonitorSpec => []SnapshotTruthful
<1>1. MonitorInv => SnapshotTruthful
  BY DEF MonitorInv
<1> QED
  BY MonitorStarts, MonitorStep, <1>1, PTL DEF MonitorSpec
=============================================================================
