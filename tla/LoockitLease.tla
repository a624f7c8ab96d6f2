---------------------------- MODULE LoockitLease ----------------------------
(***************************************************************************)
(* The lease by which one of the two Loockit controllers serves the lock   *)
(* of the door (workers/maintenance-control/src/loockit-lease.ts): a       *)
(* Durable Object keeps one record, which it replaces by compare-and-swap  *)
(* on its version and hands to another holder only after it has expired.   *)
(*                                                                         *)
(* Requests take their time: they may arrive in another order, long after  *)
(* they were sent, or not at all, and answers get lost.  The controllers   *)
(* are not part of the repository; one is assumed to lead for no longer    *)
(* than the duration of the lease after it SENT the last request that was  *)
(* granted.                                                                *)
(***************************************************************************)
EXTENDS Naturals, FiniteSets

CONSTANTS
  Holders, NoOne,
  Duration,                           \* the fifteen seconds of a lease
  MaxLeaseTime, MaxRenewals, MaxRequests    \* bounds for TLC

VARIABLES
  time,
  lease,      \* the stored record; version 0 when there is none
  asked,      \* those on their way
  known,      \* known[h]: the version that h has read or was granted last
  until       \* until[h]: the instant up to which h leads

leaseVars == <<time, lease, asked, known, until>>

NoLease == [version |-> 0, holder |-> NoOne, renewedAt |-> 0, askedAt |-> 0, before |-> 0]
Leads(h) == time < until[h]
Later(a, b) == IF a < b THEN b ELSE a

-----------------------------------------------------------------------------
(* operate *)

\* A mutant: whoever knows the record may have the lease.
NeverHeld(h) == FALSE

\* Another holder's lease that has not expired.
HeldByOther(h) ==
  lease.version # 0 /\ lease.holder # h /\ time < lease.renewedAt + Duration

\* A mutant: the version is not compared.
AnyVersion(r) == IF r.method = "POST" THEN lease.version = 0 ELSE lease.version # 0

\* POST creates the record, PUT replaces the one that it names.
MatchesRecord(r) ==
  IF r.method = "POST" THEN lease.version = 0
  ELSE lease.version # 0 /\ r.version = lease.version

\* A POST or PUT that is granted; "askedAt" and "before" are history.
Grant(r, answered) ==
  /\ r \in asked /\ asked' = asked \ {r}
  /\ MatchesRecord(r) /\ ~HeldByOther(r.from)
  /\ lease.version < MaxRenewals
  /\ lease' = [version |-> lease.version + 1, holder |-> r.from, renewedAt |-> time,
               askedAt |-> r.sentAt, before |-> lease.renewedAt]
  /\ IF answered
     THEN /\ known' = [known EXCEPT ![r.from] = lease.version + 1]
          /\ until' = [until EXCEPT ![r.from] = Later(@, r.sentAt + Duration)]
     ELSE UNCHANGED <<known, until>>
  /\ UNCHANGED time

\* A conflict, or a request that never arrives.
Refuse(r) ==
  /\ r \in asked /\ asked' = asked \ {r}
  /\ UNCHANGED <<time, lease, known, until>>

-----------------------------------------------------------------------------
(* The controllers *)

GetRecord(h) ==
  /\ known' = [known EXCEPT ![h] = lease.version]
  /\ UNCHANGED <<time, lease, asked, until>>

\* It creates the record when it has found none, and replaces the one that it
\* knows; it may repeat a request whose answer it misses.
Ask(h) ==
  /\ Cardinality(asked) < MaxRequests
  /\ asked' = asked \cup
       {[from |-> h, method |-> IF known[h] = 0 THEN "POST" ELSE "PUT",
         version |-> known[h], sentAt |-> time]}
  /\ UNCHANGED <<time, lease, known, until>>

\* It stops to lead, or is started again.
StepDown(h) ==
  /\ known' = [known EXCEPT ![h] = 0] /\ until' = [until EXCEPT ![h] = 0]
  /\ UNCHANGED <<time, lease, asked>>

Tick ==
  /\ time < MaxLeaseTime /\ time' = time + 1
  /\ UNCHANGED <<lease, asked, known, until>>

LeaseInit ==
  /\ time = 0 /\ lease = NoLease /\ asked = {}
  /\ known = [h \in Holders |-> 0] /\ until = [h \in Holders |-> 0]

LeaseNext ==
  \/ Tick
  \/ \E r \in asked : Refuse(r) \/ \E answered \in BOOLEAN : Grant(r, answered)
  \/ \E h \in Holders : GetRecord(h) \/ Ask(h) \/ StepDown(h)

LeaseSpec == LeaseInit /\ [][LeaseNext]_leaseVars

-----------------------------------------------------------------------------
(* Properties *)

\* At no time two controllers lead, whatever requests and answers are lost,
\* late or out of order; and the lease is never given by a request that is
\* older than the record it replaces, so that what a dead controller has left
\* on the way does not keep the other one out.
OneLeader ==
  /\ \A h, k \in Holders : Leads(h) /\ Leads(k) => h = k
  /\ lease.version > 0 => lease.askedAt >= lease.before
=============================================================================
