---------------------------- MODULE OsUpdateProofs ----------------------------
(***************************************************************************)
(* Proofs about OsUpdate, for every number of runs and of faults: what the *)
(* stored journal says of the machine that is worked on, wherever the run  *)
(* that works on it is, and whatever it remembers.                         *)
(***************************************************************************)
EXTENDS OsUpdate, TLAPS

-----------------------------------------------------------------------------
(* The inductive invariant *)

\* Nothing runs that the machine would reboot for, and everything serves.
Calm(x) == x.upgrade \in {"none", "succeeded"}
Serving(x) == x.storage /\ x.pdc /\ ~x.stale /\ ~x.restored /\ Calm(x)

\* The backup that the owner of a journal has asked for, noted, and can use.
Made(j, B) == j.owner \in DOMAIN B /\ B[j.owner].target = j.target /\ B[j.owner].consistent
Held(j, B) == j.backup = j.owner /\ Made(j, B)
Usable(j, B) == Held(j, B) /\ B[j.owner].available

\* The phases after which the packages may have been touched.
Touched == {"upgrading", "validating", "restoring", "rollback-validation"}
Phases == Early \cup Touched \cup {"idle", "blocked"}

\* What a stored phase says of the machine that is worked on: the journal is
\* always written before the step that makes it true.
PhaseInv(j, x, B) ==
  /\ j.phase = "checking" => Serving(x) /\ j.backup = 0
  /\ j.phase = "backup" => Calm(x) /\ ~x.restored /\ (j.backup # 0 => Held(j, B))
  /\ j.phase \in {"backup", "upgrading", "validating"} => j.pdc
  /\ j.phase \in Touched \cup {"backup"} => j.gap
  /\ j.phase \in Touched => Usable(j, B)
  /\ j.phase \in {"upgrading", "validating"} => ~x.restored
  /\ j.phase = "validating" => Calm(x)
  /\ j.phase = "rollback-validation" => x.restored
  /\ x.restored => Calm(x)
  /\ ~Calm(x) => Usable(j, B)
  /\ x.upgrade = "scheduled" => ~x.pdc
  /\ x.pdc => x.storage /\ ~x.stale

Preparing == {"check", "noteBackup", "prepare", "create"}
Working == Preparing \cup {"noteId", "wait", "noteUpgrade", "upgrade", "reboot", "noteValidating"}
Returning == {"startStorage", "catchUp", "activate"}
Restoring == {"restore", "noteVolume", "replace", "noteRestored"}
\* Places whose next step changes no machine without the journal.
Harmless == {"idle", "acquire", "failing", "restore", "giveUp", "restart"}
Places == Harmless \cup Working \cup Returning \cup Restoring \cup {"verify", "finish", "block"}

\* The parts of the program that have a place a.
Modes(a, o) ==
  /\ a = "acquire" => o = "recover"
  /\ a \in Working \cup {"finish", "failing"} => o = "update"
  /\ a \in Restoring => o \in {"recover", "rollback"}
  /\ a = "verify" => o \in {"update", "recover", "rollback"}
  /\ a \in {"giveUp", "restart"} => o = "rollback"
  /\ a = "block" => o \in {"restart", "recover", "rollback"}

\* A run whose machine's peer the journal does not name: it can only end, and
\* its writes fail.
Away(j, m, k, a) ==
  /\ a \in Harmless
  /\ a # "idle" /\ k => a = "acquire" /\ j.phase = "idle"
  /\ a = "failing" => Restorable(m)

\* When the run that the journal names has the journal in its memory: always,
\* but after a write whose answer was lost.
Knows(j, k, a, o) ==
  /\ a # "acquire"
  /\ j.phase = "blocked" => a \in {"idle", "giveUp", "restart"}
  /\ a \notin {"idle", "failing", "restore", "giveUp", "restart"} /\ o # "restart" => k
  /\ a = "restore" /\ k => Restorable(j)

UpdateInv(j, x, B, a) ==
  /\ a \in {"check", "noteBackup"} => j.phase = "checking"
  /\ a = "noteBackup" => j.pdc
  /\ a \in {"prepare", "create", "noteId", "wait", "noteUpgrade"} => j.phase = "backup"
  /\ a \in {"upgrade", "reboot", "noteValidating"} => j.phase = "upgrading"
  /\ a \in Returning \cup {"verify", "finish"} => j.phase = "validating"
  /\ a \in Preparing => j.owner \notin DOMAIN B
  /\ a = "create" => ~x.storage
  /\ a \in {"create", "noteId", "wait", "noteUpgrade", "upgrade"} => ~x.pdc
  /\ a = "noteId" => Made(j, B)
  /\ a \in {"wait", "noteUpgrade"} => Held(j, B)
  /\ a = "noteUpgrade" => Usable(j, B)
  /\ a = "noteValidating" => Calm(x)
  /\ a \in {"verify", "finish"} => Serving(x)

\* What the handlers go back by is the journal in memory, one write behind
\* the stored one at most.
FailInv(m, x) ==
  /\ m.phase \in {"checking", "backup", "upgrading", "validating"}
  /\ m.phase \notin Early => m.backup # 0
  /\ m.phase \in Early => Calm(x) /\ (~m.gap => Serving(x))

RestartInv(m, x) == m.phase \in Early /\ Calm(x) /\ (~m.gap => Serving(x))

ReturnInv(x, a) ==
  /\ a \in Returning => Calm(x)
  /\ a \in {"catchUp", "activate"} => x.storage
  /\ a = "activate" => ~x.stale

RestoreInv(j, x, a) ==
  /\ a \in Returning => j.phase \in Early \cup {"rollback-validation"}
  /\ a = "verify" => j.phase = "rollback-validation"
  /\ a \in {"noteVolume", "replace", "noteRestored"} => j.phase = "restoring"
  /\ a = "noteRestored" => x.restored

\* The run that the journal names.
Here(j, m, k, x, B, a, o) ==
  /\ Knows(j, k, a, o)
  /\ ReturnInv(x, a)
  /\ o = "update" /\ a # "idle" => UpdateInv(j, x, B, a)
  /\ a = "failing" => FailInv(m, x)
  /\ o = "restart" /\ a \in Returning \cup {"block"} => RestartInv(m, x)
  /\ o \in {"recover", "rollback"} => RestoreInv(j, x, a)

Placed(v) ==
  /\ Modes(at[v], mode[v])
  /\ known[v] => mem[v] = journal
  /\ journal.target # Peer(v) => Away(journal, mem[v], known[v], at[v])
  /\ journal.target = Peer(v) =>
       Here(journal, mem[v], known[v], vm[Peer(v)], backups, at[v], mode[v])

JournalInv ==
  /\ journal.phase = "idle" <=> journal.target = None
  /\ journal.target # None => /\ journal.owner \in 1..runs
                              /\ PhaseInv(journal, vm[journal.target], backups)
  /\ \A u \in Machines : u # journal.target => Serving(vm[u])

Journals == [phase : Phases, owner : Nat, target : Machines \cup {None}, backup : Nat,
             recovery : BOOLEAN, gap : BOOLEAN, pdc : BOOLEAN]
States == [storage : BOOLEAN, pdc : BOOLEAN, stale : BOOLEAN,
           upgrade : {"none", "scheduled", "succeeded", "failed"}, restored : BOOLEAN]
Backups == [target : Machines, available : BOOLEAN, verified : BOOLEAN, consistent : BOOLEAN]
Parts == {"update", "recover", "restart", "rollback"}

ControllerType ==
  /\ mem \in [Machines -> Journals] /\ known \in [Machines -> BOOLEAN]
  /\ at \in [Machines -> Places] /\ mode \in [Machines -> Parts]

BackupType == DOMAIN backups \subseteq 1..runs /\ backups \in [DOMAIN backups -> Backups]

TypeOK ==
  /\ journal \in Journals /\ ControllerType
  /\ vm \in [Machines -> States] /\ BackupType
  /\ runs \in Nat /\ faults \in Nat

OsInv == TypeOK /\ JournalInv /\ \A v \in Machines : Placed(v)

-----------------------------------------------------------------------------
(* The machines, and the steps of one run *)

LEMMA Peers ==
  ASSUME NEW v \in Machines
  PROVE  /\ Peer(v) \in Machines /\ Peer(v) # v /\ Peer(Peer(v)) = v /\ Peer(v) # None
         /\ \A w \in Machines : w = v \/ w = Peer(v)
<1>1. \E w \in Machines : w # v
  BY MachinesAssumption
<1>2. Peer(v) \in Machines /\ Peer(v) # v
  BY <1>1 DEF Peer
<1>3. \A w \in Machines : w = v \/ w = Peer(v)
  BY <1>2, MachinesAssumption
<1>4. \E w \in Machines : w # Peer(v)
  BY <1>2
<1>5. Peer(Peer(v)) \in Machines /\ Peer(Peer(v)) # Peer(v)
  BY <1>4 DEF Peer
<1> QED
  BY <1>2, <1>3, <1>5, MachinesAssumption

\* A step of one run leaves the other one placed, when the journal names the
\* other's machine before and after it ...
LEMMA OtherAway ==
  ASSUME OsInv, NEW v \in Machines,
         journal.target # v, journal'.target # v,
         mem'[Peer(v)] = mem[Peer(v)], mode'[Peer(v)] = mode[Peer(v)],
         at'[Peer(v)] \in {at[Peer(v)], "idle"},
         known'[Peer(v)] = FALSE \/ (known'[Peer(v)] = known[Peer(v)] /\ journal' = journal)
  PROVE  Placed(Peer(v))'
<1> DEFINE w == Peer(v)
<1>1. w \in Machines /\ Peer(w) = v
  BY Peers
<1>2. Modes(at[w], mode[w]) /\ Away(journal, mem[w], known[w], at[w])
      /\ (known[w] => mem[w] = journal)
  BY <1>1 DEF OsInv, Placed
<1> HIDE DEF w
<1>3. Modes(at'[w], mode'[w])
  BY <1>2 DEF Modes, w, Working, Preparing, Restoring
<1>4. Away(journal', mem'[w], known'[w], at'[w])
  BY <1>2 DEF Away, Harmless, w
<1>5. Peer(w)' = Peer(w)
  BY DEF Peer
<1> QED
  BY <1>1, <1>2, <1>3, <1>4, <1>5 DEF Placed, w

\* ... or when the step changes nothing that the other depends on.
LEMMA OtherSame ==
  ASSUME OsInv, NEW v \in Machines, UNCHANGED <<journal, backups>>,
         mem'[Peer(v)] = mem[Peer(v)], mode'[Peer(v)] = mode[Peer(v)],
         at'[Peer(v)] = at[Peer(v)], known'[Peer(v)] = known[Peer(v)],
         vm'[v] = vm[v]
  PROVE  Placed(Peer(v))'
<1> DEFINE w == Peer(v)
<1>1. w \in Machines /\ Peer(w) = v
  BY Peers
<1>2. Placed(w)
  BY <1>1 DEF OsInv
<1> HIDE DEF w
<1> QED
  BY <1>1, <1>2 DEF Placed, w

LEMMA Types ==
  ASSUME OsInv, NEW v \in Machines
  PROVE  /\ journal \in Journals /\ mem[v] \in Journals /\ vm[v] \in States
         /\ at[v] \in Places /\ mode[v] \in Parts /\ known[v] \in BOOLEAN
         /\ vm[Peer(v)] \in States /\ Placed(v) /\ Placed(Peer(v))
BY Peers DEF OsInv, TypeOK, ControllerType

\* A run at a place that changes machines or the journal is the one that the
\* journal names, and the other machine serves.
LEMMA Named ==
  ASSUME OsInv, NEW v \in Machines,
         at[v] \notin Harmless \/ (known[v] /\ at[v] \notin {"idle", "acquire"})
  PROVE  /\ journal.target = Peer(v) /\ journal.phase # "idle"
         /\ journal.owner \in 1..runs
         /\ PhaseInv(journal, vm[Peer(v)], backups)
         /\ Here(journal, mem[v], known[v], vm[Peer(v)], backups, at[v], mode[v])
         /\ known[v] => mem[v] = journal
         /\ Modes(at[v], mode[v])
<1>1. Placed(v)
  BY Types
<1>2. journal.target = Peer(v)
  BY <1>1 DEF Placed, Away
<1>3. journal.target # None
  BY <1>2, Peers
<1> QED
  BY <1>1, <1>2, <1>3 DEF Placed, OsInv, JournalInv

\* A step of the named run on its machine.
LEMMA Moved ==
  ASSUME OsInv, NEW v \in Machines, NEW y \in States, NEW place \in Places,
         journal.target = Peer(v),
         UNCHANGED <<journal, mem, known, mode, runs>>, faults' \in Nat,
         at' \in [Machines -> Places], at'[v] = place,
         at'[Peer(v)] \in {at[Peer(v)], "idle"},
         vm' = [vm EXCEPT ![Peer(v)] = y], BackupType',
         PhaseInv(journal, y, backups'),
         Modes(place, mode[v]),
         Here(journal, mem[v], known[v], y, backups', place, mode[v])
  PROVE  OsInv'
<1> DEFINE w == Peer(v)
<1>0. w \in Machines /\ w # v /\ w # None /\ \A u \in Machines : u = v \/ u = w
  BY Peers
<1>1. vm \in [Machines -> States]
  BY DEF OsInv, TypeOK
<1>2. vm'[w] = y /\ vm'[v] = vm[v] /\ vm' \in [Machines -> States]
  BY <1>0, <1>1
<1>3. TypeOK'
  BY <1>2 DEF OsInv, TypeOK, ControllerType
<1>4. JournalInv'
  <2>1. JournalInv
    BY DEF OsInv
  <2>2. \A u \in Machines : u # w => vm'[u] = vm[u]
    BY <1>0, <1>2
  <2> QED
    BY <2>1, <2>2, <1>0, <1>2 DEF JournalInv
<1>5. Placed(v)'
  <2>1. Peer(v)' = Peer(v)
    BY DEF Peer
  <2>2. known[v] => mem[v] = journal
    BY Types DEF Placed
  <2> QED
    BY <1>2, <2>1, <2>2 DEF Placed
<1>6. Placed(w)'
  <2>1. journal.target # v /\ journal'.target # v
    BY <1>0
  <2> QED
    BY <2>1, <1>0, OtherAway
<1> QED
  BY <1>0, <1>3, <1>4, <1>5, <1>6 DEF OsInv

\* The parts of the program that a run which is neither idle nor acquiring is in.
LEMMA PlacesOfParts ==
  ASSUME NEW a \in Places, NEW o \in Parts, Modes(a, o), a \notin {"idle", "acquire"}
  PROVE  /\ o = "update" => a \in Working \cup Returning \cup {"verify", "finish", "failing"}
         /\ o = "restart" => a \in Returning \cup {"block"}
         /\ a \in {"block", "giveUp"} => o # "update"
BY DEF Modes, Places, Harmless, Working, Preparing, Returning, Restoring, Parts

\* Where a failure leads, the run is placed again, whether or not it still
\* knows the journal and whatever its failed write has stored.
LEMMA LostPlace ==
  ASSUME OsInv, NEW v \in Machines, at[v] \notin {"idle", "acquire"},
         journal.target = Peer(v), NEW j, NEW B, NEW k \in {FALSE, known[v]},
         j.phase = "blocked" => at[v] \in {"block", "giveUp", "restart"}
  PROVE  /\ Failed(v) \in Places /\ Modes(Failed(v), mode[v])
         /\ Here(j, mem[v], k, vm[Peer(v)], B, Failed(v), mode[v])
<1> DEFINE x == vm[Peer(v)]
           a == at[v]
           m == mem[v]
<1>1. /\ Here(journal, m, known[v], x, backups, a, mode[v]) /\ Modes(a, mode[v])
      /\ a \in Places /\ mode[v] \in Parts /\ (known[v] => m = journal)
      /\ PhaseInv(journal, x, backups) /\ journal.owner # 0
  <2>1. journal.target # None
    BY Peers
  <2> QED
    BY <2>1, Types DEF Placed, OsInv, JournalInv
<1>2. /\ mode[v] = "update" => a \in Working \cup Returning \cup {"verify", "finish", "failing"}
      /\ mode[v] = "restart" => a \in Returning \cup {"block"}
      /\ a \in {"block", "giveUp"} => mode[v] # "update"
  BY <1>1, PlacesOfParts
<1>3. CASE mode[v] = "update"
  <2>1. Failed(v) = "failing"
    BY <1>3 DEF Failed
  <2>2. j.phase # "blocked"
    BY <1>2, <1>3 DEF Working, Preparing, Returning
  <2>3. FailInv(m, x)
    <3>1. CASE a = "failing"
      BY <3>1, <1>1 DEF Here
    <3>2. CASE a # "failing"
      <4>1. a \in Working \cup Returning \cup {"verify", "finish"}
        BY <3>2, <1>2, <1>3
      <4>2. m = journal
        BY <4>1, <1>1, <1>3 DEF Here, Knows, Working, Preparing, Returning
      <4>3. UpdateInv(journal, x, backups, a)
        BY <1>1, <1>3 DEF Here
      <4>4. journal.phase \in {"checking", "backup", "upgrading", "validating"}
        BY <4>1, <4>3 DEF UpdateInv, Working, Preparing, Returning
      <4> QED
        BY <4>2, <4>4, <1>1 DEF FailInv, PhaseInv, Early, Touched, Usable, Held, Serving, Calm
    <3> QED
      BY <3>1, <3>2
  <2>4. UpdateInv(j, x, B, "failing") /\ ReturnInv(x, "failing")
    BY DEF UpdateInv, ReturnInv, Returning, Preparing
  <2>5. Knows(j, k, "failing", mode[v]) /\ Modes("failing", mode[v]) /\ "failing" \in Places
    BY <2>2, <1>3 DEF Knows, Modes, Working, Preparing, Restoring, Places, Harmless
  <2> QED
    BY <2>1, <2>3, <2>4, <2>5, <1>3 DEF Here
<1>4. CASE mode[v] # "update"
  <2> DEFINE f == Failed(v)
  <2>1. /\ f \in {"idle", "block", "giveUp", "restart"}
        /\ f = "block" => mode[v] = "restart" /\ a # "block"
        /\ f \in {"giveUp", "restart"} => mode[v] = "rollback"
    BY <1>1, <1>4 DEF Failed, Parts
  <2> HIDE DEF f
  <2>2. f = "block" => a \in Returning /\ j.phase # "blocked"
    BY <2>1, <1>2 DEF Returning
  <2>3. f \in Places /\ Modes(f, mode[v])
    BY <2>1 DEF Places, Harmless, Modes, Working, Preparing, Restoring
  <2>4. Knows(j, k, f, mode[v])
    BY <2>1, <2>2 DEF Knows
  <2>5. ReturnInv(x, f) /\ RestoreInv(j, x, f)
    BY <2>1 DEF ReturnInv, RestoreInv, Returning
  <2>6. mode[v] = "restart" /\ f \in Returning \cup {"block"} => RestartInv(m, x)
    <3>1. f \in Returning \cup {"block"} => f = "block"
      BY <2>1 DEF Returning
    <3> QED
      BY <3>1, <2>2, <1>1 DEF Here
  <2>7. f # "failing"
    BY <2>1
  <2> QED
    BY <2>3, <2>4, <2>5, <2>6, <2>7, <1>4 DEF Here, f
<1> QED
  BY <1>3, <1>4

LEMMA Falls ==
  ASSUME OsInv, NEW v \in Machines, at[v] # "idle",
         NEW place \in {"idle", IF at[v] = "acquire" THEN "idle" ELSE Failed(v)},
         Goes(v, place), UNCHANGED <<journal, mem, known, mode, vm, backups, runs>>,
         faults' \in Nat
  PROVE  OsInv'
<1> DEFINE w == Peer(v)
<1>0. w \in Machines /\ w # v /\ \A u \in Machines : u = v \/ u = w
  BY Peers
<1>1. at \in [Machines -> Places] /\ Placed(v) /\ mode[v] \in Parts /\ at[v] \in Places
  BY Types DEF OsInv, TypeOK, ControllerType
<1>2. place # "idle" => place = Failed(v) /\ at[v] \notin {"idle", "acquire"}
  OBVIOUS
<1>3. place \in Places /\ Modes(place, mode[v])
  <2>1. CASE place = "idle"
    BY <2>1 DEF Places, Harmless, Modes, Working, Preparing, Restoring
  <2>2. CASE place # "idle" /\ journal.target = Peer(v)
    <3>1. Here(journal, mem[v], known[v], vm[Peer(v)], backups, at[v], mode[v])
      BY <2>2, <1>1 DEF Placed
    <3>2. journal.phase = "blocked" => at[v] \in {"block", "giveUp", "restart"}
      BY <3>1, <2>2, <1>2 DEF Here, Knows
    <3> QED
      BY <3>2, <2>2, <1>2, LostPlace
  <2>3. CASE place # "idle" /\ journal.target # Peer(v)
    <3>1. at[v] \in {"failing", "restore", "giveUp", "restart"} /\ Modes(at[v], mode[v])
      BY <2>3, <1>1, <1>2 DEF Placed, Away, Harmless
    <3> QED
      BY <3>1, <2>3, <1>2, <1>1 DEF Failed, Modes, Places, Harmless, Working, Preparing,
         Restoring, Parts
  <2> QED
    BY <2>1, <2>2, <2>3
<1>4. at'[v] = place /\ at'[w] = at[w] /\ at' \in [Machines -> Places]
  BY <1>0, <1>1, <1>3 DEF Goes
<1>5. TypeOK' /\ JournalInv'
  BY <1>4 DEF OsInv, TypeOK, ControllerType, BackupType, JournalInv
<1>6. Placed(v)'
  <2>1. Peer(v)' = Peer(v)
    BY DEF Peer
  <2>2. journal.target # Peer(v) => Away(journal, mem[v], known[v], place)
    <3>1. CASE place = "idle"
      BY <3>1 DEF Away, Harmless
    <3>2. CASE place # "idle" /\ journal.target # Peer(v)
      <4>1. Away(journal, mem[v], known[v], at[v]) /\ Modes(at[v], mode[v])
        BY <3>2, <1>1 DEF Placed
      <4>2. at[v] \in {"failing", "restore", "giveUp", "restart"} /\ ~known[v]
        BY <4>1, <3>2, <1>2 DEF Away, Harmless
      <4>3. place \in {"idle", "failing", "giveUp", "restart"}
            /\ (place = "failing" => at[v] = "failing")
        BY <4>1, <4>2, <3>2, <1>2, <1>1 DEF Failed, Modes, Parts, Restoring
      <4> QED
        BY <4>1, <4>2, <4>3 DEF Away, Harmless
    <3> QED
      BY <3>1, <3>2
  <2>3. journal.target = Peer(v) =>
          Here(journal, mem[v], known[v], vm[Peer(v)], backups, place, mode[v])
    <3> SUFFICES ASSUME journal.target = Peer(v)
                 PROVE  Here(journal, mem[v], known[v], vm[Peer(v)], backups, place, mode[v])
      OBVIOUS
    <3>1. Here(journal, mem[v], known[v], vm[Peer(v)], backups, at[v], mode[v])
      BY <1>1 DEF Placed
    <3>2. CASE place = "idle"
      BY <3>2 DEF Here, Knows, ReturnInv, RestoreInv, Returning
    <3>3. CASE place # "idle"
      <4>1. journal.phase = "blocked" => at[v] \in {"block", "giveUp", "restart"}
        BY <3>1, <3>3, <1>2 DEF Here, Knows
      <4> QED
        BY <4>1, <3>3, <1>2, LostPlace
    <3> QED
      BY <3>2, <3>3
  <2> QED
    BY <1>1, <1>3, <1>4, <2>1, <2>2, <2>3 DEF Placed
<1>7. Placed(w)'
  BY <1>0, <1>4, OtherSame
<1> QED
  BY <1>0, <1>5, <1>6, <1>7 DEF OsInv

\* A save of the named run, in both of its outcomes.
LEMMA Saved ==
  ASSUME OsInv, NEW v \in Machines, at[v] \notin {"idle", "acquire"},
         NEW new \in Journals, NEW place \in Places, Save(v, new, place),
         UNCHANGED runs, BackupType',
         new.target = Peer(v), new.phase # "idle", new.owner = journal.owner,
         PhaseInv(new, vm[Peer(v)], backups'),
         Modes(place, mode[v]),
         Here(new, new, TRUE, vm[Peer(v)], backups', place, mode[v]),
         new.phase = "blocked" => at[v] \in {"block", "giveUp"}
  PROVE  OsInv'
<1> DEFINE w == Peer(v)
<1>0. w \in Machines /\ w # v /\ w # None /\ \A u \in Machines : u = v \/ u = w
  BY Peers
<1>1. known[v] /\ journal' = new /\ mode' = mode /\ vm' = vm
  BY DEF Save, Current
<1>2. journal.target = w /\ journal.owner \in 1..runs
  BY <1>1, Named
<1>3. /\ mem \in [Machines -> Journals] /\ known \in [Machines -> BOOLEAN]
      /\ at \in [Machines -> Places] /\ mode \in [Machines -> Parts] /\ faults \in Nat
  BY DEF OsInv, TypeOK, ControllerType
<1>4. /\ Failed(v) \in Places /\ Modes(Failed(v), mode[v])
      /\ Here(new, mem[v], FALSE, vm[Peer(v)], backups', Failed(v), mode[v])
  BY <1>2, LostPlace
<1>5. /\ mem' \in [Machines -> Journals] /\ known' \in [Machines -> BOOLEAN]
      /\ at' \in [Machines -> Places] /\ faults' \in Nat
      /\ mem'[w] = mem[w] /\ at'[w] = at[w] /\ known'[w] = FALSE
      /\ \/ mem'[v] = new /\ known'[v] = TRUE /\ at'[v] = place
         \/ mem'[v] = mem[v] /\ known'[v] = FALSE /\ at'[v] = Failed(v)
  <2>1. CASE /\ mem' = [mem EXCEPT ![v] = new] /\ known' = [u \in Machines |-> u = v]
             /\ Goes(v, place) /\ UNCHANGED faults
    BY <2>1, <1>0, <1>3 DEF Goes
  <2>2. CASE /\ faults < MaxFaults /\ faults' = faults + 1
             /\ known' = [u \in Machines |-> FALSE]
             /\ Goes(v, Failed(v)) /\ UNCHANGED mem
    BY <2>2, <1>0, <1>3, <1>4 DEF Goes
  <2> QED
    BY <2>1, <2>2 DEF Save
<1>6. TypeOK'
  BY <1>1, <1>5 DEF OsInv, TypeOK, ControllerType
<1>7. JournalInv'
  BY <1>0, <1>1, <1>2 DEF OsInv, JournalInv
<1>8. Placed(v)'
  <2>1. Peer(v)' = Peer(v)
    BY DEF Peer
  <2> QED
    BY <1>1, <1>4, <1>5, <2>1 DEF Placed
<1>9. Placed(w)'
  <2>1. journal.target # v /\ journal'.target # v
    BY <1>0, <1>1, <1>2
  <2> QED
    BY <2>1, <1>0, <1>1, <1>5, OtherAway
<1> QED
  BY <1>0, <1>6, <1>7, <1>8, <1>9 DEF OsInv

-----------------------------------------------------------------------------
(* The steps on the machine that is worked on *)

LEMMA SameBackups ==
  ASSUME OsInv, UNCHANGED <<backups, runs>>
  PROVE  BackupType'
BY DEF OsInv, TypeOK, BackupType

LEMMA Going ==
  ASSUME OsInv, NEW v \in Machines, NEW place \in Places, Goes(v, place)
  PROVE  /\ at' \in [Machines -> Places] /\ at'[v] = place
         /\ at'[Peer(v)] = at[Peer(v)]
BY Peers DEF OsInv, TypeOK, ControllerType, Goes

\* A step that leaves the machines and the backups as they are.
LEMMA Waited ==
  ASSUME OsInv, NEW v \in Machines, NEW place \in Places, journal.target = Peer(v),
         Goes(v, place),
         UNCHANGED <<journal, mem, known, mode, vm, backups, runs, faults>>,
         Modes(place, mode[v]),
         Here(journal, mem[v], known[v], vm[Peer(v)], backups, place, mode[v])
  PROVE  OsInv'
<1>1. PhaseInv(journal, vm[Peer(v)], backups)
  BY Peers DEF OsInv, JournalInv
<1>2. vm[Peer(v)] \in States /\ faults' \in Nat
  BY Types DEF OsInv, TypeOK
<1>3. vm' = [vm EXCEPT ![Peer(v)] = vm[Peer(v)]]
  BY Peers DEF OsInv, TypeOK
<1>4. BackupType'
  BY SameBackups
<1>5. /\ at' \in [Machines -> Places] /\ at'[v] = place
      /\ at'[Peer(v)] \in {at[Peer(v)], "idle"}
  BY Going
<1> QED
  BY <1>1, <1>2, <1>3, <1>4, <1>5, Moved

LEMMA PrepareStep ==
  ASSUME OsInv, NEW v \in Machines, Prepare(v)
  PROVE  OsInv'
<1> DEFINE x == vm[Peer(v)]
           y == [x EXCEPT !.storage = FALSE, !.pdc = FALSE, !.stale = TRUE]
<1>1. at[v] = "prepare" /\ UNCHANGED <<journal, mem, known, mode, backups, runs, faults>>
      /\ Goes(v, "create") /\ vm' = [vm EXCEPT ![Peer(v)] = y]
  BY DEF Prepare
<1>2. at[v] \notin Harmless /\ "create" \in Places
  BY <1>1 DEF Harmless, Places, Working, Preparing
<1>3. /\ journal.target = Peer(v) /\ PhaseInv(journal, x, backups) /\ Modes(at[v], mode[v])
      /\ Here(journal, mem[v], known[v], x, backups, at[v], mode[v])
  BY <1>2, Named
<1>4. x \in States /\ faults' \in Nat /\ BackupType'
  BY <1>1, Types, SameBackups DEF OsInv, TypeOK
<1>5. y \in States /\ ~y.storage /\ ~y.pdc /\ y.upgrade = x.upgrade /\ y.restored = x.restored
  BY <1>4 DEF States
<1>6. mode[v] = "update"
  BY <1>1, <1>3 DEF Modes, Working, Preparing
<1>7. UpdateInv(journal, x, backups, "prepare") /\ Knows(journal, known[v], "prepare", "update")
  BY <1>1, <1>3, <1>6 DEF Here
<1>8. journal.phase = "backup" /\ journal.owner \notin DOMAIN backups /\ known[v]
  BY <1>7 DEF UpdateInv, Preparing, Knows
<1> HIDE DEF y
<1>9. PhaseInv(journal, y, backups)
  BY <1>3, <1>5, <1>8 DEF PhaseInv, Calm, Touched
<1>10. Here(journal, mem[v], known[v], y, backups, "create", mode[v])
  BY <1>5, <1>6, <1>8 DEF Here, Knows, ReturnInv, UpdateInv, Returning, Preparing
<1>11. Modes("create", mode[v])
  BY <1>6 DEF Modes, Restoring
<1>12. /\ at' \in [Machines -> Places] /\ at'[v] = "create"
       /\ at'[Peer(v)] \in {at[Peer(v)], "idle"}
  BY <1>1, <1>2, Going
<1> QED
  BY <1>1, <1>2, <1>3, <1>4, <1>5, <1>9, <1>10, <1>11, <1>12, Moved

\* A run in the middle of an update, as the journal describes it.
LEMMA Updating ==
  ASSUME OsInv, NEW v \in Machines, at[v] \in Working \cup {"finish"}
  PROVE  /\ mode[v] = "update" /\ known[v] /\ mem[v] = journal
         /\ journal.target = Peer(v) /\ journal.owner \in 1..runs /\ journal.owner \in Nat
         /\ PhaseInv(journal, vm[Peer(v)], backups)
         /\ UpdateInv(journal, vm[Peer(v)], backups, at[v])
         /\ at[v] \notin {"idle", "acquire"} /\ journal.phase # "idle"
         /\ journal \in Journals /\ vm[Peer(v)] \in States
<1>1. at[v] \notin Harmless
  BY DEF Working, Preparing, Harmless
<1>2. /\ journal.target = Peer(v) /\ journal.phase # "idle"
      /\ journal.owner \in 1..runs
      /\ PhaseInv(journal, vm[Peer(v)], backups)
      /\ Here(journal, mem[v], known[v], vm[Peer(v)], backups, at[v], mode[v])
      /\ (known[v] => mem[v] = journal)
      /\ Modes(at[v], mode[v])
  BY <1>1, Named
<1>3. mode[v] = "update"
  BY <1>2 DEF Modes
<1>4. known[v]
  BY <1>1, <1>2, <1>3 DEF Here, Knows, Harmless
<1> QED
  BY <1>1, <1>2, <1>3, <1>4, Types DEF Here, Harmless, Journals

\* What the named run is about to do in the update holds of it there.
LEMMA UpdatePlace ==
  ASSUME NEW j, NEW m, NEW x, NEW B, NEW a,
         a \in Working \cup Returning \cup {"verify", "finish"},
         j.phase # "blocked", ReturnInv(x, a), UpdateInv(j, x, B, a)
  PROVE  Here(j, m, TRUE, x, B, a, "update") /\ (a # "verify" => Modes(a, "update"))
BY DEF Here, Knows, Working, Preparing, Returning, Modes, Restoring

LEMMA UpdateWaits ==
  ASSUME OsInv, NEW v \in Machines, AwaitBackup(v) \/ AwaitReboot(v)
  PROVE  OsInv'
<1> DEFINE x == vm[Peer(v)]
<1>0. at[v] \in {"wait", "reboot"}
  BY DEF AwaitBackup, AwaitReboot
<1>1. /\ mode[v] = "update" /\ known[v] /\ mem[v] = journal
      /\ journal.target = Peer(v) /\ PhaseInv(journal, x, backups)
      /\ UpdateInv(journal, x, backups, at[v])
  BY <1>0, Updating DEF Working
<1>2. CASE AwaitBackup(v)
  <2>1. at[v] = "wait" /\ backups[journal.backup].available /\ Goes(v, "noteUpgrade")
        /\ UNCHANGED <<journal, mem, known, mode, vm, backups, runs, faults>>
    BY <1>1, <1>2 DEF AwaitBackup, Ready
  <2>2. UpdateInv(journal, x, backups, "noteUpgrade") /\ journal.phase # "blocked"
    BY <1>1, <2>1 DEF UpdateInv, Usable, Held, Preparing, Returning
  <2>3. ReturnInv(x, "noteUpgrade") /\ "noteUpgrade" \in Places
    BY DEF ReturnInv, Returning, Places, Working
  <2>4. /\ Here(journal, mem[v], known[v], x, backups, "noteUpgrade", mode[v])
        /\ Modes("noteUpgrade", mode[v])
    BY <1>1, <2>2, <2>3, UpdatePlace DEF Working
  <2> QED
    BY <1>1, <2>1, <2>3, <2>4, Waited
<1>3. CASE AwaitReboot(v)
  <2>1. at[v] = "reboot" /\ x.upgrade = "succeeded" /\ Goes(v, "noteValidating")
        /\ UNCHANGED <<journal, mem, known, mode, vm, backups, runs, faults>>
    BY <1>3 DEF AwaitReboot
  <2>2. UpdateInv(journal, x, backups, "noteValidating") /\ journal.phase # "blocked"
    BY <1>1, <2>1 DEF UpdateInv, Calm, Preparing, Returning
  <2>3. ReturnInv(x, "noteValidating") /\ "noteValidating" \in Places
    BY DEF ReturnInv, Returning, Places, Working
  <2>4. /\ Here(journal, mem[v], known[v], x, backups, "noteValidating", mode[v])
        /\ Modes("noteValidating", mode[v])
    BY <1>1, <2>2, <2>3, UpdatePlace DEF Working
  <2> QED
    BY <1>1, <2>1, <2>3, <2>4, Waited
<1> QED
  BY <1>2, <1>3

LEMMA UpgradeStep ==
  ASSUME OsInv, NEW v \in Machines, Upgrade(v)
  PROVE  OsInv'
<1> DEFINE x == vm[Peer(v)]
           y == [x EXCEPT !.upgrade = "scheduled"]
<1>1. at[v] = "upgrade" /\ UNCHANGED <<journal, mem, known, mode, backups, runs, faults>>
      /\ Goes(v, "reboot") /\ vm' = [vm EXCEPT ![Peer(v)] = y]
  BY DEF Upgrade
<1>2. /\ mode[v] = "update" /\ known[v] /\ mem[v] = journal
      /\ journal.target = Peer(v) /\ PhaseInv(journal, x, backups)
      /\ UpdateInv(journal, x, backups, "upgrade") /\ x \in States
  BY <1>1, Updating DEF Working
<1>3. faults' \in Nat /\ BackupType'
  BY <1>1, SameBackups DEF OsInv, TypeOK
<1>4. y \in States /\ y.upgrade = "scheduled"
      /\ y.storage = x.storage /\ y.stale = x.stale /\ y.pdc = x.pdc /\ y.restored = x.restored
  BY <1>2 DEF States
<1>5. journal.phase = "upgrading" /\ ~x.pdc
  BY <1>2 DEF UpdateInv
<1> HIDE DEF y
<1>6. PhaseInv(journal, y, backups)
  BY <1>2, <1>4, <1>5 DEF PhaseInv, Touched
<1>7. UpdateInv(journal, y, backups, "reboot") /\ ReturnInv(y, "reboot")
  BY <1>5 DEF UpdateInv, Preparing, Returning, ReturnInv
<1>8. /\ Here(journal, mem[v], known[v], y, backups, "reboot", mode[v])
      /\ Modes("reboot", mode[v])
  BY <1>2, <1>5, <1>7, UpdatePlace DEF Working
<1>9. "reboot" \in Places
  BY DEF Places, Working
<1>10. /\ at' \in [Machines -> Places] /\ at'[v] = "reboot"
       /\ at'[Peer(v)] \in {at[Peer(v)], "idle"}
  BY <1>1, <1>9, Going
<1> QED
  BY <1>1, <1>2, <1>3, <1>4, <1>6, <1>8, <1>9, <1>10, Moved

LEMMA UpdateSaved ==
  ASSUME OsInv, NEW v \in Machines, at[v] \in Working,
         NEW new \in Journals, NEW place \in Working \cup Returning, Save(v, new, place),
         UNCHANGED runs, BackupType',
         new.target = journal.target, new.owner = journal.owner,
         new.phase \notin {"idle", "blocked"},
         PhaseInv(new, vm[Peer(v)], backups'),
         ReturnInv(vm[Peer(v)], place),
         UpdateInv(new, vm[Peer(v)], backups', place)
  PROVE  OsInv'
<1>1. /\ mode[v] = "update" /\ journal.target = Peer(v)
      /\ at[v] \notin {"idle", "acquire"}
  BY Updating
<1>2. place \in Places /\ place # "verify"
  BY DEF Places, Working, Preparing, Returning
<1>3. Here(new, new, TRUE, vm[Peer(v)], backups', place, mode[v]) /\ Modes(place, mode[v])
  BY <1>1, <1>2, UpdatePlace
<1> QED
  BY <1>1, <1>2, <1>3, Saved

LEMMA CheckStep ==
  ASSUME OsInv, NEW v \in Machines, Check(v)
  PROVE  OsInv'
<1> DEFINE x == vm[Peer(v)]
           new == [mem[v] EXCEPT !.pdc = PdcRunning(Peer(v))]
<1>1. /\ at[v] = "check" /\ backups' = Pruned /\ Save(v, new, "noteBackup") /\ runs' = runs
  BY DEF Check
<1>2. /\ mem[v] = journal /\ PhaseInv(journal, x, backups)
      /\ UpdateInv(journal, x, backups, "check") /\ journal \in Journals
  BY <1>1, Updating DEF Working, Preparing
<1>3. journal.phase = "checking" /\ Serving(x) /\ journal.owner \notin DOMAIN backups
  BY <1>2 DEF UpdateInv, PhaseInv, Preparing
<1>4. x.pdc = TRUE
  BY <1>3, Types DEF Serving, States
<1>5. /\ new \in Journals /\ new.phase = "checking" /\ new.pdc = TRUE
      /\ new.owner = journal.owner /\ new.target = journal.target
      /\ new.backup = journal.backup
  BY <1>2, <1>3, <1>4 DEF PdcRunning, Journals
<1>6. BackupType' /\ DOMAIN backups' \subseteq DOMAIN backups
  <2>1. BackupType
    BY DEF OsInv, TypeOK
  <2> DEFINE old == {b \in DOMAIN backups : \E c \in {d \in DOMAIN backups :
                         backups[d].target = backups[b].target /\ backups[d].verified} :
                             backups[b].verified /\ c > b}
             kept == DOMAIN backups \ old
  <2>2. backups' = [b \in kept |-> backups[b]]
    BY <1>1 DEF Pruned
  <2>3. kept \subseteq DOMAIN backups
    OBVIOUS
  <2> HIDE DEF kept
  <2> QED
    BY <1>1, <2>1, <2>2, <2>3 DEF BackupType
<1> HIDE DEF new
<1>7. PhaseInv(new, x, backups')
  BY <1>2, <1>3, <1>5 DEF PhaseInv, Serving, Touched
<1>8. /\ UpdateInv(new, x, backups', "noteBackup") /\ ReturnInv(x, "noteBackup")
  BY <1>3, <1>5, <1>6 DEF UpdateInv, Preparing, Returning, ReturnInv
<1> QED
  BY <1>1, <1>5, <1>6, <1>7, <1>8, UpdateSaved DEF Working, Preparing

LEMMA NoteBackupStep ==
  ASSUME OsInv, NEW v \in Machines, NoteBackup(v)
  PROVE  OsInv'
<1> DEFINE x == vm[Peer(v)]
           n1 == [mem[v] EXCEPT !.phase = "backup"]
           new == [n1 EXCEPT !.gap = TRUE]
<1>1. /\ at[v] = "noteBackup" /\ Save(v, new, "prepare") /\ UNCHANGED <<backups, runs>>
  BY DEF NoteBackup
<1>2. /\ mem[v] = journal /\ PhaseInv(journal, x, backups)
      /\ UpdateInv(journal, x, backups, "noteBackup") /\ journal \in Journals
  BY <1>1, Updating DEF Working, Preparing
<1>3. /\ journal.phase = "checking" /\ journal.pdc /\ Serving(x) /\ journal.backup = 0
      /\ journal.owner \notin DOMAIN backups
  BY <1>2 DEF UpdateInv, PhaseInv, Preparing
<1>4. /\ n1 \in Journals /\ n1.phase = "backup" /\ n1.pdc = journal.pdc
      /\ n1.owner = journal.owner /\ n1.target = journal.target
      /\ n1.backup = journal.backup
  BY <1>2 DEF Journals, Phases, Early
<1> HIDE DEF n1
<1>5. /\ new \in Journals /\ new.phase = "backup" /\ new.pdc = journal.pdc /\ new.gap = TRUE
      /\ new.owner = journal.owner /\ new.target = journal.target
      /\ new.backup = journal.backup
  BY <1>4 DEF Journals
<1>6. BackupType'
  BY <1>1, SameBackups
<1> HIDE DEF new
<1>7. PhaseInv(new, x, backups')
  BY <1>2, <1>3, <1>5 DEF PhaseInv, Serving, Touched, Calm
<1>8. /\ UpdateInv(new, x, backups', "prepare") /\ ReturnInv(x, "prepare")
  BY <1>1, <1>3, <1>5 DEF UpdateInv, Preparing, Returning, ReturnInv
<1> QED
  BY <1>1, <1>5, <1>6, <1>7, <1>8, UpdateSaved DEF Working, Preparing

LEMMA NoteBackupIdStep ==
  ASSUME OsInv, NEW v \in Machines, NoteBackupId(v)
  PROVE  OsInv'
<1> DEFINE x == vm[Peer(v)]
           new == [mem[v] EXCEPT !.backup = mem[v].owner]
<1>1. /\ at[v] = "noteId" /\ Save(v, new, "wait") /\ UNCHANGED <<backups, runs>>
  BY DEF NoteBackupId
<1>2. /\ mem[v] = journal /\ PhaseInv(journal, x, backups)
      /\ UpdateInv(journal, x, backups, "noteId") /\ journal \in Journals
  BY <1>1, Updating DEF Working, Preparing
<1>3. /\ journal.phase = "backup" /\ Made(journal, backups) /\ ~x.pdc
  BY <1>2 DEF UpdateInv
<1>4. /\ new \in Journals /\ new.phase = "backup" /\ new.pdc = journal.pdc
      /\ new.gap = journal.gap
      /\ new.owner = journal.owner /\ new.target = journal.target
      /\ new.backup = journal.owner
  BY <1>2, <1>3 DEF Journals
<1>5. BackupType'
  BY <1>1, SameBackups
<1> HIDE DEF new
<1>6. Held(new, backups')
  BY <1>1, <1>3, <1>4 DEF Held, Made
<1>7. PhaseInv(new, x, backups')
  BY <1>2, <1>3, <1>4, <1>6 DEF PhaseInv, Touched
<1>8. /\ UpdateInv(new, x, backups', "wait") /\ ReturnInv(x, "wait")
  BY <1>3, <1>4, <1>6 DEF UpdateInv, Preparing, Returning, ReturnInv
<1> QED
  BY <1>1, <1>4, <1>5, <1>7, <1>8, UpdateSaved DEF Working, Preparing

LEMMA NoteUpgradeStep ==
  ASSUME OsInv, NEW v \in Machines, NoteUpgrade(v)
  PROVE  OsInv'
<1> DEFINE x == vm[Peer(v)]
           new == [mem[v] EXCEPT !.phase = "upgrading"]
<1>1. /\ at[v] = "noteUpgrade" /\ Save(v, new, "upgrade") /\ UNCHANGED <<backups, runs>>
  BY DEF NoteUpgrade
<1>2. /\ mem[v] = journal /\ PhaseInv(journal, x, backups)
      /\ UpdateInv(journal, x, backups, "noteUpgrade") /\ journal \in Journals
  BY <1>1, Updating DEF Working, Preparing
<1>3. /\ journal.phase = "backup" /\ Usable(journal, backups) /\ ~x.pdc
  BY <1>2 DEF UpdateInv
<1>4. /\ new \in Journals /\ new.phase = "upgrading" /\ new.pdc = journal.pdc
      /\ new.gap = journal.gap
      /\ new.owner = journal.owner /\ new.target = journal.target
      /\ new.backup = journal.backup
  BY <1>2, <1>3 DEF Journals, Phases, Touched
<1>5. BackupType'
  BY <1>1, SameBackups
<1> HIDE DEF new
<1>6. Usable(new, backups')
  BY <1>1, <1>3, <1>4 DEF Usable, Held, Made
<1>7. PhaseInv(new, x, backups')
  BY <1>2, <1>3, <1>4, <1>6 DEF PhaseInv, Touched, Calm
<1>8. /\ UpdateInv(new, x, backups', "upgrade") /\ ReturnInv(x, "upgrade")
  BY <1>3, <1>4 DEF UpdateInv, Preparing, Returning, ReturnInv
<1> QED
  BY <1>1, <1>4, <1>5, <1>7, <1>8, UpdateSaved DEF Working, Preparing

LEMMA NoteValidatingStep ==
  ASSUME OsInv, NEW v \in Machines, NoteValidating(v)
  PROVE  OsInv'
<1> DEFINE x == vm[Peer(v)]
           new == [mem[v] EXCEPT !.phase = "validating"]
<1>1. /\ at[v] = "noteValidating" /\ Save(v, new, "startStorage")
      /\ UNCHANGED <<backups, runs>>
  BY DEF NoteValidating
<1>2. /\ mem[v] = journal /\ PhaseInv(journal, x, backups)
      /\ UpdateInv(journal, x, backups, "noteValidating") /\ journal \in Journals
  BY <1>1, Updating DEF Working, Preparing
<1>3. /\ journal.phase = "upgrading" /\ Usable(journal, backups) /\ Calm(x)
  BY <1>2 DEF UpdateInv, PhaseInv, Touched
<1>4. /\ new \in Journals /\ new.phase = "validating" /\ new.pdc = journal.pdc
      /\ new.gap = journal.gap
      /\ new.owner = journal.owner /\ new.target = journal.target
      /\ new.backup = journal.backup
  BY <1>2, <1>3 DEF Journals, Phases, Touched
<1>5. BackupType'
  BY <1>1, SameBackups
<1> HIDE DEF new
<1>6. Usable(new, backups')
  BY <1>1, <1>3, <1>4 DEF Usable, Held, Made
<1>7. PhaseInv(new, x, backups')
  BY <1>2, <1>3, <1>4, <1>6 DEF PhaseInv, Touched
<1>8. /\ UpdateInv(new, x, backups', "startStorage") /\ ReturnInv(x, "startStorage")
  BY <1>3, <1>4 DEF UpdateInv, Preparing, Returning, ReturnInv
<1> QED
  BY <1>1, <1>4, <1>5, <1>7, <1>8, UpdateSaved DEF Working, Preparing, Returning

\* Backups that come, become available or prove themselves spoil no recovery point.
Grown(B, C) ==
  \A b \in DOMAIN B :
    /\ b \in DOMAIN C /\ C[b].target = B[b].target /\ C[b].consistent = B[b].consistent
    /\ B[b].available => C[b].available

LEMMA StillUsable ==
  ASSUME NEW B, NEW C, Grown(B, C), NEW j, NEW x
  PROVE  /\ Made(j, B) => Made(j, C)
         /\ Held(j, B) => Held(j, C)
         /\ Usable(j, B) => Usable(j, C)
         /\ PhaseInv(j, x, B) => PhaseInv(j, x, C)
<1>1. Made(j, B) => Made(j, C)
  BY DEF Grown, Made
<1>2. Held(j, B) => Held(j, C)
  BY <1>1 DEF Held
<1>3. Usable(j, B) => Usable(j, C)
  BY <1>2 DEF Grown, Usable, Held, Made
<1> QED
  BY <1>1, <1>2, <1>3 DEF PhaseInv

LEMMA CreateBackupStep ==
  ASSUME OsInv, NEW v \in Machines, CreateBackup(v)
  PROVE  OsInv'
<1> DEFINE x == vm[Peer(v)]
           o == mem[v].owner
           asked == [target |-> Peer(v), available |-> FALSE, verified |-> FALSE,
                     consistent |-> ~x.storage]
<1>1. /\ at[v] = "create" /\ Goes(v, "noteId")
      /\ UNCHANGED <<journal, mem, known, mode, vm, runs, faults>>
      /\ backups' = [b \in DOMAIN backups \cup {o} |->
                       IF b \in DOMAIN backups THEN backups[b] ELSE asked]
  BY DEF CreateBackup
<1>2. /\ mode[v] = "update" /\ known[v] /\ mem[v] = journal
      /\ journal.target = Peer(v) /\ journal.owner \in 1..runs /\ journal.owner \in Nat
      /\ PhaseInv(journal, x, backups)
      /\ UpdateInv(journal, x, backups, "create") /\ x \in States
  BY <1>1, Updating DEF Working, Preparing
<1>3. /\ journal.phase = "backup" /\ ~x.storage /\ ~x.pdc /\ o \notin DOMAIN backups
      /\ o = journal.owner
  BY <1>2 DEF UpdateInv, Preparing
<1>4. asked \in Backups /\ asked.target = Peer(v) /\ asked.consistent = TRUE
  BY <1>2, <1>3, Peers DEF Backups, States
<1> HIDE DEF asked, o
<1>5. BackupType
  BY DEF OsInv, TypeOK
<1>6. BackupType' /\ Grown(backups, backups') /\ o \in DOMAIN backups' /\ backups'[o] = asked
  BY <1>1, <1>2, <1>3, <1>4, <1>5 DEF BackupType, Grown
<1>7. PhaseInv(journal, x, backups')
  BY <1>2, <1>6, StillUsable
<1>8. UpdateInv(journal, x, backups', "noteId") /\ ReturnInv(x, "noteId")
  BY <1>2, <1>3, <1>4, <1>6 DEF UpdateInv, ReturnInv, Returning, Preparing, Made
<1>9. "noteId" \in Places /\ journal.phase # "blocked"
  BY <1>3 DEF Places, Working
<1>10. /\ Here(journal, mem[v], known[v], x, backups', "noteId", mode[v])
       /\ Modes("noteId", mode[v])
  BY <1>2, <1>8, <1>9, UpdatePlace DEF Working
<1>11. /\ at' \in [Machines -> Places] /\ at'[v] = "noteId"
       /\ at'[Peer(v)] \in {at[Peer(v)], "idle"}
  BY <1>1, <1>9, Going
<1>12. vm' = [vm EXCEPT ![Peer(v)] = x] /\ faults' \in Nat
  BY <1>1, Peers DEF OsInv, TypeOK
<1> QED
  BY <1>1, <1>2, <1>6, <1>7, <1>9, <1>10, <1>11, <1>12, Moved

LEMMA BackupAvailableStep ==
  ASSUME OsInv, NEW b \in DOMAIN backups, BackupAvailable(b)
  PROVE  OsInv'
<1>1. /\ UNCHANGED <<journal, mem, known, at, mode, vm, runs, faults>>
      /\ backups' = [backups EXCEPT ![b].available = TRUE]
  BY DEF BackupAvailable, controllers
<1> DEFINE new == [backups[b] EXCEPT !.available = TRUE]
<1>2. BackupType
  BY DEF OsInv, TypeOK
<1>3. backups[b] \in Backups /\ backups' = [backups EXCEPT ![b] = new]
  BY <1>1, <1>2 DEF BackupType
<1>4. /\ new \in Backups /\ new.available = TRUE /\ new.target = backups[b].target
      /\ new.consistent = backups[b].consistent
  BY <1>3 DEF Backups
<1> HIDE DEF new
<1>5. BackupType' /\ Grown(backups, backups') /\ DOMAIN backups' = DOMAIN backups
  BY <1>1, <1>2, <1>3, <1>4 DEF BackupType, Grown
<1>6. TypeOK' /\ JournalInv'
  BY <1>1, <1>5, StillUsable DEF OsInv, TypeOK, ControllerType, JournalInv
<1>7. ASSUME NEW v \in Machines
      PROVE  Placed(v)'
  <2>1. Placed(v) /\ Peer(v)' = Peer(v)
    BY <1>7, Types DEF Peer
  <2>2. Here(journal, mem[v], known[v], vm[Peer(v)], backups, at[v], mode[v])
          => Here(journal, mem[v], known[v], vm[Peer(v)], backups', at[v], mode[v])
    BY <1>5, StillUsable DEF Here, UpdateInv
  <2> QED
    BY <1>1, <2>1, <2>2 DEF Placed
<1> QED
  BY <1>6, <1>7 DEF OsInv

-----------------------------------------------------------------------------
(* The ways back to service *)

\* The run that returns the machine to service, in each part of the program.
LEMMA ReturnFacts ==
  ASSUME OsInv, NEW v \in Machines, at[v] \in Returning
  PROVE  /\ journal.target = Peer(v) /\ PhaseInv(journal, vm[Peer(v)], backups)
         /\ Here(journal, mem[v], known[v], vm[Peer(v)], backups, at[v], mode[v])
         /\ known[v] => mem[v] = journal
         /\ mode[v] # "restart" => known[v]
         /\ mode[v] \in Parts /\ Calm(vm[Peer(v)]) /\ journal.phase # "blocked"
         /\ mode[v] = "update" => journal.phase = "validating"
         /\ mode[v] = "restart" => RestartInv(mem[v], vm[Peer(v)])
         /\ mode[v] \in {"recover", "rollback"} =>
              journal.phase \in Early \cup {"rollback-validation"}
<1>1. at[v] \notin Harmless
  BY DEF Returning, Harmless
<1>2. /\ journal.target = Peer(v) /\ PhaseInv(journal, vm[Peer(v)], backups)
      /\ Here(journal, mem[v], known[v], vm[Peer(v)], backups, at[v], mode[v])
      /\ (known[v] => mem[v] = journal)
  BY <1>1, Named
<1>3. mode[v] # "restart" => known[v]
  BY <1>1, <1>2 DEF Here, Knows, Harmless
<1>4. Calm(vm[Peer(v)]) /\ journal.phase # "blocked"
  BY <1>2 DEF Here, Knows, ReturnInv, Returning
<1>5. mode[v] = "update" => journal.phase = "validating"
  BY <1>1, <1>2 DEF Here, UpdateInv, Harmless
<1>6. mode[v] \in {"recover", "rollback"} =>
        journal.phase \in Early \cup {"rollback-validation"}
  BY <1>2 DEF Here, RestoreInv
<1> QED
  BY <1>2, <1>3, <1>4, <1>5, <1>6, Types DEF Here

\* The next place on the way back, when it only depends on the machine.
LEMMA ReturnPlace ==
  ASSUME OsInv, NEW v \in Machines, at[v] \in Returning,
         NEW place \in {"catchUp", "activate"}, NEW y,
         ReturnInv(y, place), Calm(y),
         mode[v] = "restart" => RestartInv(mem[v], y)
  PROVE  /\ Here(journal, mem[v], known[v], y, backups, place, mode[v])
         /\ Modes(place, mode[v]) /\ place \in Places
<1>1. /\ mode[v] # "restart" => known[v]
      /\ journal.phase # "blocked" /\ mode[v] \in Parts
      /\ mode[v] = "update" => journal.phase = "validating"
      /\ mode[v] \in {"recover", "rollback"} =>
           journal.phase \in Early \cup {"rollback-validation"}
  BY ReturnFacts
<1>2. Knows(journal, known[v], place, mode[v])
  BY <1>1 DEF Knows
<1>3. mode[v] = "update" => UpdateInv(journal, y, backups, place)
  BY <1>1 DEF UpdateInv, Preparing
<1>4. mode[v] \in {"recover", "rollback"} => RestoreInv(journal, y, place)
  BY <1>1 DEF RestoreInv
<1>5. Modes(place, mode[v]) /\ place \in Places
  BY DEF Modes, Working, Preparing, Restoring, Places, Returning
<1> QED
  BY <1>2, <1>3, <1>4, <1>5 DEF Here

LEMMA StartStorageStep ==
  ASSUME OsInv, NEW v \in Machines, StartStorage(v)
  PROVE  OsInv'
<1> DEFINE x == vm[Peer(v)]
           y == [x EXCEPT !.storage = TRUE]
<1>1. at[v] = "startStorage" /\ UNCHANGED <<journal, mem, known, mode, backups, runs, faults>>
      /\ Goes(v, "catchUp") /\ vm' = [vm EXCEPT ![Peer(v)] = y]
  BY DEF StartStorage
<1>2. /\ journal.target = Peer(v) /\ PhaseInv(journal, x, backups) /\ Calm(x)
      /\ mode[v] = "restart" => RestartInv(mem[v], x)
  BY <1>1, ReturnFacts DEF Returning
<1>3. x \in States /\ faults' \in Nat /\ BackupType'
  BY <1>1, Types, SameBackups DEF OsInv, TypeOK
<1>4. /\ y \in States /\ y.storage = TRUE /\ y.upgrade = x.upgrade
      /\ y.stale = x.stale /\ y.pdc = x.pdc /\ y.restored = x.restored
  BY <1>3 DEF States
<1> HIDE DEF y
<1>5. Calm(y) /\ (Serving(x) => Serving(y))
  BY <1>2, <1>4 DEF Calm, Serving
<1>6. PhaseInv(journal, y, backups')
  BY <1>1, <1>2, <1>4, <1>5 DEF PhaseInv, Calm
<1>7. ReturnInv(y, "catchUp") /\ (mode[v] = "restart" => RestartInv(mem[v], y))
  BY <1>2, <1>4, <1>5 DEF ReturnInv, RestartInv
<1>8. /\ Here(journal, mem[v], known[v], y, backups, "catchUp", mode[v])
      /\ Modes("catchUp", mode[v]) /\ "catchUp" \in Places
  BY <1>1, <1>5, <1>7, ReturnPlace DEF Returning
<1>9. /\ at' \in [Machines -> Places] /\ at'[v] = "catchUp"
      /\ at'[Peer(v)] \in {at[Peer(v)], "idle"}
  BY <1>1, <1>8, Going
<1> QED
  BY <1>1, <1>2, <1>3, <1>4, <1>6, <1>8, <1>9, Moved

LEMMA CatchUpStep ==
  ASSUME OsInv, NEW v \in Machines, CatchUp(v)
  PROVE  OsInv'
<1> DEFINE x == vm[Peer(v)]
           y == IF mem[v].gap THEN [x EXCEPT !.stale = FALSE] ELSE x
<1>1. at[v] = "catchUp" /\ UNCHANGED <<journal, mem, known, mode, backups, runs, faults>>
      /\ Goes(v, "activate")
  BY DEF CatchUp
<1>2. vm' = [vm EXCEPT ![Peer(v)] = y]
  BY Peers DEF CatchUp, HasGap, OsInv, TypeOK
<1>3. /\ journal.target = Peer(v) /\ PhaseInv(journal, x, backups) /\ Calm(x)
      /\ mode[v] # "restart" => known[v]
      /\ known[v] => mem[v] = journal
      /\ mode[v] = "update" => journal.phase = "validating"
      /\ mode[v] = "restart" => RestartInv(mem[v], x)
      /\ mode[v] \in {"recover", "rollback"} =>
              journal.phase \in Early \cup {"rollback-validation"}
      /\ mode[v] \in Parts
      /\ Here(journal, mem[v], known[v], x, backups, "catchUp", mode[v])
  BY <1>1, ReturnFacts DEF Returning
<1>4. x \in States /\ faults' \in Nat /\ BackupType' /\ journal \in Journals /\ mem[v] \in Journals
  BY <1>1, Types, SameBackups DEF OsInv, TypeOK
<1>5. x.storage
  BY <1>3 DEF Here, ReturnInv
<1>6. ~mem[v].gap => ~x.stale
  <2>1. mode[v] = "restart" => (~mem[v].gap => Serving(x))
    BY <1>3 DEF RestartInv
  <2>2. mode[v] # "restart" =>
          mem[v] = journal /\ journal.phase \in Early \cup {"validating", "rollback-validation"}
    BY <1>3 DEF Parts
  <2> QED
    BY <2>1, <2>2, <1>3 DEF PhaseInv, Serving, Early, Touched
<1>7. /\ y \in States /\ y.storage = x.storage /\ y.upgrade = x.upgrade
      /\ y.stale = FALSE /\ y.pdc = x.pdc /\ y.restored = x.restored
  <2>1. CASE mem[v].gap
    BY <2>1, <1>4 DEF States
  <2>2. CASE ~mem[v].gap
    <3>1. y = x
      BY <2>2
    <3> QED
      BY <3>1, <2>2, <1>4, <1>6 DEF States
  <2> QED
    BY <2>1, <2>2
<1> HIDE DEF y
<1>8. Calm(y) /\ (Serving(x) => Serving(y))
  BY <1>3, <1>7 DEF Calm, Serving
<1>9. PhaseInv(journal, y, backups')
  BY <1>1, <1>3, <1>7, <1>8 DEF PhaseInv, Calm
<1>10. ReturnInv(y, "activate") /\ (mode[v] = "restart" => RestartInv(mem[v], y))
  BY <1>3, <1>5, <1>7, <1>8 DEF ReturnInv, RestartInv
<1>11. /\ Here(journal, mem[v], known[v], y, backups, "activate", mode[v])
       /\ Modes("activate", mode[v]) /\ "activate" \in Places
  BY <1>1, <1>8, <1>10, ReturnPlace DEF Returning
<1>12. /\ at' \in [Machines -> Places] /\ at'[v] = "activate"
       /\ at'[Peer(v)] \in {at[Peer(v)], "idle"}
  BY <1>1, <1>11, Going
<1> QED
  BY <1>1, <1>2, <1>3, <1>4, <1>7, <1>9, <1>11, <1>12, Moved

LEMMA ActivateStep ==
  ASSUME OsInv, NEW v \in Machines, Activate(v)
  PROVE  OsInv'
<1> DEFINE x == vm[Peer(v)]
           y == IF mem[v].pdc THEN [x EXCEPT !.pdc = TRUE] ELSE x
           place == IF mem[v].phase \in Early THEN "block" ELSE "verify"
<1>1. at[v] = "activate" /\ UNCHANGED <<journal, mem, known, mode, backups, runs, faults>>
      /\ Goes(v, place)
  BY DEF Activate
<1>2. vm' = [vm EXCEPT ![Peer(v)] = y]
  BY Peers DEF Activate, OsInv, TypeOK
<1>3. /\ journal.target = Peer(v) /\ PhaseInv(journal, x, backups) /\ Calm(x)
      /\ mode[v] # "restart" => known[v]
      /\ known[v] => mem[v] = journal
      /\ mode[v] = "update" => journal.phase = "validating"
      /\ mode[v] = "restart" => RestartInv(mem[v], x)
      /\ mode[v] \in {"recover", "rollback"} =>
              journal.phase \in Early \cup {"rollback-validation"}
      /\ mode[v] \in Parts /\ journal.phase # "blocked"
      /\ Here(journal, mem[v], known[v], x, backups, "activate", mode[v])
  BY <1>1, ReturnFacts DEF Returning
<1>4. x \in States /\ faults' \in Nat /\ BackupType' /\ journal \in Journals /\ mem[v] \in Journals
  BY <1>1, Types, SameBackups DEF OsInv, TypeOK
<1>5. x.storage /\ ~x.stale
  BY <1>3 DEF Here, ReturnInv, Returning
<1>6. /\ y \in States /\ y.storage = x.storage /\ y.upgrade = x.upgrade
      /\ y.stale = x.stale /\ y.restored = x.restored
      /\ (mem[v].pdc => y.pdc = TRUE) /\ (x.pdc => y.pdc)
  <2>1. CASE mem[v].pdc
    BY <2>1, <1>4 DEF States
  <2>2. CASE ~mem[v].pdc
    <3>1. y = x
      BY <2>2
    <3> QED
      BY <3>1, <2>2, <1>4
  <2> QED
    BY <2>1, <2>2
<1>7. mode[v] \in {"update", "recover", "rollback"} => mem[v] = journal
  BY <1>3
<1> HIDE DEF y
<1>8. Calm(y) /\ (Serving(x) => Serving(y))
  BY <1>3, <1>6 DEF Calm, Serving
<1>9. PhaseInv(journal, y, backups')
  BY <1>1, <1>3, <1>5, <1>6, <1>8 DEF PhaseInv, Calm
<1>10. place \in Places
  BY DEF Places
<1>11. Here(journal, mem[v], known[v], y, backups, place, mode[v]) /\ Modes(place, mode[v])
  <2>1. CASE mode[v] = "update"
    <3>1. place = "verify"
      BY <2>1, <1>3, <1>7 DEF Early
    <3>2. y.pdc
      BY <2>1, <1>3, <1>6, <1>7 DEF PhaseInv
    <3>3. Serving(y)
      BY <2>1, <3>2, <1>3, <1>5, <1>6, <1>8 DEF Serving, PhaseInv
    <3>4. UpdateInv(journal, y, backups, "verify") /\ ReturnInv(y, "verify")
      BY <2>1, <3>3, <1>3 DEF UpdateInv, ReturnInv, Preparing, Returning
    <3>5. Modes("verify", "update")
      BY DEF Modes, Working, Preparing, Restoring
    <3>6. known[v] = TRUE
      BY <2>1, <1>3, Types
    <3> QED
      BY <2>1, <3>1, <3>4, <3>5, <3>6, <1>3, UpdatePlace
  <2>2. CASE mode[v] = "restart"
    <3>1. place = "block" /\ RestartInv(mem[v], y)
      BY <2>2, <1>3, <1>8 DEF RestartInv
    <3>2. Knows(journal, known[v], "block", "restart") /\ ReturnInv(y, "block")
      BY <1>3 DEF Knows, ReturnInv, Returning
    <3>3. Modes("block", "restart")
      BY DEF Modes, Working, Preparing, Restoring
    <3> QED
      BY <2>2, <3>1, <3>2, <3>3 DEF Here
  <2>3. CASE mode[v] \in {"recover", "rollback"}
    <3>1. /\ mem[v] = journal /\ known[v]
          /\ place = "verify" => journal.phase = "rollback-validation"
      BY <2>3, <1>3, <1>7
    <3>2. Knows(journal, known[v], place, mode[v]) /\ ReturnInv(y, place)
      BY <3>1, <1>3 DEF Knows, ReturnInv, Returning
    <3>3. RestoreInv(journal, y, place)
      BY <3>1 DEF RestoreInv, Returning
    <3>4. Modes(place, mode[v])
      BY <2>3 DEF Modes, Working, Preparing, Restoring
    <3> QED
      BY <2>3, <3>2, <3>3, <3>4 DEF Here
  <2> QED
    BY <2>1, <2>2, <2>3, <1>3 DEF Parts
<1> HIDE DEF place
<1>12. /\ at' \in [Machines -> Places] /\ at'[v] = place
       /\ at'[Peer(v)] \in {at[Peer(v)], "idle"}
  BY <1>1, <1>10, Going
<1>13. Here(journal, mem[v], known[v], y, backups', place, mode[v])
  BY <1>1, <1>11
<1> QED
  BY <1>1, <1>2, <1>3, <1>4, <1>6, <1>9, <1>10, <1>11, <1>12, <1>13, Moved

LEMMA VerifyStep ==
  ASSUME OsInv, NEW v \in Machines, Verify(v)
  PROVE  OsInv'
<1> DEFINE x == vm[Peer(v)]
           b == mem[v].backup
           place == IF mem[v].phase = "validating" THEN "finish" ELSE "block"
           new == [backups[b] EXCEPT !.verified = TRUE]
<1>1. at[v] = "verify" /\ UNCHANGED <<journal, mem, known, mode, vm, runs, faults>>
      /\ Goes(v, place) /\ backups' = [backups EXCEPT ![b].verified = TRUE]
  BY DEF Verify
<1>2. at[v] \notin Harmless
  BY <1>1 DEF Harmless
<1>3. /\ journal.target = Peer(v) /\ PhaseInv(journal, x, backups)
      /\ Here(journal, mem[v], known[v], x, backups, "verify", mode[v])
      /\ known[v] => mem[v] = journal
      /\ mode[v] \in {"update", "recover", "rollback"}
  BY <1>1, <1>2, Named DEF Modes
<1>4. known[v] /\ mem[v] = journal /\ journal.phase # "blocked"
  BY <1>3 DEF Here, Knows
<1>5. /\ mode[v] = "update" => journal.phase = "validating" /\ Serving(x)
      /\ mode[v] # "update" => journal.phase = "rollback-validation"
  BY <1>3 DEF Here, UpdateInv, RestoreInv
<1>6. b = journal.owner /\ b \in DOMAIN backups
  BY <1>3, <1>4, <1>5 DEF PhaseInv, Touched, Usable, Held, Made
<1>7. BackupType
  BY DEF OsInv, TypeOK
<1>8. backups[b] \in Backups /\ backups' = [backups EXCEPT ![b] = new]
  BY <1>1, <1>6, <1>7 DEF BackupType
<1>9. /\ new \in Backups /\ new.available = backups[b].available
      /\ new.target = backups[b].target /\ new.consistent = backups[b].consistent
  BY <1>8 DEF Backups
<1> HIDE DEF new, b
<1>10. BackupType' /\ Grown(backups, backups')
  BY <1>1, <1>6, <1>7, <1>8, <1>9 DEF BackupType, Grown
<1>11. PhaseInv(journal, x, backups')
  BY <1>3, <1>10, StillUsable
<1>12. place \in Places
  BY DEF Places
<1>13. Here(journal, mem[v], known[v], x, backups', place, mode[v]) /\ Modes(place, mode[v])
  <2>1. CASE mode[v] = "update"
    <3>1. place = "finish" /\ known[v] = TRUE
      BY <2>1, <1>4, <1>5, Types
    <3>2. UpdateInv(journal, x, backups', "finish") /\ ReturnInv(x, "finish")
      BY <2>1, <1>5 DEF UpdateInv, ReturnInv, Preparing, Returning
    <3> QED
      BY <2>1, <3>1, <3>2, <1>4, UpdatePlace
  <2>2. CASE mode[v] # "update"
    <3>1. place = "block"
      BY <2>2, <1>4, <1>5
    <3> QED
      BY <2>2, <3>1, <1>3, <1>4 DEF Here, Knows, ReturnInv, RestoreInv, Returning, Modes,
         Working, Preparing, Restoring
  <2> QED
    BY <2>1, <2>2
<1> HIDE DEF place
<1>14. /\ at' \in [Machines -> Places] /\ at'[v] = place
       /\ at'[Peer(v)] \in {at[Peer(v)], "idle"}
  BY <1>1, <1>12, Going
<1>15. vm' = [vm EXCEPT ![Peer(v)] = x] /\ faults' \in Nat /\ x \in States
  BY <1>1, Peers, Types DEF OsInv, TypeOK
<1> QED
  BY <1>1, <1>3, <1>10, <1>11, <1>12, <1>13, <1>14, <1>15, Moved

LEMMA FinishStep ==
  ASSUME OsInv, NEW v \in Machines, Finish(v)
  PROVE  OsInv'
<1> DEFINE x == vm[Peer(v)]
           w == Peer(v)
           n1 == [mem[v] EXCEPT !.phase = "idle"]
           n2 == [n1 EXCEPT !.owner = 0]
           new == [n2 EXCEPT !.target = None]
<1>1. at[v] = "finish" /\ Save(v, new, "idle") /\ UNCHANGED <<backups, runs>>
  BY DEF Finish
<1>2. /\ mode[v] = "update" /\ known[v] /\ mem[v] = journal
      /\ journal.target = w /\ journal.owner \in 1..runs
      /\ PhaseInv(journal, x, backups) /\ UpdateInv(journal, x, backups, "finish")
      /\ journal \in Journals
  BY <1>1, Updating
<1>3. journal.phase = "validating" /\ Serving(x) /\ journal.backup # 0
  BY <1>2 DEF UpdateInv, PhaseInv, Touched, Usable, Held
<1>4. n1 \in Journals /\ n1.phase = "idle"
  BY <1>2 DEF Journals, Phases
<1> HIDE DEF n1
<1>5. n2 \in Journals /\ n2.phase = "idle"
  BY <1>4 DEF Journals
<1> HIDE DEF n2
<1>6. new \in Journals /\ new.phase = "idle" /\ new.target = None
  BY <1>5 DEF Journals
<1> HIDE DEF new
<1>7. w \in Machines /\ w # v /\ v # None /\ w # None /\ \A u \in Machines : u = v \/ u = w
  BY Peers, MachinesAssumption
<1>8. /\ mem \in [Machines -> Journals] /\ known \in [Machines -> BOOLEAN]
      /\ at \in [Machines -> Places] /\ mode \in [Machines -> Parts] /\ faults \in Nat
  BY DEF OsInv, TypeOK, ControllerType
<1>9. journal' = new /\ mode' = mode /\ vm' = vm
  BY <1>1 DEF Save
<1>10. Failed(v) = "failing" /\ Restorable(mem[v])
  BY <1>2, <1>3 DEF Failed, Restorable, Early
<1>11. /\ mem' \in [Machines -> Journals] /\ known' \in [Machines -> BOOLEAN]
       /\ at' \in [Machines -> Places] /\ faults' \in Nat
       /\ mem'[w] = mem[w] /\ at'[w] = at[w] /\ known'[w] = FALSE
       /\ \/ mem'[v] = new /\ at'[v] = "idle"
          \/ mem'[v] = mem[v] /\ known'[v] = FALSE /\ at'[v] = "failing"
  <2>1. "idle" \in Places /\ "failing" \in Places
    BY DEF Places, Harmless
  <2>2. CASE /\ mem' = [mem EXCEPT ![v] = new] /\ known' = [u \in Machines |-> u = v]
             /\ Goes(v, "idle") /\ UNCHANGED faults
    BY <2>1, <2>2, <1>6, <1>7, <1>8 DEF Goes
  <2>3. CASE /\ faults < MaxFaults /\ faults' = faults + 1
             /\ known' = [u \in Machines |-> FALSE]
             /\ Goes(v, Failed(v)) /\ UNCHANGED mem
    BY <2>1, <2>3, <1>7, <1>8, <1>10 DEF Goes
  <2> QED
    BY <2>2, <2>3, <1>1 DEF Save
<1>12. TypeOK'
  BY <1>1, <1>6, <1>9, <1>11 DEF OsInv, TypeOK, ControllerType, BackupType
<1>13. JournalInv'
  BY <1>2, <1>3, <1>6, <1>7, <1>9 DEF OsInv, JournalInv
<1>14. Placed(v)'
  <2>1. Peer(v)' = Peer(v)
    BY DEF Peer
  <2>2. Modes(at'[v], mode'[v])
    BY <1>2, <1>9, <1>11 DEF Modes, Working, Preparing, Restoring
  <2>3. Away(journal', mem'[v], known'[v], at'[v])
    BY <1>10, <1>11 DEF Away, Harmless
  <2>4. known'[v] => mem'[v] = journal'
    BY <1>9, <1>11
  <2> QED
    BY <1>6, <1>7, <1>9, <2>1, <2>2, <2>3, <2>4 DEF Placed
<1>15. Placed(w)'
  <2>1. journal.target # v /\ journal'.target # v
    BY <1>2, <1>6, <1>7, <1>9
  <2> QED
    BY <2>1, <1>7, <1>9, <1>11, OtherAway
<1> QED
  BY <1>7, <1>12, <1>13, <1>14, <1>15 DEF OsInv

LEMMA HandleStep ==
  ASSUME OsInv, NEW v \in Machines, Handle(v)
  PROVE  OsInv'
<1> DEFINE x == vm[Peer(v)]
           w == Peer(v)
           place == IF Restorable(mem[v]) THEN "restore" ELSE "startStorage"
           part == IF Restorable(mem[v]) THEN "rollback" ELSE "restart"
<1>1. at[v] = "failing" /\ UNCHANGED <<journal, mem, vm, backups, runs, faults>>
  BY DEF Handle
<1>2. at' = [at EXCEPT ![v] = place] /\ mode' = [mode EXCEPT ![v] = part]
  BY DEF Handle, Enters, Goes
<1>3. /\ mem \in [Machines -> Journals] /\ known \in [Machines -> BOOLEAN]
      /\ at \in [Machines -> Places] /\ mode \in [Machines -> Parts] /\ Placed(v)
  BY Types DEF OsInv, TypeOK, ControllerType
<1>4. w \in Machines /\ w # v /\ \A u \in Machines : u = v \/ u = w
  BY Peers
<1>5. /\ known' \in [Machines -> BOOLEAN]
      /\ known'[v] => known[v]
      /\ known'[w] = FALSE \/ known' = known
      /\ ~known[v] => known' = known
  BY <1>3, <1>4 DEF Handle, Current
<1>6. place \in Places /\ part \in Parts
  BY DEF Places, Harmless, Returning, Parts
<1>7. Modes(place, part)
  BY DEF Modes, Working, Preparing, Restoring
<1>8. at'[v] = place /\ mode'[v] = part /\ at'[w] = at[w] /\ mode'[w] = mode[w]
  BY <1>2, <1>3, <1>4
<1>9. TypeOK' /\ JournalInv'
  BY <1>1, <1>2, <1>3, <1>5, <1>6 DEF OsInv, TypeOK, ControllerType, BackupType, JournalInv
<1>10. journal.target # Peer(v) => place = "restore" /\ ~known[v]
  BY <1>1, <1>3 DEF Placed, Away
<1>11. journal.target = Peer(v) => Here(journal, mem[v], known'[v], x, backups, place, part)
  <2> SUFFICES ASSUME journal.target = Peer(v)
               PROVE  Here(journal, mem[v], known'[v], x, backups, place, part)
    OBVIOUS
  <2>1. FailInv(mem[v], x) /\ journal.phase # "blocked" /\ (known'[v] => mem[v] = journal)
    BY <1>1, <1>3, <1>5 DEF Placed, Here, Knows
  <2>2. CASE Restorable(mem[v])
    BY <2>1, <2>2 DEF Here, Knows, ReturnInv, RestoreInv, Returning
  <2>3. CASE ~Restorable(mem[v])
    <3>1. mem[v].phase \in Early
      BY <2>1, <2>3 DEF FailInv, Restorable
    <3>2. RestartInv(mem[v], x)
      BY <2>1, <3>1 DEF FailInv, RestartInv
    <3> QED
      BY <2>1, <2>3, <3>2 DEF Here, Knows, ReturnInv, RestartInv, Returning
  <2> QED
    BY <2>2, <2>3
<1> HIDE DEF place, part
<1>12. Placed(v)'
  <2>1. Peer(v)' = Peer(v)
    BY DEF Peer
  <2>2. journal.target # Peer(v) => Away(journal, mem[v], known'[v], place)
    BY <1>5, <1>10 DEF Away, Harmless
  <2>3. known'[v] => mem[v] = journal
    BY <1>3, <1>5 DEF Placed
  <2> QED
    BY <1>1, <1>7, <1>8, <1>11, <2>1, <2>2, <2>3 DEF Placed
<1>13. Placed(w)'
  <2>1. CASE known' = known
    BY <2>1, <1>1, <1>4, <1>8, OtherSame
  <2>2. CASE known' # known
    <3>1. journal.target # v /\ journal'.target # v
      BY <2>2, <1>1, <1>4, <1>5, <1>10
    <3>2. known'[w] = FALSE /\ mem'[w] = mem[w]
      BY <2>2, <1>1, <1>5
    <3> QED
      BY <3>1, <3>2, <1>8, OtherAway
  <2> QED
    BY <2>1, <2>2
<1> QED
  BY <1>4, <1>9, <1>12, <1>13 DEF OsInv

-----------------------------------------------------------------------------
(* The rollback *)

\* A run that restores, or has restored, the machine and knows the journal.
LEMMA RestoreFacts ==
  ASSUME OsInv, NEW v \in Machines, at[v] \in Restoring,
         known[v] \/ at[v] # "restore"
  PROVE  /\ mode[v] \in {"recover", "rollback"} /\ known[v] /\ mem[v] = journal
         /\ journal.target = Peer(v) /\ PhaseInv(journal, vm[Peer(v)], backups)
         /\ RestoreInv(journal, vm[Peer(v)], at[v])
         /\ journal.phase \in Touched /\ Usable(journal, backups)
         /\ at[v] \notin {"idle", "acquire"} /\ journal \in Journals
<1>1. at[v] \notin Harmless \/ (known[v] /\ at[v] \notin {"idle", "acquire"})
  BY DEF Restoring, Harmless
<1>2. /\ journal.target = Peer(v) /\ PhaseInv(journal, vm[Peer(v)], backups)
      /\ Here(journal, mem[v], known[v], vm[Peer(v)], backups, at[v], mode[v])
      /\ (known[v] => mem[v] = journal) /\ Modes(at[v], mode[v])
      /\ journal.phase # "idle"
  BY <1>1, Named
<1>3. mode[v] \in {"recover", "rollback"}
  BY <1>2 DEF Modes
<1>4. known[v]
  BY <1>2, <1>3 DEF Here, Knows, Restoring
<1>5. journal.phase \in Touched
  <2>1. at[v] = "restore" => Restorable(journal)
    BY <1>2, <1>4 DEF Here, Knows
  <2>2. at[v] # "restore" => journal.phase = "restoring"
    BY <1>2, <1>3 DEF Here, RestoreInv, Restoring
  <2>3. journal.phase \in Phases
    BY Types DEF Journals
  <2> QED
    BY <2>1, <2>2, <2>3 DEF Restorable, Phases, Touched
<1> QED
  BY <1>2, <1>3, <1>4, <1>5, Types DEF PhaseInv, Here, Restoring

LEMMA RestoreSaved ==
  ASSUME OsInv, NEW v \in Machines, at[v] \in Restoring,
         NEW new \in Journals, NEW place \in {"noteVolume", "replace", "startStorage"},
         Save(v, new, place), UNCHANGED <<backups, runs>>,
         new.target = journal.target, new.owner = journal.owner,
         new.backup = journal.backup, new.gap = journal.gap,
         new.phase \in {"restoring", "rollback-validation"},
         new.phase = "restoring" <=> place # "startStorage",
         new.phase = "rollback-validation" => vm[Peer(v)].restored
  PROVE  OsInv'
<1> DEFINE x == vm[Peer(v)]
<1>1. known[v]
  BY DEF Save, Current
<1>2. /\ mode[v] \in {"recover", "rollback"} /\ journal.target = Peer(v)
      /\ PhaseInv(journal, x, backups) /\ journal.phase \in Touched
      /\ Usable(journal, backups) /\ at[v] \notin {"idle", "acquire"}
  BY <1>1, RestoreFacts
<1>3. BackupType' /\ Usable(new, backups')
  BY <1>2, SameBackups DEF Usable, Held, Made
<1>4. PhaseInv(new, x, backups')
  BY <1>2, <1>3 DEF PhaseInv, Touched
<1>5. new.phase = "rollback-validation" => Calm(x)
  BY <1>2 DEF PhaseInv
<1>6. /\ Here(new, new, TRUE, x, backups', place, mode[v])
  BY <1>2, <1>5 DEF Here, Knows, ReturnInv, RestoreInv, Returning
<1>7. Modes(place, mode[v]) /\ place \in Places
  BY <1>2 DEF Modes, Working, Preparing, Restoring, Places, Returning
<1> QED
  BY <1>2, <1>3, <1>4, <1>6, <1>7, Saved

LEMMA RestoreSteps ==
  ASSUME OsInv, NEW v \in Machines, Restore(v) \/ NoteVolume(v) \/ NoteRestored(v)
  PROVE  OsInv'
<1>1. CASE Restore(v)
  <2> DEFINE new == [mem[v] EXCEPT !.phase = "restoring"]
             place == IF mem[v].recovery THEN "replace" ELSE "noteVolume"
  <2>1. at[v] = "restore" /\ Save(v, new, place) /\ UNCHANGED <<backups, runs>>
    BY <1>1 DEF Restore
  <2>2. known[v] /\ at[v] \in Restoring
    BY <2>1 DEF Save, Current, Restoring
  <2>3. mem[v] = journal /\ journal \in Journals
    BY <2>2, RestoreFacts
  <2>4. /\ new \in Journals /\ new.phase = "restoring"
        /\ new.target = journal.target /\ new.owner = journal.owner
        /\ new.backup = journal.backup /\ new.gap = journal.gap
    BY <2>3 DEF Journals, Phases, Touched
  <2>5. place \in {"noteVolume", "replace"}
    OBVIOUS
  <2> HIDE DEF new, place
  <2> QED
    BY <2>1, <2>2, <2>4, <2>5, RestoreSaved
<1>2. CASE NoteVolume(v)
  <2> DEFINE new == [mem[v] EXCEPT !.recovery = TRUE]
  <2>1. at[v] = "noteVolume" /\ Save(v, new, "replace") /\ UNCHANGED <<backups, runs>>
    BY <1>2 DEF NoteVolume
  <2>2. at[v] \in Restoring
    BY <2>1 DEF Restoring
  <2>3. /\ mem[v] = journal /\ journal \in Journals
        /\ RestoreInv(journal, vm[Peer(v)], "noteVolume")
    BY <2>1, <2>2, RestoreFacts
  <2>4. /\ new \in Journals /\ new.phase = "restoring"
        /\ new.target = journal.target /\ new.owner = journal.owner
        /\ new.backup = journal.backup /\ new.gap = journal.gap
    BY <2>3 DEF Journals, RestoreInv
  <2> HIDE DEF new
  <2> QED
    BY <2>1, <2>2, <2>4, RestoreSaved
<1>3. CASE NoteRestored(v)
  <2> DEFINE new == [mem[v] EXCEPT !.phase = "rollback-validation"]
  <2>1. at[v] = "noteRestored" /\ Save(v, new, "startStorage") /\ UNCHANGED <<backups, runs>>
    BY <1>3 DEF NoteRestored
  <2>2. at[v] \in Restoring
    BY <2>1 DEF Restoring
  <2>3. /\ mem[v] = journal /\ journal \in Journals
        /\ RestoreInv(journal, vm[Peer(v)], "noteRestored")
    BY <2>1, <2>2, RestoreFacts
  <2>4. /\ new \in Journals /\ new.phase = "rollback-validation"
        /\ new.target = journal.target /\ new.owner = journal.owner
        /\ new.backup = journal.backup /\ new.gap = journal.gap
        /\ vm[Peer(v)].restored
    BY <2>3 DEF Journals, Phases, Touched, RestoreInv
  <2> HIDE DEF new
  <2> QED
    BY <2>1, <2>2, <2>4, RestoreSaved
<1> QED
  BY <1>1, <1>2, <1>3

LEMMA ReplaceStep ==
  ASSUME OsInv, NEW v \in Machines, Replace(v)
  PROVE  OsInv'
<1> DEFINE x == vm[Peer(v)]
           booted == [storage |-> FALSE, pdc |-> FALSE, stale |-> TRUE, upgrade |-> "none",
                      restored |-> TRUE]
           y == IF x.restored THEN x ELSE booted
<1>1. at[v] = "replace" /\ UNCHANGED <<journal, mem, known, mode, backups, runs, faults>>
      /\ at' = [at EXCEPT ![v] = "noteRestored", ![Peer(v)] = "idle"]
  BY DEF Replace
<1>2. vm' = [vm EXCEPT ![Peer(v)] = y]
  BY Peers DEF Replace, OsInv, TypeOK
<1>3. at[v] \in Restoring
  BY <1>1 DEF Restoring
<1>4. /\ mode[v] \in {"recover", "rollback"} /\ known[v] /\ mem[v] = journal
      /\ journal.target = Peer(v) /\ PhaseInv(journal, x, backups)
      /\ RestoreInv(journal, x, "replace") /\ Usable(journal, backups)
  BY <1>1, <1>3, RestoreFacts
<1>5. x \in States /\ faults' \in Nat /\ BackupType'
  BY <1>1, Types, SameBackups DEF OsInv, TypeOK
<1>6. y \in States
  BY <1>5 DEF States
<1>7. y.restored /\ Calm(y) /\ (y.pdc => y.storage /\ ~y.stale)
  BY <1>4 DEF PhaseInv, Calm
<1> HIDE DEF y
<1>8. journal.phase = "restoring"
  BY <1>4 DEF RestoreInv
<1>9. PhaseInv(journal, y, backups')
  BY <1>1, <1>4, <1>7, <1>8 DEF PhaseInv, Calm
<1>10. Here(journal, mem[v], known[v], y, backups', "noteRestored", mode[v])
  BY <1>4, <1>7, <1>8 DEF Here, Knows, ReturnInv, RestoreInv, Returning
<1>11. Modes("noteRestored", mode[v]) /\ "noteRestored" \in Places /\ "idle" \in Places
  BY <1>4 DEF Modes, Working, Preparing, Restoring, Places, Harmless
<1>12. /\ at' \in [Machines -> Places] /\ at'[v] = "noteRestored"
       /\ at'[Peer(v)] \in {at[Peer(v)], "idle"}
  BY <1>1, <1>11, Peers DEF OsInv, TypeOK, ControllerType
<1> QED
  BY <1>1, <1>2, <1>4, <1>5, <1>6, <1>9, <1>10, <1>11, <1>12, Moved

LEMMA BlockStep ==
  ASSUME OsInv, NEW v \in Machines, Block(v)
  PROVE  OsInv'
<1> DEFINE x == vm[Peer(v)]
           new == [mem[v] EXCEPT !.phase = "blocked"]
           place == IF at[v] = "block" THEN "idle" ELSE "restart"
<1>1. at[v] \in {"block", "giveUp"} /\ Save(v, new, place) /\ UNCHANGED <<backups, runs>>
  BY DEF Block
<1>2. known[v] /\ at[v] \notin {"idle", "acquire"}
  BY <1>1 DEF Save, Current
<1>3. /\ journal.target = Peer(v) /\ PhaseInv(journal, x, backups)
      /\ mem[v] = journal /\ Modes(at[v], mode[v]) /\ journal \in Journals
  BY <1>2, Named, Types
<1>4. /\ new \in Journals /\ new.phase = "blocked"
      /\ new.target = journal.target /\ new.owner = journal.owner
      /\ new.backup = journal.backup
  BY <1>3 DEF Journals, Phases
<1> HIDE DEF new
<1>5. BackupType'
  BY <1>1, SameBackups
<1>6. PhaseInv(new, x, backups')
  BY <1>1, <1>3, <1>4 DEF PhaseInv, Touched, Usable, Held, Made
<1>7. place \in Places /\ place \in {"idle", "restart"}
  BY DEF Places, Harmless
<1>8. Modes(place, mode[v])
  BY <1>1, <1>3 DEF Modes, Working, Preparing, Restoring
<1>9. Here(new, new, TRUE, x, backups', place, mode[v])
  BY <1>3, <1>4, <1>7, <1>8 DEF Here, Knows, ReturnInv, RestoreInv, Returning, Modes
<1> HIDE DEF place
<1> QED
  BY <1>1, <1>2, <1>3, <1>4, <1>5, <1>6, <1>7, <1>8, <1>9, Saved

LEMMA RestartOriginalStep ==
  ASSUME OsInv, NEW v \in Machines, RestartOriginal(v)
  PROVE  OsInv'
<1> DEFINE x == vm[Peer(v)]
           w == Peer(v)
           y == [x EXCEPT !.storage = TRUE]
<1>1. at[v] = "restart" /\ UNCHANGED <<journal, mem, known, mode, backups, runs, faults>>
      /\ Goes(v, "idle") /\ "idle" \in Places
  BY DEF RestartOriginal, Places, Harmless
<1>2. x \in States /\ faults' \in Nat /\ BackupType'
  BY <1>1, Types, SameBackups DEF OsInv, TypeOK
<1>3. CASE known[v] /\ ~x.restored
  <2>1. vm' = [vm EXCEPT ![Peer(v)] = y]
    BY <1>3 DEF RestartOriginal, Current
  <2>2. /\ journal.target = Peer(v) /\ PhaseInv(journal, x, backups)
        /\ Here(journal, mem[v], known[v], x, backups, at[v], mode[v])
    BY <1>1, <1>3, Named
  <2>3. /\ y \in States /\ y.storage = TRUE /\ y.upgrade = x.upgrade
        /\ y.stale = x.stale /\ y.pdc = x.pdc /\ y.restored = x.restored
    BY <1>2 DEF States
  <2> HIDE DEF y
  <2>4. PhaseInv(journal, y, backups')
    BY <1>1, <2>2, <2>3 DEF PhaseInv, Serving, Calm
  <2>5. Here(journal, mem[v], known[v], y, backups', "idle", mode[v])
    BY DEF Here, Knows, ReturnInv, RestoreInv, Returning
  <2>6. Modes("idle", mode[v])
    BY DEF Modes, Working, Preparing, Restoring
  <2>7. /\ at' \in [Machines -> Places] /\ at'[v] = "idle"
        /\ at'[Peer(v)] \in {at[Peer(v)], "idle"}
    BY <1>1, Going
  <2> QED
    BY <1>1, <1>2, <2>1, <2>2, <2>3, <2>4, <2>5, <2>6, <2>7, Moved
<1>4. CASE ~(known[v] /\ ~x.restored)
  <2>1. vm' = vm
    BY <1>4 DEF RestartOriginal, Current
  <2>2. at[v] # "idle"
    BY <1>1
  <2> QED
    BY <1>1, <1>2, <2>1, <2>2, Falls
<1> QED
  BY <1>3, <1>4

LEMMA UpgradeEndsStep ==
  ASSUME OsInv, NEW w \in Machines, NEW outcome \in {"succeeded", "failed"},
         UpgradeEnds(w, outcome)
  PROVE  OsInv'
<1> DEFINE v == Peer(w)
           x == vm[w]
           x1 == [x EXCEPT !.upgrade = outcome]
           y == [x1 EXCEPT !.storage = IF outcome = "succeeded" THEN FALSE ELSE @]
<1>1. /\ x.upgrade = "scheduled" /\ UNCHANGED <<journal, mem, known, mode, backups, runs, faults>>
      /\ at' = IF outcome = "succeeded" THEN [at EXCEPT ![w] = "idle"] ELSE at
  BY DEF UpgradeEnds
<1>2. v \in Machines /\ v # w /\ Peer(v) = w /\ w # None
  BY Peers
<1>3. vm \in [Machines -> States] /\ x \in States /\ at \in [Machines -> Places]
      /\ faults' \in Nat /\ BackupType'
  BY <1>1, SameBackups DEF OsInv, TypeOK, ControllerType
<1>4. vm' = [vm EXCEPT ![Peer(v)] = y]
  BY <1>2, <1>3 DEF UpgradeEnds
<1>5. x1 \in States /\ x1.upgrade = outcome /\ x1.storage = x.storage
      /\ x1.stale = x.stale /\ x1.pdc = x.pdc /\ x1.restored = x.restored
  BY <1>3 DEF States
<1> HIDE DEF x1
<1>6. y \in States /\ y.upgrade = outcome /\ (~x.storage => ~y.storage)
      /\ y.stale = x.stale /\ y.pdc = x.pdc /\ y.restored = x.restored
  BY <1>5 DEF States
<1> HIDE DEF y
<1>7. ~Calm(x) /\ ~Serving(x)
  BY <1>1 DEF Calm, Serving
<1>8. journal.target = w
  BY <1>7 DEF OsInv, JournalInv
<1>9. PhaseInv(journal, x, backups) /\ Placed(v)
  BY <1>2, <1>8 DEF OsInv, JournalInv
<1>10. /\ Here(journal, mem[v], known[v], x, backups, at[v], mode[v])
       /\ Modes(at[v], mode[v]) /\ at[v] \in Places /\ mode[v] \in Parts
  BY <1>2, <1>8, <1>9, Types DEF Placed
<1>11. PhaseInv(journal, y, backups')
  BY <1>1, <1>6, <1>7, <1>9 DEF PhaseInv, Calm
<1>12. Here(journal, mem[v], known[v], y, backups', at[v], mode[v])
  <2>1. Knows(journal, known[v], at[v], mode[v])
    BY <1>10 DEF Here
  <2>2. at[v] \notin Returning
    BY <1>7, <1>10 DEF Here, ReturnInv
  <2>3. ReturnInv(y, at[v])
    BY <2>2 DEF ReturnInv, Returning
  <2>4. mode[v] = "update" /\ at[v] # "idle" => UpdateInv(journal, y, backups', at[v])
    <3> SUFFICES ASSUME mode[v] = "update", at[v] # "idle"
                 PROVE  UpdateInv(journal, y, backups', at[v])
      OBVIOUS
    <3>1. UpdateInv(journal, x, backups, at[v])
      BY <1>10 DEF Here
    <3>2. at[v] \notin {"verify", "finish", "noteValidating"}
      BY <3>1, <1>7 DEF UpdateInv
    <3> QED
      BY <3>1, <3>2, <2>2, <1>1, <1>6 DEF UpdateInv
  <2>5. at[v] = "failing" => FailInv(mem[v], y)
    BY <1>7, <1>10 DEF Here, FailInv
  <2>6. ~(mode[v] = "restart" /\ at[v] \in Returning \cup {"block"})
    BY <1>7, <1>10 DEF Here, RestartInv
  <2>7. mode[v] \in {"recover", "rollback"} => RestoreInv(journal, y, at[v])
    BY <2>2, <1>6, <1>10 DEF Here, RestoreInv
  <2> QED
    BY <2>1, <2>3, <2>4, <2>5, <2>6, <2>7 DEF Here
<1>13. /\ at' \in [Machines -> Places] /\ at'[v] = at[v]
       /\ at'[Peer(v)] \in {at[Peer(v)], "idle"}
  <2>1. "idle" \in Places
    BY DEF Places, Harmless
  <2> QED
    BY <2>1, <1>1, <1>2, <1>3
<1> HIDE DEF v
<1> QED
  BY <1>1, <1>2, <1>3, <1>4, <1>6, <1>8, <1>10, <1>11, <1>12, <1>13, Moved

-----------------------------------------------------------------------------
(* The journal is taken and given back *)

LEMMA ReviewStep ==
  ASSUME OsInv, Review
  PROVE  OsInv'
<1>1. /\ journal.phase = "blocked" /\ journal' = IdleJournal
      /\ known' = [v \in Machines |-> FALSE] /\ vm' = [v \in Machines |-> Whole]
      /\ UNCHANGED <<mem, at, mode, backups, runs, faults>>
  BY DEF Review
<1>2. IdleJournal \in Journals /\ Whole \in States /\ Serving(Whole)
  BY DEF IdleJournal, Journals, Phases, Whole, States, Serving, Calm
<1>3. IdleJournal.phase = "idle" /\ IdleJournal.target = None
  BY DEF IdleJournal
<1>4. TypeOK' /\ JournalInv'
  BY <1>1, <1>2, <1>3 DEF OsInv, TypeOK, ControllerType, BackupType, JournalInv
<1>5. ASSUME NEW v \in Machines
      PROVE  Placed(v)'
  <2>1. Placed(v) /\ Peer(v)' = Peer(v) /\ Peer(v) # None
    BY <1>5, Types, Peers DEF Peer
  <2>2. journal.target = Peer(v) => at[v] \in {"idle", "giveUp", "restart"}
    BY <1>1, <2>1 DEF Placed, Here, Knows
  <2>3. Away(journal', mem[v], FALSE, at[v])
    BY <2>1, <2>2 DEF Placed, Away, Harmless
  <2> QED
    BY <1>1, <1>3, <2>1, <2>3 DEF Placed
<1> QED
  BY <1>4, <1>5 DEF OsInv

LEMMA StartStep ==
  ASSUME OsInv, NEW v \in Machines, Start(v)
  PROVE  OsInv'
<1> DEFINE x == vm[Peer(v)]
           w == Peer(v)
<1>1. /\ at[v] = "idle" /\ mem' = [mem EXCEPT ![v] = journal]
      /\ known' = [known EXCEPT ![v] = TRUE]
      /\ UNCHANGED <<journal, vm, backups, runs, faults>>
  BY DEF Start
<1>2. PICK place \in {"acquire", "startStorage", "restore"} :
        /\ Enters(v, place, "recover")
        /\ place = "acquire" => journal.phase = "idle"
        /\ place = "startStorage" => journal.target = w /\ journal.phase \in Early
        /\ place = "restore" => journal.target = w /\ Restorable(journal)
  BY DEF Start
<1>3. /\ mem \in [Machines -> Journals] /\ known \in [Machines -> BOOLEAN]
      /\ at \in [Machines -> Places] /\ mode \in [Machines -> Parts] /\ JournalInv
      /\ journal \in Journals
  BY DEF OsInv, TypeOK, ControllerType
<1>4. w \in Machines /\ w # v /\ w # None /\ \A u \in Machines : u = v \/ u = w
  BY Peers
<1>5. place \in Places /\ "recover" \in Parts
  BY DEF Places, Harmless, Returning, Parts
<1>6. /\ at' \in [Machines -> Places] /\ mode' \in [Machines -> Parts]
      /\ mem' \in [Machines -> Journals] /\ known' \in [Machines -> BOOLEAN]
      /\ at'[v] = place /\ mode'[v] = "recover" /\ mem'[v] = journal /\ known'[v] = TRUE
      /\ at'[w] = at[w] /\ mode'[w] = mode[w] /\ mem'[w] = mem[w] /\ known'[w] = known[w]
  BY <1>1, <1>2, <1>3, <1>4, <1>5 DEF Enters, Goes
<1>7. TypeOK' /\ JournalInv'
  BY <1>1, <1>6 DEF OsInv, TypeOK, ControllerType, BackupType, JournalInv
<1>8. Placed(v)'
  <2>1. Peer(v)' = Peer(v)
    BY DEF Peer
  <2>2. Modes(place, "recover")
    BY <1>2 DEF Modes, Working, Preparing, Restoring
  <2>3. journal.target # w => Away(journal, journal, TRUE, place)
    BY <1>2 DEF Away, Harmless
  <2>4. journal.target = w => Here(journal, journal, TRUE, x, backups, place, "recover")
    <3> SUFFICES ASSUME journal.target = w
                 PROVE  Here(journal, journal, TRUE, x, backups, place, "recover")
      OBVIOUS
    <3>1. PhaseInv(journal, x, backups) /\ journal.phase # "idle"
      BY <1>3, <1>4 DEF JournalInv
    <3>2. CASE place = "startStorage"
      <4>1. Calm(x) /\ journal.phase \in Early
        BY <1>2, <3>1, <3>2 DEF PhaseInv, Early, Serving
      <4> QED
        BY <3>2, <4>1 DEF Here, Knows, ReturnInv, RestoreInv, Early, Returning
    <3>3. CASE place = "restore"
      <4>1. Restorable(journal)
        BY <1>2, <3>3
      <4> QED
        BY <3>3, <4>1 DEF Here, Knows, ReturnInv, RestoreInv, Returning, Restorable
    <3> QED
      BY <1>2, <3>1, <3>2, <3>3
  <2> QED
    BY <1>1, <1>6, <2>1, <2>2, <2>3, <2>4 DEF Placed
<1>9. Placed(w)'
  BY <1>1, <1>4, <1>6, OtherSame
<1> QED
  BY <1>4, <1>7, <1>8, <1>9 DEF OsInv

LEMMA AcquireStep ==
  ASSUME OsInv, NEW v \in Machines, Acquire(v)
  PROVE  OsInv'
<1> DEFINE x == vm[Peer(v)]
           w == Peer(v)
           n1 == [IdleJournal EXCEPT !.phase = "checking"]
           n2 == [n1 EXCEPT !.owner = runs + 1]
           new == [n2 EXCEPT !.target = Peer(v)]
<1>1. /\ at[v] = "acquire" /\ known[v] /\ journal' = new /\ runs' = runs + 1
      /\ mode' = [mode EXCEPT ![v] = "update"]
      /\ UNCHANGED <<vm, backups>>
  BY DEF Acquire, Current
<1>2. w \in Machines /\ w # v /\ w # None /\ v # None /\ \A u \in Machines : u = v \/ u = w
  BY Peers, MachinesAssumption
<1>3. /\ mem \in [Machines -> Journals] /\ known \in [Machines -> BOOLEAN]
      /\ at \in [Machines -> Places] /\ mode \in [Machines -> Parts] /\ faults \in Nat
      /\ runs \in Nat /\ BackupType /\ JournalInv /\ Placed(v) /\ vm \in [Machines -> States]
  BY DEF OsInv, TypeOK, ControllerType
<1>4. n1 \in Journals /\ n1.phase = "checking" /\ n1.backup = 0
  BY DEF IdleJournal, Journals, Phases, Early
<1> HIDE DEF n1
<1>5. n2 \in Journals /\ n2.phase = "checking" /\ n2.backup = 0 /\ n2.owner = runs + 1
  BY <1>3, <1>4 DEF Journals
<1> HIDE DEF n2
<1>6. /\ new \in Journals /\ new.phase = "checking" /\ new.backup = 0
      /\ new.owner = runs + 1 /\ new.target = w
  BY <1>2, <1>5 DEF Journals
<1> HIDE DEF new
<1>7. journal.target = None /\ journal.phase = "idle"
  BY <1>1, <1>3 DEF Placed, Away, Here, Knows, JournalInv
<1>8. Serving(x) /\ \A u \in Machines : Serving(vm[u])
  BY <1>2, <1>3, <1>7, MachinesAssumption DEF JournalInv
<1>9. new.owner \notin DOMAIN backups
  BY <1>3, <1>6 DEF BackupType
<1>10. /\ mem' \in [Machines -> Journals] /\ known' \in [Machines -> BOOLEAN]
       /\ at' \in [Machines -> Places] /\ faults' \in Nat
       /\ mem'[w] = mem[w] /\ at'[w] = at[w] /\ known'[w] = FALSE
       /\ \/ mem'[v] = new /\ known'[v] = TRUE /\ at'[v] = "check"
          \/ mem'[v] = mem[v] /\ known'[v] = FALSE /\ at'[v] = "idle"
  <2>1. "idle" \in Places /\ "check" \in Places
    BY DEF Places, Harmless, Working, Preparing
  <2>2. CASE /\ mem' = [mem EXCEPT ![v] = new] /\ known' = [u \in Machines |-> u = v]
             /\ Goes(v, "check") /\ UNCHANGED faults
    BY <2>1, <2>2, <1>2, <1>3, <1>6 DEF Goes
  <2>3. CASE /\ faults < MaxFaults /\ faults' = faults + 1
             /\ known' = [u \in Machines |-> FALSE]
             /\ Goes(v, "idle") /\ UNCHANGED mem
    BY <2>1, <2>3, <1>2, <1>3 DEF Goes
  <2>4. new = [IdleJournal EXCEPT !.phase = "checking", !.owner = runs + 1,
                                  !.target = Peer(v)]
    BY DEF new, n1, n2
  <2> QED
    BY <2>2, <2>3, <2>4 DEF Acquire
<1>11. mode' \in [Machines -> Parts] /\ mode'[v] = "update" /\ mode'[w] = mode[w]
  BY <1>1, <1>2, <1>3 DEF Parts
<1>12. BackupType' /\ runs' \in Nat
  <2>1. 1..runs \subseteq 1..(runs + 1)
    BY <1>3
  <2> QED
    BY <1>1, <1>3, <2>1 DEF BackupType
<1>13. TypeOK'
  BY <1>1, <1>3, <1>6, <1>10, <1>11, <1>12 DEF TypeOK, ControllerType
<1>14. PhaseInv(new, x, backups)
  BY <1>6, <1>8 DEF PhaseInv, Serving, Touched, Calm
<1>15. JournalInv'
  <2>1. runs + 1 \in 1..(runs + 1)
    BY <1>3
  <2> QED
    BY <1>1, <1>2, <1>6, <1>8, <1>14, <2>1 DEF JournalInv
<1>16. Placed(v)'
  <2>1. Peer(v)' = Peer(v)
    BY DEF Peer
  <2>2. Modes(at'[v], "update")
    BY <1>10 DEF Modes, Working, Preparing, Restoring
  <2>3. Here(new, new, TRUE, x, backups, "check", "update")
    <3>1. UpdateInv(new, x, backups, "check") /\ ReturnInv(x, "check")
      BY <1>6, <1>9 DEF UpdateInv, ReturnInv, Preparing, Returning
    <3> QED
      BY <3>1, <1>6, UpdatePlace DEF Working, Preparing
  <2>4. Here(new, mem[v], FALSE, x, backups, "idle", "update")
    BY DEF Here, Knows, ReturnInv, Returning
  <2> QED
    BY <1>1, <1>6, <1>10, <1>11, <2>1, <2>2, <2>3, <2>4 DEF Placed
<1>17. Placed(w)'
  <2>1. journal.target # v /\ journal'.target # v
    BY <1>1, <1>2, <1>6, <1>7
  <2> QED
    BY <2>1, <1>10, <1>11, OtherAway
<1> QED
  BY <1>2, <1>13, <1>15, <1>16, <1>17 DEF OsInv

-----------------------------------------------------------------------------
(* The invariant and what follows from it *)

LEMMA OsInvInit == Init => OsInv
<1> SUFFICES ASSUME Init PROVE OsInv
  OBVIOUS
<1>1. IdleJournal \in Journals /\ Whole \in States /\ Serving(Whole)
      /\ IdleJournal.phase = "idle" /\ IdleJournal.target = None
  BY DEF IdleJournal, Journals, Phases, Whole, States, Serving, Calm
<1>2. DOMAIN backups = {}
  BY DEF Init
<1>3. BackupType
  BY <1>2 DEF BackupType, Init
<1>4. "idle" \in Places /\ "recover" \in Parts
  BY DEF Places, Harmless, Parts
<1>5. TypeOK /\ JournalInv
  BY <1>1, <1>3, <1>4 DEF Init, TypeOK, ControllerType, JournalInv
<1>6. ASSUME NEW v \in Machines
      PROVE  Placed(v)
  <2>1. /\ journal.target # Peer(v) /\ at[v] = "idle" /\ mode[v] = "recover"
        /\ known[v] = FALSE
    BY <1>1, <1>6, Peers DEF Init
  <2> QED
    BY <2>1 DEF Placed, Away, Harmless, Modes, Working, Preparing, Restoring
<1> QED
  BY <1>5, <1>6 DEF OsInv

\* A run is ended or sent to its handlers by a failure, by its death, by an
\* interval that is too long, and by a deadline, whose guard needs no part in
\* the proof.
LEMMA FallSteps ==
  ASSUME OsInv, NEW v \in Machines, Fail(v) \/ Die(v) \/ TooLate(v) \/ Deadline(v)
  PROVE  OsInv'
<1> DEFINE fell == IF at[v] = "acquire" THEN "idle" ELSE Failed(v)
<1>1. faults \in Nat
  BY DEF OsInv, TypeOK
<1>2. CASE Fail(v)
  <2>1. /\ at[v] # "idle" /\ Goes(v, fell) /\ faults' = faults + 1
        /\ UNCHANGED <<journal, mem, known, mode, vm, backups, runs>>
    BY <1>2 DEF Fail
  <2> HIDE DEF fell
  <2>2. faults' \in Nat
    BY <1>1, <2>1
  <2> QED
    BY <2>1, <2>2, Falls DEF fell
<1>3. CASE Die(v)
  <2>1. /\ at[v] # "idle" /\ Goes(v, "idle") /\ faults' = faults + 1
        /\ UNCHANGED <<journal, mem, known, mode, vm, backups, runs>>
    BY <1>3 DEF Die
  <2>2. faults' \in Nat
    BY <1>1, <2>1
  <2> QED
    BY <2>1, <2>2, Falls
<1>4. CASE Deadline(v)
  <2>1. /\ at[v] # "idle" /\ Goes(v, fell)
        /\ UNCHANGED <<journal, mem, known, mode, vm, backups, runs, faults>>
    BY <1>4 DEF Deadline
  <2>2. faults' \in Nat
    BY <1>1, <2>1
  <2> QED
    BY <2>1, <2>2, Falls DEF fell
<1>5. CASE TooLate(v)
  <2>1. /\ at[v] # "idle" /\ Goes(v, fell)
        /\ UNCHANGED <<journal, mem, known, mode, vm, backups, runs, faults>>
    BY <1>5 DEF TooLate
  <2>2. faults' \in Nat
    BY <1>1, <2>1
  <2> QED
    BY <2>1, <2>2, Falls DEF fell
<1> QED
  BY <1>2, <1>3, <1>4, <1>5

LEMMA WorksStep ==
  ASSUME OsInv, NEW v \in Machines, Works(v)
  PROVE  OsInv'
<1>1. CASE Acquire(v) \/ Check(v) \/ NoteBackup(v) \/ Prepare(v) \/ CreateBackup(v)
           \/ NoteBackupId(v) \/ AwaitBackup(v)
  BY <1>1, AcquireStep, CheckStep, NoteBackupStep, PrepareStep, CreateBackupStep,
     NoteBackupIdStep, UpdateWaits
<1>2. CASE NoteUpgrade(v) \/ Upgrade(v) \/ AwaitReboot(v) \/ NoteValidating(v)
           \/ StartStorage(v) \/ CatchUp(v) \/ Activate(v) \/ Verify(v) \/ Finish(v)
  BY <1>2, NoteUpgradeStep, UpgradeStep, UpdateWaits, NoteValidatingStep, StartStorageStep,
     CatchUpStep, ActivateStep, VerifyStep, FinishStep
<1>3. CASE Handle(v) \/ Restore(v) \/ NoteVolume(v) \/ Replace(v) \/ NoteRestored(v)
           \/ Block(v) \/ RestartOriginal(v)
  BY <1>3, HandleStep, RestoreSteps, ReplaceStep, BlockStep, RestartOriginalStep
<1>4. CASE TooLate(v)
  BY <1>4, FallSteps
<1> QED
  BY <1>1, <1>2, <1>3, <1>4 DEF Works

\* The invariant does not speak of time.
LEMMA OsInvStutters == OsInv /\ (UNCHANGED vars \/ HoursPass) => OsInv'
<1> SUFFICES ASSUME OsInv, UNCHANGED vars \/ HoursPass PROVE OsInv'
  OBVIOUS
<1>1. UNCHANGED <<journal, mem, known, at, mode, vm, backups, runs, faults>>
  BY DEF vars, controllers, HoursPass
<1>2. TypeOK' /\ JournalInv'
  BY <1>1 DEF OsInv, TypeOK, ControllerType, BackupType, JournalInv
<1>3. ASSUME NEW v \in Machines
      PROVE  Placed(v)'
  <2>1. Placed(v) /\ Peer(v)' = Peer(v)
    BY <1>3, Types DEF Peer
  <2> QED
    BY <1>1, <2>1 DEF Placed
<1> QED
  BY <1>2, <1>3 DEF OsInv

LEMMA OsInvStep ==
  OsInv /\ [Next \/ \E v \in Machines : Deadline(v)]_vars => OsInv'
<1> SUFFICES ASSUME OsInv, [Next \/ \E v \in Machines : Deadline(v)]_vars PROVE OsInv'
  OBVIOUS
<1>1. CASE \E v \in Machines : Deadline(v)
  BY <1>1, FallSteps
<1>2. CASE Review
  BY <1>2, ReviewStep
<1>3. CASE \E v \in Machines : Start(v) \/ Works(v) \/ Fail(v) \/ Die(v)
  BY <1>3, StartStep, WorksStep, FallSteps
<1>4. CASE \E w \in Machines, outcome \in {"succeeded", "failed"} : UpgradeEnds(w, outcome)
  BY <1>4, UpgradeEndsStep
<1>5. CASE \E b \in DOMAIN backups : BackupAvailable(b)
  BY <1>5, BackupAvailableStep
<1>6. CASE UNCHANGED vars \/ HoursPass
  BY <1>6, OsInvStutters
<1> QED
  BY <1>1, <1>2, <1>3, <1>4, <1>5, <1>6 DEF Next

LEMMA OsInvHolds == Spec => []OsInv
BY OsInvInit, OsInvStep, PTL DEF Spec

\* Maintenance never takes down both storages: whatever fails or dies at the
\* controllers, the machine that is not worked on serves.
THEOREM StorageServes == Spec => []OneServes
<1>1. ASSUME OsInv PROVE OneServes
  <2>1. PICK v, w \in Machines : v # w
    BY MachinesAssumption
  <2>2. PICK u \in Machines : u # journal.target
    BY <2>1
  <2> QED
    BY <2>2, <1>1 DEF OsInv, JournalInv, Serving, OneServes
<1> QED
  BY <1>1, OsInvHolds, PTL

\* PDC is never attached to a storage that is stopped or misses the interval of
\* the update, on no path back to service.
THEOREM PdcFollowsStorage == Spec => []NoStalePdc
<1>1. ASSUME OsInv PROVE NoStalePdc
  <2>1. ASSUME NEW v \in Machines, vm[v].pdc
        PROVE  vm[v].storage /\ ~vm[v].stale
    <3>1. CASE v = journal.target
      <4>1. PhaseInv(journal, vm[v], backups)
        BY <1>1, <3>1, MachinesAssumption DEF OsInv, JournalInv
      <4> QED
        BY <2>1, <4>1 DEF PhaseInv
    <3>2. CASE v # journal.target
      BY <1>1, <2>1, <3>2 DEF OsInv, JournalInv, Serving
    <3> QED
      BY <3>1, <3>2
  <2> QED
    BY <2>1 DEF NoStalePdc
<1> QED
  BY <1>1, OsInvHolds, PTL

\* Packages are touched only with a consistent, available backup at hand, which
\* the journal names and no pruning removes until the machine is whole again.
THEOREM BackupAtHand == Spec => []RecoveryPoint
<1>1. ASSUME OsInv PROVE RecoveryPoint
  <2> SUFFICES ASSUME NEW v \in Machines, vm[v].upgrade \in {"scheduled", "failed"}
               PROVE  /\ journal.target = v /\ journal.backup \in DOMAIN backups
                      /\ backups[journal.backup].available
                      /\ backups[journal.backup].consistent
                      /\ backups[journal.backup].target = v
    BY DEF RecoveryPoint
  <2>1. ~Calm(vm[v])
    BY DEF Calm
  <2>2. journal.target = v
    BY <1>1, <2>1 DEF OsInv, JournalInv, Serving
  <2>3. PhaseInv(journal, vm[v], backups)
    BY <1>1, <2>2, MachinesAssumption DEF OsInv, JournalInv
  <2>4. Usable(journal, backups)
    BY <2>1, <2>3 DEF PhaseInv
  <2> QED
    BY <2>2, <2>4 DEF Usable, Held, Made
<1> QED
  BY <1>1, OsInvHolds, PTL

\* A free journal means that both machines serve, are caught up and have their
\* PDC back.
THEOREM FreeJournalIsWhole == Spec => []FreeMeansWhole
<1>1. ASSUME OsInv PROVE FreeMeansWhole
  BY <1>1, MachinesAssumption DEF OsInv, JournalInv, Serving, FreeMeansWhole
<1> QED
  BY <1>1, OsInvHolds, PTL

\* A blocked maintenance stays blocked until the operator has reviewed it: a run
\* that knows a blocked journal can only block it again.
THEOREM BlockedUntilReview == Spec => BlockedStays
<1>1. ASSUME OsInv, journal.phase = "blocked",
             [Next \/ \E v \in Machines : Deadline(v)]_vars
      PROVE  journal'.phase = "blocked" \/ Review
  <2>1. ASSUME NEW v \in Machines, known[v], at[v] \notin {"idle", "acquire"}
        PROVE  at[v] \in {"giveUp", "restart"}
    <3>1. Here(journal, mem[v], known[v], vm[Peer(v)], backups, at[v], mode[v])
      BY <2>1, <1>1, Named
    <3> QED
      BY <2>1, <1>1, <3>1 DEF Here, Knows
  <2>2. ASSUME NEW v \in Machines, Works(v)
        PROVE  journal'.phase = "blocked"
    <3>1. ~Acquire(v)
      <4>1. ASSUME Acquire(v) PROVE FALSE
        <5>1. known[v] /\ at[v] = "acquire"
          BY <4>1 DEF Acquire, Current
        <5> QED
          BY <5>1, <1>1, Types DEF Placed, Away, Here, Knows
      <4> QED
        BY <4>1
    <3>2. CASE Block(v)
      <4>1. known[v] /\ journal' = [mem[v] EXCEPT !.phase = "blocked"]
        BY <3>2 DEF Block, Save, Current
      <4>2. mem[v] \in Journals
        BY <1>1, Types
      <4> QED
        BY <4>1, <4>2 DEF Journals
    <3>3. CASE \/ Check(v) \/ NoteBackup(v) \/ NoteBackupId(v) \/ NoteUpgrade(v)
               \/ NoteValidating(v) \/ Finish(v) \/ Restore(v) \/ NoteVolume(v)
               \/ NoteRestored(v)
      <4>1. known[v] /\ at[v] \notin {"idle", "acquire", "giveUp", "restart"}
        BY <3>3 DEF Check, NoteBackup, NoteBackupId, NoteUpgrade, NoteValidating, Finish,
           Restore, NoteVolume, NoteRestored, Save, Current
      <4> QED
        BY <4>1, <2>1
    <3>4. CASE \/ Prepare(v) \/ CreateBackup(v) \/ AwaitBackup(v) \/ Upgrade(v)
               \/ AwaitReboot(v) \/ StartStorage(v) \/ CatchUp(v) \/ TooLate(v)
               \/ Activate(v) \/ Verify(v) \/ Handle(v) \/ Replace(v) \/ RestartOriginal(v)
      <4>1. journal' = journal
        BY <3>4 DEF Prepare, CreateBackup, AwaitBackup, Upgrade, AwaitReboot, StartStorage,
           CatchUp, TooLate, Activate, Verify, Handle, Replace, RestartOriginal
      <4> QED
        BY <4>1, <1>1
    <3> QED
      BY <2>2, <3>1, <3>2, <3>3, <3>4 DEF Works
  <2>3. ASSUME NEW v \in Machines, Start(v) \/ Fail(v) \/ Die(v) \/ Deadline(v)
        PROVE  journal' = journal
    BY <2>3 DEF Start, Fail, Die, Deadline
  <2>4. ASSUME NEW w \in Machines, NEW outcome \in {"succeeded", "failed"},
               UpgradeEnds(w, outcome)
        PROVE  journal' = journal
    BY <2>4 DEF UpgradeEnds
  <2>5. ASSUME NEW b \in DOMAIN backups, BackupAvailable(b)
        PROVE  journal' = journal
    BY <2>5 DEF BackupAvailable
  <2>6. CASE UNCHANGED vars \/ HoursPass
    BY <1>1, <2>6 DEF vars, HoursPass
  <2> QED
    BY <1>1, <2>2, <2>3, <2>4, <2>5, <2>6 DEF Next
<1>2. OsInv /\ [Next \/ \E v \in Machines : Deadline(v)]_vars
        => [journal.phase = "blocked" => journal'.phase = "blocked" \/ Review]_vars
  BY <1>1
<1> QED
  BY <1>2, OsInvHolds, PTL DEF Spec, BlockedStays
=============================================================================
