----------------------- MODULE MaintenancePolicyProofs -----------------------
(***************************************************************************)
(* The calendar rules of MaintenancePolicy, for every calendar: where an   *)
(* instant is in its day, what the rules return, and where the search for  *)
(* a free slot ends.                                                       *)
(***************************************************************************)
EXTENDS SlotSearch, FiniteSetTheorems, WellFoundedInduction, TLAPS

-----------------------------------------------------------------------------
(* Days and evenings *)

LEMMA Division ==
  ASSUME NEW d \in Nat \ {0}, NEW t \in Int
  PROVE  t % d \in 0..(d - 1) /\ \E k \in Int : t - (t % d) = d * k
<1>1. t % d \in 0..(d - 1)
  OBVIOUS
<1>2. t \div d \in Int
  OBVIOUS
<1>3. t = d * (t \div d) + (t % d)
  OBVIOUS
<1> QED
  BY <1>1, <1>2, <1>3

LEMMA Remainder ==
  ASSUME NEW d \in Nat \ {0}, NEW k \in Int, NEW r \in 0..(d - 1)
  PROVE  (d * k + r) % d = r
OBVIOUS

LEMMA Clocks ==
  ASSUME NEW t \in Int
  PROVE  /\ Midnight(t) \in Int /\ Clock(t) \in 0..(Day - 1) /\ t = Midnight(t) + Clock(t)
         /\ \E k \in Int : Midnight(t) = Day * k
<1>1. Day \in Nat \ {0}
  BY CalendarAssumption
<1>2. t % Day \in 0..(Day - 1)
  BY <1>1, Division
<1>3. PICK k \in Int : t - (t % Day) = Day * k
  BY <1>1, Division
<1>4. Midnight(t) = Day * k /\ Clock(t) = t % Day /\ Midnight(t) = t - Clock(t)
  BY <1>3 DEF Midnight, Clock
<1> QED
  BY <1>1, <1>2, <1>4

\* The time of day of an instant given as a midnight and an offset.
LEMMA Offset ==
  ASSUME NEW t \in Int, NEW r \in 0..(Day - 1)
  PROVE  Clock(Midnight(t) + r) = r /\ Clock(Midnight(t) + r + Day) = r
<1>1. Day \in Nat \ {0}
  BY CalendarAssumption
<1>2. PICK k \in Int : Midnight(t) = Day * k
  BY Clocks
<1>3. (Day * k + r) % Day = r /\ (Day * (k + 1) + r) % Day = r
  BY <1>1, Remainder
<1>4. Day * k + r + Day = Day * (k + 1) + r
  BY <1>1
<1> QED
  BY <1>2, <1>3, <1>4 DEF Clock

\* A default slot leaves the ten minutes' notice, and is in an evening when the
\* host is a hypervisor.
LEMMA NextMorningRule ==
  ASSUME NEW h \in Hosts, NEW t \in Nat
  PROVE  /\ NextMorning(h, t) \in Nat /\ NextMorning(h, t) >= t + Lead
         /\ InWindow(h, NextMorning(h, t))
<1> DEFINE m == Midnight(t)
           r == RebootHour[h]
<1>1. /\ Day \in Nat \ {0} /\ Evening \in Nat /\ Lead \in Nat
      /\ r \in 0..(Day - 1) /\ r \in Nat /\ r >= Lead /\ (h \in Pve => r >= Evening)
  BY CalendarAssumption, SpanAssumption
<1>2. m \in Int /\ Clock(t) \in 0..(Day - 1) /\ t = m + Clock(t)
  BY Clocks
<1>3. m \in Nat
  <2>1. PICK k \in Int : m = Day * k
    BY Clocks
  <2>2. Day * k > - Day
    BY <1>1, <1>2, <2>1
  <2>3. k >= 0
    BY <1>1, <2>2
  <2> QED
    BY <1>1, <2>1, <2>3
<1>4. Clock(m + r) = r /\ Clock(m + r + Day) = r
  BY <1>1, Offset
<1>5. NextMorning(h, t) = IF h \in Pve /\ m + r >= t + Lead THEN m + r ELSE m + r + Day
  BY DEF NextMorning
<1>6. m + r + Day >= t + Lead
  BY <1>1, <1>2, <1>3
<1> HIDE DEF m, r
<1>7. InWindow(h, m + r) /\ InWindow(h, m + r + Day)
  BY <1>1, <1>4 DEF InWindow, Daytime
<1>8. CASE h \in Pve /\ m + r >= t + Lead
  BY <1>1, <1>3, <1>5, <1>7, <1>8
<1>9. CASE ~(h \in Pve /\ m + r >= t + Lead)
  BY <1>1, <1>3, <1>5, <1>6, <1>7, <1>9
<1> QED
  BY <1>8, <1>9

\* A missed evening is carried to an instant that leaves the notice and is in
\* an evening.
LEMMA CarryRule ==
  ASSUME NEW t \in Nat
  PROVE  CarryFrom(t) \in Nat /\ CarryFrom(t) >= t + Lead /\ ~Daytime(CarryFrom(t))
<1> DEFINE e == t + Lead
           m == Midnight(e)
<1>1. /\ Day \in Nat \ {0} /\ Evening \in 0..(Day - 1) /\ Evening \in Nat /\ Lead \in Nat
  BY CalendarAssumption, SpanAssumption
<1>2. e \in Nat
  BY <1>1
<1>3. m \in Int /\ Clock(e) \in 0..(Day - 1) /\ e = m + Clock(e)
  BY <1>2, Clocks
<1>4. Clock(m + Evening) = Evening
  BY <1>1, <1>2, Offset
<1>5. CarryFrom(t) = IF e > m + Evening THEN e ELSE m + Evening
  BY DEF CarryFrom
<1> SUFFICES CarryFrom(t) \in Nat /\ CarryFrom(t) >= e /\ ~Daytime(CarryFrom(t))
  OBVIOUS
<1> HIDE DEF e, m
<1>6. CASE e > m + Evening
  <2>1. Clock(e) \in Nat /\ Clock(e) > Evening
    BY <1>1, <1>3, <1>6
  <2> QED
    BY <1>1, <1>2, <1>5, <1>6, <2>1 DEF Daytime
<1>7. CASE ~(e > m + Evening)
  BY <1>1, <1>2, <1>3, <1>4, <1>5, <1>7 DEF Daytime
<1> QED
  BY <1>6, <1>7

\* A realigned plan of a hypervisor leaves the notice and is in an evening.
LEMMA RealignRule ==
  ASSUME NEW h \in Pve, NEW target \in Nat, NEW t \in Nat
  PROVE  /\ RealignFrom(h, target, t) \in Nat /\ RealignFrom(h, target, t) >= t + Lead
         /\ ~Daytime(RealignFrom(h, target, t))
<1> DEFINE r == RebootHour[h]
           sameDay == Midnight(target) + r
<1>1. /\ Day \in Nat \ {0} /\ Evening \in Nat /\ Lead \in Nat /\ h \in Hosts
      /\ r \in 0..(Day - 1) /\ r >= Evening
  BY CalendarAssumption, SpanAssumption, HostsAssumption
<1>2. sameDay \in Int /\ Clock(sameDay) = r
  <2>1. Midnight(target) \in Int
    BY Clocks
  <2>2. Clock(Midnight(target) + r) = r
    BY <1>1, Offset
  <2> QED
    BY <1>1, <2>1, <2>2
<1>3. RealignFrom(h, target, t) = IF sameDay >= t + Lead THEN sameDay ELSE NextMorning(h, t)
  BY DEF RealignFrom
<1>4. /\ NextMorning(h, t) \in Nat /\ NextMorning(h, t) >= t + Lead
      /\ ~Daytime(NextMorning(h, t))
  BY <1>1, NextMorningRule DEF InWindow
<1>5. ~Daytime(sameDay)
  BY <1>1, <1>2 DEF Daytime
<1>6. sameDay >= t + Lead => sameDay \in Nat
  BY <1>1, <1>2
<1> HIDE DEF sameDay, r
<1> QED
  BY <1>3, <1>4, <1>5, <1>6

\* The next candidate is at least an hour later and in the host's window.
LEMMA LaterRule ==
  ASSUME NEW h \in Hosts, NEW t \in Nat
  PROVE  Later(h, t) \in Nat /\ Later(h, t) >= t + Gap /\ InWindow(h, Later(h, t))
<1> DEFINE g == t + Gap
<1>1. g \in Nat /\ Evening \in 0..(Day - 1) /\ Evening \in Nat
  BY SpanAssumption, CalendarAssumption
<1>2. /\ Clock(Midnight(g) + Evening) = Evening /\ Midnight(g) \in Int
      /\ g = Midnight(g) + Clock(g) /\ Clock(g) \in 0..(Day - 1)
  BY <1>1, Offset, Clocks
<1>3. Later(h, t) = IF h \in Pve /\ Daytime(g) THEN Midnight(g) + Evening ELSE g
  BY DEF Later
<1> SUFFICES Later(h, t) \in Nat /\ Later(h, t) >= g /\ InWindow(h, Later(h, t))
  OBVIOUS
<1> HIDE DEF g
<1>4. Clock(g) \in Nat
  BY <1>2
<1>5. CASE h \in Pve /\ Daytime(g)
  <2>1. Clock(g) < Evening
    BY <1>5 DEF Daytime
  <2> QED
    BY <1>1, <1>2, <1>3, <1>4, <1>5, <2>1 DEF Daytime, InWindow
<1>6. CASE ~(h \in Pve /\ Daytime(g))
  BY <1>1, <1>3, <1>6 DEF InWindow
<1> QED
  BY <1>5, <1>6

-----------------------------------------------------------------------------
(* The candidates of availableTarget *)

\* A set of naturals has a least element: what induction becomes here.
LEMMA Least ==
  ASSUME NEW T, T \subseteq Nat, T # {}
  PROVE  \E x \in T : \A y \in T : x <= y
<1> DEFINE R == OpToRel(<, Nat)
<1>1. IsWellFoundedOn(R, Nat)
  BY NatLessThanWellFounded
<1>2. \A x, y \in Nat : x < y => <<x, y>> \in R
  BY DEF OpToRel
<1> HIDE DEF R
<1>3. PICK x \in T : \A y \in T : ~ (<<y, x>> \in R)
  BY <1>1, WFMin
<1>4. ASSUME NEW y \in T PROVE x <= y
  <2>1. ~ (<<y, x>> \in R)
    BY <1>3
  <2>2. ~ (y < x)
    BY <1>2, <2>1
  <2> QED
    BY <2>2
<1> QED
  BY <1>4

\* The recursion of the candidates has a solution, built turn by turn.
Solves(f, n, h, t) == f = [k \in 0..n |-> IF k = 0 THEN t ELSE Later(h, f[k - 1])]

LEMMA SolvedUpTo ==
  ASSUME NEW n \in Nat, NEW h, NEW t
  PROVE  \E f : Solves(f, n, h, t)
<1> DEFINE T == {k \in Nat : ~ \E f : Solves(f, k, h, t)}
<1> SUFFICES ASSUME T # {} PROVE FALSE
  OBVIOUS
<1>1. PICK k \in T : \A j \in T : k <= j
  <2> HIDE DEF T
  <2>1. T \subseteq Nat
    BY DEF T
  <2> QED
    BY <2>1, Least
<1>2. k # 0
  <2>1. Solves([j \in 0..0 |-> t], 0, h, t)
    BY DEF Solves
  <2> QED
    BY <2>1
<1>3. k - 1 \in Nat /\ k - 1 \notin T
  BY <1>1, <1>2
<1>4. PICK f : Solves(f, k - 1, h, t)
  BY <1>3
<1> DEFINE g == [j \in 0..k |-> IF j = k THEN Later(h, f[k - 1]) ELSE f[j]]
<1>5. ASSUME NEW j \in 0..k
      PROVE  g[j] = IF j = 0 THEN t ELSE Later(h, g[j - 1])
  <2>1. k \in Nat
    OBVIOUS
  <2>2. CASE j = k
    BY <1>2, <2>1, <2>2
  <2>3. CASE j # k
    <3>1. j \in 0..(k - 1)
      BY <2>1, <2>3
    <3>2. f[j] = IF j = 0 THEN t ELSE Later(h, f[j - 1])
      BY <1>4, <3>1 DEF Solves
    <3>3. j # 0 => j - 1 \in 0..k /\ j - 1 # k
      BY <2>1, <3>1
    <3> QED
      BY <2>3, <3>2, <3>3
  <2> QED
    BY <2>2, <2>3
<1>6. Solves(g, k, h, t)
  BY <1>5 DEF Solves
<1> QED
  BY <1>6

LEMMA CandidateSteps ==
  ASSUME NEW h, NEW t
  PROVE  Solves(Candidates(h, t), MaxTurns, h, t)
<1> DEFINE P(g) == g = [k \in 0..MaxTurns |-> IF k = 0 THEN t ELSE Later(h, g[k - 1])]
<1>1. Candidates(h, t) = CHOOSE g : P(g)
  BY DEF Candidates
<1>2. PICK f : P(f)
  <2>1. MaxTurns \in Nat
    BY HostsAssumption DEF MaxTurns
  <2>2. \E f : Solves(f, MaxTurns, h, t)
    BY <2>1, SolvedUpTo
  <2> QED
    BY <2>2 DEF Solves
<1>3. P(CHOOSE g : P(g))
  <2> HIDE DEF P
  <2> QED
    BY <1>2
<1> QED
  BY <1>1, <1>3 DEF Solves

\* The candidates of a search that begins in the host's window: each is in the
\* window again, and at least an hour after those before it.
LEMMA CandidateRule ==
  ASSUME NEW h \in Hosts, NEW t \in Nat, InWindow(h, t), NEW n \in 0..MaxTurns
  PROVE  LET u == Candidates(h, t)[n] IN u \in Nat /\ u >= t /\ InWindow(h, u)
<1> DEFINE c == Candidates(h, t)
           Good(k) == c[k] \in Nat /\ c[k] >= t /\ InWindow(h, c[k])
           T == {k \in 0..MaxTurns : ~Good(k)}
<1>0. Solves(c, MaxTurns, h, t)
  BY CandidateSteps
<1> HIDE DEF c
<1>1. \A k \in 0..MaxTurns : c[k] = IF k = 0 THEN t ELSE Later(h, c[k - 1])
  BY <1>0 DEF Solves
<1> SUFFICES ASSUME T # {} PROVE FALSE
  BY DEF c
<1>2. PICK k \in T : \A j \in T : k <= j
  <2> HIDE DEF T
  <2>1. T \subseteq Nat
    BY DEF T
  <2> QED
    BY <2>1, Least
<1>3. k \in 0..MaxTurns /\ ~Good(k)
  OBVIOUS
<1>4. k # 0
  BY <1>1, <1>3
<1>5. k - 1 \in 0..MaxTurns /\ Good(k - 1)
  <2>1. MaxTurns \in Nat
    BY HostsAssumption DEF MaxTurns
  <2>2. k - 1 \in 0..MaxTurns /\ ~ (k <= k - 1)
    BY <1>3, <1>4, <2>1
  <2>3. k - 1 \notin T
    BY <1>2, <2>2
  <2> QED
    BY <2>2, <2>3
<1>6. c[k] = Later(h, c[k - 1])
  BY <1>1, <1>3, <1>4
<1> DEFINE v == c[k - 1]
<1>7. v \in Nat /\ v >= t /\ c[k] = Later(h, v)
  BY <1>5, <1>6
<1> HIDE DEF v
<1>8. Later(h, v) \in Nat /\ Later(h, v) >= v + Gap /\ InWindow(h, Later(h, v))
  BY <1>7, LaterRule
<1>9. Later(h, v) >= t
  BY <1>7, <1>8, SpanAssumption
<1> QED
  BY <1>3, <1>7, <1>8, <1>9

LEMMA CandidatesApart ==
  ASSUME NEW h \in Hosts, NEW t \in Nat, InWindow(h, t),
         NEW i \in 0..MaxTurns, NEW n \in 0..MaxTurns, i < n
  PROVE  Candidates(h, t)[n] >= Candidates(h, t)[i] + Gap
<1> DEFINE c == Candidates(h, t)
           T == {k \in 0..MaxTurns : i < k /\ ~(c[k] >= c[i] + Gap)}
<1>0. Solves(c, MaxTurns, h, t) /\ \A k \in 0..MaxTurns : c[k] \in Nat
  BY CandidateSteps, CandidateRule
<1> HIDE DEF c
<1>1. \A k \in 0..MaxTurns : c[k] = IF k = 0 THEN t ELSE Later(h, c[k - 1])
  BY <1>0 DEF Solves
<1> SUFFICES ASSUME T # {} PROVE FALSE
  BY DEF c
<1>2. PICK k \in T : \A j \in T : k <= j
  <2> HIDE DEF T
  <2>1. T \subseteq Nat
    BY DEF T
  <2> QED
    BY <2>1, Least
<1>3. k \in 0..MaxTurns /\ i < k /\ ~(c[k] >= c[i] + Gap)
  OBVIOUS
<1>4. k # 0 /\ k - 1 \in 0..MaxTurns /\ i <= k - 1
  <2>1. MaxTurns \in Nat
    BY HostsAssumption DEF MaxTurns
  <2> QED
    BY <1>3, <2>1
<1>5. c[k] = Later(h, c[k - 1])
  BY <1>1, <1>3, <1>4
<1>6. c[k - 1] \in Nat /\ c[i] \in Nat /\ Gap \in Nat
  <2>1. Gap \in Nat
    BY SpanAssumption
  <2> QED
    BY <1>0, <1>4, <2>1
<1>7. c[k] \in Nat /\ c[k] >= c[k - 1] + Gap
  <2> DEFINE v == c[k - 1]
  <2>1. v \in Nat /\ c[k] = Later(h, v)
    BY <1>5, <1>6
  <2> HIDE DEF v
  <2>2. Later(h, v) \in Nat /\ Later(h, v) >= v + Gap
    BY <2>1, LaterRule
  <2> QED
    BY <2>1, <2>2 DEF v
<1>8. CASE k - 1 = i
  BY <1>3, <1>7, <1>8
<1>9. CASE k - 1 # i
  <2>1. i < k - 1 /\ ~ (k <= k - 1)
    BY <1>3, <1>4, <1>9
  <2>2. k - 1 \notin T
    BY <1>2, <2>1
  <2>3. c[k - 1] >= c[i] + Gap
    BY <1>4, <2>1, <2>2
  <2> QED
    BY <1>3, <1>6, <1>7, <2>3
<1> QED
  BY <1>8, <1>9

\* Where the search ends: in the window, not before its start, and away from
\* every occupied instant.
LEMMA FreeSlot ==
  ASSUME NEW h \in Hosts, NEW t \in Nat, InWindow(h, t), NEW obstacles,
         NEW u \in FirstFree(h, t, obstacles)
  PROVE  u \in Nat /\ u >= t /\ InWindow(h, u) /\ ~Crowded(obstacles, u)
<1> DEFINE c == Candidates(h, t)
<1> HIDE DEF c
<1>1. PICK k \in 0..MaxTurns : u = c[k] /\ ~Crowded(obstacles, c[k])
  BY DEF FirstFree, c
<1> QED
  BY <1>1, CandidateRule DEF c

-----------------------------------------------------------------------------
(* The search ends *)

\* Two candidates that the same instant excludes follow each other: their
\* parities differ.
LEMMA ExcludedPair ==
  ASSUME NEW h \in Hosts, NEW t \in Nat, InWindow(h, t), NEW s \in Int,
         NEW i \in 0..MaxTurns, NEW j \in 0..MaxTurns, i < j,
         Near(s, Candidates(h, t)[i]), Near(s, Candidates(h, t)[j])
  PROVE  i % 2 # j % 2
<1> DEFINE c == Candidates(h, t)
<1>1. \A k \in 0..MaxTurns : c[k] \in Nat
  BY CandidateRule
<1>2. \A k, n \in 0..MaxTurns : k < n => c[n] >= c[k] + Gap
  BY CandidatesApart
<1>3. Near(s, c[i]) /\ Near(s, c[j])
  OBVIOUS
<1> HIDE DEF c
<1>4. MaxTurns \in Nat /\ Gap \in Nat
  <2>1. MaxTurns \in Nat
    BY HostsAssumption DEF MaxTurns
  <2> QED
    BY <2>1, SpanAssumption
<1> SUFFICES ASSUME i % 2 = j % 2 PROVE FALSE
  OBVIOUS
<1>5. i + 1 < j
  <2>1. i \in Int /\ j \in Int
    BY <1>4
  <2>2. i = 2 * (i \div 2) + (i % 2) /\ j = 2 * (j \div 2) + (j % 2)
    BY <2>1
  <2>3. i \div 2 \in Int /\ j \div 2 \in Int /\ i % 2 \in Int
    BY <2>1
  <2> QED
    BY <2>1, <2>2, <2>3
<1>6. i + 1 \in 0..MaxTurns /\ i < i + 1
  BY <1>4, <1>5
<1>7. c[i + 1] >= c[i] + Gap /\ c[j] >= c[i + 1] + Gap
  BY <1>2, <1>5, <1>6
<1>8. c[i] \in Nat /\ c[i + 1] \in Nat /\ c[j] \in Nat
  BY <1>1, <1>6
<1>9. s - c[i] < Gap /\ c[j] - s < Gap
  BY <1>3 DEF Near
<1> QED
  BY <1>4, <1>7, <1>8, <1>9

LEMMA PairSize ==
  ASSUME NEW a, NEW b, a # b
  PROVE  IsFiniteSet({a, b}) /\ Cardinality({a, b}) = 2
<1>1. IsFiniteSet({a}) /\ Cardinality({a}) = 1
  BY FS_Singleton
<1>2. b \notin {a} /\ {a, b} = {a} \cup {b}
  OBVIOUS
<1>3. /\ IsFiniteSet({a} \cup {b})
      /\ Cardinality({a} \cup {b}) = IF b \in {a} THEN Cardinality({a}) ELSE Cardinality({a}) + 1
  BY <1>1, FS_AddElement, Zenon
<1>4. Cardinality({a} \cup {b}) = 2
  BY <1>1, <1>2, <1>3
<1> QED
  BY <1>2, <1>3, <1>4, Zenon

\* There are more candidates than the obstacles exclude: two hosts' worth of
\* instants exclude two candidates each.
LEMMA FreeCandidate ==
  ASSUME NEW h \in Hosts, NEW t \in Nat, InWindow(h, t),
         NEW obstacles, obstacles \subseteq Int, IsFiniteSet(obstacles),
         Cardinality(obstacles) <= 2 * (Len(HOSTS) - 1)
  PROVE  \E k \in 0..MaxTurns : ~Crowded(obstacles, Candidates(h, t)[k])
<1> DEFINE c == Candidates(h, t)
           S == 0..MaxTurns
           T == obstacles \X {0, 1}
           f == [k \in S |-> <<CHOOSE s \in obstacles : Near(s, c[k]), k % 2>>]
<1> SUFFICES ASSUME \A k \in S : Crowded(obstacles, c[k]) PROVE FALSE
  OBVIOUS
<1>0. MaxTurns \in Nat /\ Len(HOSTS) \in Nat /\ MaxTurns = 4 * Len(HOSTS)
  BY HostsAssumption DEF MaxTurns
<1>1. \A k \in S : \E s \in obstacles : Near(s, c[k])
  BY DEF Crowded
<1>2. \A k \in S : k % 2 \in {0, 1}
  <2> TAKE k \in S
  <2>1. k \in Int
    BY <1>0
  <2> QED
    BY <2>1
<1> HIDE DEF c
<1>3. \A k \in S : /\ f[k][1] \in obstacles /\ Near(f[k][1], c[k])
                   /\ f[k] = <<f[k][1], k % 2>> /\ f[k][2] = k % 2
  <2> TAKE k \in S
  <2> DEFINE s == CHOOSE x \in obstacles : Near(x, c[k])
  <2>1. s \in obstacles /\ Near(s, c[k])
    BY <1>1
  <2>2. f[k] = <<s, k % 2>>
    OBVIOUS
  <2> HIDE DEF s, f
  <2> QED
    BY <2>1, <2>2
<1>4. f \in [S -> T]
  <2>1. \A k \in S : f[k] \in T
    <3> HIDE DEF f, S
    <3> TAKE k \in S
    <3> DEFINE s == f[k][1]
    <3>1. s \in obstacles /\ k % 2 \in {0, 1} /\ f[k] = <<s, k % 2>>
      BY <1>2, <1>3
    <3> HIDE DEF s
    <3>2. <<s, k % 2>> \in obstacles \X {0, 1}
      BY <3>1
    <3> QED
      BY <3>1, <3>2
  <2> QED
    BY <2>1
<1>5. IsFiniteSet(S) /\ Cardinality(S) = MaxTurns + 1
  BY <1>0, FS_Interval
<1>6. IsFiniteSet(T) /\ Cardinality(T) = Cardinality(obstacles) * 2
  <2>1. IsFiniteSet({0, 1}) /\ Cardinality({0, 1}) = 2
    <3>1. 0 # 1
      OBVIOUS
    <3> QED
      BY <3>1, PairSize, Zenon
  <2> HIDE DEF S, f
  <2> QED
    BY <2>1, FS_Product
<1>7. Cardinality(T) < Cardinality(S)
  <2>1. Cardinality(obstacles) \in Nat
    BY FS_CardinalityType
  <2> QED
    BY <1>0, <1>5, <1>6, <2>1
<1> HIDE DEF f, S, T
<1>8. PICK i, j \in S : i # j /\ f[i] = f[j]
  BY <1>4, <1>5, <1>6, <1>7, FS_PigeonHole
<1>9. ASSUME NEW k \in S, NEW n \in S, k < n, f[k] = f[n] PROVE FALSE
  <2> DEFINE s == f[k][1]
  <2>1. s \in Int /\ Near(s, c[k]) /\ Near(s, c[n]) /\ k % 2 = n % 2
    BY <1>3, <1>9
  <2>2. k \in 0..MaxTurns /\ n \in 0..MaxTurns
    BY DEF S
  <2> HIDE DEF s
  <2> QED
    BY <1>9, <2>1, <2>2, ExcludedPair DEF c
<1>10. i < j \/ j < i
  BY <1>0, <1>8 DEF S
<1> QED
  BY <1>8, <1>9, <1>10

LEMMA SlotFound ==
  ASSUME NEW h \in Hosts, NEW t \in Nat, InWindow(h, t),
         NEW obstacles, obstacles \subseteq Int, IsFiniteSet(obstacles),
         Cardinality(obstacles) <= 2 * (Len(HOSTS) - 1)
  PROVE  FirstFree(h, t, obstacles) # {}
<1> DEFINE c == Candidates(h, t)
           T == {k \in 0..MaxTurns : ~Crowded(obstacles, c[k])}
<1>1. T # {}
  BY FreeCandidate
<1> HIDE DEF c
<1>2. PICK k \in T : \A j \in T : k <= j
  <2> HIDE DEF T
  <2>1. T \subseteq Nat
    BY DEF T
  <2> QED
    BY <1>1, <2>1, Least
<1>3. MaxTurns \in Nat
  BY HostsAssumption DEF MaxTurns
<1>4. \A j \in 0..(k - 1) : Crowded(obstacles, c[j])
  <2> TAKE j \in 0..(k - 1)
  <2>1. j \in 0..MaxTurns /\ ~(k <= j)
    BY <1>3
  <2> QED
    BY <1>2, <2>1
<1>5. c[k] \in FirstFree(h, t, obstacles)
  BY <1>4 DEF FirstFree, c
<1> QED
  BY <1>5

-----------------------------------------------------------------------------
(* The search from where its callers begin it *)

\* The other hosts occupy two instants each at most.
SearchInv ==
  /\ host \in Hosts /\ instant \in Nat /\ occupied \subseteq Int
  /\ IsFiniteSet(occupied) /\ Cardinality(occupied) <= 2 * (Len(HOSTS) - 1)

LEMMA SearchStep == SearchSpec => []SearchInv
<1>0. Len(HOSTS) \in Nat \ {0}
  BY HostsAssumption
<1>1. SearchInit => SearchInv
  <2>1. IsFiniteSet({}) /\ Cardinality({}) = 0
    BY FS_EmptySet
  <2> QED
    BY <1>0, <2>1, SearchAssumption DEF SearchInit, SearchInv
<1>2. SearchInv /\ [SearchNext]_searchVars => SearchInv'
  <2> SUFFICES ASSUME SearchInv, [SearchNext]_searchVars PROVE SearchInv'
    OBVIOUS
  <2>1. CASE UNCHANGED searchVars
    BY <2>1 DEF searchVars, SearchInv
  <2>2. ASSUME NEW t \in Obstacles, Occupy(t) PROVE SearchInv'
    <3>1. /\ occupied' = occupied \cup {t} /\ t \notin occupied
          /\ Cardinality(occupied) < 2 * (Len(HOSTS) - 1)
          /\ UNCHANGED <<host, instant>>
      BY <2>2 DEF Occupy
    <3>2. IsFiniteSet(occupied) /\ Cardinality(occupied) \in Nat
      BY FS_CardinalityType DEF SearchInv
    <3>3. IsFiniteSet(occupied') /\ Cardinality(occupied') = Cardinality(occupied) + 1
      BY <3>1, <3>2, FS_AddElement
    <3>4. occupied' \subseteq Int
      BY <3>1, SearchAssumption DEF SearchInv
    <3>5. Cardinality(occupied') <= 2 * (Len(HOSTS) - 1)
      BY <1>0, <3>1, <3>2, <3>3
    <3> QED
      BY <3>1, <3>3, <3>4, <3>5 DEF SearchInv
  <2> QED
    BY <2>1, <2>2 DEF SearchNext
<1> QED
  BY <1>1, <1>2, PTL DEF SearchSpec

\* Every caller begins in the host's window, with the notice left.
LEMMA StartRule ==
  ASSUME SearchInv, NEW start \in Starts
  PROVE  start \in Nat /\ start >= instant + Lead /\ InWindow(host, start)
<1>0. host \in Hosts /\ instant \in Nat
  BY DEF SearchInv
<1>1. CASE start = NextMorning(host, instant)
  BY <1>0, <1>1, NextMorningRule
<1>2. CASE host \in Pve /\ start = CarryFrom(instant)
  BY <1>0, <1>2, CarryRule DEF InWindow
<1>3. ASSUME host \in Pve, NEW t \in Stored, start = RealignFrom(host, t, instant)
      PROVE  start \in Nat /\ start >= instant + Lead /\ InWindow(host, start)
  <2>1. t \in Nat
    BY SearchAssumption
  <2> QED
    BY <1>0, <1>3, <2>1, RealignRule DEF InWindow
<1> QED
  BY <1>1, <1>2, <1>3 DEF Starts

\* The loop of availableTarget ends within its bound, whatever instants the
\* other hosts occupy, for every calendar and every number of hosts.
THEOREM SearchAlwaysEnds == SearchSpec => []SearchEnds
<1>1. SearchInv => SearchEnds
  BY StartRule, SlotFound DEF SearchInv, SearchEnds
<1> QED
  BY <1>1, SearchStep, PTL

\* The slot that availableTarget returns leaves the notice, is in the host's
\* window and an hour away from every other host.
THEOREM SlotsUsable == SearchSpec => []SlotFits
<1>1. SearchInv => SlotFits
  <2> SUFFICES ASSUME SearchInv, NEW start \in Starts, NEW slot \in FirstFree(host, start, occupied)
               PROVE  /\ slot >= instant + Lead /\ InWindow(host, slot)
                      /\ \A t \in occupied : slot - t >= Gap \/ t - slot >= Gap
    BY DEF SlotFits
  <2>1. start \in Nat /\ start >= instant + Lead /\ InWindow(host, start)
    BY StartRule
  <2>2. host \in Hosts /\ instant \in Nat /\ occupied \subseteq Int
    BY DEF SearchInv
  <2>3. slot \in Nat /\ slot >= start /\ InWindow(host, slot) /\ ~Crowded(occupied, slot)
    BY <2>1, <2>2, FreeSlot
  <2>4. Lead \in Nat /\ Gap \in Nat
    BY SpanAssumption
  <2>5. slot >= instant + Lead
    BY <2>1, <2>2, <2>3, <2>4
  <2>6. \A t \in occupied : slot - t >= Gap \/ t - slot >= Gap
    BY <2>2, <2>3, <2>4 DEF Crowded, Near
  <2> QED
    BY <2>3, <2>5, <2>6
<1> QED
  BY <1>1, SearchStep, PTL
=============================================================================
