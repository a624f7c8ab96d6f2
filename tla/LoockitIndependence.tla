------------------------ MODULE LoockitIndependence ------------------------
(***************************************************************************)
(* The test that the Loockit pair works without Kubernetes                 *)
(* (scripts/verify-loockit-independence.py): it adds temporary prohibit    *)
(* routes inside the network namespaces of the two containers, watches the *)
(* pair and removes the routes that it has added.                          *)
(*                                                                         *)
(* A remote command may fail with or without an effect, a signal may come  *)
(* at any moment, which also loses the answer of the command at work, and  *)
(* a container may restart, which replaces its namespace.  Somebody else   *)
(* adds routes of their own.  A second signal ends the removal itself.     *)
(***************************************************************************)
EXTENDS Naturals, Sequences, SequencesExt

CONSTANTS
  Containers,   \* in the order of migration.HOSTS
  Cidrs         \* in the order of CIDRS

\* Neither names anything twice.
ASSUME ListsAssumption ==
  /\ Containers \in Seq(Range(Containers)) /\ IsInjective(Containers)
  /\ Cidrs \in Seq(Range(Cidrs)) /\ IsInjective(Cidrs)

VARIABLES
  routes,       \* the prohibit routes: <<container, cidr>>
  foreign,      \* history: those that somebody else has added
  restarted,    \* containers restarted since their process was looked up
  testAt,       \* where the program is
  toAdd,         \* the routes still to add, in order
  changed,      \* the routes that the program knows to have added
  manual,       \* the routes reported for manual inspection
  unanswered    \* history: routes of the test added by a command without an answer

testVars == <<routes, foreign, restarted, testAt, toAdd, changed, manual, unanswered>>

RoutesOf(c) == {route \in routes : route[1] = c}

\* Every pair of the two nested loops.
Plan ==
  [i \in 1..(Len(Containers) * Len(Cidrs)) |->
     <<Containers[1 + ((i - 1) \div Len(Cidrs))], Cidrs[1 + ((i - 1) % Len(Cidrs))]>>]

\* The exception or the signal leads to the finally.
ToCleanup == testAt' = "cleanup"

-----------------------------------------------------------------------------

\* Both follow the independent coordinator, one of them is ready, the lease is
\* readable, and the person has asked for the isolation.
StartTest ==
  /\ testAt = "idle"
  /\ testAt' = "show" /\ toAdd' = Plan /\ changed' = <<>> /\ manual' = {}
  /\ UNCHANGED <<routes, foreign, restarted, unanswered>>

\* The process of a container is looked up before its first route.
LookUp ==
  restarted' = IF Head(toAdd)[2] = Cidrs[1] THEN restarted \ {Head(toAdd)[1]} ELSE restarted

\* The route is not there.
Show ==
  /\ testAt = "show" /\ toAdd # <<>> /\ LookUp
  /\ Head(toAdd)[1] \notin restarted' /\ Head(toAdd) \notin routes
  /\ testAt' = "add"
  /\ UNCHANGED <<routes, foreign, toAdd, changed, manual, unanswered>>

\* A mutant: the route is noted before it is added.
NotedFirst(added, answered) == Append(changed, Head(toAdd))

\* changed.append follows the answer.
Noted(added, answered) == IF answered THEN Append(changed, Head(toAdd)) ELSE changed

\* ip route add: it fails when the route is there by now, or for any error, or
\* its answer is lost.
Add(added, answered) ==
  LET route == Head(toAdd)
  IN  /\ testAt = "add" /\ (answered => added)
      /\ added => route[1] \notin restarted /\ route \notin routes
      /\ routes' = IF added THEN routes \cup {route} ELSE routes
      /\ unanswered' = IF added /\ ~answered THEN unanswered \cup {route} ELSE unanswered
      /\ changed' = Noted(added, answered)
      /\ IF answered THEN testAt' = "show" /\ toAdd' = Tail(toAdd)
         ELSE ToCleanup /\ toAdd' = <<>>
      /\ UNCHANGED <<foreign, restarted, manual>>

\* The forty seconds have passed, with or without complaint.
Watched ==
  /\ testAt = "show" /\ toAdd = <<>>
  /\ ToCleanup
  /\ UNCHANGED <<routes, foreign, restarted, toAdd, changed, manual, unanswered>>

\* A check fails or a signal comes, between two commands.
Interrupted ==
  /\ testAt \in {"show", "add"}
  /\ ToCleanup /\ toAdd' = <<>>
  /\ UNCHANGED <<routes, foreign, restarted, changed, manual, unanswered>>

\* ip route del, the last added first; a failure is kept for the report, and
\* the others go on.
Delete(deleted, answered) ==
  LET route == Last(changed)
  IN  /\ testAt = "cleanup" /\ changed # <<>>
      /\ answered => deleted
      /\ deleted => route[1] \notin restarted /\ route \in routes
      /\ routes' = IF deleted THEN routes \ {route} ELSE routes
      /\ manual' = IF answered THEN manual ELSE manual \cup {route}
      /\ changed' = Front(changed)
      /\ UNCHANGED <<foreign, restarted, testAt, toAdd, unanswered>>

\* The program has ended by itself ...
CleanedUp ==
  /\ testAt = "cleanup" /\ changed = <<>>
  /\ testAt' = "ended"
  /\ UNCHANGED <<routes, foreign, restarted, toAdd, changed, manual, unanswered>>

\* ... or by a second signal ...
CleanupStops ==
  /\ testAt = "cleanup" /\ testAt' = "stopped"
  /\ UNCHANGED <<routes, foreign, restarted, toAdd, changed, manual, unanswered>>

\* ... and a person has removed what it left.
Inspected ==
  /\ testAt \in {"ended", "stopped"} /\ testAt' = "idle"
  /\ routes' = foreign /\ manual' = {} /\ unanswered' = {}
  /\ UNCHANGED <<foreign, restarted, toAdd, changed>>

-----------------------------------------------------------------------------
(* The containers, and others *)

ContainerRestarts(c) ==
  /\ testAt # "idle" /\ c \notin restarted
  /\ restarted' = restarted \cup {c}
  /\ routes' = routes \ RoutesOf(c) /\ foreign' = foreign \ RoutesOf(c)
  /\ UNCHANGED <<testAt, toAdd, changed, manual, unanswered>>

\* Somebody else adds a route; it exists only once.
OtherAdds(route) ==
  /\ route \notin routes
  /\ routes' = routes \cup {route} /\ foreign' = foreign \cup {route}
  /\ UNCHANGED <<restarted, testAt, toAdd, changed, manual, unanswered>>

TestInit ==
  /\ routes = {} /\ foreign = {} /\ restarted = {} /\ testAt = "idle"
  /\ toAdd = <<>> /\ changed = <<>> /\ manual = {} /\ unanswered = {}

TestNext ==
  \/ StartTest \/ Show \/ Watched \/ Interrupted \/ CleanedUp \/ CleanupStops \/ Inspected
  \/ \E effect, answered \in BOOLEAN : Add(effect, answered) \/ Delete(effect, answered)
  \/ \E i \in 1..Len(Plan) : OtherAdds(Plan[i])
  \/ \E i \in 1..Len(Containers) : ContainerRestarts(Containers[i])

TestSpec == TestInit /\ [][TestNext]_testVars

-----------------------------------------------------------------------------
(* Properties *)

\* No route of somebody else is removed, and when the test has ended by itself
\* every route of its own is gone, reported for inspection, or was added by the
\* command whose answer it never got.
RoutesRestored ==
  /\ foreign \subseteq routes
  /\ testAt = "ended" => routes \ foreign \subseteq manual \cup unanswered
=============================================================================
