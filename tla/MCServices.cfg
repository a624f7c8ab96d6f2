SPECIFICATION AllSpec
CONSTANTS
  Groups = {a, b}
  Keep = 1
  Recent = 0
  MaxTime = 1
  Jobs = {"tiered", "annict", "migration", "access", "cutover", "dev", "monitor",
          "catchUp", "test", "handoff", "lease", "outbox", "reminder"}
  Works = {v, w}
  MaxDay = 1
  Keys = {k, l}
  MaxVersion = 2
  MaxKeys = 2
  Holders = {g, h}
  NoOne = none
  Duration = 2
  MaxLeaseTime = 3
  MaxRenewals = 3
  MaxRequests = 2
  Hosts = {g, h}
  NoHost = none
  MaxClock = 6
  MaxBoots = 3
  Items = {x, y}
  Expected = {x}
  MaxMinute = 4
  Nodes = {i, j, m}
  Self = i
  Peer = j
  Nobody = nobody
  Broadcasts <- MCBroadcasts
  Guide <- MCGuide
  TitleLength <- MCTitleLength
  MinChars = 2
  Tolerance = 1
  Lookahead = 4
  Reservations = {1, 2}
  StartAt <- MCTwo
  EndAt <- MCEndAt
  Grace = 2
  Source <- MCSource
  Containers <- MCTwo
  Cidrs <- MCTwo
  Times = {1, 2}
  MaxQueued = 2
  MaxRevision = 4
CHECK_DEADLOCK FALSE
INVARIANTS
  OperatorRespected NothingMissed CopyComplete SecretWorks
  CompleteMeansSwitched RebootAnnounced SnapshotTruthful
  CaughtUp RoutesRestored StillServed OneLeader ToldOnce
PROPERTIES StaysRecoverable
