SPECIFICATION EveningSpec
CONSTANTS
  dev = dev
  x570 = x570
  b550m = b550m
  NoHost = NoHost
  Hosts = {x570, b550m}
  HOSTS <- MCPairOrder
  Pve = {x570, b550m}
  Day = 8
  Evening = 0
  RebootHour <- MCRebootHour
  Gap = 2
  Lead = 0
  DevWindow = 1
  Fresh = 1
  TickFresh = 1
  Checks = {}
  Stable = 1
  Timeout = 2
  Reports <- MCReports
  Observations <- MCObservations
  Buttons = {}
  PickedTargets = {}
  LegacyTargets = {}
  CronHour = 9
  MaxTime = 3
  MaxTarget = 16
  MaxRevision = 2
  MaxExecution = 2
  MaxBoot = 2
ACTION_CONSTRAINT Bounded
VIEW AgedView
INVARIANTS LockInv StartsSeparated
PROPERTIES ImplementsExclusion
