SPECIFICATION AgentEveningSpec
CONSTANTS
  dev = dev
  x570 = x570
  b550m = b550m
  NoHost = NoHost
  Hosts = {dev, x570}
  HOSTS <- MCMixedOrder
  Pve = {x570}
  Day = 8
  Evening = 0
  RebootHour <- MCRebootHour
  Gap = 1
  Lead = 0
  DevWindow = 1
  Fresh = 1
  TickFresh = 1
  Checks = {}
  Stable = 1
  Timeout = 2
  Reports <- MCReports
  Observations <- MCObservations
  Buttons = {}
  PickedTargets = {}
  LegacyTargets = {}
  CronHour = 9
  MaxTime = 2
  MaxTarget = 16
  MaxRevision = 2
  MaxExecution = 2
  MaxBoot = 2
ACTION_CONSTRAINT AgentBounded
VIEW AgentView
INVARIANTS StopNoted
