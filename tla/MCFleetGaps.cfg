SPECIFICATION GapSpec
CONSTANTS
  dev = dev
  x570 = x570
  b550m = b550m
  NoHost = NoHost
  Hosts = {x570}
  HOSTS <- MCSingleOrder
  Pve = {x570}
  Day = 8
  Evening = 0
  RebootHour <- MCRebootHour
  Gap = 2
  Lead = 0
  DevWindow = 1
  Fresh = 1
  TickFresh = 1
  Checks = {c1}
  Stable = 2
  Timeout = 4
  Reports <- MCHealth
  Observations <- MCTroubles
  Buttons = {}
  PickedTargets = {}
  LegacyTargets = {}
  CronHour = 9
  MaxTime = 7
  MaxTarget = 16
  MaxRevision = 2
  MaxExecution = 1
  MaxBoot = 2
PROPERTIES PassEarned
