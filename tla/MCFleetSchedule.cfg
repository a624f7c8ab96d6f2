SPECIFICATION Spec
CONSTANTS
  dev = dev
  x570 = x570
  b550m = b550m
  NoHost = NoHost
  Hosts = {x570, b550m}
  HOSTS <- MCOrder
  Pve = {x570, b550m}
  Day = 6
  Evening = 3
  RebootHour <- MCRebootHour
  Gap = 2
  Lead = 1
  DevWindow = 1
  Fresh = 1
  TickFresh = 1
  Checks = {}
  Stable = 1
  Timeout = 2
  Reports <- MCReports
  Observations = {}
  Buttons = {"hold", "approve", "defer", "date"}
  PickedTargets = {4, 9}
  LegacyTargets = {}
  CronHour = 2
  MaxTime = 8
  MaxTarget = 23
  MaxRevision = 3
  MaxExecution = 0
  MaxBoot = 1
  MaxChanges = 4
CONSTRAINT Bounded
ACTION_CONSTRAINT Punctual
VIEW AgedView
INVARIANTS SlotsSeparated ApprovalExact
PROPERTIES RevisionNamesSchedule
