SPECIFICATION FairSpec
CONSTANTS
  a = a
  b = b
  Machines = {a, b}
  None = None
  MaxRuns = 3
  MaxFaults = 3
  Slots = 2
CHECK_DEADLOCK FALSE
INVARIANTS OneServes NoStalePdc RecoveryPoint FreeMeansWhole
PROPERTIES BlockedStays Concludes
