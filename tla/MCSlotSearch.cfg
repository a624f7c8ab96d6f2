SPECIFICATION SearchSpec
CONSTANTS
  dev = dev
  x570 = x570
  b550m = b550m
  Hosts = {dev, x570, b550m}
  HOSTS <- MCOrder
  Pve = {x570, b550m}
  Day = 48
  Evening = 40
  RebootHour <- MCRebootHour
  Gap = 2
  Lead = 1
  DevWindow = 1
  Fresh = 1
  TickFresh = 1
  Instants <- MCInstants
  Stored <- MCStored
  Obstacles <- MCObstacles
INVARIANTS SearchEnds SlotFits
CHECK_DEADLOCK FALSE
