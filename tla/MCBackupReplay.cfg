SPECIFICATION Spec
CONSTANTS
  x570 = x570
  b550m = b550m
  guests = guests
  nas = nas
  Jobs = {guests, nas}
  NodeOf <- MCEach
  Own = x570
  MaxTasks = 3
  MaxExecution = 2
  MaxBoot = 2
CHECK_DEADLOCK FALSE
INVARIANTS NothingForgotten SubmittedOnce NotLeftWaiting
