CONSTANTS
  Ends = {e1, e2}
  Runs = {1, 2, 3}
  Other = Other
  WakeMax = 1
  SeenMax = 1
  Templates = {TRUE, FALSE}
  Early = FALSE
  SlowWrite = FALSE
  MaxCrashes = 1
  MaxAround = 1
SPECIFICATION Spec
INVARIANTS NoEndLost ToldOnce CapKept
PROPERTY QueuedGoes
CHECK_DEADLOCK FALSE
