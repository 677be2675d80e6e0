CONSTANTS
  p = p
  c = c
  g = g
  b1 = b1
  b2 = b2
  c1 = c1
  g1 = g1
  t1 = t1
  t2 = t2
  t3 = t3
  u1 = u1
  v1 = v1
  NoRun = NoRun
  Runs <- TeamRuns
  Parent <- TeamParent
  Line <- TeamLine
  Branches <- TeamBranches
  RunOf <- TeamRunOf
  Threads <- TeamThreads
  BranchOf <- TeamBranchOf
  Escaping = {b2}
SPECIFICATION FairSpec
INVARIANTS BusyBalance
PROPERTIES PauseSettles
CHECK_DEADLOCK FALSE
