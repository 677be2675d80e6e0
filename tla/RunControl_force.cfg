CONSTANTS
  p = p
  c = c
  g = g
  b1 = b1
  b2 = b2
  c1 = c1
  g1 = g1
  t1 = t1
  t2 = t2
  t3 = t3
  u1 = u1
  v1 = v1
  NoRun = NoRun
  Runs <- PairRuns
  Parent <- PairParent
  Line <- PairLine
  Branches <- PairBranches
  RunOf <- PairRunOf
  Threads <- PairThreads
  BranchOf <- PairBranchOf
  Escaping = {}
SPECIFICATION HangingSpec
PROPERTIES ForceEnds
CHECK_DEADLOCK FALSE
