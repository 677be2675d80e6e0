CONSTANTS
  a = a
  b = b
  c = c
  Steps <- ForkSteps
  Deps <- ForkDeps
  Below <- ForkBelow
  Versions = {1}
  Def <- One
  Values = {0, 1}
  Fallible = {b}
  FromSteps = {}
  Requests = {}
  Early = FALSE
  Late = FALSE
  Overlap = FALSE
  Skips = {"older", "big", "old", "refused"}
  MaxResumes = 2
  MaxCrashes = 2
  MaxAsks = 0
  MaxHttp = 1
SPECIFICATION Spec
INVARIANTS TypeOK ReplayConsistent RunningReadsLive
PROPERTIES NeverGlued NoRework
CHECK_DEADLOCK FALSE
