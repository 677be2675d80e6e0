CONSTANTS
  a = a
  b = b
  c = c
  Steps <- PairSteps
  Deps <- PairDeps
  Below <- PairBelow
  Versions = {1, 2}
  Def <- FirstChanges
  Values = {0, 1}
  Fallible = {b}
  FromSteps = {a}
  Requests = {"pause", "resume"}
  Early = TRUE
  Late = TRUE
  Overlap = FALSE
  Skips = {}
  MaxResumes = 5
  MaxCrashes = 0
  MaxAsks = 1
  MaxHttp = 1
SPECIFICATION Spec
INVARIANTS ReplayConsistent
CHECK_DEADLOCK FALSE
