CONSTANTS
  a = a
  b = b
  c = c
  Steps <- LoneStep
  Deps <- LoneDeps
  Below <- LoneDeps
  Versions = {1}
  Def <- One
  Values = {0}
  Fallible = {}
  FromSteps = {}
  Requests = {"pause", "resume", "cancel"}
  Early = FALSE
  Late = FALSE
  Overlap = TRUE
  Skips = {"older", "big", "old", "refused"}
  MaxResumes = 1
  MaxCrashes = 2
  MaxAsks = 2
  MaxHttp = 2
SPECIFICATION FairSpec
INVARIANTS NotForgotten
PROPERTIES Settles CancelSticks ImplementsLife
CHECK_DEADLOCK FALSE
