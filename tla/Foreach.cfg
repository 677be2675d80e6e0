CONSTANTS
  N = 4
  Workers = {w1, w2, w3}
  MaxRestarts = 1
  MaxAsks = 2
SPECIFICATION Spec
INVARIANTS TypeOK OnePlace AsSequential
PROPERTIES CancelWins ComesOut
CHECK_DEADLOCK FALSE
