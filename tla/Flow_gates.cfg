CONSTANTS
  N = 3
  Graphs <- Gate
  Shapes <- GateShapes
  Outputs = {"true", "false"}
  MaxRestarts = 1
  MaxAsks = 1
SPECIFICATION Spec
INVARIANTS GatesReconstructed
CHECK_DEADLOCK FALSE
