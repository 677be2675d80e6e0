CONSTANTS
  N = 3
  Graphs <- AllGraphs
  Shapes <- AllShapes
  Outputs = {"true", "false"}
  MaxRestarts = 1
  MaxAsks = 1
SPECIFICATION Spec
INVARIANTS TypeOK AsReference ReportsTheCause EndedIsNotSkipped
PROPERTIES QuietAfterReport
CHECK_DEADLOCK FALSE
