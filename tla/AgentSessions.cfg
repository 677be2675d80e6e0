CONSTANTS
  Runs = {r1, r2, r3}
  Nobody = Nobody
  Count = 2
  LetsGo = FALSE
  Tear = FALSE
  MaxAround = 2
SYMMETRY Alike
SPECIFICATION Spec
INVARIANTS ThreadWhole TurnsContinue
CHECK_DEADLOCK FALSE
