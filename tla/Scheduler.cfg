CONSTANTS
  a = a
  b = b
  Autos <- Pair
  Clicked = {a}
  Triggers <- Twos
  First <- Firsts
  Runs = {1, 2, 3}
  Horizon = 2
  ScanLimit = 3
  SlowBoot = FALSE
  Early = FALSE
  MidTick = TRUE
  MaxAround = 2
SPECIFICATION Spec
INVARIANTS NoOverlap FiredOnce NoneSwallowed EditsStand
CHECK_DEADLOCK FALSE
