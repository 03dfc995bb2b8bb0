SPECIFICATION Spec
CONSTANTS
  WantsTool = TRUE
  Runtimes = {"claude"}
  MaxTurns = 1
  MaxAsks = 0
INVARIANT
  CancelledWaitFails
CHECK_DEADLOCK FALSE
