SPECIFICATION Spec
CONSTANTS
  Stages = 2
  MaxKills = 2
  MaxBootKills = 0
  MaxFaults = 0
  MaxReaps = 0
  MaxPushes = 1
CHECK_DEADLOCK FALSE
INVARIANTS
  TailFindable
