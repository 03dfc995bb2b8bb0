SPECIFICATION Spec
CONSTANTS
  Stages = 2
  MaxKills = 1
  MaxBootKills = 1
  MaxFaults = 0
  MaxReaps = 0
  MaxPushes = 1
CHECK_DEADLOCK FALSE
PROPERTIES
  StartsClean
