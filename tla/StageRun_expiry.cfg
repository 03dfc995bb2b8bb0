SPECIFICATION LiveSpec
CONSTANTS
  Calls = {1}
  Repeats = {}
  First = 1
  Outside = {}
  Caps = {1}
PROPERTIES
  ExpiryEndsStage
CHECK_DEADLOCK FALSE
