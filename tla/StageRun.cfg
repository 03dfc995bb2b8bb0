SPECIFICATION MCSpec
CONSTANTS
  Calls = {1, 2, 3}
  Repeats = {2}
  First = 1
  Outside = {3}
  Caps = {1, 2}
  NumRepos = 2
  Scripts = {"a", "b"}
  NumChecks = 2
  MaxStages = 2
  Asked <- MCAsked
  MaxEdits = 2
CHECK_DEADLOCK FALSE
INVARIANTS
  SuiteTypeOK
  HarnessTakesBlame
  ReleasedOnExit
  VerdictsAreEarned
  
  RepliesAreRight
PROPERTIES
  StagesReturn
