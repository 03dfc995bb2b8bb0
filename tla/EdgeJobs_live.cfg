SPECIFICATION MCSpec
CONSTANTS
  s1 = s1  s2 = s2  p1 = p1  r1 = r1  r2 = r2
  h1 = h1  h2 = h2  h3 = h3
  NoPid = NoPid  NoJob = NoJob  NoRef = NoRef
  HostPids = {w1, w2}  MaxHostEvents = 2
  Commits = {1, 2}  Older = {1}  MaxRepoEvents = 1  MaxRepoFaults = 1
  Old = Old  New = New  None = None
  Stages <- MCStages
  Pushes <- MCNobody
  Runs <- MCRuns
  RunOf <- MCStageRunOf
  Versioned <- MCVersioned
  Handlers <- MCTwoHandlers
  PathKnown <- MCStages
  Cancellable <- MCNobody
  MaxSlots = 1
  MaxResend = 1
  Pids = {1, 2}
  PidMayRepeat = TRUE
  MaxCrashes = 2
  MaxFlaps = 2
  MaxFaults = 0
CHECK_DEADLOCK FALSE
INVARIANTS
  PartsTypeOK
  WorkerHoldsLock
  CommandsKeepTheirWord
PROPERTIES
  JobsDelivered
  JobsSpared
  ComesBack
