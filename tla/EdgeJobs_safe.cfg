SPECIFICATION Spec
CONSTANTS
  s1 = s1  s2 = s2  p1 = p1  r1 = r1  r2 = r2
  h1 = h1  h2 = h2  h3 = h3
  NoPid = NoPid  NoJob = NoJob
  Stages <- MCStages
  Pushes <- MCPushes
  Runs <- MCRuns
  RunOf <- MCRunOf
  Versioned <- MCVersioned
  Handlers <- MCHandlers
  PathKnown <- MCAllJobs
  Cancellable <- MCS1
  MaxSlots = 1
  MaxResend = 2
  Pids = {1, 2}
  PidMayRepeat = FALSE
  MaxCrashes = 1
  MaxFlaps = 1
  MaxFaults = 1
SYMMETRY MCHandlerSymmetry
CHECK_DEADLOCK FALSE
INVARIANTS
  TypeOK
  OneHandlerPerJob
  OpenLinkOwesNothing
  LedgerMatchesRunning
  NoStageOnInterruptedTail
  BelievedJobsAlive
PROPERTIES
  RerunOnlyAfterEviction
  AdmissionSpec
