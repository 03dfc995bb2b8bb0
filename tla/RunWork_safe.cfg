SPECIFICATION MCSpec
CONSTANTS
  Stages = 2
  MaxKills = 2
  MaxBootKills = 1
  MaxFaults = 1
  MaxReaps = 1
  MaxPushes = 3
  Runs = {a, b}
  First = a
  RepoCount = 2
  Wide = {a}
  Cap = 1
  Grace = 1
  MaxIdle = 0
  Ttl = 0
  MaxNow = 1
  MaxJobs = 3
  MaxTreeFaults = 1
  Commits = {1, 2}
  Older = {1}
  MaxRepoEvents = 2
  MaxRepoFaults = 1
  NoRef = NoRef
  NotTorn = NotTorn
CHECK_DEADLOCK FALSE
INVARIANTS
  GitTypeOK
  TailFindableOnce
  
  OutcomeIsTrue
  WorkSurvives
PROPERTIES
  StartsCleanUndisturbed
  RunsHaveTheirTrees
  MirrorServesRuns
