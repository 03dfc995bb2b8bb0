SPECIFICATION MCSpec
CONSTANTS
  Old = Old
  New = New
  Probed = {t1, t2}
  Blobs = {b1}
  MaxFaults = 1
  MaxFrames = 2
  MaxAttempts = 1
  AgentRuntimes = {"claude-code"}
  Slots = {1, 2}
  Free = Free
  BufferMax = 2
  BatchMax = 1
  MaxRecords = 3
  Interval = 12
  SkewTolerance = 1
  Fetch = 1
  Spread = 1
CHECK_DEADLOCK FALSE
INVARIANTS
  RemoteTypeOK
  LinkIsSound
  WordsAreTrue
  
PROPERTIES
  RemoteRecovers
