SPECIFICATION MCSpec
CONSTANTS
  WantsTool = TRUE
  Runtimes = {"claude", "pi"}
  MaxTurns = 3
  MaxAsks = 2
  Calls = {1, 2}
  Denied = {1}
  Ceiling = 2
  MaxPrompts = 2
  MaxLines = 1
  MaxPiAsks = 1
  Models = {m1, m2, m3}
  Provider <- MCProvider
  Family <- MCFamily
  m1 = m1
  m2 = m2
  m3 = m3
  NoModel = NoModel
CHECK_DEADLOCK FALSE
INVARIANTS
  AgentsTypeOK
  TurnsConserved
  SettledRightly
  AgentsBehave
PROPERTIES
  GateHearsEverything
  StagesEnd
