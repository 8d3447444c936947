SPECIFICATION LifecyclesSpec
CONSTANTS
  MaxGen = 2
  Pids <- MCPids
  Callers = {c1, c2}
  NoOne = NoOne
  Unlocked <- MCBoth
  Launchers = {l1}
  NoLauncher = NoLauncher
  Plan <- MCPlan
  Mode <- MCMode
  Numbers = {1, 2}
  MaxOperations = 3
  MaxBirths = 3
  MaxFailures = 1
  ActionBudget = 3
  MaxRetries = 2
  Allowance = 1
  StallLimit = 2
  MaxDeeds = 2
  MaxAgents = 2
  MaxMessages = 2
  Sorts <- MCSorts
SYMMETRY MCCallers
CHECK_DEADLOCK FALSE
INVARIANTS
  LifecycleSound
  StackSound
  MenuSound
  CaptureSound
  InboxSound
PROPERTIES
  AnswersStand
