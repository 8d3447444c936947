SPECIFICATION Spec
CONSTANTS
  MaxGen = 2
  Pids <- MCPids
  Callers = {c1, c2}
  NoOne = NoOne
  Unlocked <- MCProbe
SYMMETRY MCCallers
INVARIANTS
  Tracked
