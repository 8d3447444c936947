SPECIFICATION ExecutorSpec
CONSTANTS
  MaxDepth = 2
  MaxSkills = 3
CHECK_DEADLOCK FALSE
INVARIANT ForbiddenAttackLifted
