SPECIFICATION CognitionSpec
CONSTANTS
  MaxRequests = 2
  MaxAttempts = 2
  MaxRevisions = 1
  Latches = {"pause"}
  MaxDepth = 2
  MaxSkills = 3
  Labels <- MCLabels
  Alternatives <- MCAlternatives
  Required = 2
  MaxLogs = 2
  MaxStreak = 2
  MaxHeld = 2
  MaxClicks = 2
  MaxSurveys = 2
CHECK_DEADLOCK FALSE
INVARIANTS
  DecisionSound
  AttackStands
  PlanSound
  CraftIsTrue
  RequestSound
PROPERTIES
  CommittedWhileCurrent
  SettledOnce
