SPECIFICATION RequestsSpec
CONSTANTS
  Requests = {r1, r2}
  Callers = {c1, c2}
  MaxLeases = 2
  Streaming = {1}
  MaxPulses = 3
  NoRequest = NoRequest
  MaxRequests = 2
  MaxAttempts = 1
  MaxRevisions = 0
  Latches = {}
CHECK_DEADLOCK FALSE
INVARIANTS ToggledOnce SuccessIsEarned CountTrue OneOwner
PROPERTIES InputIsAuthorized OutcomeIsFinal DirectionsEnd RequestsEnd
