SPECIFICATION Spec
CONSTANTS
    w = w
    Keys <- MCKeys
    Buttons <- MCButtons
    MaxSeq = 1
    Actions <- MCActions
    MaxLeases = 1
    SignalInside = FALSE
    Commands = {"arm", "activate", "motor"}
INVARIANT FailedCleanupNotRunning
