SPECIFICATION Spec
CONSTANTS
    w = w
    Keys <- MCKeys
    Buttons <- MCButtons
    MaxSeq = 1
    Actions <- MCActions
    MaxLeases = 2
    SignalInside = TRUE
    Commands <- MCCommands
INVARIANTS LeaseState
PROPERTIES OriginPublishedInTheClear KeepsPromise
