SPECIFICATION PartsSpec
CONSTANTS
    w = w
    lmb = lmb
    Keys <- MCKeys
    Buttons <- MCButtons
    Actions <- MCActions
    MaxSeq = 1
    MaxLeases = 2
    StaleLimit = 2
    MaxLate = 1
    MaxWorkerStarts = 3
    MaxInferences = 4
    MaxStuck = 1
    Policies = {"semantic", "rocket", "menus"}
    Levels = {"skill", "grounded", "gui"}
    BodyOf <- MCBodyOf
    WatcherOf <- MCWatcherOf
    Primary = "semantic"
    NoPolicy = NoPolicy
    NoLevel = NoLevel
    MaxQueries = 3
    QueueRoom = 2
    ShardSteps = 2
    MaxOffers = 6
\* The agent ends, and a policy worker, a recording or a vision thread with it.
CHECK_DEADLOCK FALSE
INVARIANTS GateAgrees NoReplay InputsAccounted ClientSound RouterSound RecordingTrue
PROPERTIES NoRevival RunEnds VisionFenced
