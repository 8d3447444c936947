CONSTANTS
    Clients = {c1, c2}
    Loop = loop
    Nobody = nobody
    Commands = {"pause", "takeover", "bed-stop", "bed", "resume", "emergency", "reset", "run", "upgrade"}
    MaxBegun = 3
    MaxLeases = 3
    MaxFaults = 1

SPECIFICATION MCSpec

INVARIANTS StopsHold OneAgent
PROPERTIES OperationsEnd
CHECK_DEADLOCK FALSE
