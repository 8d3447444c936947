SPECIFICATION FairSpec
CONSTANTS
    w = w
    Keys <- MCKeys
    Buttons <- MCButtons
    MaxSeq = 1
    Actions <- MCPress
    MaxLeases = 1
    SignalInside = FALSE
    Commands = {"attach", "arm", "activate", "motor", "chat", "stop"}
PROPERTIES StoppedIsForGood AuthorityEnds OrphansReleased TransactionsEnd
