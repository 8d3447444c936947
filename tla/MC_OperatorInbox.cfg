SPECIFICATION InboxSpec
CONSTANTS
    MaxMessages = 2
    Sorts <- MCSorts
CHECK_DEADLOCK FALSE
PROPERTY NoneRegainsControl
