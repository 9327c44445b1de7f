CONSTANTS
    N = 3
    HeaderLen = 2
    End <- MCEnd
    Holds = {0, 3}
    KeepAlives = {1, 3}
    Discards = {2}
SPECIFICATION FairMainSpec
CHECK_DEADLOCK FALSE
INVARIANTS
    NoFramingError
    NotExpired
    KeepsAlive
PROPERTIES
    Implements
    DeadNoticed
    MessageHandled
