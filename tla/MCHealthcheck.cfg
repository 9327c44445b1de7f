CONSTANTS
    Options <- CommandLines
    Ips = 2
    PipeSize = 2
    Faults = 2
SPECIFICATION FairHealthSpec
CHECK_DEADLOCK FALSE
INVARIANTS
    Reachable
    CleanExit
PROPERTIES
    Hysteresis
    Follows
