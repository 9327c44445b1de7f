CONSTANTS
    Kinds = {"active", "passive", "env_passive"}
    Higher = TRUE
    Limits = {0, 2}
    Faults = 6
SPECIFICATION FairSessionSpec
CHECK_DEADLOCK FALSE
INVARIANTS
    DownReported
PROPERTIES
    UpOnExchange
    Recovers
    Departs
