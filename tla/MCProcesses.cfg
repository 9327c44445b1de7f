CONSTANTS
    RespawnNumber = 2
    Chunk = 3
    Lines = 2
    Faults = 3
SPECIFICATION FairHelperSpec
CHECK_DEADLOCK FALSE
INVARIANTS
    LinesWhole
    CommandsKept
    AnswersKept
    RespawnBounded
PROPERTIES
    Answered
    Respawned
