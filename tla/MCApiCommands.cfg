CONSTANTS
    n1 = n1
    n2 = n2
    a = a
    f = f
    NoPath = NoPath
    Nlri = {n1, n2}
    Path = {a}
    Attributes = {a}
    Family = {f}
    AttrOf <- MCAttrOf
    FamilyOf <- MCFamilyOf
    Cache = TRUE
    Overwrites = FALSE
    EarlyRefresh = FALSE
    Enhanced = {FALSE}
    IPv4 = f
    MpUnicast = {}
    Commands <- MCCommands
    Limit = 3
    Writes = {2, 4}
    MaxCommands = 2
    MaxRefusals = 1
SPECIFICATION FairApiSpec
INVARIANTS
    SyncSent
    InOrder
PROPERTIES
    Answered
