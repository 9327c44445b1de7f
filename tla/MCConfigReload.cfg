CONSTANTS
    n1 = n1
    n2 = n2
    a = a
    b = b
    f = f
    NoPath = NoPath
    Nlri = {n1}
    Path = {a, b}
    Attributes = {a, b}
    Family = {f}
    AttrOf <- MCAttrOf
    FamilyOf <- MCFamilyOf
    Cache = TRUE
    Overwrites = FALSE
    EarlyRefresh = FALSE
    Enhanced = {FALSE}
    IPv4 = f
    MpUnicast = {}
    File <- MCFiles
    ApiNlri = {n1}
    Modified = {TRUE, FALSE}
    Failures = {"early"}
    Restarts = FALSE
    Overlaps = FALSE
    Concurrent = FALSE
    Passive = TRUE
SPECIFICATION FairReloadSpec
INVARIANTS
    ReloadTypeOK
    Applied
    Delivered
PROPERTIES
    WantedArrives
