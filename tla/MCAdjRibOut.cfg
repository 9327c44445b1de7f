CONSTANTS
    n1 = n1
    n2 = n2
    a = a
    b = b
    f = f
    g = g
    NoPath = NoPath
    Nlri = {n1, n2}
    Path = {a}
    Attributes = {a}
    Family = {f, g}
    AttrOf <- MCAttrOf
    FamilyOf <- MCFamilyOf
    Cache = TRUE
    Overwrites = FALSE
    EarlyRefresh = FALSE
    Enhanced = {TRUE}
    IPv4 = f
    MpUnicast = {}
SPECIFICATION FairSpec
INVARIANTS
    Converged
    EorAfterInitialRoutes
PROPERTIES
    ChangeArrives
