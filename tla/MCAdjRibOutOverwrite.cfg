CONSTANTS
    n1 = n1
    n2 = n2
    a = a
    b = b
    f = f
    g = g
    NoPath = NoPath
    Nlri = {n1}
    Path = {a, b}
    Attributes = {a, b}
    Family = {f}
    AttrOf <- MCAttrOf
    FamilyOf <- MCFamilyOf
    Cache = TRUE
    Overwrites = TRUE
    EarlyRefresh = FALSE
    Enhanced = {TRUE, FALSE}
    IPv4 = f
    MpUnicast = {}
SPECIFICATION Spec
INVARIANTS
    Converged
