SPECIFICATION Spec
CONSTANTS
    n1 = n1
    n2 = n2
    k1 = k1
    k2 = k2
    WG = WG
    Name = {n1}
    Key = {k1, k2}
    WGName = {n1}
    Reapable = {}
    MaxId = 1
    MaxBytes = 1
    LogFaults = {"torn", "missing", "stale"}
    DBFaults = {"write", "commit", "closeAll"}
SYMMETRY KeySymmetry
INVARIANTS
    TypeOK
    OneOpenSession
PROPERTIES
    BytesOnlyRatchet
    WGSessionsUntouched
