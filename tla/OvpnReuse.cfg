SPECIFICATION Spec
CONSTANTS
    n1 = n1
    n2 = n2
    k1 = k1
    k2 = k2
    WG = WG
    Name = {n1, n2}
    Key = {k1}
    WGName = {}
    Reapable = {n1}
    MaxId = 2
    MaxBytes = 1
    LogFaults = {"torn"}
    DBFaults = {}
INVARIANTS
    OwnBytesOnly
    OnlineHaveSessions
PROPERTIES
    ClosedAfterTwoMisses
