SPECIFICATION FairSpec
CONSTANTS
    n1 = n1
    n2 = n2
    k1 = k1
    k2 = k2
    WG = WG
    Name = {n1}
    Key = {k1}
    WGName = {}
    Reapable = {}
    MaxId = 1
    MaxBytes = 0
    LogFaults = {"missing", "stale"}
    DBFaults = {}
PROPERTIES
    GoneClientClosed
