SPECIFICATION FairSpec
CONSTANTS
    Name = {a, b}
    Edited = {a}
    DBFails = TRUE
    a = a
    b = b
INVARIANTS
    TypeOK
PROPERTIES
    SteadyClientsKept
    RemovedClientsPurged
    PeersListed
