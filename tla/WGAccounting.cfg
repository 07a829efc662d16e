SPECIFICATION FairSpec
CONSTANTS
    p1 = p1
    n1 = n1
    Peer = {p1}
    Name = {n1}
    NameOf <- OneName
    MaxDumpFailures = 3
    FailOps <- RetriedFails
    Resettable = {p1}
    Reapable = {n1}
    MaxTraffic = 3
INVARIANTS
    TypeOK
    NoDoubleCredit
    LedgerBalances
    OpenTracked
    OnlineMatchesOpen
PROPERTIES
    ImplementsLedger
    StaleSessionClosed
