SPECIFICATION FairSpec
CONSTANTS
    v0 = v0
    v1 = v1
    t1 = t1
    Empty = Empty
    Value = {v0, v1, Empty}
    DefaultAddr = v0
    Defaults <- JustInstalled
    NoAddr = NoAddr
    NoToken = NoToken
    NoForm = NoForm
    NoTable = NoTable
    Form <- SampleForms
    Request = {1, 2}
    Token = {t1}
INVARIANTS
    TypeOK
    AddrInForce
PROPERTIES
    SavesExactlyTheForm
    AddrServed
    OrphansEvicted
