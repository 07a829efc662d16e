SPECIFICATION FairSpec
CONSTANTS
    Conn = {c1, c2}
    None = None
    MaxFaults = 1
    c1 = c1
    c2 = c2
INVARIANTS
    TypeOK
    OneSocket
    PollsIffDown
PROPERTIES
    FreshForGood
    GoneUnsubscribed
