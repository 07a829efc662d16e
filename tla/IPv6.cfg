SPECIFICATION FairSpec
CONSTANTS
    Req = {r1, r2}
    None = None
    Stopped = Stopped
    Files <- AllFiles
    SystemctlFails = TRUE
    MaxEdits = 1
INVARIANTS
    TypeOK
    FailedToggleUndone
    Recoverable
    AckedInForce
    AdminLinesKept
    RunsWhatIsOnDisk
PROPERTIES
    RequestAnswered
