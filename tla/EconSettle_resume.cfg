SPECIFICATION FairSpec
CONSTANTS
    Entries = {e1}
    Initial = {e1}
    Drivers = {d1}
    Modes = {"wallet", "approval"}
    MaxAttempts = 2
    MaxRecords = 2
    MaxTransfers = 2
    MaxCrashes = 1
    MaxDisputes = 0
    Nobody = Nobody
INVARIANTS
    SubmittedIsJournaled
    PaidAgainOnlyAfterGivingUp
PROPERTIES
    CloseOutEnds
CHECK_DEADLOCK FALSE
