SPECIFICATION Spec
CONSTANTS
    Entries = {e1, e2}
    Initial = {e1}
    Drivers = {d1, d2}
    Modes = {"wallet"}
    MaxAttempts = 2
    MaxRecords = 1
    MaxTransfers = 2
    MaxCrashes = 0
    MaxDisputes = 1
    Nobody = Nobody
INVARIANTS
    SettleTypeOK
    PaidTwiceOnlyByStaleDrive
    BooksAgree
PROPERTIES
    SettlesOfferedOrRacing
CHECK_DEADLOCK FALSE
