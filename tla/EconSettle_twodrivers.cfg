SPECIFICATION Spec
CONSTANTS
    Entries = {e1}
    Initial = {e1}
    Drivers = {d1, d2}
    Modes = {"wallet", "approval"}
    MaxAttempts = 2
    MaxRecords = 1
    MaxTransfers = 2
    MaxCrashes = 0
    MaxDisputes = 0
    Nobody = Nobody
INVARIANT OneTransferPerRecord
CHECK_DEADLOCK FALSE
