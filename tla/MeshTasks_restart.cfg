\* One call, retried, at a peer that saves its tasks, stops, crashes and
\* comes back.
SPECIFICATION FairSpec
CONSTANTS
    Peers = {p1}
    Calls = {c1}
    Nobody = Nobody
    MaxStored = 2
    MaxActive = 1
    MaxAttempts = 2
    MaxFailures = 2
    MaxTasks = 2
    MaxRestarts = 1
    Persistent = {p1}
    WritesMayFail = TRUE
INVARIANTS
    TasksTypeOK
    OneTaskPerCall
    BookedOnce
    SavedResultsHold
PROPERTIES
    CallsEnd
CHECK_DEADLOCK FALSE
