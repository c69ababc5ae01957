\* Two calls share two peers that hold one task each: failover, capacity,
\* eviction, cancellation and late handlers.
SPECIFICATION Spec
CONSTANTS
    Peers = {p1, p2}
    Calls = {c1, c2}
    Nobody = Nobody
    MaxStored = 1
    MaxActive = 1
    MaxAttempts = 1
    MaxFailures = 1
    MaxTasks = 3
    MaxRestarts = 0
    Persistent = {}
    WritesMayFail = FALSE
SYMMETRY Symmetry
INVARIANTS
    BothSidesBook
PROPERTIES
    TerminalIsFinal
CHECK_DEADLOCK FALSE
