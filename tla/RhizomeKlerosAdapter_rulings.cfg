\* Two sessions, the adapter the arbiter of either, both or none.
SPECIFICATION FairSpec
CONSTANTS
    SessionIDs = {s1, s2}
    Accounts = {a1, a2, adapter}
    Adapter = adapter
    Escrow = Escrow
    ZeroAddress = ZeroAddress
    Tokens = {t1}
    Amounts = {1, 3}
    Windows = {1}
    CLAIM_GRACE = 0
    MIN_DISPUTE_WINDOW = 1
    MAX_DISPUTE_WINDOW = 1
    Funds = 3
    MaxTime = 2
    FirstDisputeID = 1
    MaxDisputes = 2
CHECK_DEADLOCK FALSE
INVARIANTS
    PendingRulingApplies
PROPERTIES
    EscalationEnds
    PromiseKept
