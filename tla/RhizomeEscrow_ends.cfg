\* The parties act; nothing is assumed of the arbiter.
SPECIFICATION EscrowPartySpec
CONSTANTS
    SessionIDs = {s1}
    Accounts = {a1, a2, a3}
    Escrow = Escrow
    ZeroAddress = ZeroAddress
    Tokens = {t1}
    Amounts = {1, 2}
    Windows = {1, 2}
    CLAIM_GRACE = 1
    MIN_DISPUTE_WINDOW = 1
    MAX_DISPUTE_WINDOW = 2
    Funds = 2
    MaxTime = 5
CHECK_DEADLOCK FALSE
PROPERTIES
    SessionsEnd
