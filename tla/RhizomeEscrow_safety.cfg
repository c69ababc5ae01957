\* Two sessions that can share parties; every role is open to every account.
SPECIFICATION EscrowSpec
CONSTANTS
    SessionIDs = {s1, s2}
    Accounts = {a1, a2, a3}
    Escrow = Escrow
    ZeroAddress = ZeroAddress
    Tokens = {t1}
    Amounts = {1, 2}
    Windows = {1}
    CLAIM_GRACE = 1
    MIN_DISPUTE_WINDOW = 1
    MAX_DISPUTE_WINDOW = 1
    Funds = 2
    MaxTime = 4
SYMMETRY Symmetry
INVARIANTS
    EscrowTypeOK
    Solvent
    PaidExactly
    DrawdownRemainderIsBuyers
PROPERTIES
    RefundNeedsRulingOrLapse
    TermsAreFixed
CHECK_DEADLOCK FALSE
