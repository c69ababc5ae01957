\* One offer, cancelled or not, under every failure of broadcasts and calls.
SPECIFICATION FairSpec
CONSTANTS
    Offers = {o1}
    Members = {m1}
    Matching = {o1}
    MaxOffers = 1
    MaxRetries = 1
    Cancellable = {o1}
    MaxRestarts = 0
    PublishMayFail = TRUE
    CallsMayFail = TRUE
    TaskFailover = TRUE
CHECK_DEADLOCK FALSE
INVARIANTS
    QueueTypeOK
    ClaimsAreCurrent
    CancelAdmitsOneSubmit
PROPERTIES
    OffersFinish
