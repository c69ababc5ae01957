\* Nothing fails, and a cancel request always reaches its peer.
SPECIFICATION Spec
CONSTANTS
    Offers = {o1}
    Members = {m1}
    Matching = {o1}
    MaxOffers = 1
    MaxRetries = 0
    Cancellable = {o1}
    MaxRestarts = 0
    PublishMayFail = FALSE
    CallsMayFail = FALSE
    TaskFailover = TRUE
CHECK_DEADLOCK FALSE
INVARIANTS
    CancelledWorkStops
