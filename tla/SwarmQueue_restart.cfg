\* Two offers in flight, one of which gets claims; calls are lost, the daemon stops or crashes and starts again.
SPECIFICATION RestartSpec
CONSTANTS
    Offers = {o1, o2}
    Members = {m1}
    Matching = {o1}
    MaxOffers = 2
    MaxRetries = 0
    Cancellable = {}
    MaxRestarts = 1
    PublishMayFail = FALSE
    CallsMayFail = TRUE
    TaskFailover = FALSE
CHECK_DEADLOCK FALSE
INVARIANTS
    SubmissionsBounded
PROPERTIES
    ReofferIsFresh
    StoreKeepsInFlight
    RedrivenOffersFinish
