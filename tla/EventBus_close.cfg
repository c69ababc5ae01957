SPECIFICATION FairSpec
CONSTANTS
    Publishers = {p1, p2}
    Options <- MCOptions
    Buffer = 1
    MaxPublish = 3
INVARIANTS
    BusTypeOK
    NoSendOnClosed
    EveryEventAccounted
    InOrder
    OnceCallsOnce
PROPERTIES
    DoneIsTheEnd
    CloseEnds
    TakenInIsHandled
CHECK_DEADLOCK FALSE
