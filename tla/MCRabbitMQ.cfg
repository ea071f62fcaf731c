CONSTANTS
    Proxies = {p1, p2}
    MaxMsgs = 2
    PublishChannelSize = 1
    MaxFaults = 2
    ExchangeTypes = {"direct", "fanout"}
    DsnMayFail = TRUE
    MayReplace = TRUE
SPECIFICATION Spec
INVARIANTS TypeOK HandlersOnOpenChannel NothingStranded InOrder LatestConsumerKept StoppedIsClosed
CHECK_DEADLOCK FALSE
