CONSTANTS
    Proxies = {p1}
    MaxMsgs = 1
    PublishChannelSize = 1
    MaxFaults = 1
    ExchangeTypes = {"direct"}
    DsnMayFail = FALSE
    MayReplace = FALSE
SPECIFICATION FairSpec
PROPERTIES SettlesDown
CHECK_DEADLOCK FALSE
