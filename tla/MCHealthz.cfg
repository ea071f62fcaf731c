CONSTANTS
    Handlers = {h1}
    NoHandler = none
    Categories = {c1}
    NoCategory = nocat
    Pings = {db}
    ChannelSize = 1
    MaxSecond = 2
    MaxFaults = 1
SPECIFICATION Spec
CHECK_DEADLOCK FALSE
PROPERTY ResumesPublishing
