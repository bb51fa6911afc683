CONSTANTS
    lamp = lamp
    door = door
    Target <- MCTarget
    NoTarget = NoTarget
    NoData = NoData
    Unread = Unread
    MaxVersion = 2
    MaxRequest = 4
    NoEvent = NoEvent
    Threads = 1
    MaxStreams = 3
    MaxEvents = 2
SPECIFICATION MCSpec
PROPERTY ViewSpec
INVARIANT LoadedDataIsOfTheTarget
INVARIANT StreamsTellEveryChange
PROPERTY EventsReachTheirClient
CHECK_DEADLOCK FALSE
