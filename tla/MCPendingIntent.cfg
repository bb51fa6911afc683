CONSTANTS
    lamp = lamp
    Lamp = lamp
    Target <- MCTarget
    NoTarget = NoTarget
    NoData = NoData
    Unread = Unread
    NoIntent = NoIntent
    Ready = Ready
    MaxVersion = 3
    MaxRequest = 5
    MaxToggles = 3
    MaxOthers = 0
    MaxFaults = 0
SPECIFICATION LightSpec
INVARIANT PendingIntentIsKept
CHECK_DEADLOCK FALSE
