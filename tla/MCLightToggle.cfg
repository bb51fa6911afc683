CONSTANTS
    lamp = lamp
    Lamp = lamp
    Target <- MCTarget
    NoTarget = NoTarget
    NoData = NoData
    Unread = Unread
    NoIntent = NoIntent
    Ready = Ready
    MaxVersion = 3
    MaxRequest = 5
    MaxToggles = 2
    MaxOthers = 1
    MaxFaults = 1
SPECIFICATION LightSpec
INVARIANT SwitchAgreesWhenQuiet
INVARIANT LoneClickIsKept
PROPERTY SwitchComesBack
CHECK_DEADLOCK FALSE
