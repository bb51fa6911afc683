CONSTANTS
    Attribute <- MCAttribute
    Value = {1, 2}
    Control <- MCControl
    ColorTemp <- MCColorTemp
    Wheel <- MCWheel
    Unknown = Unknown
    Default = 1
    MaxGestures = 1
    MaxOthers = 0
    MaxFaults = 0
    NoList = NoList
    Idle = Idle
    Unserved = Unserved
    MaxItems = 2
    MaxClicks = 1
    Arranged = {l1, l2}
    Automatic = Automatic
    Absent = Absent
    Broken = Broken
    DeviceId = {d1, d2}
    Label = {lamp, desk}
    NoDevice = NoDevice
    NotYet = NotYet
    MaxDeviceSteps = 1
    Ranges = {2, 4}
    Nobody = Nobody
    MaxClock = 1
    MaxDevice = 4
    InRoom <- MCInRoom
    FieldsOf <- MCFieldsOf
    NoRequest = NoRequest
    NoLatest = NoLatest
    MaxMoves = 1
SPECIFICATION MCSpec
INVARIANT OnlyUserChangesAreSaved
CHECK_DEADLOCK FALSE
