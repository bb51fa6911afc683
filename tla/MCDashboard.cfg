CONSTANTS
    Attribute <- MCAttribute
    Value = {1, 2}
    Control <- MCControl
    ColorTemp <- MCColorTemp
    Wheel <- MCWheel
    Unknown = Unknown
    Default = 1
    MaxGestures = 2
    MaxOthers = 1
    MaxFaults = 1
    NoList = NoList
    Idle = Idle
    Unserved = Unserved
    MaxItems = 2
    MaxClicks = 4
    Arranged = {l1, l2}
    Automatic = Automatic
    Absent = Absent
    Broken = Broken
    DeviceId = {d1, d2}
    Label = {lamp, desk}
    NoDevice = NoDevice
    NotYet = NotYet
    MaxDeviceSteps = 7
    Ranges = {2, 4}
    Nobody = Nobody
    MaxClock = 5
    MaxDevice = 4
    InRoom <- MCInRoom
    FieldsOf <- MCFieldsOf
    NoRequest = NoRequest
    NoLatest = NoLatest
    MaxMoves = 7
SPECIFICATION MCSpec
INVARIANT LoneGestureIsKept
INVARIANT ControlsAgreeWhenQuiet
INVARIANT LastClickWins
INVARIANT ListIsFreshWhenQuiet
INVARIANT LayoutIsKept
INVARIANT ButtonsMeanPending
INVARIANT ShowsWhatWasSaved
INVARIANT TimelineTellsTheHistory
INVARIANT BadgeAgreesWithBar
INVARIANT LastOpeningIsTrue
INVARIANT SectionsMeanTheirDevice
PROPERTY PollLeavesHeldControls
CHECK_DEADLOCK FALSE
