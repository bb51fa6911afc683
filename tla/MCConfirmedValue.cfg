CONSTANTS
    Attribute <- MCBrightness
    Value = {1, 2}
    Control <- MCDimmer
    ColorTemp <- MCColorTemp
    Wheel <- MCWheel
    Unknown = Unknown
    Default = 1
    MaxGestures = 2
    MaxOthers = 0
    MaxFaults = 0
SPECIFICATION Spec
INVARIANT EchoConfirmsWhatIsShown
CHECK_DEADLOCK FALSE
