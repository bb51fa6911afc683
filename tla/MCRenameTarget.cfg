CONSTANTS
    d1 = d1
    d2 = d2
    n1 = n1
    n2 = n2
    n3 = n3
    w1 = w1
    w2 = w2
    s1 = s1
    s2 = s2
    porch = porch
    stairs = stairs
    Ieee <- MCIeee
    Name <- MCName
    Type = {"SENSOR"}
    DerivedType <- MCDerivedType
    Null = Null
    Nobody = Nobody
    NotRegistered = NotRegistered
    MaxId = 3
    Worker <- MCWorker
    MayName <- MCSharedNames
    Idle = Idle
    NotPaired = NotPaired
    MaxInputs = 6
    MaxInbox = 2
    Sensor <- MCSensor
    DoorLights <- MCDoorLights
    NightLights <- MCNightLights
    NoReport = NoReport
    MaxOpenings = 2
    MaxHandovers = 1
    MaxNights = 1
    MaxFaults = 1
    MaxComing = 2
SPECIFICATION MCSpec
PROPERTY RenamesHitTheirDevice
CHECK_DEADLOCK FALSE
