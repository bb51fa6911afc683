CONSTANTS
    d1 = d1
    d2 = d2
    kitchen = kitchen
    hall = hall
    Ieee <- MCIeee
    Name <- MCName
    Type = {"SENSOR"}
    DerivedType <- MCDerivedType
    Null = Null
    Nobody = Nobody
    NotRegistered = NotRegistered
    MaxId = 3
SPECIFICATION Spec
SYMMETRY MCSymmetry
INVARIANT TypeOK
PROPERTY LedgerSpec
PROPERTY HistoryKeysAreKept
PROPERTY TopicsChangeHandsOnlyByRelabelling
PROPERTY SyncIsIdempotent
PROPERTY SyncRoutesListedNames
PROPERTY OnlyAvailabilityBringsOnline
CHECK_DEADLOCK FALSE
