CONSTANTS
    Deployments = {"d"}
    Receipts <- MCReceipts
    MinWindow = 1
    MaxWindow = 2
    MaxReceiptAge = 9
    MaxSamples = 3
    Incidents = {"i1"}
    MaxBase = 1
    None = None
    CheckpointLife = 2
    MaxCheckpointAge = 2
    RequestLife = 1
    MaxValidationAge = 1
    AdminCap = 1
    FirstSecond = 2
    MaxClock = 4
    MaxBacks = 1
    MaxStarts = 2
SPECIFICATION Spec
CHECK_DEADLOCK FALSE
ACTION_CONSTRAINT OthersMoveAtAwaits
INVARIANTS
    RepairTypeOK
    QualificationAudited
    ReservationsAccounted
    FactsOnce
PROPERTIES
    HandoffUncontradicted
    ConfirmedIsQuiet
    ImplementsContract
