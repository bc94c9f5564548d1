CONSTANTS
    Workers = {"w1", "w2", "w3"}
    Requests = {"q1", "q2", "q3"}
    RequestOf <- MCRequestOf
    MaxClaims = 2
    Stores = {"s1", "s2"}
    StoreMaps <- MCStoreMaps
    None = None
SPECIFICATION Spec
CHECK_DEADLOCK FALSE
INVARIANTS
    SandboxTypeOK
    SettledMeansGone
    LaunchedOnce
    AnswersAreSettled
PROPERTY
    LockReleased
