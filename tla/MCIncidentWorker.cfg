CONSTANTS
    Keys = {"a", "b"}
    StartTimes = {"f1", "f3"}
    EndTimes = {"r2"}
    Millis <- MCMillis
    MaxJournal = 12
    Hooks = {"first", "second", "third"}
    Batch <- RecurrenceBatch
    QueueCap = 1
    MaxAttempts <- RecurrenceAttempts
    MaxCrashes = 1
SPECIFICATION Spec
CHECK_DEADLOCK FALSE
INVARIANTS
    WorkerTypeOK
    AnsweredIsDurable
    UnfinishedIsPending
    CompletionCarriesNotice
    MarkedIsReceived
PROPERTIES
    ImplementsDispatch
    InvestigationsEnd
    OutboxDrains
    CommandsTaken
