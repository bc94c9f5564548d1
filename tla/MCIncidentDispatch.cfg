CONSTANTS
    k1 = k1
    k2 = k2
    Keys <- MCKeys
    StartTimes = {"f1", "f3", "f3b"}
    EndTimes = {"r2", "r4"}
    Millis <- MCMillis
    MaxJournal = 5
SPECIFICATION Spec
SYMMETRY KeySymmetry
INVARIANTS
    TypeOK
    ReplayAgreement
    LifecycleFactsInOrder
    EventOpensOnce
PROPERTY
    ImplementsEpisodes
