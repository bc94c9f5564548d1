CONSTANTS
    k1 = k1
    k2 = k2
    Keys = {k1}
    StartTimes = {"f1", "f3", "f3b"}
    EndTimes = {"r2", "r4"}
    Millis <- MCMillis
    MaxJournal = 4
SPECIFICATION Spec
INVARIANT
    AdmittedInOrder
