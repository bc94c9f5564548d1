CONSTANTS
    run1 = run1
    run2 = run2
    run3 = run3
    run4 = run4
    i1 = i1
    i2 = i2
    gemini = gemini
    deepseek = deepseek
    Runs <- MCRuns
    Days = {"mon", "tue"}
    Months = {"may"}
    IncidentLimit = 2
    DayLimit = 4
    MonthLimit = 6
    Incidents <- MCIncidents
    PaidProviders <- MCProviders
    Part = 1
SPECIFICATION Spec
SYMMETRY MCSymmetry
INVARIANT
    SpendCovered
