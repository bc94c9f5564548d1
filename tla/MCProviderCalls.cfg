CONSTANTS
    openai = openai
    gemini = gemini
    deepseek = deepseek
    deterministic = deterministic
    call1 = call1
    call2 = call2
    Blank = Blank
    Providers <- MCProviders
    Order <- MCOrder
    Deterministic <- deterministic
    Limits <- MCLimits
    Reservation <- MCReservation
    CallIds <- MCCallIds
    ProviderCalls = 1
    EvidenceQueries = 3
    MaxToolTurns = 2
    MaxCalls = 2
    ResultsThatFit = 1
    MaxModelTurns = 2
SPECIFICATION Spec
CHECK_DEADLOCK FALSE
INVARIANT
    ProviderCallsBounded
