SPECIFICATION FairSpec
CONSTANTS
    k1 = k1
    k2 = k2
    c1 = c1
    c2 = c2
    c3 = c3
    Keys <- MCKeys
    Calls <- MCCalls
    Cancellable <- MCCancellable
    FAILURE_THRESHOLD = 2
    RESET_TIMEOUT_SECONDS = 1
    HALF_OPEN_MAX_CALLS = 1
    COUNT_CAP = 2
INVARIANTS
    TypeOK
    ProbeBudget
    CountMatchesState
PROPERTIES
    KeepsContract
    HalfOpenResolves
    Recovers
