SPECIFICATION FairSpec
CONSTANTS
    k1 = k1
    k2 = k2
    c1 = c1
    c2 = c2
    c3 = c3
    Keys <- MCOneKey
    Calls <- MCTwoCalls
    Cancellable <- MCCancellable
    FAILURE_THRESHOLD = 2
    RESET_TIMEOUT_SECONDS = 1
    HALF_OPEN_MAX_CALLS = 1
    COUNT_CAP = 2
PROPERTY
    HalfOpenAlwaysResolves
