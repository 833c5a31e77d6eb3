SPECIFICATION FairSpec
CONSTANTS
    c1 = c1
    Callers <- MCCallers
    max_retries = 0
    backoff_base = 1
    SYNC_MAX_RETRIES = 2
    SYNC_RETRY_BACKOFF_BASE = 2
    BACKOFF_CAP = 3
    RetryAfters = {1, 4}
    LONGEST_WAIT = 4
    MAX_CHANGES = 3
INVARIANTS
    TypeOK
    PatienceBounded
    RaisesLast
PROPERTIES
    KeepsContract
    EveryFetchEnds
