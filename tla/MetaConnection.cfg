SPECIFICATION FairSpec
CONSTANTS
    a1 = a1
    a2 = a2
    r1 = r1
    r2 = r2
    Accounts <- MCAccounts
    Requests <- MCRequests
    TOTAL_ROWS = 3
    PAGE_SIZE = 2
    CURSORLESS = TRUE
    MAX_CONNECTS = 2
    NoRow = NoRow
    NoAccount = NoAccount
    Empty = Empty
INVARIANTS
    TypeOK
    ConnectedIsConfigured
    TokenMatchesAccount
    SyncIsComplete
PROPERTIES
    KeepsContract
    EverySyncEnds
