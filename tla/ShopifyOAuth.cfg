SPECIFICATION Spec
CONSTANTS
    b1 = b1
    b2 = b2
    s1 = s1
    s2 = s2
    r1 = r1
    r2 = r2
    NoRow = NoRow
    NoShop = NoShop
    Brands = {b1, b2}
    Shops = {s1, s2}
    Requests = {r1, r2}
    MAX_CONNECTS = 3
SYMMETRY Symmetry
INVARIANTS
    TypeOK
    PendingIffDisconnected
    LatestConnectStands
    TokenWasGranted
    TokenMatchesShop
PROPERTY
    KeepsContract
