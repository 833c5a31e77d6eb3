SPECIFICATION Spec
CONSTANTS
    b1 = b1
    s1 = s1
    r1 = r1
    r2 = r2
    NoRow = NoRow
    NoShop = NoShop
    Brands = {b1}
    Shops = {s1}
    Requests = {r1, r2}
    MAX_CONNECTS = 1
INVARIANT
    StateConsumedOnce
