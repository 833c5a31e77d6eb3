SPECIFICATION Spec
CONSTANTS
    u1 = u1
    b1 = b1
    b2 = b2
    r1 = r1
    r2 = r2
    NoUser = NoUser
    NoBrand = NoBrand
    Users = {u1}
    Brands = {b1, b2}
    Requests = {r1, r2}
    EXPIRE_TICKS = 2
    MAX_WAIT = 1
SYMMETRY Symmetry
INVARIANTS
    TypeOK
    GraceBounded
    LeaversBounded
PROPERTIES
    LockedOutAfterGrace
