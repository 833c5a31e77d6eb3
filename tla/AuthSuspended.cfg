SPECIFICATION Spec
CONSTANTS
    u1 = u1
    b1 = b1
    r1 = r1
    NoUser = NoUser
    NoBrand = NoBrand
    Users = {u1}
    Brands = {b1}
    Requests = {r1}
    EXPIRE_TICKS = 2
    MAX_WAIT = 1
INVARIANT
    SuspendedBrandLockedOut
