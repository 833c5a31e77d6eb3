SPECIFICATION Spec
CONSTANTS
    w1 = w1
    w2 = w2
    s1 = s1
    north = north
    south = south
    Products <- MCProducts
    Orders <- MCOrders
    Shops <- MCShops
    NoShop = NoShop
    ShopOf <- MCShopOf
    Hooks <- MCHooks
    Syncs <- MCSyncs
    PAGE_SIZE = 1
    WEBHOOK_UPSERT = {"ok", "raises", "db_error"}
    MAX_VERSION = 2
    MAX_CHANGES = 3
    MAX_POSTS = 2
SYMMETRY HookSymmetry
INVARIANTS
    TypeOK
    ProcessedIsStored
    AcknowledgedIsRecorded
    SyncCatchesUp
PROPERTY
    KeepsContract
