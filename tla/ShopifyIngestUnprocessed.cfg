SPECIFICATION FairSpec
CONSTANTS
    w1 = w1
    w2 = w2
    s1 = s1
    north = north
    south = south
    Products <- MCProducts
    Orders <- MCOrders
    Shops <- MCShops
    NoShop = NoShop
    ShopOf <- MCShopOf
    Hooks <- MCOneHook
    Syncs <- MCSyncs
    PAGE_SIZE = 1
    WEBHOOK_UPSERT = {"raises"}
    MAX_VERSION = 1
    MAX_CHANGES = 2
    MAX_POSTS = 1
PROPERTY
    EventuallyProcessed
