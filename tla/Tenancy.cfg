SPECIFICATION FairSpec
CONSTANTS
    b1 = b1
    b2 = b2
    s1 = s1
    s2 = s2
    c1 = c1
    Brands <- MCBrands
    Sessions <- MCSessions
    Connections <- MCConnections
    NoBrand = NoBrand
    NoConnection = NoConnection
INVARIANTS
    TypeOK
    
    ContextIsOfHolder
PROPERTIES
    EveryWaitEnds
