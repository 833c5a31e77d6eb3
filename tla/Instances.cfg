SPECIFICATION Spec
CONSTANTS
    i1 = i1
    i2 = i2
    t1 = t1
    Instances <- MCInstanceSet
    Tokens <- MCTokens
    MAX_VERSION = 4
    PENDING = PENDING
    NoCipher = NoCipher
    NoToken = NoToken
INVARIANTS
    TypeOK
    NeverPartlyConfigured
    CipherIsOfSettings
    TokensReadable
