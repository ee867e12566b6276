SPECIFICATION Spec
CONSTANTS
    Hashes = {1, 2, 3, 4}
    Workers = {w1, w2, w3}
    None = None
INVARIANTS
    TypeOK
    NilMeansAll
    NoneTwice
    NoSendOnClosed
    PoolInv
PROPERTIES
    AllReturn
    ImplementsMap
