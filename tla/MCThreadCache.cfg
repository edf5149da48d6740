SPECIFICATION Spec
CONSTANTS
    kClassCount = 2
    blockStride <- MCStrides
    kRunSize = 72
    Runs = {0, 72}
    Threads = {t1, t2}
    kCapacity = 3
    kBatchSize = 2
INVARIANTS
    ExclusiveBlocks
    NoBlockLost
    CacheBound
PROPERTIES
    NoEarlyRefill
    BatchEnds
    StoreSpec
