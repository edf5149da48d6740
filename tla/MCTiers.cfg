SPECIFICATION MCSpec
CONSTANTS
    kClassCount = 30
    kClassSizes <- MCClassSizes
    kGranularity = 8
    kSmallMax = 4096
    Threads = {t1, t2, t3}
    page = 4
    Pages = 3
    Requests = {2, 5}
    kPayloadOffset = 1
    kHeaderSize = 1
INVARIANTS
    MappingsOwned
    OwnedRegistered
PROPERTIES
    LookupExact
    Finishes
    ReservedMatches
    StoreSpec
