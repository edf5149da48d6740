SPECIFICATION Spec
CONSTANTS
    small = small
    medium = medium
    large = large
    Threads = {t1}
    Blocks = {small, medium}
    tier <- MCTiers
    alignedOffset <- MCOffsets
    enableGuardBytes = FALSE
    enableLeakTracking = FALSE
    callersDoubleFree = TRUE
INVARIANTS
    EveryDoubleFreeReported
