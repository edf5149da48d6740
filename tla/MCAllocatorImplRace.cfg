SPECIFICATION Spec
CONSTANTS
    small = small
    medium = medium
    large = large
    Threads = {t1, t2}
    Blocks = {small, medium}
    tier <- MCTiers
    alignedOffset <- MCOffsets
    enableGuardBytes = FALSE
    enableLeakTracking = TRUE
    callersDoubleFree = FALSE
INVARIANTS
    LegalCallsSucceed
