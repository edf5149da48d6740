SPECIFICATION Spec
CONSTANTS
    small = small
    medium = medium
    large = large
    Threads = {t1, t2}
    Blocks = {medium, large}
    tier <- MCTiers
    alignedOffset <- MCOffsets
    enableGuardBytes = FALSE
    enableLeakTracking = FALSE
    callersDoubleFree = FALSE
INVARIANTS
    LegalCallsSucceed
    HeldExclusively
    NothingLeaks
    ActiveExact
PROPERTIES
    TierContract
