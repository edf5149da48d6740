SPECIFICATION Spec
CONSTANTS
    Objects = {o1, o2}
    Heaps = {h1, h2}
    Addresses = {a1, a2}
    Threads = {t1, t2}
    BlocksPerHeap = 2
    nullptr = nullptr
INVARIANTS
    CachesMatch
    NoUseAfterDestroy
    BlocksConserved
PROPERTIES
    Reclaimed
CHECK_DEADLOCK FALSE
