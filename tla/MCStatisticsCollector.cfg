SPECIFICATION Spec
CONSTANTS
    b1 = b1
    b2 = b2
    Threads = {t1, t2}
    Readers = {t1}
    Blocks = {b1, b2}
    requested <- MCRequested
    reserved <- MCReserved
    Modulus = 16
    MaxCalls = 2
    FirstSnapshot = 2
INVARIANTS
    LiveExact
    PeakCovers
    QuietSnapshotExact
PROPERTIES
    CallsEnd
CHECK_DEADLOCK FALSE
