SPECIFICATION Spec
CONSTANTS
    kSegmentSize = 192
    kBinCount = 3
    Bases = {0, 192}
    Requests = {30, 40, 90, 200}
INVARIANTS
    BinsExact
    BoundaryTags
    Coalesced
    FitComplete
    LiveServed
    ResidentBound
    FragmentationExact
PROPERTIES
    StoreSpec
