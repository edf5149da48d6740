SPECIFICATION Spec
CONSTANTS
    SizeModulus = 512
    OffsetModulus = 128
    kMaxRequest = 64
    kMaxAlignment = 64
    Sizes = {0, 1, 8, 15, 40, 64, 65}
    Alignments = {1, 16, 24, 32, 64, 128}
    Counts = {1, 3, 65}
    Addresses = {16, 32, 48, 64, 80, 96, 112, 128}
    Slack = {0, 15}
    Junk = {0, 16, 31, 33, 47, 100}
INVARIANTS
    LayoutSound
    HeadersIntact
    GuardsExact
