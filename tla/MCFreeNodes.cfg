SPECIFICATION Spec
CONSTANTS
    Blocks = {n1, n2, n3}
    Bins = {i1, i2}
    nullptr = nullptr
    junk = junk
INVARIANTS
    LinksAgree
PROPERTIES
    ListSpec
