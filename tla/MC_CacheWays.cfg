SPECIFICATION Spec
CONSTANTS
    SASS = 3
    Blocks = {a, b, c, d}
    NoBlock = NoBlock
    Data = {v0, v1}
    NoData = NoData
INVARIANTS OneVictim
PROPERTIES ImplementsSet
SYMMETRY Swaps
