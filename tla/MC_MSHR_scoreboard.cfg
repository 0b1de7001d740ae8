SPECIFICATION Spec
CONSTANTS
    MSHR_ENTRY_NUM = 4
    SASS = 1
    Blocks = {a, b}
    NoBlock = NoBlock
    Lanes = {l}
    Values = {v0, v1}
    NoValue = NoValue
    Zero = v0
    NoData = NoData
INVARIANTS ScoreboardAgrees
SYMMETRY Swaps
VIEW View
