SPECIFICATION Spec
CONSTANTS
    ROB_ENTRY_NUM = 3
    DP_NUM = 1
    RT_NUM = 1
    NoInst = NoInst
    NoTarget = NoTarget
    LSQ_ENTRY_NUM = 3
    Words = {0}
    LANES = 2
    Accesses <- TwoSizes
    Values = {1, 2}
    Zero = 0
    MemTags = {1}
    Confirms = {"hit", "miss"}
    MaxInFlight = 6
    Kinds = {"LOAD", "STORE"}
INVARIANTS
    ForwardsItsOwn
