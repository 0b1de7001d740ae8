SPECIFICATION Spec
CONSTANTS
    ROB_ENTRY_NUM = 2
    DP_NUM = 1
    RT_NUM = 2
    NoInst = NoInst
    NoTarget = NoTarget
    LSQ_ENTRY_NUM = 3
    Words = {0}
    LANES = 1
    Accesses <- OneWord
    Values = {a, b}
    Zero = 0
    MemTags = {1}
    Confirms = {"hit", "miss", "other", "wait"}
    Kinds = {"LOAD", "STORE", "OTHER"}
    MaxInFlight = 3
SYMMETRY Swaps
INVARIANTS
    QueueFollowsROB
    LoadsWaitForStores
    LoadsSeeProgramOrder
PROPERTIES
    RetiredStoresSurvive
