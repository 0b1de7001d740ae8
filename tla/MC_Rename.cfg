SPECIFICATION Spec
CONSTANTS
    THREAD_NUM = 2
    ARCH_REG_NUM = 3
    PHY_REG_NUM = 7
    ROB_ENTRY_NUM = 2
    DP_NUM = 2
    RT_NUM = 2
    CDB_NUM = 1
    Decoded <- MCDecoded
    NoInst <- NoRename
    NoTarget = 0
VIEW View
CONSTRAINT InBounds
INVARIANTS
    TagsConserved
    InFlightMatchesROB
    AvailCounts
    MapsYoungestWriter
    ReadyIffProduced
    FreesThePrevious
    OperandsMissNoBroadcast
