SPECIFICATION IssueSpec
CONSTANTS
    C_SIZE = 3
    C_IN_NUM = 2
    C_OUT_NUM = 2
    Threads <- MCThreads
    Inst <- MCInst
    NoInst <- MCNoInst
    BC_IN_NUM = 4
    C_CDB_NUM = 1
    THREAD_NUM = 2
INVARIANTS
    ValidIsInside
    WaitIsBounded
PROPERTY
    ImplementsFIFO
    OldestLeaves
