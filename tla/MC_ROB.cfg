SPECIFICATION FairSpec
CONSTANTS
    ROB_ENTRY_NUM = 3
    DP_NUM = 2
    RT_NUM = 2
    CDB_NUM = 2
    a = a
    b = b
    there = there
    NoInst = NoInst
    NoTarget = NoTarget
    Inst <- MCInst
    Result <- MCResult
INVARIANTS
    TypeOK
    PointersAgree
    ValidIsWindow
PROPERTY
    CommitsInOrder
    HeadMoves
CHECK_DEADLOCK TRUE
