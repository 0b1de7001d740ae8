SPECIFICATION FairSpec
CONSTANTS
    THREAD_NUM = 2
    FIQ_NUM = 2
    DP_NUM = 2
    PC_NUM = 4
    Tags = {x, y}
    NoTag = NoTag
    Enabled = {0, 1}
    Targets = {1}
    Illegal = {3}
INVARIANT StreamInOrder
PROPERTY EveryThreadIsServed
