SPECIFICATION UnstruckSpec
CONSTANTS
    RS_ENTRY_NUM = 2
    DP_NUM = 2
    IS_NUM = 2
    CDB_NUM = 2
    RSThreads = {t1, t2}
    Tags = {x1, x2}
    NoTag = zero
    UnitClasses = {u1}
    NoUnit = none
    Nobody = nobody
    Operands = 2
SYMMETRY Swaps
INVARIANTS
    CountersCount
    WaitsForItsProducer
    ReadsItsProducer
    NeverAllWaiting

VIEW View
CONSTRAINT FewStrays
