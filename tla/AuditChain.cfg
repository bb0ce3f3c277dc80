SPECIFICATION Spec
CONSTANTS
    t1 = t1
    t2 = t2
    NoTxn = NoTxn
    Txns <- TwoTxns
    Year = 1
    MaxSeq = 9
    MaxTime = 2
SYMMETRY Interchangeable
INVARIANTS
    TypeOK
    ChainVerifies
    GapsAreDetected
PROPERTIES
    KeepsPromise
