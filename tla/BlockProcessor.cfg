SPECIFICATION FairSpec
CONSTANTS
    w1 = w1
    w2 = w2
    k1 = k1
    k2 = k2
    NoTx = NoTx
    Block <- ThreeTxs
    TxWorkers = {w1, w2}
    Tokens = {k1, k2}
    MaxDeaths = 1
    MaxErrors = 1
INVARIANTS HandOverSafe TokenRowsTrue SuppliesBounded
PROPERTIES AckedOrReturned
CHECK_DEADLOCK FALSE
