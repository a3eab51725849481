SPECIFICATION FairSpec
CONSTANTS
    m1 = m1
    m2 = m2
    m3 = m3
    m4 = m4
    w1 = w1
    w2 = w2
    w3 = w3
    w4 = w4
    NoMsg = NoMsg
    Msgs <- AllMsgs
    Malformed <- OneBad
    NoSwaps = {}
    Poison <- OnePoison
    Workers <- Pool
    Prefetch = 2
    MaxRetries = 2
    MaxPublished = 3
    MaxFaults = 1
INVARIANTS AckedAreStored Accounted PoolSafe
PROPERTIES ImplementsLedger HandledOrAbandoned ConsumerRecovers
CHECK_DEADLOCK FALSE
