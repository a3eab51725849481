SPECIFICATION FairSpec
CONSTANTS
    t1 = t1
    t2 = t2
    p1 = p1
    a1 = a1
    a2 = a2
    w1 = w1
    w2 = w2
    v1 = v1
    r1 = r1
    g1 = g1
    Nothing = Nothing
    Tokens = {t1, t2}
    Pairs = {p1, p2}
    p2 = p2
    Adders = {a1, a2}
    TokenWorkers = {w1, w2}
    PairWorkers = {v1}
    Requests = {}
    Writers = {}
    Txs = {}
    Capacity = 1
    MaxRuns = 0
    MaxFaults = 1
INVARIANTS QueuesInOrder
PROPERTIES Released
