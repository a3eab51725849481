SPECIFICATION Spec
CONSTANTS
    t1 = t1
    t2 = t2
    p1 = p1
    a1 = a1
    a2 = a2
    w1 = w1
    w2 = w2
    v1 = v1
    r1 = r1
    g1 = g1
    Nothing = Nothing
    p2 = p2
    Tokens = {t1}
    Pairs = {}
    Adders = {a1}
    TokenWorkers = {w1, w2}
    PairWorkers = {}
    Requests = {r1}
    Writers = {g1}
    Txs <- Creations
    Capacity = 1
    MaxRuns = 3
    MaxFaults = 1
SYMMETRY FinderSymmetry
INVARIANTS SeedBound
PROPERTIES NamesKept
