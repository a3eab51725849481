SPECIFICATION FairSpec
CONSTANTS
    c1 = c1
    c2 = c2
    t1 = t1
    u = u
    v = v
    NoConn = NoConn
    NoTx = NoTx
    Conns = {c1, c2}
    Asks <- TwoAsks
    Txs = {t1}
    Trades <- TradesOf
    Launches = {t1}
    MaxDeaths = 1
INVARIANTS ServiceAgrees RoundsExact
PROPERTIES OnlyStallsBlock GoneAreForgotten
CHECK_DEADLOCK FALSE
