SPECIFICATION Spec
CONSTANTS
    Tokens <- ThreeTokens
    Inputs <- Wallets
    LatestSwaps <- Latest
    Rank <- Alphabetic
    Prices = {0, 2}
    Limit = 1
    PageSize = 1
    MaxInt64 <- Longest
    TooLarge <- Amd64
    MaxRows = 2
INVARIANTS HoldingsComplete
CHECK_DEADLOCK FALSE
