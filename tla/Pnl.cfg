SPECIFICATION FairSpec
CONSTANTS
    Tokens <- ThreeTokens
    Inputs <- Wallets
    LatestSwaps <- Latest
    Rank <- Alphabetic
    Prices = {0, 2}
    Limit = 2
    PageSize = 1
    MaxInt64 <- Longest
    TooLarge <- Amd64
    MaxRows = 3
INVARIANTS AnswerComplete FiguresTrue
PROPERTIES RequestEnds
CHECK_DEADLOCK FALSE
