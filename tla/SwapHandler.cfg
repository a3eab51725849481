SPECIFICATION SwapSpec
CONSTANTS
    Inputs <- Transactions
    QuoteTokens <- Quotes
    IgnoreTokens <- Staking
    IgnoreToUsers <- Bots
    FeeAccount <- Fee
    Rounded <- ToFloat
    Written <- OneDigit
    MaxCalls = 3
INVARIANTS TradesRecorded MovementsRecorded RoundingHarmless RowsLostToTwins
PROPERTIES InsertIdempotent
