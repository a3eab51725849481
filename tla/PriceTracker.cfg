SPECIFICATION FairPriceSpec
CONSTANTS
    Symbols = {"SOL", "USDC", "XYZ"}
    ValidSymbols = {"SOL", "USDC"}
    NoSymbol = ""
    Callers = {1, 2}
    MaxPrice = 1
    MaxDeaths = 1
INVARIANTS CacheSound
PROPERTIES EventuallyCurrent
CHECK_DEADLOCK FALSE
