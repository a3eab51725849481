SPECIFICATION Spec
CONSTANTS
    Payload <- MCPayload
    LogLine <- MCLogLine
    Blocks <- MCBlocks
    Owner <- MCOwner
    Payer <- MCPayer
    MintOf <- MCMintOf
    DecimalsOf <- MCDecimalsOf
INVARIANTS OnlyTheseStop DeliveredIntact ResultTrue AttributionKnown LogsTrue
