SPECIFICATION FairSpec
CONSTANTS
    MaxBlock = 7
    Unavailable <- Skipped
    Undecodable <- Garbled
    MaxAttempts = 3
    MaxFaults = 2
INVARIANTS RangesAreGaps WorkIsMissing LossBound
PROPERTIES Filled
