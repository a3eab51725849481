SPECIFICATION FairSpec
CONSTANTS
    MaxSlot = 3
    TxsPerSlot = 2
    MaxFaults = 3
INVARIANTS DatedWithinOneBlock ListenerLossBound
PROPERTIES StaysSubscribed
CHECK_DEADLOCK FALSE
