SPECIFICATION FairSpec
CONSTANTS
    Bodies <- MCBodies
    MaxRetries = 2
    MaxHops = 1
CHECK_DEADLOCK FALSE
INVARIANTS
    EachTryFromTheStart
    AcceptedIsWhole
    TriesBounded
PROPERTIES
    CancelIsFinal
    SendReturns
