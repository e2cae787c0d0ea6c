\* Two callers of all methods, every answer of IAM, which recovers some day.
CONSTANTS
    c1 = c1  c2 = c2  b1 = b1
    NoToken = NoToken
    Nobody = Nobody
    Callers = {c1, c2}
    Owners = {c2}
    Callbacks = {b1}
    TTLs = {0, 5}
    Advisory = 3
    Mandatory = 1
    MinimumDelta = 1
    MinimumWait = 1
    MaxRetries = 1
    MaxNow = 5
    InitMayFail = TRUE
SPECIFICATION RecoverySpec
INVARIANTS
    TokenWatched
    StopDisarms
PROPERTIES
    RefreshNeeded
    GetReturns
    TokenRenewed
CHECK_DEADLOCK FALSE
