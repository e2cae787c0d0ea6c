\* The second look of retrieveInit, with tokens that may be short-lived.
CONSTANTS
    c1 = c1  c2 = c2  b1 = b1
    NoToken = NoToken
    Nobody = Nobody
    Callers = {c1, c2}
    Owners = {c2}
    Callbacks = {b1}
    TTLs = {2, 6}
    Advisory = 3
    Mandatory = 1
    MinimumDelta = 1
    MinimumWait = 1
    MaxRetries = 0
    MaxNow = 8
    InitMayFail = FALSE
SPECIFICATION Spec
INVARIANTS
    TokenOrError
CHECK_DEADLOCK FALSE
