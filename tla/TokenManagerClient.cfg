\* One caller, and a client that makes one retry.
CONSTANTS
    c1 = c1  c2 = c2  b1 = b1
    NoToken = NoToken
    Nobody = Nobody
    Callers = {c1}
    Owners = {c1}
    Callbacks = {b1}
    TTLs = {5}
    Advisory = 3
    Mandatory = 1
    MinimumDelta = 1
    MinimumWait = 1
    MaxRetries = 1
    MaxNow = 5
    InitMayFail = FALSE
SPECIFICATION Spec
PROPERTIES
    InitMeansRefused
CHECK_DEADLOCK FALSE
