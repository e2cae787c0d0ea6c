\* IAM alone: the retry of a request whose token was refused as expired.
CONSTANTS
    a = a  b = b
    Getters = {a}
    NoGetter = NoGetter
    MaxCauses = 20
    MaxTries <- Tries
    MaxTokens = 2
    Built = {}
    MayEnd = {}
    Chains = {{"iam"}}
CHECK_DEADLOCK FALSE
SPECIFICATION SignedSpec
INVARIANT RetryHasNewKeys
