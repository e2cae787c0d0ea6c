\* One request of two tries and one, built before, of a single try, with IAM in
\* front of static keys, and with a provider whose keys expire.
CONSTANTS
    a = a  b = b
    Getters = {a, b}
    NoGetter = NoGetter
    MaxCauses = 20
    MaxTries <- Tries
    MaxTokens = 2
    Built = {b}
    MayEnd = {b}
    Chains = {{"iam", "hmac"}, {"other"}}
\* The requests end.
CHECK_DEADLOCK FALSE
SPECIFICATION FairSignedSpec
INVARIANTS
    RetrievesJustified
    OwnCancelOnly
    ExpireForces
    SignerFits
PROPERTIES
    SendReturns
