\* Deletes of a slice and of a listing, and transfers. An operation ends.
CONSTANTS
    c1 = c1  c2 = c2
    MaxGiven = 4
    Classes = {c1, c2}
    BatchSizes = {0, 1, 2, 3}
    MaxKeys = 2
CHECK_DEADLOCK FALSE
SPECIFICATION Spec
INVARIANTS
    EachSentOnce
    BatchesFit
    FailuresReported
    AfterRunsOnce
    NilMeansAll
PROPERTIES
    Progress
