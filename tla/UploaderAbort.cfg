\* The abort of an upload that was cancelled.
CONSTANTS
    w1 = w1  w2 = w2
    Workers = {w1, w2}
    PartSize = 2
    MaxUploadParts = 2
    MaxChunks = 2
    Bodies <- AllBodies
CHECK_DEADLOCK FALSE
SPECIFICATION Spec
INVARIANTS
    FailAborts
