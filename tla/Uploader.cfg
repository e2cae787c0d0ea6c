\* Streams of up to four chunks, three of which may be sent, and sized bodies.
CONSTANTS
    w1 = w1  w2 = w2
    Workers = {w1, w2}
    PartSize = 2
    MaxUploadParts = 3
    MaxChunks = 4
    Bodies <- AllBodies
CHECK_DEADLOCK FALSE
SPECIFICATION FairSpec
INVARIANTS
    ObjectIsBody
    QuietAtEnd
    BuffersReturned
    PartsWithinLimit
    KnownSizeFits
    NoPartsLeft
PROPERTIES
    AtomicSpec
    CallReturns
