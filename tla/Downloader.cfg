\* Two workers; the body of each chunk may break off twice.
CONSTANTS
    w1 = w1  w2 = w2
    Workers = {w1, w2}
    Caller = Caller
    PartSize = 2
    partBodyMaxRetries = 1
    Sizes = {0, 1, 2, 5, 11}
CHECK_DEADLOCK FALSE
SPECIFICATION FairSpec
INVARIANTS
    WholeObject
    CountedIsWritten
    QuietAtEnd
    EndIsNoError
PROPERTIES
    CallReturns
