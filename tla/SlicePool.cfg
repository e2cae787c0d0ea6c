\* Two uploads share the pool, or one of them has it to itself; any context may
\* be cancelled at any time.
CONSTANTS
    u1 = u1  u2 = u2  g1 = g1  g2 = g2  p1 = p1  p2 = p2
    NoOwner = NoOwner
    Owners = {u1, u2}
    Getters = {g1, g2}
    Putters = {p1, p2}
    OwnerOf <- UploadOf
    Cap <- CapOf
    Cancellable = {g1, g2}
SPECIFICATION UploadsSpec
INVARIANTS
    CapacityKept
    ChannelsFit
    CapacityReturned
PROPERTIES
    BoundedPoolSpec
    CapacityModified
    SlicesNotified
