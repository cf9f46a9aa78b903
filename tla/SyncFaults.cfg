CONSTANTS
    pa = pa
    pb = pb
    NoConn = NoConn
    Conn = {pa, pb}
    Chain <- Forked
    Stripe <- OnePruned
    Bad = {"z3"}
    BadInputs = {"z3"}
    Income = {}
    Slow = {pb}
    Leaving = {pb}
    SpanBlocks = 2
    SpanLimit = 1
    IdsCount = 5
    MaxOut = 2
    SyncSearch = 2
    MaxCallbacks = 1
    StripeSize = 2
    LogStripes = 1
    TipBlocks = 1
SPECIFICATION Spec
CHECK_DEADLOCK FALSE
INVARIANTS
    IndexesFollowSpans
    HeightsAreRight
    NextNeededIsFirstGap
    OrphansAreOfInvalid
    AskedForKept
    NextUnprunedIsLeast
PROPERTIES
    DownloadsKept
