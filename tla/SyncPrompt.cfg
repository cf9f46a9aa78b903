CONSTANTS
    pa = pa
    pb = pb
    NoConn = NoConn
    Conn = {pa, pb}
    Chain <- SameChain
    Stripe <- Full
    Bad = {}
    BadInputs = {}
    Income = {pa}
    Slow = {}
    Leaving = {}
    SpanBlocks = 1
    SpanLimit = 1
    IdsCount = 4
    MaxOut = 1
    SyncSearch = 2
    MaxCallbacks = 1
    StripeSize = 2
    LogStripes = 1
    TipBlocks = 10
SPECIFICATION QuietSpec
INVARIANTS
    BackToDownload
PROPERTIES
    PromptPeersKept
    SyncCompletes
    Synchronized
