CONSTANTS
    pa = pa
    pb = pb
    NoConn = NoConn
    Conn = {pa, pb}
    Chain <- ShortChain
    Stripe <- Full
    Bad = {}
    BadInputs = {}
    Income = {}
    Slow = {}
    Leaving = {}
    SpanBlocks = 1
    SpanLimit = 1
    IdsCount = 4
    MaxOut = 4
    SyncSearch = 2
    MaxCallbacks = 1
    StripeSize = 2
    LogStripes = 1
    TipBlocks = 10
SPECIFICATION FairSpec
PROPERTIES
    DownloadedIsAdded
