SPECIFICATION Spec
CONSTANTS
    a = a
    b = b
    c = c
    k1 = k1
    k2 = k2
    k3 = k3
    Tx = {a, b, c}
    KeyImage = {k1, k2, k3}
    vin <- Inputs
    weight <- Weights
    fee_rate <- FeeRates
    ring_height <- RingHeights
    rules <- Rules
    fork_height = 1
    m_txpool_max_weight = 2
    RelayMethods = {"stem", "fluff"}
    Surprises = {"clashing_block"}
    MaxHeight = 2
    MaxTimedOut = 1
    Mining = TRUE
INVARIANT KeyImagesExact
