CONSTANTS
    g = g  m1 = m1  m2 = m2  m3 = m3  b3 = b3  c2 = c2  a1 = a1  a2 = a2  a3 = a3  e3 = e3
    t = t  u = u  v = v  w = w
    Block = {g, m1, m2, m3, b3, c2, a1, a2, a3, e3}
    Genesis = g
    null_hash = null_hash
    lineage <- Lineage
    cumulative_difficulty <- Difficulty
    Checkpoint = {}
    BadReward = {b3}
    Tx = {t, u, v, w}
    body <- Body
    key_images <- KeyImages
    ring <- Ring
    rules <- AnyRules
    fork_height = 2
    OperatorPops = FALSE
SPECIFICATION Spec
INVARIANTS
    MainChainValid
    RollbackRestores
    NothingMinedIsLost
    NoWorkLeftBehind
    NoNestedSwitch
PROPERTIES
    ImplementsBestChain
    SwitchEnds
