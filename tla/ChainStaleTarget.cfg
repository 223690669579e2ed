SPECIFICATION Spec
CONSTANTS
    g = g
    a1 = a1
    a2 = a2
    b1 = b1
    b2 = b2
    b3 = b3
    t1 = t1
    t2 = t2
    NoBlock = NoBlock
    Genesis = g
    Block = {g, b1, b2, b3}
    Thread = {t1, t2}
    Parent <- TwoBranches
    Ancestors <- MCAncestors
    Height <- MCHeight
    ChainWork <- MCHeight
    Address <- MCAddress
    Class <- AllGood
    MIN_BLOCKS_TO_KEEP = 1
    Rpc = FALSE
    MayAbort = FALSE
INVARIANTS
    BestChainActive
