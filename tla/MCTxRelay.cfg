SPECIFICATION RelaySpec
CONSTANTS
    g = g
    a1 = a1
    z = z
    t1 = t1
    t2 = t2
    t3 = t3
    t4 = t4
    x = x
    p1 = p1
    p2 = p2
    NoTx = NoTx
    NoPeer = NoPeer
    Genesis = g
    Tx <- MCTx
    CoinBase = {}
    CoinStake = {}
    Outs <- MCOuts
    Spends <- MCSpends
    Size <- MCSize
    Fee <- MCFee
    Lock <- MCLock
    Block <- MCBlock
    Parent <- MCParent
    Height <- MCHeight
    Chain <- MCChain
    Vtx <- MCVtx
    nCoinbaseMaturity = 1
    limitAncestorCount = 3
    limitDescendantCount = 3
    limitAncestorSize = 3
    limitDescendantSize = 3
    sizelimit = 3
    Prioritised = {}
    Delta = {}
    MaxCalls = 0
    Peer = {p1, p2}
    Relayed = {t1, t2, t3, t4}
    Bad = {t4}
    nMaxOrphanTx = 2
SYMMETRY Symmetry
INVARIANTS
    OrphanIndexExact
    OrphansOfNodes
    OrphansBounded
PROPERTIES
    OrphansResolved
