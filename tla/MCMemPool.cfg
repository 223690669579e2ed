SPECIFICATION Spec
CONSTANTS
    g = g
    a1 = a1
    a2 = a2
    b1 = b1
    b2 = b2
    b3 = b3
    z = z
    cg = cg
    sa1 = sa1
    t1 = t1
    t2 = t2
    t3 = t3
    x = x
    w = w
    s = s
    NoTx = NoTx
    Genesis = g
    Tx <- MCTx
    CoinBase <- MCCoinBase
    CoinStake <- MCCoinStake
    Outs <- MCOuts
    Spends <- MCSpends
    Size <- MCSize
    Fee <- MCFee
    Lock <- MCLock
    Block <- MCBlock
    Parent <- MCParent
    Height <- MCHeight
    Chain <- MCChain
    Vtx <- MCVtx
    nCoinbaseMaturity = 2
    limitAncestorCount = 4
    limitDescendantCount = 4
    limitAncestorSize = 5
    limitDescendantSize = 5
    sizelimit = 4
    Prioritised = {t1, t2, x}
    Delta <- MCDelta
    MaxCalls = 2
INVARIANTS
    TypeOK
    LinksExact
    TotalsExact
    
    
