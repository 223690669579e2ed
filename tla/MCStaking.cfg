SPECIFICATION Spec
CONSTANTS
    g = g
    a1 = a1
    a2 = a2
    b1 = b1
    b2 = b2
    b3 = b3
    k = k
    u = u
    x = x
    None = None
    Genesis = g
    Block <- MCBlock
    Parent <- MCParent
    Ancestors <- MCAncestors
    Height <- MCHeight
    Time <- MCTime
    Invalid = {b3}
    Own = {o1, o2}
    Coin = {k, u}
    CoinTime <- MCCoinTime
    Creates <- MCCreates
    Sends <- MCSends
    Combined <- MCCombined
    Meets <- MCMeets
    Loose = {x}
    LooseTime <- MCLooseTime
    nCoinbaseMaturity = 1
    nDonationPercentage = 20
    fStakeCache = TRUE
    CacheSlack = 0
    Mask = 2
    FutureDrift = 1
    MaxTime = 4
INVARIANTS
    HeaderIsBest
    
    OneBlockPerParent
