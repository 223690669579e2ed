SPECIFICATION Spec
CONSTANTS
    Txids = {t1, t2}
    Coins = {c1, c2}
    Pruned = Pruned
    Blocks = {h1, h2}
    NoHash = NoHash
    NoEntry = NoEntry
INVARIANTS
    FreshIsTrue
    CleanIsEqual

    
