SPECIFICATION Spec
CONSTANTS
    g = g
    b1 = b1
    b2 = b2
    Mixed = Mixed
    Genesis = g
    Block = {g, b1, b2}
    Parent <- MCParent
    Ancestors <- MCAncestors
    Height <- MCHeight
    MaxFile = 1
    MIN_BLOCKS_TO_KEEP = 1
    Prune = TRUE
    Reorg = TRUE
    FailAt = {"block", "space"}
    PowerLoss = TRUE
INVARIANTS
    TypeOK
    RestartFindsTip
