SPECIFICATION FairSpec
CONSTANTS
    g = g
    b1 = b1
    b2 = b2
    p1 = p1
    p2 = p2
    NoBlock = NoBlock
    NoPeer = NoPeer
    Genesis = g
    Block = {g, b1, b2}
    Peer = {p1, p2}
    Parent <- MCParent
    Ancestors <- MCAncestors
    Height <- MCHeight
    Outbound = {p1}
    Honest = {p1}
    Offer <- MCOffer
    MAX_BLOCKS_IN_TRANSIT_PER_PEER = 1
    BLOCK_DOWNLOAD_WINDOW = 1
    MIN_BLOCKS_TO_KEEP = 1
    CompactAhead = 1
INVARIANTS
    TypeOK
    CountersExact
    StallersOwe
    NotAskedTwice
    SlotsBounded
PROPERTIES
    NoTakeover
    Downloaded
CHECK_DEADLOCK FALSE
