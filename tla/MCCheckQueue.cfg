SPECIFICATION FairSpec
CONSTANTS
    c1 = c1
    c2 = c2
    c3 = c3
    c4 = c4
    Worker = {w1, w2}
    Master = m
    Check = {c1, c2, c3, c4}
    Valid <- OneInvalid
    nBatchSize = 2
INVARIANTS
    WaitTellsAll
    IdleBetweenBlocks
PROPERTY
    WaitReturns
