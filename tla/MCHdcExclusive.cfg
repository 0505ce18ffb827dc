SPECIFICATION FairSpec
CONSTANTS
    w1 = w1
    w2 = w2
    r1 = r1
    r2 = r2
    Words <- TwoWords
    Readers <- TwoReaders
    Exclusive = TRUE
    MaxPuts = 2
    MaxFailures = 1
    MaxAborts = 1
INVARIANT TypeOK
INVARIANT UpdatedGetIsSnapshot
PROPERTY GetReturns
CHECK_DEADLOCK FALSE
