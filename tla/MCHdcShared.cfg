SPECIFICATION Spec
CONSTANTS
    w1 = w1
    w2 = w2
    r1 = r1
    r2 = r2
    Words <- TwoWords
    Readers <- TwoReaders
    Exclusive = FALSE
    MaxPuts = 2
    MaxFailures = 0
    MaxAborts = 0
INVARIANT GetIsSnapshot
CHECK_DEADLOCK FALSE
