SPECIFICATION Spec
CONSTANTS
    N = 2
    Tags <- MCTags
    Prog <- OneCollective
    PortStates <- PortsFine
    Faults <- AnyFault
    RetryMaxCnt = 2
    MaxRounds = 2
    MaxQueue = 1
    MaxFaults = 1
    MaxCmdFailures = 1
    PollTimeouts = TRUE
    MaxWaitTimeouts = 0
    MaxDevTimeouts = 0
    MaxSendFailures = 0
INVARIANTS
    TypeOK
    PhaseBarrier
    QuietWhileRepairing
    FramesReadAsSent
CHECK_DEADLOCK FALSE
