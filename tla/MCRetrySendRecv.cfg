SPECIFICATION Spec
CONSTANTS
    N = 3
    Tags <- MCTags
    Prog <- SendAndCollective
    PortStates <- PortsFine
    Faults <- Sdma
    RetryMaxCnt = 2
    MaxRounds = 1
    MaxQueue = 1
    MaxFaults = 2
    MaxCmdFailures = 0
    PollTimeouts = FALSE
    MaxWaitTimeouts = 1
    MaxDevTimeouts = 0
    MaxSendFailures = 1
INVARIANTS
    PhaseBarrier
PROPERTIES
    ReportedErrorsKept
CHECK_DEADLOCK FALSE
