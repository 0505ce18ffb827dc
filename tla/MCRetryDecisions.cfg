SPECIFICATION Spec
CONSTANTS
    N = 2
    Tags <- MCTags
    Prog <- TwoCollectives
    PortStates <- OnePortUp
    Faults <- Sdma
    RetryMaxCnt = 1
    MaxRounds = 2
    MaxQueue = 1
    MaxFaults = 2
    MaxCmdFailures = 0
    PollTimeouts = FALSE
    MaxWaitTimeouts = 0
    MaxDevTimeouts = 1
    MaxSendFailures = 0
INVARIANTS
    PhaseBarrier
    QuietWhileRepairing
    SameOpRetried
    HostPortsAgree
    RetryCountBounded
CHECK_DEADLOCK FALSE
