SPECIFICATION Spec
CONSTANTS
    N = 2
    Tags <- MCTags
    Prog <- OneCollective
    PortStates <- AllPorts
    Faults <- Sdma
    RetryMaxCnt = 2
    MaxRounds = 1
    MaxQueue = 1
    MaxFaults = 1
    MaxCmdFailures = 0
    PollTimeouts = FALSE
    MaxWaitTimeouts = 0
    MaxDevTimeouts = 0
    MaxSendFailures = 0
INVARIANTS
    DevicePortsFollow
CHECK_DEADLOCK FALSE
