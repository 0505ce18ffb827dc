SPECIFICATION FairSpec
CONSTANTS
    N = 2
    Tags <- MCTags
    Prog <- OneCollective
    PortStates <- PortsFine
    Faults <- Sdma
    RetryMaxCnt = 2
    MaxRounds = 1
    MaxQueue = 1
    MaxFaults = 1
    MaxCmdFailures = 0
    PollTimeouts = TRUE
    MaxWaitTimeouts = 0
    MaxDevTimeouts = 0
    MaxSendFailures = 0
PROPERTIES
    RoundEnds
    MembersReleased
    EarlyFailReachesAll
CHECK_DEADLOCK FALSE
