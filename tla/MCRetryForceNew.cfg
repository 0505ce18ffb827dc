CONSTANTS
    r0 = r0
    r1 = r1
    r2 = r2
    Ranks <- MCRanks
    Root = r0
    MaxInits = 2
    MaxSockets = 3
    MaxFaults = 2
SPECIFICATION Spec
PROPERTIES
    ForceNewReleases
