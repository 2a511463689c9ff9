SPECIFICATION FairSpec
CONSTANTS
    MaxReleases = 2
    MaxBoots = 2
    MaxCommands = 1
    MaxFaults = 0
    MaxPrints = 0
    MaxIncidents = 0
PROPERTY EveryReleaseArrives
CHECK_DEADLOCK FALSE
