SPECIFICATION FairSpec
CONSTANTS
    MaxReleases = 2
    MaxBoots = 3
    MaxCommands = 1
    MaxFaults = 1
    MaxPrints = 1
    MaxIncidents = 1
INVARIANTS
    PendingKept
PROPERTIES
    RebootNeeded
    RebootsIdle
    DisabledInstallsNothing
    UpdatesArrive
CHECK_DEADLOCK FALSE
