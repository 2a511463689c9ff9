SPECIFICATION FairSpec
CONSTANTS
    o1 = o1
    sec1 = sec1
    inc = inc
    cfgA = cfgA
    cfgB = cfgB
    ConfigFiles = {cfgA, cfgB}
    TreeFiles = {t1}
    Sources = {s1}
    Extras = {x1}
    StateFile = StateFile
    RestartMarker = RestartMarker
    Options = {o1}
    Sections = {sec1}
    IncludeLine = inc
    FileOf <- FilesOfItems
    Absent = Absent
    Retain = 2
    InitialPackages = {"stock", "legacy"}
    MaxRuns = 3
    MaxFaults = 1
    MaxCrashes = 1
    MaxEdits = 0
    MaxRestarts = 0
    MaxPrints = 1
INVARIANT ActivationNeverLost
PROPERTIES
    InstallRepairs
    CommandsEnd
CHECK_DEADLOCK FALSE
