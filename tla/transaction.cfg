SPECIFICATION Spec
CONSTANTS
    o1 = o1
    sec1 = sec1
    inc = inc
    cfgA = cfgA
    cfgB = cfgB
    ConfigFiles = {cfgA, cfgB}
    TreeFiles = {t1}
    Sources = {s1, s2}
    Extras = {x1}
    StateFile = StateFile
    RestartMarker = RestartMarker
    Options = {o1}
    Sections = {sec1}
    IncludeLine = inc
    FileOf <- FilesOfItems
    Absent = Absent
    Retain = 2
    InitialPackages = {"stock"}
    MaxRuns = 3
    MaxFaults = 2
    MaxCrashes = 0
    MaxEdits = 0
    MaxRestarts = 1
    MaxPrints = 1
PROPERTY ImplementsTransaction
CHECK_DEADLOCK FALSE
