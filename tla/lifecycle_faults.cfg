SPECIFICATION Spec
CONSTANTS
    o1 = o1
    sec1 = sec1
    inc = inc
    cfgA = cfgA
    cfgB = cfgB
    ConfigFiles = {cfgA, cfgB}
    TreeFiles = {t1}
    Sources = {s1}
    Extras = {x1}
    StateFile = StateFile
    RestartMarker = RestartMarker
    Options = {o1}
    Sections = {sec1}
    IncludeLine = inc
    FileOf <- FilesOfItems
    Absent = Absent
    Retain = 2
    InitialPackages = {"stock"}
    MaxRuns = 3
    MaxFaults = 2
    MaxCrashes = 0
    MaxEdits = 1
    MaxRestarts = 0
    MaxPrints = 0
INVARIANTS
    TypeOK
    RollbackInv
    WholePackage
    SentinelRecovers
    WritesAreArchived
PROPERTIES
    RollbackRestores
    UserValuesKept
CHECK_DEADLOCK FALSE
