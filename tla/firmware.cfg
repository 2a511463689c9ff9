SPECIFICATION FairSpec
CONSTANTS
    Thr = thr
    thr = thr
    box1 = box1
    Boards = {thr, box1}
    Fleets <- BuildPairs
    Pages = 2
    Session = 3
    Exit = 1
    Startup = 3
    Slack = 1
    Hold = 6
    MaxEvents = 4
INVARIANTS
    DoneMeansWhole
    NothingMisplaced
    UnverifiedIsRecorded
    ServicesComeBack
PROPERTIES
    StartsOnWholeBoards
    OperationEnds
CHECK_DEADLOCK FALSE
