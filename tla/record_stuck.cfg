SPECIFICATION Spec
CONSTANTS
    Thr = thr
    thr = thr
    box1 = box1
    Boards = {thr, box1}
    Fleets <- BuildPairs
    Pages = 2
    Session = 3
    Exit = 1
    Startup = 3
    Slack = 1
    Hold = 6
    MaxEvents = 4
INVARIANT RecordCanBeRescued
CHECK_DEADLOCK FALSE
