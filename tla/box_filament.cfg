SPECIFICATION FairSpec
CONSTANTS
    s0 = s0
    s1 = s1
    Slots = {s0, s1}
    External = External
    NoSlot = NoSlot
    MaxEvents = 6
INVARIANT NothingLeftRunning
PROPERTIES
    CommandsReturn
    RightSlotNamed
CHECK_DEADLOCK FALSE
