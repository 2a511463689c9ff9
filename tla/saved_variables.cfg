SPECIFICATION FairSpec
CONSTANTS
    Speeds = {"speed1", "speed2"}
    Lengths = {}
    Tools = {"t0"}
    Order <- DictionaryOrder
    InitialValues <- FreshOrEarlier
    MaxEvents = 3
INVARIANT LossesStopUpdates
PROPERTIES
    OperatorValuesKept
    ToolsMapped
CHECK_DEADLOCK FALSE
