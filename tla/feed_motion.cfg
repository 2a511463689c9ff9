SPECIFICATION Spec
CONSTANTS
    Slots = {0, 1}
    Unset = Unset
    Choices <- Offered
    HandSaves <- SavedByHand
    LoadCalls <- TracedLoads
    UnloadCalls <- TracedUnloads
    RetractCalls <- Lengths
    MaxChanges = 2
    MaxEvents = 3
INVARIANTS
    FeasibleMotion
    ServedIsCurrent
PROPERTIES
    ChangesKeepRunning
