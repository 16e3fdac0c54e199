SPECIFICATION Spec
CONSTANTS
    NumWorkers = 2
    Role <- TwoFull
    NumSegments = 2
    LeafArity = 1
    InternalArity = 2
    ProofType = "Stark"
    MaxLeafProvers = 1
    LeafPackThreshold = 2
    MaxRetries = 1
    Faults = {"lost", "timeout", "cancel", "send"}
    FaultBudget = 2
INVARIANT DrainedMeansIdle
PROPERTIES TerminalIsFinal SlotEventuallyFreed
CHECK_DEADLOCK FALSE
