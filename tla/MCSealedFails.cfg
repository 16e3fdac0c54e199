SPECIFICATION Spec
CONSTANTS
    NumWorkers = 1
    Role <- OneFull
    NumSegments = 1
    LeafArity = 1
    InternalArity = 2
    ProofType = "Stark"
    MaxLeafProvers = 2
    LeafPackThreshold = 2
    MaxRetries = 1
    Faults = {"ack"}
    FaultBudget = 1
PROPERTY SealedNeverFails
CHECK_DEADLOCK FALSE
