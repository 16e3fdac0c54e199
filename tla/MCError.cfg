SPECIFICATION Spec
CONSTANTS
    NumWorkers = 3
    Role <- TwoStarkOneEvm
    NumSegments = 1
    LeafArity = 1
    InternalArity = 2
    ProofType = "Evm"
    MaxLeafProvers = 2
    LeafPackThreshold = 2
    MaxRetries = 2
    Faults = {"error", "ack", "send", "persist"}
    FaultBudget = 2
INVARIANTS TypeOK TreeNeedsSegments CompletedCoversAll
CHECK_DEADLOCK FALSE
