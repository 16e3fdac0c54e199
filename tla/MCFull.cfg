SPECIFICATION LiveSpec
CONSTANTS
    NumWorkers = 2
    Role <- TwoFull
    NumSegments = 4
    LeafArity = 1
    InternalArity = 2
    ProofType = "Evm"
    MaxLeafProvers = 2
    LeafPackThreshold = 3
    MaxRetries = 1
    Faults = {}
    FaultBudget = 0
INVARIANTS BooksMatchWork WorkExistsOnce WorkersNotOverloaded
PROPERTY Completes
CHECK_DEADLOCK FALSE
