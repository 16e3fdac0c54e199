SPECIFICATION Spec
CONSTANTS
    Urls = {"w0", "w1"}
    expected_num_workers = 2
    Claims <- AnyId
    RolesOf <- FullAndEvm
    Proofs = {p1}
    Calls = {c1}
    Starts = 1
    Contents = {"deferral"}
    ProofTypes = {Stark, Evm}
    Crashes = 0
    Rare = {}
INVARIANT KeptHasState
CHECK_DEADLOCK FALSE
