SPECIFICATION Spec
CONSTANTS
    Urls = {"w0", "w1"}
    expected_num_workers = 2
    Claims <- AnyId
    RolesOf <- FullAndEvm
    Proofs = {p1, p2}
    Calls = {c1, c2}
    Starts = 2
    Contents = {"deferral"}
    ProofTypes = {Stark, Evm}
    Crashes = 1
    Rare = {"longTimeout"}
SYMMETRY Symmetry
INVARIANTS TypeOK ShardsCovered OneActiveProof SlotHasOwner CompletedIsDownloadable
CHECK_DEADLOCK FALSE
