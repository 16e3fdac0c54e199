SPECIFICATION Spec
CONSTANTS
    LeafArity = 2
    InternalArity = 2
    ProofType = "Evm"
    SegmentCounts = {1, 2, 3, 4, 5, 6, 7, 8, 9, 10, 11, 12}
INVARIANTS TypeOK EachSlotRequestedOnce RequestsAreBacked FinalProofCoversAll FinalFlagIsExact
PROPERTY BecomesReady
CHECK_DEADLOCK FALSE
