SPECIFICATION FairSpec
CONSTANTS
    MaxProvers = 3
    MaxAppProvers = 2
    MaxSegments = 6
    FaultBudget = 2
INVARIANTS TypeOK SnapshotsFit SegmentInOnePlace
PROPERTIES ImplementsShard JobEnds
CHECK_DEADLOCK FALSE
