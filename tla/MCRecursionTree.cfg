SPECIFICATION Spec
CONSTANTS
    Arities = {2, 3, 4, 5}
    MaxLeaves = 30
INVARIANTS FoldIsGeometric SlotsAndSegmentsAgree
CHECK_DEADLOCK FALSE
