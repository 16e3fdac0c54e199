SPECIFICATION Spec
CONSTANTS
    Proofs = {p1}
    Started = {{p1}}
    Deferral = {p1}
    Capacity = 4
INVARIANT MergeFindsInput
CHECK_DEADLOCK FALSE
