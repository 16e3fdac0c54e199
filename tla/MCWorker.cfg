SPECIFICATION Spec
CONSTANTS
    Proofs = {p1, p2}
    Started = {{p1}, {p2}}
    Deferral = {p1}
    Capacity = 3
INVARIANTS TypeOK InputsHeld AnsweredOnce FinalArtifactComplete
PROPERTIES Reclaimed RequestAnswered
CHECK_DEADLOCK FALSE
