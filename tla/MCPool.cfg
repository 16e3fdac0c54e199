SPECIFICATION Spec
CONSTANTS
    NumThreads = 2
    NumTasks = 2
    NumParallel = 1
    Programs = {p1, p2}
    MayShutdown = TRUE
INVARIANTS TypeOK NoLostWakeup CoordinatorNotBehindConsumer JobInOnePlace
PROPERTY EveryJobAnswered
CHECK_DEADLOCK FALSE
