SPECIFICATION MCSpec
CONSTANTS
    Uses = {"sync", "own", "wait", "balancing"}
    t1 = t1
    t2 = t2
    t3 = t3
    Task = {t1, t2, t3}
    NProc = 2
    NoTask = NoTask
    NoProc = NoProc
    InitialTasks <- ThreeTasks
    MaxBalance = 2
    UserOps = {"go", "yield", "finish", "sync", "self", "own"}
INVARIANTS
    TypeOK
    Accounted
    NoMissedWakeup
    OnePlace
    RunExclusive
    NextInQueue
PROPERTIES
    ImplementsTaskSched
