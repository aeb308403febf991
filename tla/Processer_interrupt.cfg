SPECIFICATION Spec
CONSTANTS
    t1 = t1
    t2 = t2
    t3 = t3
    Task = {t1, t2, t3}
    NProc = 2
    NoTask = NoTask
    NoProc = NoProc
    InitialTasks <- ThreeTasks
    MaxBalance = 1
    UserOps = {"finish", "sync"}
INVARIANTS
    InterruptTargetExists
