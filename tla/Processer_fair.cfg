SPECIFICATION MCFairSpec
CONSTANTS
    Uses = {"all"}
    t1 = t1
    t2 = t2
    t3 = t3
    Task = {t1, t2, t3}
    NProc = 2
    NoTask = NoTask
    NoProc = NoProc
    InitialTasks <- ThreeTasks
    MaxBalance = 2
    UserOps = {"yield", "finish", "own"}
PROPERTIES
    ReadyTasksRun
