SPECIFICATION FairSpec
CONSTANTS
    t1 = t1
    t2 = t2
    t3 = t3
    Task = {t1, t2}
    NProc = 1
    NoTask = NoTask
    NoProc = NoProc
    InitialTasks <- TwoTasks
    MaxBalance = 1
    UserOps = {"sync"}
PROPERTIES
    PassEnds
