\* Three timers and a sleeper; another thread adds and stops timers; fair.
SPECIFICATION FairSpec
CONSTANTS
    Timer = {t1, t2, t3}
    Sleeper = {s1}
    Foreign = {f1}
    Self = Self
    End = End
    Duration = {0, 1, 2}
    MinWait = 1
    MaxTime = 2
INVARIANTS
    IteratorsValid
    NothingForgotten
PROPERTIES
    
    EveryTimerFires
CHECK_DEADLOCK FALSE
