\* Free use and the producer and consumers of the test on three coroutines,
\* use with timeouts on two of them.
SPECIFICATION MCSpec
CONSTANTS
    Task = {a1, b1, b2}
    Producer = {a1}
    TimedUsers = {a1, b1}
    Proc = {p1, p2}
    NoTask = NoTask
    Timed = {TRUE, FALSE}
    MaxQueue = 3
    MaxNum = 0
INVARIANTS
    HoldsMutexUntimed
    WaitersQueued
    DequeInBounds
PROPERTIES
    ProgramConsumes
CHECK_DEADLOCK FALSE
