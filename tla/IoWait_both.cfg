\* epoll: two NetFDs that share an fd and a third; two Processers only where
\* tasks are stolen.  select: the same, and an fd that is too large.
SPECIFICATION MCSpec
CONSTANTS
    fd_a = fd_a
    fd_b = fd_b
    fd_c = fd_c
    fd_d = fd_d
    p1 = p1
    p2 = p2
    Proc = {p1, p2}
    NetFD = {fd_a, fd_b, fd_c}
    Fd = {1, 2}
    FdOf <- FdOfAll
    Uses <- ReadWrite
    SharedFd = {1}
    None = None
    Timeouts = {TRUE, FALSE}
    ListSize = 1
    RlimMax = 4
    SelectNetFD = {fd_a, fd_b, fd_c, fd_d}
    SelectFd = {1, 2, 3}
    SelectFdOf <- SelectFds
    SelectUses <- SelectReadWrite
    FdSetSize = 3
INVARIANTS
    InterestExact
    WaitersReached
    TimeoutIsReal
    SelectAnswers
PROPERTIES
    PollEnds
CHECK_DEADLOCK FALSE
