\* Messages of 5 bytes over a connection that holds 3; three NetFDs of two
\* tasks, two descriptors, two cells.
SPECIFICATION MCSpec
CONSTANTS
    Uses = {"whole", "atonce", "fair", "objects"}
    WriteOps = {"inner_send", "inner_sendto", "st_write", "st_writev", "st_writev_resid"}
    ReadOps = {"inner_recv", "inner_recvfrom", "st_readv", "st_readv_resid"}
    WriteLens <- Write5
    ReadLens <- Read5
    Cap = 3
    Timeouts = {"none", "zero", "some"}
    Resets = TRUE
    Obj = {x, y, z}
    Task = {t1, t2}
    Number = {3, 4}
    Cell = {c1, c2}
    None = None
    MaxSocket = 2
INVARIANTS
    StreamIntact
    ResultIsTrue
    SharedFdLives
PROPERTIES
    CallsReturn
CHECK_DEADLOCK FALSE
