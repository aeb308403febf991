------------------------------ MODULE MCSockets ------------------------------
(* The functions of net_fd.cpp and the NetFD objects they are called with, *)
(* for TLC.  The state of what a behaviour is not about is at rest.        *)
EXTENDS SocketStream

CONSTANTS
    Uses,  \* what the behaviours are about, of the values of use
    Obj, Task, Number, Cell, None,
    MaxSocket

\* Descriptors are not negative; no task and no cell is None.
ASSUME ObjectsAssumption ==
    /\ Number \subseteq Nat /\ MaxSocket \in Nat
    /\ None \notin Task \union Cell

VARIABLES
    use,  \* what this behaviour is about
    alive, user, fd, is, owner, share, cell, open, created, kept, mixed, stale,
    hit

netfdVars == <<alive, user, fd, is, owner, share, cell, open, created, kept,
               mixed, stale, hit>>

F == INSTANCE SharedNetFD WITH Across <- {"assign"}

mcVars == <<use, vars, netfdVars>>

Write5 == {<<5>>, <<2, 3>>, <<1, 0, 4>>, <<2, 1, 2>>, <<3, 2, 0>>}
Read5 == {<<5>>, <<2, 3>>, <<1, 3, 1>>, <<5, 0>>}

Stores == {"st_write", "st_writev", "st_writev_resid"}

\* The first task has all NetFDs but one; which one is the same by symmetry.
OneForeign ==
    LET one == CHOOSE o \in Obj : TRUE
        t   == CHOOSE x \in Task : TRUE
    IN  [o \in Obj |-> IF o = one THEN CHOOSE x \in Task : x # t ELSE t]

\* "whole": the functions that go on until all is done; "atonce": inner_send
\* and inner_sendto with timeout 0; "send": inner_send without a timeout;
\* "fair": nothing stands in the way; "objects": NetFDs are created, copied and
\* destroyed.
MCInit ==
    /\ use \in Uses
    /\ Init /\ F!Init
    /\ CASE use = "whole" -> wop \in Stores
         [] use = "atonce" -> wop \notin Stores /\ {wtime, rtime} = {"zero"}
         [] use = "send" -> wop = "inner_send" /\ {wtime, rtime} = {"none"}
         [] OTHER -> /\ wop \in Stores /\ {wtime, rtime} = {"none"}
                     /\ rop = "st_readv_resid"
    /\ use = "objects" => pipe = <<>> /\ wop = "st_write" /\ riov = iov
    /\ user = OneForeign

Stream ==
    /\ Next
    /\ use # "objects" /\ (use = "fair" => ~broken')
    /\ UNCHANGED <<use, netfdVars>>

Objects == use = "objects" /\ F!Next /\ UNCHANGED <<use, vars>>

MCNext == Stream \/ Objects

\* Fairness: the calling tasks go on, what was sent earlier is read, and the
\* writer closes.
Fairness ==
    /\ WF_vars(use = "fair" /\ Writer) /\ WF_vars(use = "fair" /\ Reader)
    /\ WF_vars(use = "fair" /\ (ReadEarlier \/ CloseWriter))

MCSpec == MCInit /\ [][MCNext]_mcVars /\ Fairness

\* With no timeout, reset or error, a reader of the whole message ends the
\* writer's call, and its own, however the bytes are split over the calls.
CallsReturn == use = "fair" => BothReturn

\* inner_socket's comment (net_fd.cpp:245): the fd is really closed when all
\* NetFDs that share it have ended, not before, or one of them would use a number
\* that may already be another socket, and no later.  Only inner_close of a number
\* that was closed before hits another socket, and assigning (net_fd.cpp:36) gives
\* no socket away that another task waits with.
SharedFdLives ==
    F!TypeOK /\ F!StaysOpen /\ F!ClosedByLast /\ F!OwnedByUser
==============================================================================
