---------------------------- MODULE SharedNetFD -----------------------------
(***************************************************************************)
(* The NetFD objects of net_fd.cpp: created by inner_socket, copied and    *)
(* assigned between tasks, destroyed, closed.  A shared NetFD has a        *)
(* shared_ptr to a cell with the fd, and the last one to go closes it; for *)
(* others inner_close does.  The kernel gives a closed number away again,  *)
(* so each socket also has an identity: is, mixed, hit and stale only      *)
(* record what happens to it.  Release build: assert(0) does nothing.      *)
(***************************************************************************)
EXTENDS Integers, FiniteSetsExt

CONSTANTS
    Obj, Task,
    Number,    \* file descriptor numbers
    Cell,      \* what share_fd points to
    None,
    Across,    \* how a NetFD that another task waits with is copied, a set of
               \* "copy" and "assign"
    MaxSocket  \* bound on the sockets created

VARIABLES
    alive,   \* the objects that exist
    user,    \* the task of each object
    fd,      \* osfd.fd
    is,      \* the socket that fd stood for when it was set, or 0
    owner,   \* owner_task
    share,   \* share_fd
    cell,    \* the fd in each cell, and its socket
    open,    \* the socket behind each number, 0: closed
    created, \* sockets so far
    kept,    \* the sockets created as shared
    mixed,   \* the shared objects whose fd did not come with their cell
    stale,   \* inner_close was called with a number closed before
    hit      \* the sockets closed by a close that was meant for another

objVars == <<user, created, kept>>
vars == <<alive, fd, is, owner, share, cell, open, mixed, stale, hit, objVars>>

Nothing == [num |-> -1, sock |-> 0]

Init ==
    /\ alive = {} /\ kept = {} /\ created = 0
    /\ mixed = {} /\ stale = FALSE /\ hit = {}
    /\ user \in [Obj -> Task]
    /\ fd = [o \in Obj |-> -1] /\ is = [o \in Obj |-> 0]
    /\ owner = [o \in Obj |-> None] /\ share = owner
    /\ cell = [c \in Cell |-> Nothing]
    /\ open = [n \in Number |-> 0]

Holders(s, A, c) == {o \in A : s[o] = c}  \* use_count

\* The objects A with pointers s are what remains: close_share_fd runs for each
\* cell that has lost its last one.
Release(s, A) ==
    LET gone == {c \in Cell : /\ Holders(share, alive, c) # {}
                              /\ Holders(s, A, c) = {} /\ cell[c].num # -1}
        others == {c \in gone : open[cell[c].num] # cell[c].sock}
    IN  /\ open' = [n \in Number |->
                       IF \E c \in gone : cell[c].num = n THEN 0 ELSE open[n]]
        /\ hit' = hit \union ({open[cell[c].num] : c \in others} \ {0})
        /\ cell' = [c \in Cell |-> IF c \in gone THEN Nothing ELSE cell[c]]

FreeCells == {c \in Cell : Holders(share, alive, c) = {}}

-----------------------------------------------------------------------------
Created(o, n, shared) ==
    /\ alive' = alive \union {o}
    /\ created' = created + 1
    /\ open' = [open EXCEPT ![n] = created']
    /\ fd' = [fd EXCEPT ![o] = n] /\ is' = [is EXCEPT ![o] = created']
    /\ owner' = [owner EXCEPT ![o] = None]
    /\ kept' = IF shared THEN kept \union {created'} ELSE kept

\* inner_socket, inner_accept: the lowest free number.  If set_no_blocking fails
\* a shared NetFD stays as it is, since inner_close leaves it alone.
Socket(o, shared) ==
    /\ o \notin alive /\ created < MaxSocket
    /\ \E n \in Number :
           /\ open[n] = 0 /\ \A m \in Number : open[m] = 0 => n <= m
           /\ Created(o, n, shared)
           /\ IF shared
              THEN \E c \in FreeCells :
                       /\ share' = [share EXCEPT ![o] = c]
                       /\ cell' = [cell EXCEPT ![c] =
                                      [num |-> n, sock |-> created']]
              ELSE share' = [share EXCEPT ![o] = None] /\ UNCHANGED cell
    /\ UNCHANGED <<user, mixed, stale, hit>>

\* socket fails, or set_no_blocking does for one that is not shared, or a NetFD
\* is only declared.
SocketFails(o, shared) ==
    /\ o \notin alive
    /\ alive' = alive \union {o}
    /\ fd' = [fd EXCEPT ![o] = -1] /\ is' = [is EXCEPT ![o] = 0]
    /\ owner' = [owner EXCEPT ![o] = None]
    /\ \E c \in IF shared THEN FreeCells ELSE {None} :
           share' = [share EXCEPT ![o] = c]
    /\ UNCHANGED <<objVars, cell, open, mixed, stale, hit>>

InUse(o, r) == owner[r] \notin {None, user[o]}  \* by another task

Takes(o, r) ==  \* osfd and owner_task
    /\ fd' = [fd EXCEPT ![o] = fd[r]] /\ is' = [is EXCEPT ![o] = is[r]]
    /\ owner' = [owner EXCEPT ![o] = IF share[r] = None THEN owner[r] ELSE None]

TakesShare(o, r) ==
    /\ share' = [share EXCEPT ![o] = share[r]]
    /\ mixed' = IF r \in mixed THEN mixed \union {o} ELSE mixed \ {o}

\* The copy constructor: it refuses nothing, since only assert(0) ends it.
Copy(o, r) ==
    /\ o \notin alive /\ r \in alive
    /\ InUse(o, r) /\ share[r] = None => "copy" \in Across
    /\ alive' = alive \union {o}
    /\ Takes(o, r) /\ TakesShare(o, r)
    /\ UNCHANGED <<objVars, cell, open, stale, hit>>

\* operator= from a shared NetFD: the pointer is assigned, or made.
AssignShared(o, r) ==
    /\ o \in alive /\ r \in alive /\ o # r /\ owner[o] = None
    /\ share[r] # None
    /\ Takes(o, r) /\ TakesShare(o, r) /\ Release(share', alive)
    /\ UNCHANGED <<alive, stale, objVars>>

\* operator= from another NetFD: a shared variable keeps its pointer, and with
\* it the socket it had.
Assign(o, r) ==
    /\ o \in alive /\ r \in alive /\ o # r /\ owner[o] = None
    /\ share[r] = None
    /\ IF InUse(o, r)
       THEN /\ "assign" \in Across
            /\ fd' = [fd EXCEPT ![o] = -1] /\ is' = [is EXCEPT ![o] = 0]
            /\ UNCHANGED owner
       ELSE Takes(o, r)
    /\ mixed' = IF share[o] = None THEN mixed ELSE mixed \union {o}
    /\ UNCHANGED <<alive, share, cell, open, stale, hit, objVars>>

Destroy(o) ==
    /\ o \in alive /\ owner[o] = None
    /\ alive' = alive \ {o} /\ mixed' = mixed \ {o}
    /\ fd' = [fd EXCEPT ![o] = -1] /\ is' = [is EXCEPT ![o] = 0]
    /\ share' = [share EXCEPT ![o] = None]
    /\ Release(share', alive')
    /\ UNCHANGED <<owner, stale, objVars>>

\* close(fd), whatever socket the number stands for by now.
CloseNumber(o) ==
    /\ o \in alive /\ owner[o] = None /\ fd[o] # -1
    /\ open' = [open EXCEPT ![fd[o]] = 0]
    /\ fd' = [fd EXCEPT ![o] = -1] /\ is' = [is EXCEPT ![o] = 0]
    /\ stale' = (stale \/ open[fd[o]] # is[o])
    /\ hit' = hit \union ({open[fd[o]]} \ {0, is[o]})
    /\ UNCHANGED <<alive, owner, share, cell, mixed, objVars>>

CloseShared(o) == CloseNumber(o)  \* fault: a shared fd is closed too

\* inner_close leaves a shared fd alone.
Close(o) == share[o] = None /\ CloseNumber(o)

\* Poll sets and clears owner_task.
PollBegin(o) ==
    /\ o \in alive /\ owner[o] = None /\ fd[o] # -1
    /\ owner' = [owner EXCEPT ![o] = user[o]]
    /\ UNCHANGED <<alive, fd, is, share, cell, open, mixed, stale, hit, objVars>>

PollEnd(o) ==
    /\ o \in alive /\ owner[o] # None
    /\ owner' = [owner EXCEPT ![o] = None]
    /\ UNCHANGED <<alive, fd, is, share, cell, open, mixed, stale, hit, objVars>>

Next ==
    \E o \in Obj :
        \/ \E shared \in BOOLEAN : Socket(o, shared) \/ SocketFails(o, shared)
        \/ Destroy(o) \/ Close(o)
        \/ PollBegin(o) \/ PollEnd(o)
        \/ \E r \in Obj : Copy(o, r) \/ Assign(o, r) \/ AssignShared(o, r)

Spec == Init /\ [][Next]_vars

-----------------------------------------------------------------------------
\* Every variable has its type.
TypeOK ==
    /\ alive \in SUBSET Obj /\ user \in [Obj -> Task]
    /\ fd \in [Obj -> Number \union {-1}] /\ is \in [Obj -> 0 .. MaxSocket]
    /\ owner \in [Obj -> Task \union {None}]
    /\ share \in [Obj -> Cell \union {None}]
    /\ cell \in [Cell -> [num : Number \union {-1}, sock : 0 .. MaxSocket]]
    /\ open \in [Number -> 0 .. MaxSocket]
    /\ created \in 0 .. MaxSocket /\ kept \in SUBSET (0 .. MaxSocket)
    /\ mixed \in SUBSET Obj /\ stale \in BOOLEAN
    /\ hit \in SUBSET (0 .. MaxSocket)

\* inner_socket's comment (net_fd.cpp:245): the fd is really closed when all
\* NetFDs that share it have ended - not before, whatever is copied, assigned and
\* closed meanwhile, or one of them would use a number that may already be
\* another socket.  A socket is lost earlier only to the second inner_close of
\* another, and a NetFD has another fd than its share_fd only after it was
\* assigned one that is not shared ...
StaysOpen ==
    /\ \A o \in alive : share[o] # None =>
         LET c == cell[share[o]]
         IN  /\ c.num # -1 => open[c.num] = c.sock \/ c.sock \in hit
             /\ o \notin mixed => fd[o] = c.num /\ is[o] = c.sock
    /\ hit # {} => stale

\* ... and no later: no shared socket outlives its NetFDs.
ClosedByLast ==
    \A n \in Number : open[n] \in kept
        => \E o \in alive :
             share[o] # None /\ cell[share[o]] = [num |-> n, sock |-> open[n]]

\* The comment on copying (net_fd.cpp:36, 69): a socket that a task waits with
\* is not copied to another task, so a NetFD's owner_task is its own task.
OwnedByUser == \A o \in alive : owner[o] \in {None, user[o]}
=============================================================================
