---------------------------- MODULE SocketStream ----------------------------
(***************************************************************************)
(* The send and receive functions of netio/inner_net/net_fd.cpp.  One task *)
(* writes a message, another reads it at the other end of a connection,    *)
(* each with one call.  The system calls transfer part of what they are    *)
(* asked for or are not ready, and then the function waits in Poll and     *)
(* goes on behind what was done.  EINTR only repeats a call: a stuttering  *)
(* step.                                                                   *)
(*                                                                         *)
(* Byte i of the message is the number i, and an iovec [base, len] stands  *)
(* for the bytes base+1 .. base+len of the caller's memory.                *)
(***************************************************************************)
EXTENDS Integers, SequencesExt, FiniteSetsExt

CONSTANTS
    WriteOps, ReadOps,  \* the functions called
    WriteLens,  \* the lengths of the writer's iovecs, a set of sequences
    ReadLens,   \* the reader's
    Cap,        \* bytes that fit into the socket buffers
    Timeouts,   \* of "none" (-1), "zero", "some"
    Resets      \* whether the connection may be reset

ASSUME StreamAssumption ==
    /\ WriteOps \subseteq {"inner_send", "inner_sendto", "st_write",
                           "st_writev", "st_writev_resid"}
    /\ ReadOps \subseteq {"inner_recv", "inner_recvfrom", "st_readv",
                          "st_readv_resid"}
    /\ WriteLens \subseteq Seq(Nat) /\ ReadLens \subseteq Seq(Nat)
    /\ Cap \in Nat \ {0} /\ Timeouts \subseteq {"none", "zero", "some"}
    /\ Resets \in BOOLEAN

Sum(s) == FoldLeft(LAMBDA x, y : x + y, 0, s)
Total(iov) == Sum([i \in DOMAIN iov |-> iov[i].len])
Upto(iov, k) == Total(SubSeq(iov, 1, k))  \* length of the first k

Iov(lens) ==
    [i \in DOMAIN lens |-> [base |-> Sum(SubSeq(lens, 1, i - 1)),
                            len |-> lens[i]]]

Bytes(iov) ==  \* the positions that an iovec array stands for, in order
    FlattenSeq([i \in DOMAIN iov |->
        [j \in 1 .. iov[i].len |-> iov[i].base + j]])

VARIABLES
    wop, wtime,  \* the writer's function and timeout
    iov,         \* the caller's iovecs
    tmp,         \* what is left: tmp_iov, *iov, or buf and count
    sent,        \* bytes that system calls have accepted: offset, nbyte-nleft
    wpc,         \* "call", "poll", "done"
    wres,        \* the result
    pipe,        \* the socket buffers; 0 is a byte of an earlier message
    closed,      \* the writer's end is closed
    broken,      \* the connection is reset
    rop, rtime, riov, rpc, rres,
    rcvd,        \* the bytes that system calls have delivered
    mem          \* the reader's memory

wvars == <<wop, wtime, iov, tmp, sent, wpc, wres>>
rvars == <<rop, rtime, riov, rpc, rres, rcvd, mem>>
net == <<pipe, closed, broken>>
vars == <<wvars, rvars, net>>

Init ==
    /\ wop \in WriteOps /\ wtime \in Timeouts
    /\ \E lens \in WriteLens :
           /\ wop \in {"inner_send", "inner_sendto", "st_write"} => Len(lens) = 1
           /\ iov = Iov(lens)
    /\ tmp = iov /\ sent = 0 /\ wpc = "call" /\ wres = 0
    /\ pipe \in {<<>>, [i \in 1 .. Cap |-> 0]}
    /\ closed = FALSE /\ broken = FALSE
    /\ rop \in ReadOps /\ rtime \in Timeouts
    /\ \E lens \in ReadLens :
           /\ rop \in {"inner_recv", "inner_recvfrom"} => Len(lens) = 1
           /\ riov = Iov(lens)
    /\ rpc = "call" /\ rres = 0 /\ rcvd = <<>>
    /\ mem = [i \in 1 .. Total(riov) |-> 0]

-----------------------------------------------------------------------------
\* Faults of the loop over the iovecs: the base is not moved; an iovec that is
\* used up exactly is kept.
AdvanceLen(v, n) ==
    LET full == {k \in 0 .. Len(v) : Upto(v, k) <= n}
        rest == SubSeq(v, Max(full) + 1, Len(v))
    IN  IF rest = <<>> THEN <<>>
        ELSE [rest EXCEPT ![1].len = @ - (n - Upto(v, Max(full)))]

AdvanceStrict(v, n) ==
    LET k == Max({j \in 0 .. Len(v) : j = 0 \/ Upto(v, j) < n})
        m == n - Upto(v, k)
    IN  [SubSeq(v, k + 1, Len(v)) EXCEPT
            ![1] = [base |-> @.base + m, len |-> @.len - m]]

\* The loop over the iovecs in st_writev_resid and st_readv_resid: it drops
\* them until n is used up exactly, or ends inside one.
Advance(v, n) ==
    LET exact == {k \in 1 .. Len(v) : Upto(v, k) = n}
        k == IF exact # {} THEN Min(exact)
             ELSE Max({j \in 0 .. Len(v) : Upto(v, j) <= n})
        rest == SubSeq(v, k + 1, Len(v))
        m == n - Upto(v, k)
    IN  IF rest = <<>> THEN <<>>
        ELSE [rest EXCEPT ![1] = [base |-> @.base + m, len |-> @.len - m]]

RestOfLast(n) ==  \* fault: n is what the last writev has written
    LET k == Max({j \in 0 .. Len(iov) : Upto(iov, j) <= n - sent})
        rest == SubSeq(iov, k + 1, Len(iov))
        m == n - sent - Upto(iov, k)
    IN  [rest EXCEPT ![1] = [base |-> @.base + m, len |-> @.len - m]]

\* st_writev builds tmp_iov anew from iov: what lies behind n bytes.
Rest(n) ==
    LET k == Max({j \in 0 .. Len(iov) : Upto(iov, j) <= n})
        rest == SubSeq(iov, k + 1, Len(iov))
        m == n - Upto(iov, k)
    IN  [rest EXCEPT ![1] = [base |-> @.base + m, len |-> @.len - m]]

\* inner_send on Linux: send(fd, buf, count) with a smaller count.
SendRest(n) == <<[base |-> tmp[1].base, len |-> tmp[1].len - n]>>

\* st_writev hands a single iovec to st_write.
Gathers == wop = "st_writev" /\ Len(tmp) # 1

\* What is left after a system call has accepted n bytes.
Remaining(n) ==
    CASE wop = "inner_send" -> SendRest(n)
      [] Gathers -> Rest(sent + n)
      [] OTHER -> Advance(tmp, n)

\* Whether the function is through after a call that has accepted n bytes.
Complete(n) ==
    CASE wop = "inner_sendto" -> TRUE
      [] wop = "inner_send" -> n = Total(tmp) \/ wtime = "zero"
      [] Gathers -> n = Total(tmp)
      [] OTHER -> Advance(tmp, n) = <<>>

DoneResult(n) ==
    CASE wop = "st_writev_resid" -> 0
      [] wop = "inner_sendto" -> n
      [] wop = "inner_send" -> IF wtime = "zero" THEN n ELSE Total(iov)
      [] OTHER -> Total(iov)

\* Not ready, with timeout 0.
ZeroResult ==
    CASE wop \in {"inner_send", "inner_sendto"} -> -1
      [] wop = "st_write" -> sent
      [] wop = "st_writev" -> IF Len(tmp) = 1 THEN -1 ELSE 0
      [] OTHER -> 0

Finish(r) == wpc' = "done" /\ wres' = r

\* write, writev, send or sendto accepts n bytes.
WriteSome(n) ==
    /\ wpc = "call" /\ ~broken
    /\ n <= Total(tmp) /\ n <= Cap - Len(pipe)
    /\ n = 0 => Total(tmp) = 0
    /\ pipe' = pipe \o SubSeq(Bytes(tmp), 1, n)
    /\ sent' = sent + n
    /\ tmp' = IF n = Total(tmp) /\ Complete(n) THEN <<>> ELSE Remaining(n)
    /\ IF Complete(n) THEN Finish(DoneResult(n))
       ELSE wpc' = "poll" /\ UNCHANGED wres
    /\ UNCHANGED <<wop, wtime, iov, rvars, closed, broken>>

WriteNotReady ==
    /\ wpc = "call" /\ ~broken /\ Len(pipe) = Cap
    /\ IF wtime = "zero" THEN Finish(ZeroResult)
       ELSE wpc' = "poll" /\ UNCHANGED wres
    /\ UNCHANGED <<wop, wtime, iov, tmp, sent, rvars, net>>

WriteError ==
    /\ wpc = "call" /\ broken
    /\ Finish(-1)
    /\ UNCHANGED <<wop, wtime, iov, tmp, sent, rvars, net>>

\* Poll returns 0 when the socket is writable ...
WritePollOk ==
    /\ wpc = "poll" /\ (Len(pipe) < Cap \/ broken)
    /\ wpc' = "call"
    /\ UNCHANGED <<wop, wtime, iov, tmp, sent, wres, rvars, net>>

\* ... and -1 after a timeout or an error.
WritePollFails ==
    /\ wpc = "poll" /\ (wtime = "some" \/ broken)
    /\ Finish(-1)
    /\ UNCHANGED <<wop, wtime, iov, tmp, sent, rvars, net>>

-----------------------------------------------------------------------------
ReadFinish(r) == rpc' = "done" /\ rres' = r

\* The bytes go to the first n positions of the reader's iovecs.
Store(n) ==
    LET pos == Bytes(riov)
    IN  [i \in DOMAIN mem |->
            IF \E j \in 1 .. n : pos[j] = i
            THEN pipe[CHOOSE j \in 1 .. n : pos[j] = i] ELSE mem[i]]

\* recv, read or readv delivers n > 0 bytes.
ReadSome(n) ==
    /\ rpc = "call" /\ ~broken
    /\ n \in 1 .. Len(pipe) /\ n <= Total(riov) /\ pipe[1] # 0
    /\ mem' = Store(n)
    /\ rcvd' = rcvd \o SubSeq(pipe, 1, n)
    /\ pipe' = SubSeq(pipe, n + 1, Len(pipe))
    /\ IF rop = "st_readv_resid"
       THEN /\ riov' = Advance(riov, n)
            /\ IF riov' = <<>> THEN ReadFinish(0)
               ELSE rpc' = "poll" /\ UNCHANGED rres
       ELSE ReadFinish(n) /\ UNCHANGED riov
    /\ UNCHANGED <<rop, rtime, wvars, closed, broken>>

\* End of stream, or nothing is asked for.
ReadEnd ==
    /\ rpc = "call" /\ ~broken
    /\ (pipe = <<>> /\ closed) \/ Total(riov) = 0
    /\ ReadFinish(0)
    /\ UNCHANGED <<wvars, rop, rtime, riov, rcvd, mem, net>>

ReadNotReady ==
    /\ rpc = "call" /\ ~broken /\ pipe = <<>> /\ ~closed
    /\ Total(riov) # 0
    /\ IF rtime = "zero"
       THEN ReadFinish(IF rop = "inner_recvfrom" THEN -1 ELSE 0)
       ELSE rpc' = "poll" /\ UNCHANGED rres
    /\ UNCHANGED <<wvars, rop, rtime, riov, rcvd, mem, net>>

ReadError ==
    /\ rpc = "call" /\ broken
    /\ ReadFinish(-1)
    /\ UNCHANGED <<wvars, rop, rtime, riov, rcvd, mem, net>>

ReadPollOk ==
    /\ rpc = "poll" /\ (pipe # <<>> \/ closed \/ broken)
    /\ rpc' = "call"
    /\ UNCHANGED <<wvars, rop, rtime, riov, rres, rcvd, mem, net>>

ReadPollFails ==
    /\ rpc = "poll" /\ (rtime = "some" \/ broken)
    /\ ReadFinish(-1)
    /\ UNCHANGED <<wvars, rop, rtime, riov, rcvd, mem, net>>

-----------------------------------------------------------------------------
\* The peer has read the earlier message.
ReadEarlier ==
    /\ pipe # <<>> /\ pipe[1] = 0
    /\ pipe' = <<>>
    /\ UNCHANGED <<wvars, rvars, closed, broken>>

\* The writer closes when its call has returned; the connection is reset.
CloseWriter ==
    /\ wpc = "done" /\ ~closed
    /\ closed' = TRUE
    /\ UNCHANGED <<wvars, rvars, pipe, broken>>

Break ==
    /\ ~broken /\ Resets
    /\ broken' = TRUE
    /\ UNCHANGED <<wvars, rvars, pipe, closed>>

Writer ==
    \/ \E n \in 0 .. Cap : WriteSome(n)
    \/ WriteNotReady \/ WriteError \/ WritePollOk \/ WritePollFails

Reader ==
    \/ \E n \in 1 .. Cap : ReadSome(n)
    \/ ReadEnd \/ ReadNotReady \/ ReadError \/ ReadPollOk \/ ReadPollFails

Next == Writer \/ Reader \/ ReadEarlier \/ CloseWriter \/ Break

Spec == Init /\ [][Next]_vars

-----------------------------------------------------------------------------
\* Every variable has its type.
TypeOK ==
    /\ sent \in 0 .. Total(iov) /\ Len(pipe) <= Cap
    /\ wpc \in {"call", "poll", "done"} /\ rpc \in {"call", "poll", "done"}
    /\ \A i \in DOMAIN tmp : tmp[i].base \in Nat /\ tmp[i].len \in Nat
    /\ \A i \in DOMAIN riov : riov[i].base \in Nat /\ riov[i].len \in Nat
    /\ wres \in Int /\ rres \in Int
    /\ closed \in BOOLEAN /\ broken \in BOOLEAN

\* net_fd.h:119 ("the buffer's data is sent completely"): however a message is
\* split by partial writes and reads, the connection carries its bytes in order,
\* each once, and so does the reader's memory.  Before that, an earlier message
\* may be in the way.
StreamIntact ==
    /\ \/ rcvd \o pipe = [i \in 1 .. sent |-> i]
       \/ sent = 0 /\ rcvd = <<>> /\ \A i \in DOMAIN pipe : pipe[i] = 0
    /\ \A i \in DOMAIN rcvd : mem[i] = rcvd[i]

\* Between two system calls of st_write, st_writev and st_writev_resid the iovecs
\* describe exactly the bytes that have not been accepted, for the caller of the
\* last also after an error.
ResidIsRest ==
    wop \notin {"inner_send", "inner_sendto"}
        => Bytes(tmp) = [i \in 1 .. Total(iov) - sent |-> sent + i]

\* What a caller concludes is true (net_fd.h:103-108): a count of bytes have been
\* accepted, 0 of st_writev means none, 0 of st_writev_resid all, and the iovecs
\* it leaves are what is still to be sent.
ResultIsTrue ==
    /\ TypeOK /\ ResidIsRest
    /\ wpc = "done" =>
           /\ wop # "st_writev_resid" /\ wres >= 0 => sent = wres
           /\ wop = "st_writev_resid" /\ wres = 0 /\ wtime # "zero"
                  => sent = Total(iov)

\* A reader of at least the whole message ends the writer's call, and its own.
BothReturn == <>(wpc = "done" /\ rpc = "done")
=============================================================================
