----------------------------- MODULE MCChannel -----------------------------
(* The channel for TLC and, each alone in other behaviours, the containers *)
(* it is made of: the ring buffer with four slots, which divide the range  *)
(* of the counters, and with three, which do not; the queue of its         *)
(* waiters; and the lock-free ring with one producer and one consumer, and *)
(* with two producers.                                                     *)
EXTENDS FastChannel

CONSTANTS
    RingCapacity,    \* of a ring buffer whose slots divide the range of size_t
    OddCapacity,     \* of any other
    WIDTH,           \* bits of size_t
    Entry, Dummy, Null,
    Producer, Consumer, PairCapacity,  \* of the lock-free ring
    Producers, ProducersCapacity

ASSUME RingAssumption ==
    /\ RingCapacity \in Nat /\ OddCapacity \in Nat
    /\ 2 ^ WIDTH \in Nat /\ 2 ^ WIDTH % (RingCapacity + 1) = 0
    /\ RingCapacity + 1 < 2 ^ WIDTH /\ OddCapacity + 1 < 2 ^ WIDTH

ASSUME QueueAssumption ==
    IsFiniteSet(Entry) /\ Dummy \notin Entry /\ Null \notin Entry

ASSUME LockFreeAssumption ==
    /\ PairCapacity \in Nat /\ ProducersCapacity \in Nat
    /\ Producer # Consumer

\* Tasks, threads and values are interchangeable.
Symmetry ==
    Permutations(Task) \union Permutations(Proc) \union Permutations(Value)

VARIABLES
    what,  \* what steps, for the whole behaviour
    rbuf, rwrite, rread, rflow, wnext, wtail, wcount,
    lbuffer, lwrite, lwritable, lread, lreadable, lpc, lslot, llimit

ringVars == <<rbuf, rwrite, rread, rflow>>
queueVars == <<wnext, wtail, wcount>>
lockFreeVars ==
    <<lbuffer, lwrite, lwritable, lread, lreadable, lpc, lslot, llimit>>
mcVars == <<what, vars, ringVars, queueVars, lockFreeVars>>

Ring(cap) ==
    INSTANCE RingBuffer WITH Capacity <- cap, Raw <- NoTask,
        buf_ <- rbuf, write_ <- rwrite, read_ <- rread, flow <- rflow
Queue ==
    INSTANCE WaitQueue WITH next <- wnext, tail_ <- wtail, count_ <- wcount
LockFree(producers, consumers, cap) ==
    INSTANCE LockFreeRingQueue WITH
        Producer <- producers, Consumer <- consumers, Capacity <- cap,
        buffer_ <- lbuffer, write_ <- lwrite, writable_ <- lwritable,
        read_ <- lread, readable_ <- lreadable, pc <- lpc, slot <- lslot,
        limit <- llimit

MCInit ==
    /\ what \in {"channel", "ring", "odd ring", "queue", "pair", "producers"}
    /\ Init
    /\ IF what = "odd ring" THEN Ring(OddCapacity)!Init ELSE Ring(RingCapacity)!Init
    /\ Queue!Init
    /\ IF what = "producers" THEN LockFree(Producers, {}, ProducersCapacity)!Init
                             ELSE LockFree({Producer}, {Consumer}, PairCapacity)!Init

MCNext ==
    /\ UNCHANGED what
    /\ \/ /\ what = "channel" /\ Next
          /\ UNCHANGED <<ringVars, queueVars, lockFreeVars>>
       \/ /\ \/ what = "ring" /\ Ring(RingCapacity)!Next
             \/ what = "odd ring" /\ Ring(OddCapacity)!Next
          /\ UNCHANGED <<vars, queueVars, lockFreeVars>>
       \/ /\ what = "queue" /\ Queue!Next
          /\ UNCHANGED <<vars, ringVars, lockFreeVars>>
       \/ /\ \/ what = "pair" /\ LockFree({Producer}, {Consumer}, PairCapacity)!Next
             \/ what = "producers" /\ LockFree(Producers, {}, ProducersCapacity)!Next
          /\ UNCHANGED <<vars, ringVars, queueVars>>

MCSpec == MCInit /\ [][MCNext]_mcVars

\* The slots of the ring buffer from read_ on hold the values in the order of
\* their push and the others hold none, across the wrap of size_t too where
\* capacity_ + 1 divides its range; and for every capacity size() is the number
\* of values, by which full() and empty() decide who waits (ringbuffer.h:29-60).
RingFifo ==
    IF what = "odd ring" THEN Ring(OddCapacity)!TypeOK /\ Ring(OddCapacity)!SizeRight
    ELSE Ring(RingCapacity)!TypeOK /\ Ring(RingCapacity)!SizeRight /\ Ring(RingCapacity)!FifoSlots

\* The waiter that came first is notified first and none is lost: entries join
\* at the end and leave from the front, and the two tests for an empty queue,
\* head_ == tail_ and count_, agree (wait_queue.h:30-84).
QueueFifo ==
    /\ [](Queue!TypeOK /\ Queue!TailAndCount)
    /\ Queue!FifoSteps

\* No push of the lock-free ring stores over an object that has not been taken,
\* with two producers too: each slot is claimed by one push.  While one producer
\* and one consumer use it, every slot of [read_, readable_) holds an object
\* (lock_free_ring_queue.h:134).
SlotsExclusive ==
    IF what = "producers"
    THEN /\ LockFree(Producers, {}, ProducersCapacity)!TypeOK
         /\ LockFree(Producers, {}, ProducersCapacity)!NoOverwrite
    ELSE /\ LockFree({Producer}, {Consumer}, PairCapacity)!TypeOK
         /\ LockFree({Producer}, {Consumer}, PairCapacity)!NoOverwrite
         /\ LockFree({Producer}, {Consumer}, PairCapacity)!ReadableStored
=============================================================================
