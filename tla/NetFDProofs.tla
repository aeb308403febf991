---------------------------- MODULE NetFDProofs ----------------------------
(***************************************************************************)
(* The NetFD objects that share a descriptor, for every number of objects, *)
(* tasks and descriptors: the socket stays open as long as one of them is  *)
(* left, and is closed with the last.  Then the bytes that the calls       *)
(* transfer, for every message, every split of it into iovecs and every    *)
(* size of the socket buffers: they arrive once and in order, and what the *)
(* calls return is true.                                                   *)
(***************************************************************************)
EXTENDS MCSockets, SeqLemmas

Held(c) == \E o \in alive : share[o] = c

\* A cell that no NetFD points to is empty, no two hold the same socket, and what
\* is in a cell was created as shared.
CellsInv ==
    /\ \A c \in Cell : cell[c].num = -1 <=> cell[c] = F!Nothing
    /\ \A c \in Cell : cell[c].num # -1 => Held(c) /\ cell[c].sock \in kept
    /\ \A c, d \in Cell :
          cell[c].num # -1 /\ cell[d].num # -1 /\ cell[c].sock = cell[d].sock
            => c = d

\* The number in a cell stands for the cell's socket, unless a close meant for
\* another has hit it; every open shared socket is in a cell.
OpenInv ==
    /\ \A c \in Cell : cell[c].num # -1
         => open[cell[c].num] = cell[c].sock \/ cell[c].sock \in hit
    /\ \A n \in Number : open[n] \in kept
         => \E c \in Cell : cell[c] = [num |-> n, sock |-> open[n]]

\* A shared NetFD has the descriptor of its cell, unless it was assigned another;
\* a NetFD that is not shared has none that was created as shared.
AgreeInv ==
    \A o \in alive :
        /\ share[o] # None /\ o \notin mixed
             => fd[o] = cell[share[o]].num /\ is[o] = cell[share[o]].sock
        /\ share[o] = None => is[o] \notin kept

\* Sockets are numbered in the order of their creation.
NumberedInv ==
    /\ kept \subseteq 1 .. created
    /\ \A n \in Number : open[n] <= created
    /\ \A o \in Obj : is[o] <= created
    /\ \A s \in hit : s <= created

NInv ==
    /\ F!TypeOK
    /\ CellsInv /\ OpenInv /\ AgreeInv /\ NumberedInv
    /\ F!OwnedByUser /\ (hit # {} => stale)

-----------------------------------------------------------------------------
\* The initial state.
LEMMA NInit == F!Init => NInv
<1> SUFFICES ASSUME F!Init PROVE NInv
  OBVIOUS
<1> USE ObjectsAssumption DEF F!Init
<1>1. F!TypeOK
  <2>1. hit \in SUBSET (0 .. MaxSocket) /\ kept \in SUBSET (0 .. MaxSocket)
    OBVIOUS
  <2>2. mixed \in SUBSET Obj /\ stale \in BOOLEAN /\ alive \in SUBSET Obj
    OBVIOUS
  <2>3. cell \in [Cell -> [num : Number \union {-1}, sock : 0 .. MaxSocket]]
    BY DEF F!Nothing
  <2>4. open \in [Number -> 0 .. MaxSocket] /\ created \in 0 .. MaxSocket
    OBVIOUS
  <2>5. fd \in [Obj -> Number \union {-1}] /\ is \in [Obj -> 0 .. MaxSocket]
    OBVIOUS
  <2>6. owner \in [Obj -> Task \union {None}] /\ share \in [Obj -> Cell \union {None}]
    OBVIOUS
  <2> QED
    BY <2>1, <2>2, <2>3, <2>4, <2>5, <2>6 DEF F!TypeOK
<1>2. CellsInv /\ AgreeInv
  BY DEF CellsInv, AgreeInv, F!Nothing
<1>3. OpenInv /\ NumberedInv /\ F!OwnedByUser /\ hit = {}
  BY DEF OpenInv, NumberedInv, F!OwnedByUser, F!Nothing
<1> QED
  BY <1>1, <1>2, <1>3 DEF NInv

\* The cells are empty or have a number and a socket.
LEMMA CellValues ==
  ASSUME NInv, NEW c \in Cell
  PROVE  /\ cell[c].num \in Number \union {-1} /\ cell[c].sock \in 0 .. MaxSocket
         /\ cell[c] = [num |-> cell[c].num, sock |-> cell[c].sock]
         /\ -1 \notin Number
<1> cell[c] \in [num : Number \union {-1}, sock : 0 .. MaxSocket]
  BY DEF NInv, F!TypeOK
<1> QED
  BY ObjectsAssumption

\* What is left when the pointers are s and the objects A: a cell that has
\* lost its last NetFD is empty and its number closed, the others stay.
Left(s, A) ==
    /\ cell' \in [Cell -> [num : Number \union {-1}, sock : 0 .. MaxSocket]]
    /\ open' \in [Number -> 0 .. MaxSocket]
    /\ hit' \in SUBSET (0 .. MaxSocket) /\ (hit' # {} => stale)
    /\ \A c \in Cell :
          \/ cell'[c] = cell[c] /\ ~Held(c)
          \/ cell'[c] = cell[c] /\ \E o \in A : s[o] = c
          \/ cell'[c] = F!Nothing /\ ~\E o \in A : s[o] = c
    /\ OpenInv'
    /\ \A n \in Number : open'[n] <= created'
    /\ \A x \in hit' : x <= created'

LEMMA Released ==
    ASSUME NInv, NEW s \in [Obj -> Cell \union {None}], NEW A \in SUBSET Obj,
           F!Release(s, A), kept' = kept, created' = created
    PROVE  Left(s, A)
<1> USE ObjectsAssumption
<1> DEFINE Gone(c) == /\ Held(c) /\ ~\E o \in A : s[o] = c
                      /\ cell[c].num # -1
<1>1. /\ cell \in [Cell -> [num : Number \union {-1}, sock : 0 .. MaxSocket]]
      /\ open \in [Number -> 0 .. MaxSocket]
      /\ alive \in SUBSET Obj /\ hit \in SUBSET (0 .. MaxSocket)
      /\ created \in 0 .. MaxSocket
  BY DEF NInv, F!TypeOK
<1>2. /\ open' = [n \in Number |->
                    IF \E c \in Cell : Gone(c) /\ cell[c].num = n
                    THEN 0 ELSE open[n]]
      /\ \A x : x \in hit' <=>
           \/ x \in hit
           \/ x # 0 /\ \E c \in Cell : /\ Gone(c) /\ open[cell[c].num] # cell[c].sock
                                       /\ x = open[cell[c].num]
      /\ cell' = [c \in Cell |-> IF Gone(c) THEN F!Nothing ELSE cell[c]]
  <2> DEFINE gone == {c \in Cell : /\ F!Holders(share, alive, c) # {}
                                  /\ F!Holders(s, A, c) = {}
                                  /\ cell[c].num # -1}
             others == {c \in gone : open[cell[c].num] # cell[c].sock}
  <2>1. \A c : c \in gone <=> c \in Cell /\ Gone(c)
    BY DEF F!Holders, Held
  <2>2. /\ open' = [n \in Number |->
                      IF \E c \in gone : cell[c].num = n THEN 0 ELSE open[n]]
        /\ hit' = hit \union ({open[cell[c].num] : c \in others} \ {0})
        /\ cell' = [c \in Cell |-> IF c \in gone THEN F!Nothing ELSE cell[c]]
    BY DEF F!Release
  <2>3. \A c : c \in others <=> /\ c \in Cell /\ Gone(c)
                                /\ open[cell[c].num] # cell[c].sock
    BY <2>1
  <2> HIDE DEF gone, others, Gone
  <2> QED
    BY <2>1, <2>2, <2>3
<1> HIDE DEF Gone
<1>3. \A c \in Cell : Gone(c) /\ open[cell[c].num] # cell[c].sock => stale
  BY DEF NInv, OpenInv, Gone
<1>4. /\ cell' \in [Cell -> [num : Number \union {-1}, sock : 0 .. MaxSocket]]
      /\ open' \in [Number -> 0 .. MaxSocket]
  BY <1>1, <1>2 DEF F!Nothing
<1>5. \A c \in Cell : Gone(c) => cell[c].num \in Number /\ open[cell[c].num] \in 0 .. MaxSocket
                                 /\ open[cell[c].num] <= created
  BY <1>1 DEF Gone, NInv, NumberedInv
<1>6. /\ hit' \in SUBSET (0 .. MaxSocket) /\ (hit' # {} => stale)
      /\ \A x \in hit' : x <= created
  <2>1. /\ hit \subseteq 0 .. MaxSocket /\ (hit # {} => stale)
        /\ \A x \in hit : x <= created
    BY DEF NInv, NumberedInv, F!TypeOK
  <2>2. ASSUME NEW x \in hit'
        PROVE  x \in 0 .. MaxSocket /\ x <= created /\ stale
    <3>1. CASE x \in hit
      BY <2>1, <3>1
    <3>2. CASE x \notin hit
      <4>1. PICK c \in Cell : /\ Gone(c) /\ open[cell[c].num] # cell[c].sock
                              /\ x = open[cell[c].num]
        BY <1>2, <2>2, <3>2
      <4> QED
        BY <1>3, <1>5, <4>1
    <3> QED
      BY <3>1, <3>2
  <2> QED
    BY <2>2
<1>7. \A c \in Cell :
         \/ cell'[c] = cell[c] /\ ~Held(c)
         \/ cell'[c] = cell[c] /\ \E o \in A : s[o] = c
         \/ cell'[c] = F!Nothing /\ ~\E o \in A : s[o] = c
  <2> TAKE c \in Cell
  <2>1. cell[c].num = -1 => cell[c] = F!Nothing
    BY DEF NInv, CellsInv
  <2>2. cell'[c] = IF Gone(c) THEN F!Nothing ELSE cell[c]
    BY <1>2
  <2> QED
    BY <2>1, <2>2, Zenon DEF Gone
<1>8. OpenInv'
  <2>1. ASSUME NEW c \in Cell, cell'[c].num # -1
        PROVE  open'[cell'[c].num] = cell'[c].sock \/ cell'[c].sock \in hit'
    <3>1. cell'[c] = cell[c] /\ ~Gone(c)
      BY <1>2, <2>1 DEF F!Nothing
    <3>2. cell[c].num \in Number
      BY <1>1, <2>1, <3>1
    <3>3. CASE cell[c].sock \in hit
      BY <1>2, <3>1, <3>3
    <3>4. CASE open[cell[c].num] = cell[c].sock
      <4>1. CASE \E d \in Cell : Gone(d) /\ cell[d].num = cell[c].num
        <5>1. PICK d \in Cell : Gone(d) /\ cell[d].num = cell[c].num
          BY <4>1
        <5>2. cell[d].sock # cell[c].sock
          BY <2>1, <3>1, <5>1 DEF NInv, CellsInv
        <5>3. cell[c].sock # 0
          BY <2>1, <3>1 DEF NInv, CellsInv, NumberedInv
        <5> QED
          BY <1>2, <3>1, <3>4, <5>1, <5>2, <5>3
      <4>2. CASE ~\E d \in Cell : Gone(d) /\ cell[d].num = cell[c].num
        BY <1>2, <3>1, <3>2, <3>4, <4>2
      <4> QED
        BY <4>1, <4>2
    <3> QED
      BY <2>1, <3>1, <3>3, <3>4 DEF NInv, OpenInv
  <2>2. ASSUME NEW n \in Number, open'[n] \in kept'
        PROVE  \E c \in Cell : cell'[c] = [num |-> n, sock |-> open'[n]]
    <3>1. open'[n] # 0
      BY <1>1, <2>2 DEF NInv, NumberedInv
    <3>2. open'[n] = open[n] /\ \A c \in Cell : cell[c].num = n => ~Gone(c)
      BY <1>2, <3>1
    <3>3. PICK c \in Cell : cell[c] = [num |-> n, sock |-> open[n]]
      BY <2>2, <3>2 DEF NInv, OpenInv
    <3>4. cell[c].num = n
      BY <3>3
    <3> QED
      BY <1>2, <3>2, <3>3, <3>4
  <2> QED
    BY <2>1, <2>2 DEF OpenInv
<1>9. \A n \in Number : open'[n] <= created'
  BY <1>1, <1>2 DEF NInv, NumberedInv
<1> QED
  BY <1>4, <1>6, <1>7, <1>8, <1>9 DEF Left

\* inner_socket: a new NetFD, and a new cell if it is shared.
LEMMA NSocket ==
    ASSUME NInv, NEW o \in Obj, NEW shared \in BOOLEAN, F!Socket(o, shared)
    PROVE  NInv'
<1> USE ObjectsAssumption
<1>1. /\ o \notin alive /\ created \in 0 .. MaxSocket /\ created < MaxSocket
      /\ alive \in SUBSET Obj /\ user \in [Obj -> Task]
      /\ fd \in [Obj -> Number \union {-1}] /\ is \in [Obj -> 0 .. MaxSocket]
      /\ owner \in [Obj -> Task \union {None}]
      /\ share \in [Obj -> Cell \union {None}]
      /\ cell \in [Cell -> [num : Number \union {-1}, sock : 0 .. MaxSocket]]
      /\ open \in [Number -> 0 .. MaxSocket]
      /\ kept \in SUBSET (0 .. MaxSocket) /\ hit \in SUBSET (0 .. MaxSocket)
  BY DEF NInv, F!TypeOK, F!Socket
<1>2. PICK n \in Number :
        /\ open[n] = 0
        /\ F!Created(o, n, shared)
        /\ IF shared
           THEN \E c \in F!FreeCells :
                  /\ share' = [share EXCEPT ![o] = c]
                  /\ cell' = [cell EXCEPT ![c] =
                                [num |-> n, sock |-> created']]
           ELSE share' = [share EXCEPT ![o] = None] /\ UNCHANGED cell
  BY DEF F!Socket
<1>3. /\ alive' = alive \union {o} /\ created' = created + 1
      /\ open' = [open EXCEPT ![n] = created']
      /\ fd' = [fd EXCEPT ![o] = n] /\ is' = [is EXCEPT ![o] = created']
      /\ owner' = [owner EXCEPT ![o] = None]
      /\ kept' = IF shared THEN kept \union {created'} ELSE kept
      /\ UNCHANGED <<user, mixed, stale, hit>>
  BY <1>2 DEF F!Created, F!Socket
<1>4. created' \in 1 .. MaxSocket /\ created' \notin kept /\ created' \notin hit
  BY <1>1, <1>3 DEF NInv, NumberedInv
<1>5. NumberedInv' /\ F!OwnedByUser'
  BY <1>1, <1>3, <1>4 DEF NInv, NumberedInv, F!OwnedByUser
<1>6. \A c \in Cell : cell[c].num = n => cell[c].sock \in hit
  <2> SUFFICES ASSUME NEW c \in Cell, cell[c].num = n PROVE cell[c].sock \in hit
    OBVIOUS
  <2>1. n # -1 /\ cell[c].sock # 0
    BY CellValues DEF NInv, CellsInv, NumberedInv
  <2> QED
    BY <1>2, <2>1 DEF NInv, OpenInv
<1>7. CASE shared
  <2>1. PICK c \in Cell :
          /\ ~Held(c)
          /\ share' = [share EXCEPT ![o] = c]
          /\ cell' = [cell EXCEPT ![c] = [num |-> n, sock |-> created']]
    BY <1>2, <1>7 DEF F!FreeCells, F!Holders, Held
  <2>2. cell[c].num = -1
    BY <2>1 DEF NInv, CellsInv
  <2>3. F!TypeOK'
    BY <1>1, <1>3, <1>4, <2>1 DEF NInv, F!TypeOK
  <2>4. \A x \in alive : share'[x] = share[x] /\ share[x] # c
    BY <1>1, <2>1 DEF Held
  <2>5. \A d \in Cell : d # c => cell'[d] = cell[d]
    BY <1>1, <2>1
  <2>6. /\ cell'[c] = [num |-> n, sock |-> created']
        /\ cell'[c].num = n /\ cell'[c].sock = created'
        /\ share'[o] = c /\ n # -1 /\ c # None
    BY <1>1, <2>1, CellValues
  <2>7. CellsInv'
    <3>1. \A d \in Cell : cell'[d].num = -1 <=> cell'[d] = F!Nothing
      BY <2>5, <2>6 DEF NInv, CellsInv, F!Nothing
    <3>2. \A d \in Cell : cell'[d].num # -1 => Held(d)' /\ cell'[d].sock \in kept'
      BY <1>3, <1>7, <2>4, <2>5, <2>6 DEF NInv, CellsInv, Held
    <3>3. \A d \in Cell : d # c /\ cell[d].num # -1 => cell[d].sock # created'
      BY <1>4 DEF NInv, CellsInv
    <3>4. \A d, e \in Cell :
            cell'[d].num # -1 /\ cell'[e].num # -1 /\ cell'[d].sock = cell'[e].sock
              => d = e
      BY <2>5, <2>6, <3>3 DEF NInv, CellsInv
    <3> QED
      BY <3>1, <3>2, <3>4 DEF CellsInv
  <2>8. OpenInv'
    <3>1. ASSUME NEW d \in Cell, cell'[d].num # -1
          PROVE  open'[cell'[d].num] = cell'[d].sock \/ cell'[d].sock \in hit'
      <4>1. CASE d = c
        BY <1>1, <1>3, <2>6, <4>1
      <4>2. CASE d # c /\ cell[d].num = n
        BY <1>3, <1>6, <2>5, <4>2
      <4>3. CASE d # c /\ cell[d].num # n
        <5>1. open'[cell[d].num] = open[cell[d].num]
          BY <1>1, <1>3, <4>3
        <5> QED
          BY <1>3, <2>5, <3>1, <4>3, <5>1 DEF NInv, OpenInv
      <4> QED
        BY <4>1, <4>2, <4>3
    <3>2. ASSUME NEW m \in Number, open'[m] \in kept'
          PROVE  \E d \in Cell : cell'[d] = [num |-> m, sock |-> open'[m]]
      <4>1. CASE m = n
        BY <1>1, <1>3, <2>6, <4>1
      <4>2. CASE m # n
        <5>1. open'[m] = open[m] /\ open[m] <= created
          BY <1>1, <1>3, <4>2 DEF NInv, NumberedInv
        <5>2. open[m] \in kept
          BY <1>1, <1>3, <1>7, <3>2, <5>1
        <5>3. PICK d \in Cell : cell[d] = [num |-> m, sock |-> open[m]]
          BY <5>2 DEF NInv, OpenInv
        <5>4. d # c
          BY <2>2, <5>3, CellValues
        <5> QED
          BY <2>5, <5>1, <5>3, <5>4
      <4> QED
        BY <4>1, <4>2
    <3> QED
      BY <3>1, <3>2 DEF OpenInv
  <2>9. AgreeInv'
    <3> SUFFICES ASSUME NEW x \in alive'
                 PROVE  /\ share'[x] # None /\ x \notin mixed
                             => fd'[x] = cell'[share'[x]].num /\ is'[x] = cell'[share'[x]].sock
                        /\ share'[x] = None => is'[x] \notin kept'
      BY <1>3 DEF AgreeInv
    <3>1. CASE x = o
      BY <1>1, <1>3, <2>6, <3>1
    <3>2. CASE x # o
      <4>1. /\ x \in alive /\ fd'[x] = fd[x] /\ is'[x] = is[x] /\ share'[x] = share[x]
            /\ share[x] # c /\ is[x] # created' /\ share[x] \in Cell \union {None}
        BY <1>1, <1>3, <2>4, <3>2 DEF NInv, NumberedInv
      <4> QED
        BY <1>3, <1>7, <2>5, <4>1 DEF NInv, AgreeInv
    <3> QED
      BY <3>1, <3>2
  <2> QED
    BY <1>3, <1>5, <2>3, <2>7, <2>8, <2>9 DEF NInv
<1>8. CASE ~shared
  <2>1. share' = [share EXCEPT ![o] = None] /\ cell' = cell /\ kept' = kept
    BY <1>2, <1>3, <1>8
  <2>2. F!TypeOK'
    BY <1>1, <1>3, <1>4, <2>1 DEF NInv, F!TypeOK
  <2>3. CellsInv'
    BY <1>1, <1>3, <2>1 DEF NInv, CellsInv, Held
  <2>4. OpenInv'
    <3>1. ASSUME NEW d \in Cell, cell[d].num # -1
          PROVE  open'[cell[d].num] = cell[d].sock \/ cell[d].sock \in hit
      BY <1>1, <1>3, <1>6, <3>1 DEF NInv, OpenInv
    <3>2. ASSUME NEW m \in Number, open'[m] \in kept
          PROVE  open'[m] = open[m]
      BY <1>1, <1>3, <1>4, <3>2
    <3> QED
      BY <1>3, <2>1, <3>1, <3>2 DEF NInv, OpenInv
  <2>5. AgreeInv'
    <3>1. \A x \in alive : /\ x # o /\ x \in Obj
                           /\ share'[x] = share[x]
                           /\ fd'[x] = fd[x] /\ is'[x] = is[x]
      BY <1>1, <1>3, <2>1
    <3>2. share'[o] = None /\ is'[o] = created'
      BY <1>1, <1>3, <2>1
    <3> QED
      BY <1>3, <1>4, <2>1, <3>1, <3>2 DEF NInv, AgreeInv
  <2> QED
    BY <1>3, <1>5, <2>2, <2>3, <2>4, <2>5 DEF NInv
<1> QED
  BY <1>7, <1>8

\* An invalid NetFD: a shared one has a cell without a descriptor.
LEMMA NSocketFails ==
    ASSUME NInv, NEW o \in Obj, NEW shared \in BOOLEAN,
           F!SocketFails(o, shared)
    PROVE  NInv'
<1> USE ObjectsAssumption
<1>1. PICK c \in Cell \union {None} :
        share' = [share EXCEPT ![o] = c] /\ (c # None => ~Held(c))
  BY DEF F!SocketFails, F!FreeCells, F!Holders, Held
<1>2. F!TypeOK'
  <2>1. /\ alive' = alive \union {o} /\ fd' = [fd EXCEPT ![o] = -1]
        /\ is' = [is EXCEPT ![o] = 0] /\ owner' = [owner EXCEPT ![o] = None]
        /\ UNCHANGED <<user, created, kept, cell, open, mixed, stale, hit>>
    BY DEF F!SocketFails, F!objVars
  <2>2. /\ fd' \in [Obj -> Number \union {-1}] /\ is' \in [Obj -> 0 .. MaxSocket]
        /\ owner' \in [Obj -> Task \union {None}]
        /\ share' \in [Obj -> Cell \union {None}]
    BY <1>1, <2>1 DEF NInv, F!TypeOK
  <2> QED
    BY <2>1, <2>2 DEF NInv, F!TypeOK
<1>3. /\ \A x \in alive : /\ x # o /\ x \in Obj
                          /\ share'[x] = share[x]
                          /\ fd'[x] = fd[x] /\ is'[x] = is[x]
      /\ share'[o] = c /\ fd'[o] = -1 /\ is'[o] = 0
      /\ alive' = alive \union {o}
      /\ UNCHANGED <<cell, open, kept, mixed, stale, hit>>
  BY <1>1 DEF NInv, F!TypeOK, F!SocketFails, F!objVars
<1>4. c # None => cell[c].num = -1 /\ cell[c].sock = 0
  BY <1>1 DEF NInv, CellsInv, F!Nothing
<1>5. 0 \notin kept
  BY DEF NInv, NumberedInv
<1>6. CellsInv' /\ OpenInv' /\ AgreeInv'
  BY <1>3, <1>4, <1>5 DEF NInv, CellsInv, OpenInv, AgreeInv, Held
<1>7. NumberedInv' /\ F!OwnedByUser'
  BY DEF NInv, NumberedInv, F!OwnedByUser, F!TypeOK, F!SocketFails, F!objVars
<1> QED
  BY <1>2, <1>3, <1>6, <1>7 DEF NInv

\* The copy constructor: one more NetFD that holds what the other holds.
LEMMA NCopy ==
    ASSUME NInv, NEW o \in Obj, NEW r \in Obj, F!Copy(o, r)
    PROVE  NInv'
<1> USE ObjectsAssumption
<1>1. /\ o \notin alive /\ r \in alive /\ alive' = alive \union {o}
      /\ fd' = [fd EXCEPT ![o] = fd[r]] /\ is' = [is EXCEPT ![o] = is[r]]
      /\ share' = [share EXCEPT ![o] = share[r]]
      /\ mixed' = IF r \in mixed THEN mixed \union {o} ELSE mixed \ {o}
      /\ owner' = [owner EXCEPT ![o] = IF share[r] = None THEN owner[r]
                                                          ELSE None]
      /\ share[r] = None => owner[r] \in {None, user[o]}
      /\ UNCHANGED <<user, created, kept, cell, open, stale, hit>>
  BY DEF F!Copy, F!Takes, F!TakesShare, F!InUse, F!objVars
<1>2. F!TypeOK'
  BY <1>1 DEF NInv, F!TypeOK
<1>3. /\ \A x \in alive : /\ x # o /\ x \in Obj
                          /\ share'[x] = share[x]
                          /\ fd'[x] = fd[x] /\ is'[x] = is[x]
                          /\ (x \in mixed' <=> x \in mixed)
      /\ share'[o] = share[r] /\ fd'[o] = fd[r] /\ is'[o] = is[r]
      /\ (o \in mixed' <=> r \in mixed)
  BY <1>1 DEF NInv, F!TypeOK
<1>4. CellsInv' /\ OpenInv' /\ AgreeInv'
  BY <1>1, <1>3 DEF NInv, CellsInv, OpenInv, AgreeInv, Held
<1>5. NumberedInv' /\ F!OwnedByUser'
  BY <1>1 DEF NInv, NumberedInv, F!OwnedByUser, F!TypeOK
<1> QED
  BY <1>1, <1>2, <1>4, <1>5 DEF NInv

\* operator= from a NetFD that is not shared: no cell loses a NetFD, and a shared
\* variable has its own cell still, but another descriptor.
LEMMA NAssign ==
    ASSUME NInv, NEW o \in Obj, NEW r \in Obj, F!Assign(o, r)
    PROVE  NInv'
<1> USE ObjectsAssumption
<1>1. /\ o \in alive /\ r \in alive /\ o # r /\ owner[o] = None /\ share[r] = None
      /\ mixed' = IF share[o] = None THEN mixed ELSE mixed \union {o}
      /\ UNCHANGED <<alive, user, created, kept, share, cell, open, stale, hit>>
  BY DEF F!Assign, F!objVars
<1>2. \/ /\ fd' = [fd EXCEPT ![o] = -1] /\ is' = [is EXCEPT ![o] = 0]
         /\ owner' = owner
      \/ /\ fd' = [fd EXCEPT ![o] = fd[r]] /\ is' = [is EXCEPT ![o] = is[r]]
         /\ owner' = [owner EXCEPT ![o] = owner[r]]
         /\ owner[r] \in {None, user[o]}
  BY DEF F!Assign, F!Takes, F!InUse
<1>3. F!TypeOK' /\ F!OwnedByUser'
  BY <1>1, <1>2 DEF NInv, F!TypeOK, F!OwnedByUser
<1>4. CellsInv' /\ OpenInv'
  BY <1>1 DEF NInv, CellsInv, OpenInv, Held
<1>5. AgreeInv'
  <2>1. \A x \in alive : x # o => /\ fd'[x] = fd[x] /\ is'[x] = is[x]
                                  /\ (x \in mixed' <=> x \in mixed)
    BY <1>1, <1>2 DEF NInv, F!TypeOK
  <2>2. is'[o] \in {0, is[r]} /\ is[r] \notin kept /\ 0 \notin kept
    BY <1>1, <1>2 DEF NInv, F!TypeOK, AgreeInv, NumberedInv
  <2>3. share[o] # None => o \in mixed'
    BY <1>1
  <2> QED
    BY <1>1, <2>1, <2>2, <2>3 DEF NInv, AgreeInv
<1>6. NumberedInv'
  BY <1>1, <1>2 DEF NInv, NumberedInv, F!TypeOK
<1> QED
  BY <1>1, <1>3, <1>4, <1>5, <1>6 DEF NInv

\* The NetFDs of which a cell is left are among those that were there: the cells
\* keep what is said of them.
LEMMA NLeft ==
    ASSUME NInv, NEW s, NEW A, Left(s, A), share' = s, alive' = A, kept' = kept
    PROVE  CellsInv'
<1>1. \A c \in Cell : cell'[c].num # -1 =>
                        cell'[c] = cell[c] /\ \E x \in A : s[x] = c
  BY DEF Left, NInv, CellsInv, F!Nothing
<1>2. \A c \in Cell : cell'[c] = cell[c] \/ cell'[c] = F!Nothing
  BY DEF Left
<1>3. \A c \in Cell : cell'[c].num = -1 <=> cell'[c] = F!Nothing
  BY <1>2 DEF NInv, CellsInv, F!Nothing
<1>4. \A c \in Cell : cell'[c].num # -1 => Held(c)' /\ cell'[c].sock \in kept'
  BY <1>1 DEF Held, NInv, CellsInv
<1>5. \A c, d \in Cell :
        cell'[c].num # -1 /\ cell'[d].num # -1 /\ cell'[c].sock = cell'[d].sock => c = d
  BY <1>1 DEF NInv, CellsInv
<1> QED
  BY <1>3, <1>4, <1>5 DEF CellsInv

\* operator= from a shared NetFD: the pointer moves from one cell to the other,
\* and the descriptor of the first is closed when it was the last.
LEMMA NAssignShared ==
    ASSUME NInv, NEW o \in Obj, NEW r \in Obj, F!AssignShared(o, r)
    PROVE  NInv'
<1> USE ObjectsAssumption
<1>1. /\ o \in alive /\ r \in alive /\ o # r /\ owner[o] = None /\ share[r] # None
      /\ fd' = [fd EXCEPT ![o] = fd[r]] /\ is' = [is EXCEPT ![o] = is[r]]
      /\ share' = [share EXCEPT ![o] = share[r]]
      /\ owner' = [owner EXCEPT ![o] = None]
      /\ mixed' = IF r \in mixed THEN mixed \union {o} ELSE mixed \ {o}
      /\ F!Release(share', alive)
      /\ UNCHANGED <<alive, user, created, kept, stale>>
  BY DEF F!AssignShared, F!Takes, F!TakesShare, F!objVars
<1>2. share' \in [Obj -> Cell \union {None}] /\ alive \in SUBSET Obj
  BY <1>1 DEF NInv, F!TypeOK
<1>3. Left(share', alive)
  BY <1>1, <1>2, Released
<1>4. F!TypeOK'
  BY <1>1, <1>2, <1>3 DEF Left, NInv, F!TypeOK
<1>5. CellsInv'
  BY <1>1, <1>3, NLeft
<1>6. AgreeInv'
  <2>1. \A x \in alive : x # o => /\ share'[x] = share[x]
                                  /\ fd'[x] = fd[x] /\ is'[x] = is[x]
                                  /\ (x \in mixed' <=> x \in mixed)
    BY <1>1, <1>2 DEF NInv, F!TypeOK
  <2>2. /\ share'[o] = share[r] /\ fd'[o] = fd[r] /\ is'[o] = is[r]
        /\ (o \in mixed' <=> r \in mixed)
    BY <1>1, <1>2 DEF NInv, F!TypeOK
  <2>3. ASSUME NEW x \in alive
        PROVE  /\ share'[x] # None /\ x \notin mixed'
                    => fd'[x] = cell'[share'[x]].num /\ is'[x] = cell'[share'[x]].sock
               /\ share'[x] = None => is'[x] \notin kept'
    <3>1. PICK y \in alive :
            /\ share'[x] = share[y] /\ fd'[x] = fd[y] /\ is'[x] = is[y]
            /\ (x \in mixed' <=> y \in mixed)
      BY <1>1, <2>1, <2>2
    <3>2. CASE share[y] = None
      BY <1>1, <3>1, <3>2 DEF NInv, AgreeInv
    <3>3. CASE share[y] # None
      <4>1. share[y] \in Cell /\ Held(share[y])
        BY <1>2, <3>1, <3>3 DEF Held, NInv, F!TypeOK
      <4>2. cell'[share[y]] = cell[share[y]]
        BY <1>3, <3>1, <4>1 DEF Left
      <4> QED
        BY <3>1, <3>3, <4>2 DEF NInv, AgreeInv
    <3> QED
      BY <3>2, <3>3
  <2> QED
    BY <1>1, <2>3 DEF AgreeInv
<1>7. NumberedInv' /\ F!OwnedByUser'
  BY <1>1, <1>2, <1>3 DEF Left, NInv, NumberedInv, F!OwnedByUser, F!TypeOK
<1> QED
  BY <1>1, <1>3, <1>4, <1>5, <1>6, <1>7 DEF Left, NInv

\* The destructor: the descriptor is closed with the last NetFD.
LEMMA NDestroy ==
    ASSUME NInv, NEW o \in Obj, F!Destroy(o)
    PROVE  NInv'
<1> USE ObjectsAssumption
<1>1. /\ o \in alive /\ alive' = alive \ {o} /\ mixed' = mixed \ {o}
      /\ fd' = [fd EXCEPT ![o] = -1] /\ is' = [is EXCEPT ![o] = 0]
      /\ share' = [share EXCEPT ![o] = None]
      /\ F!Release(share', alive')
      /\ UNCHANGED <<user, owner, created, kept, stale>>
  BY DEF F!Destroy, F!objVars
<1>2. share' \in [Obj -> Cell \union {None}] /\ alive' \in SUBSET Obj
  BY <1>1 DEF NInv, F!TypeOK
<1>3. Left(share', alive')
  BY <1>1, <1>2, Released
<1>4. F!TypeOK'
  BY <1>1, <1>2, <1>3 DEF Left, NInv, F!TypeOK
<1>5. CellsInv'
  BY <1>1, <1>3, NLeft
<1>6. AgreeInv'
  <2>1. ASSUME NEW x \in alive'
        PROVE  /\ share'[x] # None /\ x \notin mixed'
                    => fd'[x] = cell'[share'[x]].num /\ is'[x] = cell'[share'[x]].sock
               /\ share'[x] = None => is'[x] \notin kept'
    <3>1. /\ x \in alive /\ x # o /\ share'[x] = share[x] /\ fd'[x] = fd[x]
          /\ is'[x] = is[x] /\ (x \in mixed' <=> x \in mixed)
      BY <1>1 DEF NInv, F!TypeOK
    <3>2. CASE share[x] = None
      BY <1>1, <3>1, <3>2 DEF NInv, AgreeInv
    <3>3. CASE share[x] # None
      <4>1. share[x] \in Cell /\ Held(share[x])
        BY <3>1, <3>3 DEF Held, NInv, F!TypeOK
      <4>2. cell'[share[x]] = cell[share[x]]
        BY <1>3, <3>1, <4>1 DEF Left
      <4> QED
        BY <3>1, <3>3, <4>2 DEF NInv, AgreeInv
    <3> QED
      BY <3>2, <3>3
  <2> QED
    BY <2>1 DEF AgreeInv
<1>7. NumberedInv' /\ F!OwnedByUser'
  BY <1>1, <1>3 DEF Left, NInv, NumberedInv, F!OwnedByUser, F!TypeOK
<1> QED
  BY <1>1, <1>3, <1>4, <1>5, <1>6, <1>7 DEF Left, NInv

\* inner_close of a NetFD that is not shared: a cell's socket can only be hit if
\* that of the NetFD was closed before.
LEMMA NClose ==
    ASSUME NInv, NEW o \in Obj, F!Close(o)
    PROVE  NInv'
<1> USE ObjectsAssumption
<1>1. /\ o \in alive /\ fd[o] # -1 /\ share[o] = None
      /\ open' = [open EXCEPT ![fd[o]] = 0]
      /\ fd' = [fd EXCEPT ![o] = -1] /\ is' = [is EXCEPT ![o] = 0]
      /\ stale' = (stale \/ open[fd[o]] # is[o])
      /\ hit' = hit \union ({open[fd[o]]} \ {0, is[o]})
      /\ UNCHANGED <<alive, user, owner, share, cell, mixed, created, kept>>
  BY DEF F!Close, F!CloseNumber, F!objVars
<1>2. /\ fd[o] \in Number /\ open \in [Number -> 0 .. MaxSocket]
      /\ open[fd[o]] \in 0 .. MaxSocket /\ open[fd[o]] <= created
      /\ o \in Obj /\ is[o] \notin kept /\ 0 \notin kept
  <2>1. fd[o] \in Number /\ open \in [Number -> 0 .. MaxSocket]
    BY <1>1 DEF NInv, F!TypeOK
  <2>2. open[fd[o]] \in 0 .. MaxSocket /\ open[fd[o]] <= created
    BY <2>1 DEF NInv, NumberedInv
  <2>3. is[o] \notin kept /\ 0 \notin kept
    BY <1>1 DEF NInv, NumberedInv, AgreeInv
  <2> QED
    BY <2>1, <2>2, <2>3
<1>3. F!TypeOK'
  <2>1. /\ fd' \in [Obj -> Number \union {-1}] /\ is' \in [Obj -> 0 .. MaxSocket]
        /\ open' \in [Number -> 0 .. MaxSocket]
    BY <1>1, <1>2 DEF NInv, F!TypeOK
  <2>2. hit' \in SUBSET (0 .. MaxSocket) /\ stale' \in BOOLEAN
    BY <1>1, <1>2 DEF NInv, F!TypeOK
  <2> QED
    BY <1>1, <2>1, <2>2 DEF NInv, F!TypeOK
<1>4. CellsInv'
  BY <1>1 DEF NInv, CellsInv, Held
<1>5. OpenInv'
  <2>1. \A n \in Number : open'[n] = IF n = fd[o] THEN 0 ELSE open[n]
    BY <1>1, <1>2
  <2>2. ASSUME NEW c \in Cell, cell[c].num # -1
        PROVE  open'[cell[c].num] = cell[c].sock \/ cell[c].sock \in hit'
    <3>1. cell[c].num \in Number /\ cell[c].sock \in kept
      BY <2>2, CellValues DEF NInv, CellsInv
    <3>2. open[cell[c].num] = cell[c].sock \/ cell[c].sock \in hit
      BY <2>2 DEF NInv, OpenInv
    <3> QED
      BY <1>1, <1>2, <2>1, <3>1, <3>2
  <2>3. \A n \in Number : open'[n] \in kept
          => \E c \in Cell : cell[c] = [num |-> n, sock |-> open'[n]]
    BY <1>2, <2>1 DEF NInv, OpenInv
  <2> QED
    BY <1>1, <2>2, <2>3 DEF OpenInv
<1>6. AgreeInv' /\ F!OwnedByUser'
  <2>1. \A x \in alive : x # o => fd'[x] = fd[x] /\ is'[x] = is[x]
    BY <1>1 DEF NInv, F!TypeOK
  <2>2. is'[o] = 0
    BY <1>1, <1>2 DEF NInv, F!TypeOK
  <2> QED
    BY <1>1, <1>2, <2>1, <2>2 DEF NInv, AgreeInv, F!OwnedByUser
<1>7. NumberedInv'
  BY <1>1, <1>2 DEF NInv, NumberedInv, F!TypeOK
<1>8. hit' # {} => stale'
  BY <1>1 DEF NInv
<1> QED
  BY <1>3, <1>4, <1>5, <1>6, <1>7, <1>8 DEF NInv

\* Poll only writes owner_task, and it is its own task that it sets.
LEMMA NPoll ==
    ASSUME NInv, NEW o \in Obj, F!PollBegin(o) \/ F!PollEnd(o)
    PROVE  NInv'
<1> USE ObjectsAssumption
<1>1. /\ \E t \in {None, user[o]} : owner' = [owner EXCEPT ![o] = t]
      /\ UNCHANGED <<alive, user, fd, is, share, cell, open, created, kept,
                     mixed, stale, hit>>
  BY DEF F!PollBegin, F!PollEnd, F!objVars
<1>2. F!TypeOK' /\ F!OwnedByUser'
  BY <1>1 DEF NInv, F!TypeOK, F!OwnedByUser
<1>3. CellsInv' /\ OpenInv' /\ AgreeInv' /\ NumberedInv'
  BY <1>1 DEF NInv, CellsInv, Held, OpenInv, AgreeInv, NumberedInv
<1> QED
  BY <1>1, <1>2, <1>3 DEF NInv

-----------------------------------------------------------------------------
\* Every step preserves NInv, so also those of the functions on streams.
LEMMA NStep == NInv /\ [F!Next]_netfdVars => NInv'
<1> SUFFICES ASSUME NInv, [F!Next]_netfdVars PROVE NInv'
  OBVIOUS
<1>1. CASE F!Next
  <2>1. PICK o \in Obj :
          \/ \E shared \in BOOLEAN :
                F!Socket(o, shared) \/ F!SocketFails(o, shared)
          \/ F!Destroy(o) \/ F!Close(o)
          \/ F!PollBegin(o) \/ F!PollEnd(o)
          \/ \E r \in Obj : F!Copy(o, r) \/ F!Assign(o, r) \/ F!AssignShared(o, r)
    BY <1>1 DEF F!Next
  <2>2. CASE \E shared \in BOOLEAN :
               F!Socket(o, shared) \/ F!SocketFails(o, shared)
    BY <2>2, NSocket, NSocketFails
  <2>3. CASE F!Destroy(o) \/ F!Close(o)
    BY <2>3, NDestroy, NClose
  <2>4. CASE F!PollBegin(o) \/ F!PollEnd(o)
    BY <2>4, NPoll
  <2>5. CASE \E r \in Obj : F!Copy(o, r) \/ F!Assign(o, r) \/ F!AssignShared(o, r)
    BY <2>5, NCopy, NAssign, NAssignShared
  <2> QED
    BY <2>1, <2>2, <2>3, <2>4, <2>5
<1>2. CASE UNCHANGED netfdVars
  BY <1>2 DEF netfdVars, NInv, F!TypeOK, CellsInv, Held, OpenInv, AgreeInv,
              NumberedInv, F!OwnedByUser
<1> QED
  BY <1>1, <1>2

\* NInv says it of the cells: through them every NetFD has its own socket.
LEMMA NSafe == NInv => SharedFdLives
<1> SUFFICES ASSUME NInv PROVE SharedFdLives
  OBVIOUS
<1> USE ObjectsAssumption
<1>1. F!StaysOpen
  <2>1. \A o \in alive : share[o] # None => share[o] \in Cell
    BY DEF NInv, F!TypeOK
  <2> QED
    BY <2>1 DEF F!StaysOpen, NInv, AgreeInv, OpenInv
<1>2. F!ClosedByLast
  <2> SUFFICES ASSUME NEW n \in Number, open[n] \in kept
               PROVE  \E o \in alive :
                        share[o] # None /\ cell[share[o]] = [num |-> n, sock |-> open[n]]
    BY DEF F!ClosedByLast
  <2>1. PICK c \in Cell : cell[c] = [num |-> n, sock |-> open[n]]
    BY DEF NInv, OpenInv
  <2>2. n # -1 /\ c # None /\ cell[c].num = n
    BY <2>1, ObjectsAssumption
  <2>3. PICK o \in alive : share[o] = c
    BY <2>2 DEF NInv, CellsInv, Held
  <2> QED
    BY <2>1, <2>2, <2>3
<1> QED
  BY <1>1, <1>2 DEF NInv, SharedFdLives

\* For every number of NetFDs, tasks, descriptors and cells, and however shared
\* and other NetFDs are copied, assigned to each other, closed and destroyed: the
\* socket of a share_fd is open as long as a NetFD has it, unless another socket
\* was closed twice, and is closed with the last one, and no NetFD in use changes
\* hands (net_fd.cpp:245, 36).
THEOREM SharedFds == MCSpec => []SharedFdLives
<1>1. MCInit => NInv
  BY NInit DEF MCInit
<1>2. NInv /\ [MCNext]_mcVars => NInv'
  <2> SUFFICES ASSUME NInv, [MCNext]_mcVars PROVE NInv'
    OBVIOUS
  <2>1. [F!Next]_netfdVars
    BY DEF MCNext, Stream, Objects, mcVars
  <2> QED
    BY <2>1, NStep
<1> QED
  BY <1>1, <1>2, NSafe, PTL DEF MCSpec

-----------------------------------------------------------------------------
\* The rest is about the bytes.  Sums are folds, and iovecs are described by what
\* they add up to.

\* What FoldLeft computes its sum with: of every set of positions.
SumsOf(h, s, n) ==
    \A P \in SUBSET (1 .. n) :
        h[P] = IF P = {} THEN 0 ELSE h[P \ {Max(P)}] + s[Max(P)]

\* The last of the first positions.
LEMMA LastOf ==
  ASSUME NEW n \in Nat, NEW P \in SUBSET (1 .. n + 1), n + 1 \in P
  PROVE  Max(P) = n + 1 /\ P \ {Max(P)} \in SUBSET (1 .. n)
<1>1. \A y \in P : n + 1 >= y
  OBVIOUS
<1>2. Max(P) \in P /\ \A y \in P : Max(P) >= y
  BY <1>1 DEF Max
<1>3. Max(P) \in 1 .. n + 1 /\ Max(P) >= n + 1
  BY <1>2
<1>4. Max(P) = n + 1
  BY <1>3
<1> QED
  BY <1>4

Summable(s, n) == \E h \in [SUBSET (1 .. n) -> Nat] : SumsOf(h, s, n)

\* Such sums exist: by induction on the positions.
LEMMA SumsExist ==
  ASSUME NEW n \in Nat, NEW s \in [1 .. n -> Nat]
  PROVE  Summable(s, n)
<1> DEFINE Good == {k \in Nat : k <= n => Summable(s, k)}
<1>1. 0 \in Good
  <2> DEFINE h == [P \in SUBSET (1 .. 0) |-> 0]
  <2>1. h \in [SUBSET (1 .. 0) -> Nat]
    OBVIOUS
  <2>2. SumsOf(h, s, 0)
    BY DEF SumsOf
  <2> QED
    BY <2>1, <2>2 DEF Summable
<1>2. ASSUME NEW k \in Nat, k \in Good PROVE k + 1 \in Good
  <2> SUFFICES ASSUME k + 1 <= n
               PROVE  Summable(s, k + 1)
    OBVIOUS
  <2>9. Summable(s, k)
    <3>1. k <= n
      OBVIOUS
    <3> QED
      BY <1>2, <3>1
  <2>1. PICK g \in [SUBSET (1 .. k) -> Nat] : SumsOf(g, s, k)
    BY <2>9 DEF Summable
  <2> DEFINE h == [P \in SUBSET (1 .. k + 1) |->
                     IF k + 1 \in P THEN g[P \ {k + 1}] + s[k + 1] ELSE g[P]]
  <2>2. s[k + 1] \in Nat
    OBVIOUS
  <2>3. \A P \in SUBSET (1 .. k + 1) : P \ {k + 1} \in SUBSET (1 .. k)
    OBVIOUS
  <2>4. \A P \in SUBSET (1 .. k + 1) : k + 1 \notin P => P \in SUBSET (1 .. k)
    <3>1. \A i \in 1 .. k + 1 : i # k + 1 => i \in 1 .. k
      OBVIOUS
    <3> QED
      BY <3>1
  <2>10. \A P \in SUBSET (1 .. k + 1) :
            (IF k + 1 \in P THEN g[P \ {k + 1}] + s[k + 1] ELSE g[P]) \in Nat
    BY <2>1, <2>2, <2>3, <2>4
  <2>5. h \in [SUBSET (1 .. k + 1) -> Nat]
    BY <2>10
  <2>6. ASSUME NEW P \in SUBSET (1 .. k) PROVE h[P] = g[P] /\ P \in SUBSET (1 .. k + 1)
    OBVIOUS
  <2>7. ASSUME NEW P \in SUBSET (1 .. k + 1)
        PROVE  h[P] = IF P = {} THEN 0 ELSE h[P \ {Max(P)}] + s[Max(P)]
    <3>1. CASE k + 1 \in P
      <4>1. Max(P) = k + 1 /\ P \ {Max(P)} \in SUBSET (1 .. k)
        BY <3>1, LastOf
      <4>2. h[P] = g[P \ {k + 1}] + s[k + 1]
        BY <3>1
      <4> QED
        BY <2>6, <3>1, <4>1, <4>2
    <3>2. CASE k + 1 \notin P
      <4>1. P \in SUBSET (1 .. k) /\ h[P] = g[P]
        BY <2>4, <3>2
      <4>2. P \ {Max(P)} \in SUBSET (1 .. k)
        BY <4>1
      <4>3. h[P \ {Max(P)}] = g[P \ {Max(P)}]
        BY <2>6, <4>2
      <4> QED
        BY <2>1, <4>1, <4>3 DEF SumsOf
    <3> QED
      BY <3>1, <3>2
  <2> HIDE DEF h
  <2>8. SumsOf(h, s, k + 1)
    BY <2>7 DEF SumsOf
  <2> QED
    BY <2>5, <2>8, Zenon DEF Summable
<1>3. Nat \subseteq Good
  <2> HIDE DEF Good
  <2> QED
    BY <1>1, <1>2, SetInduction
<1> QED
  BY <1>3

\* Partial sums of s.
Partial(g, s) ==
    /\ g \in [0 .. Len(s) -> Nat] /\ g[0] = 0
    /\ \A k \in 1 .. Len(s) : g[k] = g[k - 1] + s[k]

\* The sum of s is the last of its partial sums.
LEMMA SumIsLast ==
  ASSUME NEW s \in Seq(Nat)
  PROVE  \E g : Partial(g, s) /\ Sum(s) = g[Len(s)]
<1> DEFINE n == Len(s)
           Body(h) == [P \in SUBSET DOMAIN s |->
                         IF P = {} THEN 0 ELSE h[P \ {Max(P)}] + s[Max(P)]]
           c == CHOOSE h : h = Body(h)
<1>1. n \in Nat /\ DOMAIN s = 1 .. n /\ s \in [1 .. n -> Nat]
  BY LenProperties
<1>2. PICK h \in [SUBSET (1 .. n) -> Nat] : SumsOf(h, s, n)
  BY <1>1, SumsExist DEF Summable
<1>3. h = Body(h)
  BY <1>1, <1>2 DEF SumsOf
<1>4. c = Body(c)
  BY <1>3
<1>5. Sum(s) = c[1 .. n]
  BY <1>1 DEF Sum, FoldLeft, MapThenFoldSet
<1>6. \A P \in SUBSET (1 .. n) :
        c[P] = IF P = {} THEN 0 ELSE c[P \ {Max(P)}] + s[Max(P)]
  <2> HIDE DEF c
  <2>1. \A P \in SUBSET DOMAIN s : c[P] = Body(c)[P]
    BY <1>4
  <2> QED
    BY <1>1, <2>1
<1> HIDE DEF c, n
<1> DEFINE g == [k \in 0 .. n |-> c[1 .. k]]
<1>7. g[0] = 0
  <2>1. 1 .. 0 = {} /\ 1 .. 0 \in SUBSET (1 .. n) /\ 0 \in 0 .. n
    BY <1>1
  <2>2. c[1 .. 0] = 0
    BY <1>6, <2>1
  <2> QED
    BY <2>1, <2>2
<1>8. ASSUME NEW k \in 1 .. n PROVE g[k] = g[k - 1] + s[k]
  <2>1. k \in 0 .. n /\ k - 1 \in 0 .. n /\ k - 1 \in Nat /\ k - 1 + 1 = k
    BY <1>1
  <2>2. 1 .. k \in SUBSET (1 .. n) /\ k \in 1 .. k /\ 1 .. k # {}
    BY <1>1
  <2>3. Max(1 .. k) = k
    BY <2>1, <2>2, LastOf
  <2>4. (1 .. k) \ {k} = 1 .. k - 1
    BY <1>1
  <2>5. c[1 .. k] = c[(1 .. k) \ {k}] + s[k]
    BY <1>6, <2>2, <2>3
  <2> QED
    BY <2>1, <2>4, <2>5
<1> HIDE DEF g
<1> DEFINE Good == {k \in Nat : k <= n => g[k] \in Nat}
<1>9. 0 \in Good
  BY <1>7
<1>10. ASSUME NEW k \in Nat, k \in Good PROVE k + 1 \in Good
  <2> SUFFICES ASSUME k + 1 <= n PROVE g[k + 1] \in Nat
    OBVIOUS
  <2>1. k + 1 \in 1 .. n /\ (k + 1) - 1 = k /\ g[k] \in Nat
    BY <1>1, <1>10
  <2>2. g[k + 1] = g[k] + s[k + 1] /\ s[k + 1] \in Nat
    BY <1>1, <1>8, <2>1
  <2> QED
    BY <2>1, <2>2
<1>11. Nat \subseteq Good
  <2> HIDE DEF Good
  <2> QED
    BY <1>9, <1>10, SetInduction
<1>12. g \in [0 .. n -> Nat]
  <2>1. ASSUME NEW k \in 0 .. n PROVE c[1 .. k] \in Nat
    <3>1. g[k] \in Nat
      BY <1>1, <1>11
    <3> QED
      BY <3>1 DEF g
  <2> QED
    BY <2>1 DEF g
<1>13. Sum(s) = g[n]
  BY <1>1, <1>5 DEF g
<1>14. Partial(g, s)
  BY <1>7, <1>8, <1>12 DEF Partial, n
<1>15. Sum(s) = g[Len(s)]
  BY <1>13 DEF n
<1> QED
  BY <1>14, <1>15

\* Partial sums are determined.
LEMMA PartialsAgree ==
  ASSUME NEW s \in Seq(Nat), NEW t \in Seq(Nat), NEW g, NEW h,
         Partial(g, s), Partial(h, t), Len(t) <= Len(s),
         \A k \in 1 .. Len(t) : t[k] = s[k]
  PROVE  \A k \in 0 .. Len(t) : g[k] = h[k]
<1> DEFINE n == Len(s)  m == Len(t)
           Good == {k \in Nat : k <= m => g[k] = h[k]}
<1>1. n \in Nat /\ m \in Nat /\ m <= n
  BY LenProperties
<1>2. /\ g[0] = 0 /\ \A k \in 1 .. n : g[k] = g[k - 1] + s[k]
      /\ h[0] = 0 /\ \A k \in 1 .. m : h[k] = h[k - 1] + t[k]
      /\ \A k \in 1 .. m : t[k] = s[k]
  BY DEF Partial
<1> HIDE DEF n, m
<1>3. 0 \in Good
  BY <1>2
<1>4. ASSUME NEW k \in Nat, k \in Good PROVE k + 1 \in Good
  <2> SUFFICES ASSUME k + 1 <= m PROVE g[k + 1] = h[k + 1]
    OBVIOUS
  <2>1. k + 1 \in 1 .. m /\ k + 1 \in 1 .. n /\ (k + 1) - 1 = k /\ g[k] = h[k]
    BY <1>1, <1>4
  <2> QED
    BY <1>2, <2>1
<1>5. Nat \subseteq Good
  <2> HIDE DEF Good
  <2> QED
    BY <1>3, <1>4, SetInduction
<1> QED
  BY <1>1, <1>5 DEF m

\* The sums of the first of s are its partial sums.
LEMMA SumOfFirst ==
  ASSUME NEW s \in Seq(Nat)
  PROVE  \E g : Partial(g, s)
                /\ Sum(s) = g[Len(s)]
                /\ \A k \in 0 .. Len(s) : Sum(SubSeq(s, 1, k)) = g[k]
<1>1. PICK g : Partial(g, s) /\ Sum(s) = g[Len(s)]
  BY SumIsLast
<1>2. ASSUME NEW k \in 0 .. Len(s) PROVE Sum(SubSeq(s, 1, k)) = g[k]
  <2> DEFINE t == SubSeq(s, 1, k)
  <2>1. Len(s) \in Nat /\ k \in Nat
    BY LenProperties
  <2>2. t \in Seq(Nat) /\ Len(t) = k /\ \A i \in 1 .. k : t[i] = s[i]
    <3>1. CASE k = 0
      <4>1. t = <<>>
        BY <2>1, <3>1, SubSeqProperties
      <4> QED
        BY <3>1, <4>1, EmptySeq
    <3>2. CASE k # 0
      <4>1. \A i \in 1 .. k : i \in 1 .. Len(s) /\ i - 1 + 1 = i
        BY <2>1
      <4>2. t \in Seq(Nat) /\ Len(t) = k /\ \A i \in 1 .. k : t[i] = s[1 + i - 1]
        BY <2>1, <3>2
      <4> QED
        BY <4>1, <4>2
    <3> QED
      BY <3>1, <3>2
  <2> HIDE DEF t
  <2>3. PICK h : Partial(h, t) /\ Sum(t) = h[Len(t)]
    BY <2>2, SumIsLast
  <2>4. g[k] = h[k]
    <3>1. k \in 0 .. Len(t) /\ Len(t) <= Len(s)
      BY <2>1, <2>2
    <3> QED
      BY <1>1, <2>2, <2>3, <3>1, PartialsAgree
  <2> QED
    BY <2>2, <2>3, <2>4 DEF t
<1> QED
  BY <1>1, <1>2

IoVec == [base : Nat, len : Nat]

\* g is how many bytes the first iovecs of v have.
Runs(g, v) ==
    /\ g \in [0 .. Len(v) -> Nat] /\ g[0] = 0
    /\ \A k \in 1 .. Len(v) : g[k] = g[k - 1] + v[k].len

\* The lengths of the iovecs of v, and their partial sums.
LEMMA LensIs ==
  ASSUME NEW v \in Seq(IoVec)
  PROVE  /\ [i \in DOMAIN v |-> v[i].len] \in Seq(Nat)
         /\ Len([i \in DOMAIN v |-> v[i].len]) = Len(v)
         /\ \A g : Runs(g, v) <=> Partial(g, [i \in DOMAIN v |-> v[i].len])
<1> DEFINE s == [i \in DOMAIN v |-> v[i].len]
<1>1. Len(v) \in Nat /\ DOMAIN v = 1 .. Len(v) /\ \A i \in 1 .. Len(v) : v[i] \in IoVec
  BY LenProperties, ElementOfSeq
<1>2. s \in [1 .. Len(v) -> Nat]
  BY <1>1 DEF IoVec
<1>3. s \in Seq(Nat) /\ Len(s) = Len(v)
  BY <1>1, <1>2
<1>4. \A k \in 1 .. Len(v) : s[k] = v[k].len
  BY <1>1
<1> HIDE DEF s
<1>5. ASSUME NEW g PROVE Runs(g, v) <=> Partial(g, s)
  BY <1>3, <1>4 DEF Runs, Partial
<1> QED
  BY <1>3, <1>5 DEF s

\* There is such a g for every v.
LEMMA RunsExist ==
  ASSUME NEW v \in Seq(IoVec)
  PROVE  \E g : Runs(g, v)
<1>1. PICK g : Partial(g, [i \in DOMAIN v |-> v[i].len])
  BY LensIs, SumIsLast
<1> QED
  BY <1>1, LensIs

\* Total and Upto are its values.
LEMMA TotalIs ==
  ASSUME NEW v \in Seq(IoVec), NEW g, Runs(g, v)
  PROVE  Total(v) = g[Len(v)] /\ Total(v) \in Nat
<1> DEFINE s == [i \in DOMAIN v |-> v[i].len]
<1>1. s \in Seq(Nat) /\ Len(s) = Len(v) /\ Partial(g, s)
  BY LensIs
<1>2. Total(v) = Sum(s)
  BY DEF Total
<1> HIDE DEF s
<1>3. PICK h : Partial(h, s) /\ Sum(s) = h[Len(s)]
  BY <1>1, SumIsLast
<1>4. Len(s) \in 0 .. Len(s) /\ Len(s) <= Len(s)
  BY <1>1, LenProperties
<1>5. \A k \in 0 .. Len(s) : g[k] = h[k]
  BY <1>1, <1>3, <1>4, PartialsAgree
<1>6. g[Len(v)] \in Nat
  BY <1>1, <1>4 DEF Runs
<1> QED
  BY <1>1, <1>2, <1>3, <1>4, <1>5, <1>6

LEMMA UptoIs ==
  ASSUME NEW v \in Seq(IoVec), NEW g, Runs(g, v), NEW k \in 0 .. Len(v)
  PROVE  Upto(v, k) = g[k] /\ Upto(v, k) \in Nat
<1> DEFINE w == SubSeq(v, 1, k)
           h == [i \in 0 .. k |-> g[i]]
<1>1. Len(v) \in Nat /\ k \in Nat /\ k <= Len(v)
  BY LenProperties
<1>2. w \in Seq(IoVec) /\ Len(w) = k /\ \A i \in 1 .. k : w[i] = v[i]
  BY FirstOf
<1> HIDE DEF w
<1>3. \A i \in 0 .. k : i \in 0 .. Len(v) /\ g[i] \in Nat
  BY <1>1 DEF Runs
<1>4. h \in [0 .. k -> Nat] /\ h[0] = 0
  BY <1>1, <1>3 DEF Runs
<1>5. ASSUME NEW i \in 1 .. k PROVE h[i] = h[i - 1] + w[i].len
  <2>1. i \in 1 .. Len(v) /\ i \in 0 .. k /\ i - 1 \in 0 .. k
    BY <1>1
  <2>2. g[i] = g[i - 1] + v[i].len
    BY <2>1 DEF Runs
  <2> QED
    BY <1>2, <2>1, <2>2
<1>6. h[k] = g[k]
  BY <1>1
<1> HIDE DEF h
<1>7. Runs(h, w)
  BY <1>2, <1>4, <1>5 DEF Runs
<1>8. Total(w) = h[k] /\ Total(w) \in Nat
  BY <1>2, <1>7, TotalIs
<1> QED
  BY <1>6, <1>8 DEF Upto, w

\* They never decrease.
LEMMA RunsGrow ==
  ASSUME NEW v \in Seq(IoVec), NEW g, Runs(g, v),
         NEW i \in 0 .. Len(v), NEW j \in 0 .. Len(v), i <= j
  PROVE  g[i] <= g[j]
<1> DEFINE n == Len(v)
           Good == {k \in Nat : i + k <= n => g[i] <= g[i + k]}
<1>1. n \in Nat /\ g \in [0 .. n -> Nat] /\ i \in 0 .. n
  BY LenProperties DEF Runs
<1>2. \A k \in 1 .. n : g[k] = g[k - 1] + v[k].len /\ v[k].len \in Nat
  <2>1. \A k \in 1 .. n : v[k] \in IoVec
    BY ElementOfSeq
  <2> QED
    BY <2>1 DEF Runs, IoVec
<1> HIDE DEF n
<1>3. 0 \in Good
  BY <1>1
<1>4. ASSUME NEW k \in Nat, k \in Good PROVE k + 1 \in Good
  <2> SUFFICES ASSUME i + (k + 1) <= n PROVE g[i] <= g[i + (k + 1)]
    OBVIOUS
  <2> DEFINE l == i + (k + 1)
  <2>1. l \in 1 .. n /\ l - 1 = i + k /\ l - 1 \in 0 .. n /\ l \in 0 .. n
    BY <1>1
  <2>2. g[i] <= g[l - 1]
    <3>1. i + k <= n
      BY <1>1
    <3>2. g[i] <= g[i + k]
      BY <1>4, <3>1
    <3> QED
      BY <2>1, <3>2
  <2> HIDE DEF l
  <2>3. g[l] = g[l - 1] + v[l].len /\ v[l].len \in Nat /\ g[l] \in Nat
        /\ g[l - 1] \in Nat /\ g[i] \in Nat
    BY <1>1, <1>2, <2>1
  <2>4. g[i] <= g[l]
    BY <2>1, <2>2, <2>3
  <2> QED
    BY <2>4 DEF l
<1>5. Nat \subseteq Good
  <2> HIDE DEF Good
  <2> QED
    BY <1>3, <1>4, SetInduction
<1>6. j - i \in Nat /\ i + (j - i) = j /\ j <= n
  BY <1>1 DEF n
<1> QED
  BY <1>5, <1>6

\* v stands for the t bytes behind s, in order.
Chained(v, s, t) ==
    /\ v \in Seq(IoVec)
    /\ \E g : /\ Runs(g, v) /\ g[Len(v)] = t
              /\ \A i \in 1 .. Len(v) : v[i].base = s + g[i - 1]

\* The length of what v stands for.
LEMMA ChainedTotal ==
  ASSUME NEW v, NEW s, NEW t, Chained(v, s, t)
  PROVE  Total(v) = t /\ t \in Nat
BY TotalIs DEF Chained

\* Without its first iovecs and m bytes of the next.
LEMMA CutOff ==
  ASSUME NEW s \in Nat, NEW t, NEW v, NEW k \in Nat, NEW m \in Nat, Chained(v, s, t),
         k < Len(v), Upto(v, k) + m <= Upto(v, k + 1)
  PROVE  LET rest == SubSeq(v, k + 1, Len(v))
             w == [rest EXCEPT ![1] = [base |-> @.base + m, len |-> @.len - m]]
         IN  /\ rest # <<>> /\ w # <<>>
             /\ Chained(w, s + (Upto(v, k) + m), t - (Upto(v, k) + m))
<1> DEFINE rest == SubSeq(v, k + 1, Len(v))
           w == [rest EXCEPT ![1] = [base |-> @.base + m, len |-> @.len - m]]
           L == Len(v)
           n == Upto(v, k) + m
<1>1. v \in Seq(IoVec) /\ L \in Nat /\ \A i \in 1 .. L : v[i] \in IoVec
  BY ElementOfSeq, LenProperties DEF Chained
<1>2. PICK g : /\ Runs(g, v) /\ g[L] = t
               /\ \A i \in 1 .. L : v[i].base = s + g[i - 1]
  BY DEF Chained
<1>3. /\ g \in [0 .. L -> Nat]
      /\ \A i \in 1 .. L : g[i] = g[i - 1] + v[i].len
  BY <1>2 DEF Runs
<1>4. k \in 0 .. L /\ k + 1 \in 1 .. L /\ k + 1 \in 0 .. L /\ (k + 1) - 1 = k
  BY <1>1
<1>5. Upto(v, k) = g[k] /\ Upto(v, k + 1) = g[k + 1] /\ g[k] \in Nat /\ g[k + 1] \in Nat
  BY <1>1, <1>2, <1>3, <1>4, UptoIs
<1>6. n = g[k] + m /\ n \in Nat /\ m <= v[k + 1].len
  <2>1. g[k + 1] = g[k] + v[k + 1].len /\ v[k + 1].len \in Nat
    BY <1>1, <1>3, <1>4 DEF IoVec
  <2> QED
    BY <1>5, <2>1
<1>7. /\ rest \in Seq(IoVec) /\ Len(rest) = L - k /\ L - k \in Nat /\ L - k >= 1
      /\ \A i \in 1 .. L - k : rest[i] = v[k + i]
  <2>1. rest \in Seq(IoVec) /\ Len(rest) = L - (k + 1) + 1
        /\ \A i \in 1 .. L - (k + 1) + 1 : rest[i] = v[(k + 1) + i - 1]
    BY <1>1, <1>4
  <2>2. L - (k + 1) + 1 = L - k /\ \A i \in 1 .. L - k : (k + 1) + i - 1 = k + i
    BY <1>1
  <2> QED
    BY <1>1, <1>4, <2>1, <2>2
<1> HIDE DEF rest
<1> DEFINE first == [base |-> v[k + 1].base + m, len |-> v[k + 1].len - m]
           h == [i \in 0 .. L - k |-> IF i = 0 THEN 0 ELSE g[k + i] - n]
<1>8. first \in IoVec
  BY <1>1, <1>4, <1>6 DEF IoVec
<1>9. /\ w \in Seq(IoVec) /\ Len(w) = L - k /\ w[1] = first
      /\ \A i \in 2 .. L - k : w[i] = v[k + i]
  <2>1. DOMAIN rest = 1 .. L - k /\ 1 \in DOMAIN rest /\ rest[1] = v[k + 1]
    BY <1>7, LenProperties
  <2>2. w = [rest EXCEPT ![1] = first]
    BY <2>1
  <2>3. w \in Seq(IoVec) /\ Len(w) = Len(rest)
    BY <1>7, <1>8, <2>1, <2>2, ExceptSeq
  <2>4. w[1] = first /\ \A i \in 2 .. L - k : w[i] = rest[i]
    BY <2>1, <2>2
  <2>5. \A i \in 2 .. L - k : i \in 1 .. L - k
    BY <1>7
  <2> QED
    BY <1>7, <2>3, <2>4, <2>5
<1>10. ASSUME NEW i \in 1 .. L - k
       PROVE  k + i \in 0 .. L /\ g[k + i] \in Nat /\ n <= g[k + i]
  <2>1. k + i \in 0 .. L /\ k + 1 <= k + i
    BY <1>1, <1>4
  <2>2. g[k + 1] <= g[k + i]
    BY <1>1, <1>2, <1>4, <2>1, RunsGrow
  <2>3. n <= g[k + 1]
    BY <1>5
  <2>4. g[k + i] \in Nat
    BY <1>3, <2>1
  <2> QED
    BY <1>5, <1>6, <2>1, <2>2, <2>3, <2>4
<1> HIDE DEF n
<1>11. h \in [0 .. L - k -> Nat]
  <2>1. \A i \in 0 .. L - k : i # 0 => i \in 1 .. L - k
    BY <1>7
  <2>2. \A i \in 0 .. L - k : (IF i = 0 THEN 0 ELSE g[k + i] - n) \in Nat
    BY <1>6, <1>10, <2>1
  <2> QED
    BY <2>2
<1>12. h[0] = 0 /\ \A i \in 1 .. L - k : h[i] = g[k + i] - n
  <2>1. 0 \in 0 .. L - k /\ \A i \in 1 .. L - k : i \in 0 .. L - k /\ i # 0
    BY <1>7
  <2> QED
    BY <2>1
<1> HIDE DEF h, w
<1>13. ASSUME NEW i \in 1 .. L - k
       PROVE  h[i] = h[i - 1] + w[i].len /\ w[i].base = (s + n) + h[i - 1]
  <2>1. g[k + i] = g[k + (i - 1)] + v[k + i].len /\ v[k + i].base = s + g[k + (i - 1)]
    <3>1. k + i \in 1 .. L /\ (k + i) - 1 = k + (i - 1)
      BY <1>1, <1>4
    <3> QED
      BY <1>2, <1>3, <3>1
  <2>2. v[k + i] \in IoVec /\ g[k + i] \in Nat
    BY <1>1, <1>10
  <2>3. CASE i = 1
    <3>1. h[i] = g[k + 1] - n /\ h[i - 1] = 0 /\ w[i] = first
      BY <1>9, <1>12, <2>3
    <3>2. g[k + 1] = g[k] + v[k + 1].len /\ v[k + 1].base = s + g[k]
      BY <2>1, <2>3
    <3>3. v[k + 1].base \in Nat /\ v[k + 1].len \in Nat
      BY <2>2, <2>3 DEF IoVec
    <3>4. w[i].len = v[k + 1].len - m /\ w[i].base = v[k + 1].base + m
      BY <3>1
    <3>5. h[i] = 0 + (v[k + 1].len - m)
      <4> DEFINE a == g[k]  c == v[k + 1].len  hi == h[i]
      <4>1. a \in Nat /\ c \in Nat /\ n = a + m /\ hi = (a + c) - n
        BY <1>5, <1>6, <3>1, <3>2, <3>3
      <4> HIDE DEF a, c, hi
      <4>2. hi = 0 + (c - m)
        BY <4>1
      <4> QED
        BY <4>2 DEF hi, c
    <3>6. v[k + 1].base + m = (s + n) + 0
      BY <1>5, <1>6, <3>2
    <3> QED
      BY <3>1, <3>4, <3>5, <3>6
  <2>4. CASE i # 1
    <3>1. i \in 2 .. L - k /\ i - 1 \in 1 .. L - k
      BY <1>7, <2>4
    <3>2. h[i] = g[k + i] - n /\ h[i - 1] = g[k + (i - 1)] - n /\ w[i] = v[k + i]
      BY <1>9, <1>12, <3>1
    <3>3. g[k + (i - 1)] \in Nat
      BY <1>10, <3>1
    <3>4. v[k + i].base \in Nat /\ v[k + i].len \in Nat
      BY <2>2 DEF IoVec
    <3> DEFINE a == g[k + (i - 1)]  b == v[k + i].base  c == v[k + i].len
    <3>5. n \in Nat /\ a \in Nat /\ b \in Nat /\ c \in Nat
      BY <1>6, <3>3, <3>4
    <3>6. h[i] = (a + c) - n /\ h[i - 1] = a - n /\ b = s + a
          /\ w[i].len = c /\ w[i].base = b
      BY <2>1, <3>2
    <3> HIDE DEF a, b, c
    <3> QED
      BY <3>5, <3>6
  <2> QED
    BY <2>3, <2>4
<1>14. h[Len(w)] = t - n
  <2>1. L - k \in 1 .. L - k /\ k + (L - k) = L
    BY <1>1, <1>7
  <2> QED
    BY <1>2, <1>9, <1>12, <2>1
<1>15. Runs(h, w) /\ h[Len(w)] = t - n
       /\ \A i \in 1 .. Len(w) : w[i].base = (s + n) + h[i - 1]
  BY <1>9, <1>11, <1>12, <1>13, <1>14 DEF Runs
<1>16. Chained(w, s + n, t - n)
  BY <1>9, <1>15 DEF Chained
<1>17. rest # <<>> /\ w # <<>>
  BY <1>7, <1>9, EmptySeq
<1> QED
  BY <1>16, <1>17 DEF rest, w, n

\* The iovecs up to where n bytes end.
LEMMA LastFull ==
  ASSUME NEW s \in Nat, NEW t, NEW v, Chained(v, s, t), NEW n \in 0 .. t
  PROVE  LET k == Max({j \in 0 .. Len(v) : Upto(v, j) <= n})
         IN  /\ k \in 0 .. Len(v) /\ Upto(v, k) \in Nat /\ Upto(v, k) <= n
             /\ k < Len(v) => n < Upto(v, k + 1) /\ Upto(v, k + 1) \in Nat
             /\ k = Len(v) => n = t /\ Upto(v, k) = n
<1> DEFINE T == {j \in 0 .. Len(v) : Upto(v, j) <= n}
           k == Max(T)
           L == Len(v)
<1>1. v \in Seq(IoVec) /\ L \in Nat /\ t \in Nat
  BY LenProperties, ChainedTotal DEF Chained
<1>2. PICK g : Runs(g, v) /\ g[L] = t
  BY DEF Chained
<1>3. \A j \in 0 .. L : Upto(v, j) = g[j] /\ Upto(v, j) \in Nat
  BY <1>1, <1>2, UptoIs
<1>4. Upto(v, 0) = 0 /\ Upto(v, L) = t
  <2>1. 0 \in 0 .. L /\ L \in 0 .. L
    BY <1>1
  <2> QED
    BY <1>2, <1>3, <2>1 DEF Runs
<1>5. 0 \in T
  BY <1>1, <1>4
<1>6. k \in T /\ \A y \in T : k >= y
  <2>1. T \subseteq 0 .. L /\ T # {}
    BY <1>5
  <2> HIDE DEF T
  <2> QED
    BY <1>1, <2>1, MaxOf
<1>7. k \in 0 .. L /\ Upto(v, k) <= n /\ Upto(v, k) \in Nat
  BY <1>3, <1>6
<1> HIDE DEF k
<1>8. ASSUME k < L PROVE n < Upto(v, k + 1) /\ Upto(v, k + 1) \in Nat
  <2>1. k + 1 \in 0 .. L /\ ~ (k >= k + 1)
    BY <1>1, <1>7, <1>8
  <2>2. k + 1 \notin T
    BY <1>6, <2>1
  <2>3. ~ (Upto(v, k + 1) <= n)
    BY <2>1, <2>2
  <2> QED
    BY <1>1, <1>3, <2>1, <2>3
<1>9. ASSUME k = L PROVE n = t /\ Upto(v, k) = n
  BY <1>1, <1>4, <1>7, <1>9
<1> QED
  BY <1>7, <1>8, <1>9 DEF k

\* Nothing is left of no iovecs.
LEMMA ChainedEmpty ==
  ASSUME NEW s
  PROVE  Chained(<<>>, s, 0)
<1> DEFINE g == [i \in 0 .. 0 |-> 0]
<1>1. <<>> \in Seq(IoVec) /\ Len(<<>>) = 0
  BY EmptySeq
<1>2. Runs(g, <<>>) /\ g[Len(<<>>)] = 0
  BY <1>1 DEF Runs
<1>3. \A i \in 1 .. Len(<<>>) : <<>>[i].base = s + g[i - 1]
  BY <1>1
<1> HIDE DEF g
<1> QED
  BY <1>1, <1>2, <1>3 DEF Chained

\* Advance and Rest leave what comes behind n bytes.
LEMMA AdvanceIs ==
  ASSUME NEW s \in Nat, NEW t, NEW v, Chained(v, s, t), NEW n \in 0 .. t
  PROVE  Chained(Advance(v, n), s + n, t - n)
<1> DEFINE L == Len(v)
           exact == {j \in 1 .. L : Upto(v, j) = n}
           last == Max({j \in 0 .. L : Upto(v, j) <= n})
           k == IF exact # {} THEN Min(exact) ELSE last
           rest == SubSeq(v, k + 1, L)
           m == n - Upto(v, k)
           w == [rest EXCEPT ![1] = [base |-> @.base + m, len |-> @.len - m]]
<1>1. v \in Seq(IoVec) /\ L \in Nat /\ t \in Nat /\ n \in Nat
  <2>1. v \in Seq(IoVec) /\ t \in Nat
    BY ChainedTotal DEF Chained
  <2> QED
    BY <2>1, LenProperties
<1>2. PICK g : Runs(g, v) /\ g[L] = t
  BY DEF Chained
<1>3. \A j \in 0 .. L : Upto(v, j) = g[j] /\ Upto(v, j) \in Nat
  BY <1>1, <1>2, UptoIs
<1>4. Advance(v, n) = IF rest = <<>> THEN <<>> ELSE w
  BY DEF Advance
<1> HIDE DEF rest, w, m
<1>5. k \in 0 .. L /\ m \in Nat
      /\ (k < L => Upto(v, k) + m <= Upto(v, k + 1))
      /\ (k = L => n = t)
  <2>1. CASE exact # {}
    <3>1. exact \subseteq Nat
      BY <1>1
    <3>2. k \in exact
      <4> HIDE DEF exact
      <4> QED
        BY <2>1, <3>1, MinOf
    <3>3. k \in 1 .. L /\ k \in 0 .. L /\ Upto(v, k) = n
      BY <3>2
    <3> HIDE DEF k
    <3>4. m = 0
      BY <1>1, <3>3 DEF m
    <3>5. ASSUME k < L PROVE Upto(v, k) + m <= Upto(v, k + 1)
      <4>1. k + 1 \in 0 .. L /\ k <= k + 1
        BY <1>1, <3>3, <3>5
      <4>2. g[k] <= g[k + 1]
        BY <1>1, <1>2, <3>3, <4>1, RunsGrow
      <4>3. Upto(v, k) = g[k] /\ Upto(v, k + 1) = g[k + 1]
        BY <1>3, <3>3, <4>1
      <4> QED
        BY <1>1, <3>3, <3>4, <4>2, <4>3
    <3>6. ASSUME k = L PROVE n = t
      BY <1>2, <1>3, <3>3, <3>6
    <3> QED
      BY <3>3, <3>4, <3>5, <3>6
  <2>2. CASE exact = {}
    <3>1. k = last
      BY <2>2
    <3> HIDE DEF k, exact
    <3>2. /\ last \in 0 .. L /\ Upto(v, last) \in Nat /\ Upto(v, last) <= n
          /\ last < L => n < Upto(v, last + 1) /\ Upto(v, last + 1) \in Nat
          /\ last = L => n = t /\ Upto(v, last) = n
      BY LastFull, Zenon
    <3> HIDE DEF last
    <3> QED
      BY <1>1, <3>1, <3>2 DEF m
  <2> QED
    BY <2>1, <2>2
<1>6. Upto(v, k) + m = n
  <2>1. Upto(v, k) \in Nat
    BY <1>3, <1>5
  <2> HIDE DEF k
  <2> QED
    BY <1>1, <2>1 DEF m
<1> HIDE DEF k
<1>7. CASE k < L
  <2>1. k \in Nat
    BY <1>5
  <2>2. rest # <<>> /\ Chained(w, s + n, t - n)
    BY <1>5, <1>6, <1>7, <2>1, CutOff DEF rest, w
  <2> QED
    BY <1>4, <2>2
<1>8. CASE k = L
  <2>1. rest = <<>>
    <3>1. L + 1 > L
      BY <1>1
    <3> QED
      BY <1>1, <1>8, <3>1, SubSeqProperties DEF rest
  <2>2. t - n = 0
    BY <1>1, <1>5, <1>8
  <2> QED
    BY <1>4, <2>1, <2>2, ChainedEmpty
<1> QED
  BY <1>1, <1>5, <1>7, <1>8

LEMMA RestIs ==
  ASSUME NEW t, Chained(iov, 0, t), NEW n \in 0 .. t, n # t
  PROVE  Chained(Rest(n), n, t - n)
<1> DEFINE k == Max({j \in 0 .. Len(iov) : Upto(iov, j) <= n})
           m == n - Upto(iov, k)
<1>1. Len(iov) \in Nat /\ t \in Nat /\ n \in Nat
  <2>1. iov \in Seq(IoVec) /\ t \in Nat
    BY ChainedTotal DEF Chained
  <2> QED
    BY <2>1, LenProperties
<1>2. /\ k \in 0 .. Len(iov) /\ Upto(iov, k) \in Nat /\ Upto(iov, k) <= n
      /\ k < Len(iov) => n < Upto(iov, k + 1) /\ Upto(iov, k + 1) \in Nat
      /\ k = Len(iov) => n = t
  BY LastFull
<1> HIDE DEF k
<1>3. k < Len(iov) /\ k \in Nat
  BY <1>1, <1>2
<1>4. m \in Nat /\ Upto(iov, k) + m = n /\ Upto(iov, k) + m <= Upto(iov, k + 1)
  BY <1>1, <1>2, <1>3
<1> HIDE DEF m
<1>5. LET rest == SubSeq(iov, k + 1, Len(iov))
          w == [rest EXCEPT ![1] = [base |-> @.base + m, len |-> @.len - m]]
      IN  Chained(w, 0 + n, t - n)
  BY <1>3, <1>4, CutOff
<1>6. 0 + n = n
  BY <1>1
<1> QED
  BY <1>5, <1>6 DEF Rest, k, m

\* The bytes behind s, n of them.
Span(s, n) == [j \in 1 .. n |-> s + j]

\* A span, byte by byte.
LEMMA SpanSeq ==
  ASSUME NEW s \in Nat, NEW n \in Nat
  PROVE  Span(s, n) \in Seq(Nat) /\ Len(Span(s, n)) = n
         /\ \A j \in 1 .. n : Span(s, n)[j] = s + j
<1>1. \A j \in 1 .. n : s + j \in Nat
  OBVIOUS
<1>2. Span(s, n) \in [1 .. n -> Nat]
  BY <1>1 DEF Span
<1>3. Span(s, n) \in Seq(Nat) /\ DOMAIN Span(s, n) = 1 .. n
  BY <1>2 DEF Span
<1>4. Len(Span(s, n)) = n
  BY <1>3, LenProperties
<1> QED
  BY <1>3, <1>4 DEF Span

\* Two spans, one behind the other.
LEMMA SpanConcat ==
  ASSUME NEW s \in Nat, NEW a \in Nat, NEW b \in Nat
  PROVE  Span(s, a) \o Span(s + a, b) = Span(s, a + b)
<1> DEFINE p == Span(s, a)  q == Span(s + a, b)  r == Span(s, a + b)
<1>1. s + a \in Nat /\ a + b \in Nat
  OBVIOUS
<1>2. /\ p \in Seq(Nat) /\ Len(p) = a /\ \A j \in 1 .. a : p[j] = s + j
      /\ q \in Seq(Nat) /\ Len(q) = b /\ \A j \in 1 .. b : q[j] = (s + a) + j
      /\ r \in Seq(Nat) /\ Len(r) = a + b /\ \A j \in 1 .. a + b : r[j] = s + j
  BY <1>1, SpanSeq
<1> HIDE DEF p, q, r
<1>3. p \o q \in Seq(Nat) /\ Len(p \o q) = a + b
      /\ \A i \in 1 .. a + b : (p \o q)[i] = IF i <= a THEN p[i] ELSE q[i - a]
  BY <1>2, ConcatProperties
<1>4. ASSUME NEW i \in 1 .. a + b PROVE (p \o q)[i] = r[i]
  <2>1. CASE i <= a
    <3>1. i \in 1 .. a
      BY <2>1
    <3> QED
      BY <1>2, <1>3, <2>1, <3>1
  <2>2. CASE ~ (i <= a)
    <3>1. i - a \in 1 .. b /\ (s + a) + (i - a) = s + i
      BY <2>2
    <3>2. (p \o q)[i] = q[i - a]
      BY <1>3, <2>2
    <3> QED
      BY <1>2, <3>1, <3>2
  <2> QED
    BY <2>1, <2>2
<1>5. p \o q = r
  BY <1>2, <1>3, <1>4, SeqEqual
<1> QED
  BY <1>5 DEF p, q, r

\* Bytes lists what the iovecs stand for: by induction on their number.
LEMMA BytesIs ==
  ASSUME NEW s \in Nat, NEW t, NEW v, Chained(v, s, t)
  PROVE  Bytes(v) = Span(s, t)
<1> DEFINE L == Len(v)
           seqs == [i \in DOMAIN v |-> [j \in 1 .. v[i].len |-> v[i].base + j]]
           Body(f) == [i \in 1 .. Len(seqs) |->
                         IF i = 1 THEN seqs[i] ELSE f[i - 1] \o seqs[i]]
           c == CHOOSE f : f = Body(f)
<1>1. v \in Seq(IoVec)
  BY DEF Chained
<1>2. L \in Nat /\ DOMAIN v = 1 .. L /\ \A i \in 1 .. L : v[i] \in IoVec
  BY <1>1, LenProperties, ElementOfSeq
<1>3. PICK g : /\ Runs(g, v) /\ g[L] = t
               /\ \A i \in 1 .. L : v[i].base = s + g[i - 1]
  BY DEF Chained
<1>4. /\ g \in [0 .. L -> Nat] /\ g[0] = 0
      /\ \A i \in 1 .. L : g[i] = g[i - 1] + v[i].len
  BY <1>3 DEF Runs
<1>5. \A i \in 1 .. L : i - 1 \in 0 .. L /\ i \in 0 .. L
  BY <1>2
<1>6. \A i \in 1 .. L : seqs[i] = Span(s + g[i - 1], v[i].len)
  BY <1>2, <1>3 DEF Span
<1>7. \A i \in 1 .. L : Span(s + g[i - 1], v[i].len) \in Seq(Nat)
  <2> TAKE i \in 1 .. L
  <2>1. s + g[i - 1] \in Nat /\ v[i].len \in Nat
    <3>1. g[i - 1] \in Nat
      BY <1>4, <1>5
    <3>2. v[i].len \in Nat
      BY <1>2 DEF IoVec
    <3> QED
      BY <3>1, <3>2
  <2> QED
    BY <2>1, SpanSeq
<1>8. DOMAIN seqs = 1 .. L /\ Len(seqs) = L
  <2>1. seqs \in [1 .. L -> Seq(Nat)]
    <3>1. DOMAIN seqs = 1 .. L /\ seqs = [i \in 1 .. L |-> seqs[i]]
      BY <1>2
    <3> HIDE DEF seqs
    <3> QED
      BY <1>6, <1>7, <3>1
  <2> HIDE DEF seqs
  <2>2. seqs \in Seq(Seq(Nat))
    BY <1>2, <2>1
  <2> QED
    BY <1>2, <2>1, <2>2, LenProperties
<1>9. Bytes(v) = IF Len(seqs) = 0 THEN seqs ELSE c[Len(seqs)]
  BY DEF Bytes, FlattenSeq
<1> HIDE DEF seqs
<1> DEFINE spans == [i \in 1 .. L |-> Span(s, g[i])]
<1>10. ASSUME NEW i \in 1 .. L
       PROVE  Span(s, g[i]) = IF i = 1 THEN seqs[i] ELSE Span(s, g[i - 1]) \o seqs[i]
  <2>1. g[i - 1] \in Nat /\ v[i].len \in Nat /\ g[i] = g[i - 1] + v[i].len
    BY <1>2, <1>4, <1>5 DEF IoVec
  <2>2. Span(s, g[i - 1]) \o seqs[i] = Span(s, g[i])
    <3> DEFINE a == g[i - 1]  b == v[i].len
    <3>1. a \in Nat /\ b \in Nat /\ g[i] = a + b /\ seqs[i] = Span(s + a, b)
      BY <1>6, <2>1
    <3> HIDE DEF a, b
    <3>2. Span(s, a) \o Span(s + a, b) = Span(s, a + b)
      BY <3>1, SpanConcat
    <3>3. Span(s, a) \o seqs[i] = Span(s, g[i])
      BY <3>1, <3>2
    <3> QED
      BY <3>3 DEF a
  <2>3. ASSUME i = 1 PROVE Span(s, g[i]) = seqs[i]
    <3>1. g[i - 1] = 0
      BY <1>4, <2>3
    <3>2. g[i] = v[i].len /\ s + g[i - 1] = s
      BY <2>1, <3>1
    <3> QED
      BY <1>6, <3>2
  <2> QED
    BY <2>2, <2>3
<1>11. spans = Body(spans)
  <2>1. ASSUME NEW i \in 1 .. L
        PROVE  spans[i] = IF i = 1 THEN seqs[i] ELSE spans[i - 1] \o seqs[i]
    <3>1. spans[i] = Span(s, g[i])
      OBVIOUS
    <3>2. i # 1 => spans[i - 1] = Span(s, g[i - 1])
      <4>1. i # 1 => i - 1 \in 1 .. L
        BY <1>2
      <4> QED
        BY <4>1
    <3> QED
      BY <1>10, <3>1, <3>2
  <2>2. DOMAIN spans = 1 .. L
    OBVIOUS
  <2> HIDE DEF spans
  <2>3. spans = [i \in 1 .. L |-> spans[i]]
    <3>1. spans = [i \in 1 .. L |-> Span(s, g[i])]
      BY DEF spans
    <3> QED
      BY <2>2, <3>1
  <2> QED
    BY <1>8, <2>1, <2>3
<1>12. c = Body(c)
  BY <1>11
<1>13. \A i \in 1 .. L : c[i] = IF i = 1 THEN seqs[i] ELSE c[i - 1] \o seqs[i]
  <2> HIDE DEF c
  <2>1. \A i \in 1 .. L : c[i] = Body(c)[i]
    BY <1>12
  <2> QED
    BY <1>8, <2>1
<1> HIDE DEF c, spans
<1> DEFINE Good == {k \in Nat : k + 1 <= L => c[k + 1] = Span(s, g[k + 1])}
<1>14. 0 \in Good
  <2> SUFFICES ASSUME 0 + 1 <= L PROVE c[0 + 1] = Span(s, g[0 + 1])
    OBVIOUS
  <2>1. 1 \in 1 .. L
    BY <1>2
  <2>2. c[1] = Span(s, g[1])
    BY <1>10, <1>13, <2>1
  <2> QED
    BY <2>2
<1>15. ASSUME NEW k \in Nat, k \in Good PROVE k + 1 \in Good
  <2> DEFINE i == (k + 1) + 1
  <2> SUFFICES ASSUME i <= L PROVE c[i] = Span(s, g[i])
    OBVIOUS
  <2>1. i \in 1 .. L /\ i # 1 /\ i - 1 = k + 1
    BY <1>2
  <2>2. c[k + 1] = Span(s, g[k + 1])
    <3>1. k + 1 <= L
      BY <1>2
    <3> QED
      BY <1>15, <3>1
  <2> HIDE DEF i
  <2> QED
    BY <1>10, <1>13, <2>1, <2>2
<1>16. Nat \subseteq Good
  <2> HIDE DEF Good
  <2> QED
    BY <1>14, <1>15, SetInduction
<1>17. CASE L = 0
  <2>1. t = 0
    BY <1>3, <1>4, <1>17
  <2>2. seqs = Span(s, 0)
    BY <1>2, <1>17 DEF seqs, Span
  <2> QED
    BY <1>8, <1>9, <1>17, <2>1, <2>2
<1>18. CASE L # 0
  <2>1. L - 1 \in Nat /\ (L - 1) + 1 = L
    BY <1>2, <1>18
  <2>2. L - 1 \in Good
    BY <1>16, <2>1
  <2>3. c[L] = Span(s, g[L])
    BY <1>2, <2>1, <2>2
  <2> QED
    BY <1>3, <1>8, <1>9, <1>18, <2>3
<1> QED
  BY <1>17, <1>18

\* What Init makes of lengths.
LEMMA IovIs ==
  ASSUME NEW lens \in Seq(Nat)
  PROVE  \E t : Chained(Iov(lens), 0, t) /\ Len(Iov(lens)) = Len(lens)
<1> DEFINE L == Len(lens)
           w == Iov(lens)
<1>1. L \in Nat /\ DOMAIN lens = 1 .. L /\ \A i \in 1 .. L : lens[i] \in Nat
  BY LenProperties, ElementOfSeq
<1>2. PICK g : Partial(g, lens) /\ \A k \in 0 .. L : Sum(SubSeq(lens, 1, k)) = g[k]
  BY SumOfFirst
<1>3. g \in [0 .. L -> Nat] /\ g[0] = 0 /\ \A k \in 1 .. L : g[k] = g[k - 1] + lens[k]
  BY <1>2 DEF Partial
<1>4. \A i \in 1 .. L : i - 1 \in 0 .. L /\ g[i - 1] \in Nat
  BY <1>1, <1>3
<1>5. DOMAIN w = 1 .. L /\ \A i \in 1 .. L : w[i] = [base |-> g[i - 1], len |-> lens[i]]
  BY <1>1, <1>2, <1>4 DEF Iov
<1>6. w = [i \in 1 .. L |-> w[i]]
  BY <1>1 DEF Iov
<1> HIDE DEF w
<1>7. w \in [1 .. L -> IoVec]
  <2>1. \A i \in 1 .. L : w[i] \in IoVec
    BY <1>1, <1>4, <1>5 DEF IoVec
  <2> QED
    BY <1>6, <2>1
<1>8. w \in Seq(IoVec) /\ Len(w) = L
  <2>1. w \in Seq(IoVec)
    BY <1>1, <1>7
  <2> QED
    BY <1>1, <1>5, <2>1, LenProperties
<1>9. Runs(g, w)
  BY <1>3, <1>5, <1>8 DEF Runs
<1>10. \A i \in 1 .. Len(w) : w[i].base = 0 + g[i - 1]
  BY <1>4, <1>5, <1>8
<1>11. Chained(w, 0, g[L])
  BY <1>8, <1>9, <1>10 DEF Chained
<1> QED
  BY <1>8, <1>11 DEF w

\* The first of a span and what comes behind.
LEMMA SpanFirst ==
  ASSUME NEW s \in Nat, NEW a \in Nat, NEW n \in 0 .. a
  PROVE  SubSeq(Span(s, a), 1, n) = Span(s, n)
<1> DEFINE p == Span(s, a)  q == Span(s, n)  f == SubSeq(p, 1, n)
<1>1. /\ p \in Seq(Nat) /\ Len(p) = a /\ \A j \in 1 .. a : p[j] = s + j
      /\ q \in Seq(Nat) /\ Len(q) = n /\ \A j \in 1 .. n : q[j] = s + j
  <2>1. n \in Nat
    OBVIOUS
  <2> QED
    BY <2>1, SpanSeq
<1> HIDE DEF p, q
<1>2. f \in Seq(Nat) /\ Len(f) = n /\ \A i \in 1 .. n : f[i] = p[i]
  BY <1>1, FirstOf
<1> HIDE DEF f
<1>3. \A i \in 1 .. n : i \in 1 .. a
  OBVIOUS
<1>4. f = q
  BY <1>1, <1>2, <1>3, SeqEqual
<1> QED
  BY <1>4 DEF f, p, q

LEMMA SpanBehind ==
  ASSUME NEW s \in Nat, NEW a \in Nat, NEW n \in 0 .. a
  PROVE  SubSeq(Span(s, a), n + 1, a) = Span(s + n, a - n)
<1> DEFINE p == Span(s, a)  q == Span(s + n, a - n)  f == SubSeq(p, n + 1, a)
<1>1. s + n \in Nat /\ a - n \in Nat
  OBVIOUS
<1>2. /\ p \in Seq(Nat) /\ Len(p) = a /\ \A j \in 1 .. a : p[j] = s + j
      /\ q \in Seq(Nat) /\ Len(q) = a - n /\ \A j \in 1 .. a - n : q[j] = (s + n) + j
  BY <1>1, SpanSeq
<1> HIDE DEF p, q
<1>3. \A i \in n + 1 .. a : p[i] \in Nat
  BY <1>2
<1>4. /\ f \in Seq(Nat) /\ Len(f) = IF n + 1 <= a THEN a - (n + 1) + 1 ELSE 0
      /\ \A i \in 1 .. a - (n + 1) + 1 : f[i] = p[(n + 1) + i - 1]
  BY <1>3, SubSeqProperties
<1> HIDE DEF f
<1>5. Len(f) = a - n /\ a - (n + 1) + 1 = a - n
  BY <1>4
<1>6. ASSUME NEW i \in 1 .. a - n PROVE f[i] = q[i]
  <2>1. i \in 1 .. a - (n + 1) + 1 /\ (n + 1) + i - 1 = n + i /\ n + i \in 1 .. a
    OBVIOUS
  <2>2. f[i] = s + (n + i) /\ q[i] = (s + n) + i
    BY <1>2, <1>4, <2>1
  <2> QED
    BY <2>2
<1>7. f = q
  BY <1>2, <1>4, <1>5, <1>6, SeqEqual
<1> QED
  BY <1>7 DEF f, p, q

-----------------------------------------------------------------------------
\* The iovecs of the caller are the message; those left stand for what is
\* left of it, as long as the call goes on and, for st_writev_resid, after it.
\* The call comes back to a full connection only if it has sent nothing.
WriterInv ==
    /\ wop \in {"inner_send", "inner_sendto"} \union Stores
    /\ wop = "inner_send" => wtime = "zero"
    /\ iov \in Seq(IoVec) /\ Chained(iov, 0, Total(iov))
    /\ sent \in 0 .. Total(iov)
    /\ tmp \in Seq(IoVec)
    /\ wpc # "done" \/ wop \in Stores => Chained(tmp, sent, Total(iov) - sent)
    /\ wop \notin Stores /\ wpc # "done"
         => sent = 0 /\ (wop = "inner_send" => Len(tmp) = 1)
    /\ wpc \in {"call", "poll", "done"} /\ wres \in Int
    /\ wpc = "done" =>
           /\ wop # "st_writev_resid" /\ wres >= 0 => sent = wres
           /\ wop = "st_writev_resid" /\ wres = 0 /\ wtime # "zero"
                  => sent = Total(iov)

\* What was sent and not received is in the connection, in order; before, it may
\* be full of an earlier message.
NetInv ==
    /\ pipe \in Seq(Nat) /\ Len(pipe) <= Cap
    /\ rcvd \in Seq(Nat) /\ rcvd = Span(0, Len(rcvd))
    /\ \/ pipe = Span(Len(rcvd), Len(pipe)) /\ Len(rcvd) + Len(pipe) = sent
       \/ /\ sent = 0 /\ rcvd = <<>> /\ Len(pipe) = Cap
          /\ \A i \in 1 .. Cap : pipe[i] = 0
    /\ closed \in BOOLEAN /\ broken \in BOOLEAN
    /\ wpc = "call" => sent = 0 \/ Len(pipe) < Cap \/ broken

\* The reader's iovecs stand for the memory behind what it has received.
ReaderInv ==
    /\ riov \in Seq(IoVec) /\ rpc \in {"call", "poll", "done"} /\ rres \in Int
    /\ rpc # "done" => /\ Chained(riov, Len(rcvd), Total(riov))
                       /\ DOMAIN mem = 1 .. Len(rcvd) + Total(riov)
    /\ \A i \in 1 .. Len(rcvd) : mem[i] = i

StreamInv == WriterInv /\ NetInv /\ ReaderInv

\* The initial state.
LEMMA StreamInit ==
  ASSUME Init, wop = "inner_send" => wtime = "zero"
  PROVE  StreamInv
<1>1. Cap \in Nat \ {0} /\ WriteLens \subseteq Seq(Nat) /\ ReadLens \subseteq Seq(Nat)
      /\ WriteOps \subseteq {"inner_send", "inner_sendto"} \union Stores
  BY StreamAssumption DEF Stores
<1>2. wop \in {"inner_send", "inner_sendto"} \union Stores
  BY <1>1 DEF Init
<1>3. PICK lens \in WriteLens :
        /\ wop \in {"inner_send", "inner_sendto", "st_write"} => Len(lens) = 1
        /\ iov = Iov(lens)
  BY DEF Init
<1>4. PICK t : Chained(iov, 0, t) /\ Len(iov) = Len(lens)
  BY <1>1, <1>3, IovIs
<1>5. t = Total(iov) /\ t \in Nat /\ iov \in Seq(IoVec)
  BY <1>4, ChainedTotal DEF Chained
<1>6. tmp = iov /\ sent = 0 /\ wpc = "call" /\ wres = 0
  BY DEF Init
<1>7. WriterInv
  <2>1. Total(iov) - sent = Total(iov) /\ sent \in 0 .. Total(iov)
    BY <1>5, <1>6
  <2>2. wop = "inner_send" => Len(tmp) = 1
    BY <1>3, <1>4, <1>6
  <2> QED
    BY <1>2, <1>4, <1>5, <1>6, <2>1, <2>2 DEF WriterInv
<1>8. rcvd = <<>> /\ rcvd \in Seq(Nat) /\ Len(rcvd) = 0 /\ rcvd = Span(0, 0)
  <2>1. Span(0, 0) = <<>>
    BY SpanSeq, EmptySeq
  <2>2. rcvd = <<>>
    BY DEF Init
  <2> QED
    BY <2>1, <2>2, EmptySeq
<1>9. NetInv
  <2>1. pipe = <<>> \/ pipe = [i \in 1 .. Cap |-> 0]
    BY DEF Init
  <2>2. closed = FALSE /\ broken = FALSE
    BY DEF Init
  <2>3. CASE pipe = <<>>
    <3>1. pipe \in Seq(Nat) /\ Len(pipe) = 0 /\ Len(pipe) <= Cap /\ pipe = Span(0, 0)
      BY <1>1, <1>8, <2>3, EmptySeq
    <3>2. pipe = Span(Len(rcvd), Len(pipe)) /\ Len(rcvd) + Len(pipe) = sent
          /\ rcvd = Span(0, Len(rcvd))
      BY <1>6, <1>8, <3>1
    <3> QED
      BY <1>6, <1>8, <2>2, <3>1, <3>2 DEF NetInv
  <2>4. CASE pipe = [i \in 1 .. Cap |-> 0]
    <3>1. pipe \in [1 .. Cap -> Nat]
      BY <2>4
    <3>2. pipe \in Seq(Nat) /\ DOMAIN pipe = 1 .. Cap
      BY <1>1, <3>1
    <3>3. Len(pipe) = Cap
      BY <1>1, <3>2, LenProperties
    <3>4. \A i \in 1 .. Cap : pipe[i] = 0
      BY <2>4
    <3>5. rcvd = Span(0, Len(rcvd)) /\ Len(pipe) <= Cap
      BY <1>1, <1>8, <3>3
    <3> QED
      BY <1>6, <1>8, <2>2, <3>2, <3>3, <3>4, <3>5 DEF NetInv
  <2> QED
    BY <2>1, <2>3, <2>4
<1>10. ReaderInv
  <2>1. PICK l \in ReadLens : riov = Iov(l)
    BY DEF Init
  <2>2. PICK u : Chained(riov, 0, u)
    BY <1>1, <2>1, IovIs
  <2>3. u = Total(riov) /\ u \in Nat /\ riov \in Seq(IoVec)
    BY <2>2, ChainedTotal DEF Chained
  <2>4. mem = [i \in 1 .. Total(riov) |-> 0] /\ rpc = "call" /\ rres = 0
    BY DEF Init
  <2>5. DOMAIN mem = 1 .. Len(rcvd) + Total(riov)
    BY <1>8, <2>3, <2>4
  <2> QED
    BY <1>8, <2>2, <2>3, <2>4, <2>5 DEF ReaderInv
<1> QED
  BY <1>7, <1>9, <1>10 DEF StreamInv

-----------------------------------------------------------------------------
\* One iovec: what is left of it has a length that is not negative.
LEMMA OneLeft ==
  ASSUME NEW s, NEW t, Chained(tmp, s, t), Len(tmp) = 1, NEW n \in 0 .. t
  PROVE  SendRest(n) \in Seq(IoVec)
<1>1. tmp \in Seq(IoVec) /\ tmp[1] \in IoVec
  <2>1. tmp \in Seq(IoVec) /\ 1 \in 1 .. Len(tmp)
    BY DEF Chained
  <2> QED
    BY <2>1, ElementOfSeq
<1>2. PICK g : Runs(g, tmp) /\ g[1] = t
  BY DEF Chained
<1>3. g[1] = g[1 - 1] + tmp[1].len /\ g[0] = 0
  BY <1>2 DEF Runs
<1>4. tmp[1].len = t /\ tmp[1].base \in Nat
  <2>1. tmp[1].len \in Nat /\ tmp[1].base \in Nat
    BY <1>1 DEF IoVec
  <2> QED
    BY <1>2, <1>3, <2>1
<1>5. t - n \in Nat
  <2>1. t \in Nat
    BY ChainedTotal
  <2> QED
    BY <2>1
<1>6. [base |-> tmp[1].base, len |-> tmp[1].len - n] \in IoVec
  BY <1>4, <1>5 DEF IoVec
<1> QED
  BY <1>6 DEF SendRest

\* What a system call leaves when it has accepted n bytes.
LEMMA LeftOver ==
  ASSUME WriterInv, wpc = "call", NEW n \in Nat, n <= Total(tmp)
  PROVE  LET left == IF n = Total(tmp) /\ Complete(n) THEN <<>> ELSE Remaining(n)
         IN  /\ left \in Seq(IoVec)
             /\ sent + n \in 0 .. Total(iov)
             /\ wop # "inner_send" => Chained(left, sent + n, Total(iov) - (sent + n))
             /\ wop \in Stores /\ Complete(n) => sent + n = Total(iov)
             /\ wop \notin Stores => Complete(n) /\ sent = 0
<1> DEFINE T == Total(iov)
           left == IF n = Total(tmp) /\ Complete(n) THEN <<>> ELSE Remaining(n)
<1>1. Chained(tmp, sent, T - sent) /\ sent \in 0 .. T /\ Chained(iov, 0, T)
  BY DEF WriterInv
<1>2. T \in Nat /\ sent \in Nat /\ Total(tmp) = T - sent /\ n \in 0 .. T - sent
  <2>1. T \in Nat /\ Total(tmp) = T - sent /\ T - sent \in Nat
    BY <1>1, ChainedTotal
  <2> QED
    BY <1>1, <2>1
<1>3. sent + n \in 0 .. T /\ (T - sent) - n = T - (sent + n)
      /\ (n = Total(tmp) => T - (sent + n) = 0)
      /\ (n # Total(tmp) => sent + n # T)
  BY <1>2
<1>4. Chained(Advance(tmp, n), sent + n, T - (sent + n))
  BY <1>1, <1>2, <1>3, AdvanceIs
<1>5. ASSUME n # Total(tmp) PROVE Chained(Rest(sent + n), sent + n, T - (sent + n))
  BY <1>1, <1>3, <1>5, RestIs
<1>6. Chained(<<>>, sent + n, 0)
  BY ChainedEmpty
<1> HIDE DEF T
<1>7. ASSUME wop \notin Stores PROVE Complete(n) /\ sent = 0
  <2>1. /\ wop \in {"inner_send", "inner_sendto"} /\ sent = 0
        /\ wop = "inner_send" => wtime = "zero"
    BY <1>7 DEF WriterInv
  <2>2. CASE wop = "inner_send"
    <3>1. n = Total(tmp) \/ wtime = "zero"
      BY <2>1, <2>2
    <3>2. Complete(n) <=> (n = Total(tmp) \/ wtime = "zero")
      BY <2>2, Zenon DEF Complete, Gathers
    <3> QED
      BY <2>1, <3>1, <3>2, Zenon
  <2>3. CASE wop = "inner_sendto"
    BY <2>1, <2>3 DEF Complete, Gathers
  <2> QED
    BY <2>1, <2>2, <2>3
<1>8. Gathers => wop = "st_writev"
  BY DEF Gathers
<1>9. ASSUME wop # "inner_send" PROVE Chained(left, sent + n, T - (sent + n))
  <2>1. CASE n = Total(tmp) /\ Complete(n)
    BY <1>3, <1>6, <2>1
  <2>2. CASE ~ (n = Total(tmp) /\ Complete(n)) /\ Gathers
    <3>1. n # Total(tmp)
      BY <1>8, <2>2 DEF Complete
    <3>2. left = Rest(sent + n)
      BY <1>8, <2>2 DEF Remaining
    <3> QED
      BY <1>5, <3>1, <3>2
  <2>3. CASE ~ (n = Total(tmp) /\ Complete(n)) /\ ~ Gathers
    <3>1. left = Advance(tmp, n)
      BY <1>9, <2>3 DEF Remaining
    <3> QED
      BY <1>4, <3>1
  <2> QED
    BY <2>1, <2>2, <2>3
<1>10. left \in Seq(IoVec)
  <2>1. CASE wop = "inner_send"
    <3>1. SendRest(n) \in Seq(IoVec)
      BY <1>1, <1>2, <2>1, OneLeft DEF WriterInv, Stores
    <3>2. left = <<>> \/ left = SendRest(n)
      <4>1. Remaining(n) = SendRest(n)
        BY <1>8, <2>1 DEF Remaining
      <4> QED
        BY <4>1, Zenon
    <3> QED
      BY <3>1, <3>2, EmptySeq
  <2>2. CASE wop # "inner_send"
    BY <1>9, <2>2 DEF Chained
  <2> QED
    BY <2>1, <2>2
<1>11. ASSUME wop \in Stores, Complete(n) PROVE sent + n = T
  <2>1. CASE Gathers
    <3>1. n = Total(tmp)
      BY <1>8, <1>11, <2>1 DEF Complete
    <3> QED
      BY <1>2, <3>1
  <2>2. CASE ~ Gathers
    <3>1. Advance(tmp, n) = <<>>
      BY <1>11, <2>2 DEF Complete, Stores
    <3>2. Total(<<>>) = T - (sent + n) /\ Total(<<>>) = 0
      BY <1>4, <1>6, <3>1, ChainedTotal
    <3> QED
      BY <1>2, <3>2
  <2> QED
    BY <2>1, <2>2
<1> HIDE DEF left
<1>12. /\ left \in Seq(IoVec) /\ sent + n \in 0 .. T
       /\ wop # "inner_send" => Chained(left, sent + n, T - (sent + n))
       /\ wop \in Stores /\ Complete(n) => sent + n = T
       /\ wop \notin Stores => Complete(n) /\ sent = 0
  BY <1>3, <1>7, <1>9, <1>10, <1>11
<1> QED
  BY <1>12 DEF left, T

\* The writer sends what comes next.
LEMMA WriteSomeStep ==
  ASSUME StreamInv, NEW n \in 0 .. Cap, WriteSome(n)
  PROVE  StreamInv'
<1> DEFINE T == Total(iov)
<1>1. Cap \in Nat \ {0}
  BY StreamAssumption
<1>2. /\ wpc = "call" /\ n <= Total(tmp) /\ n <= Cap - Len(pipe)
      /\ pipe' = pipe \o SubSeq(Bytes(tmp), 1, n)
      /\ sent' = sent + n
      /\ tmp' = IF n = Total(tmp) /\ Complete(n) THEN <<>> ELSE Remaining(n)
      /\ IF Complete(n) THEN wpc' = "done" /\ wres' = DoneResult(n)
         ELSE wpc' = "poll" /\ wres' = wres
  BY DEF WriteSome, Finish
<1>3. /\ wop' = wop /\ wtime' = wtime /\ iov' = iov /\ closed' = closed
      /\ broken' = broken /\ rcvd' = rcvd /\ riov' = riov /\ rpc' = rpc
      /\ rres' = rres /\ mem' = mem
  BY DEF WriteSome, rvars
<1>4. /\ tmp' \in Seq(IoVec) /\ sent' \in 0 .. T
      /\ wop # "inner_send" => Chained(tmp', sent', T - sent')
      /\ wop \in Stores /\ Complete(n) => sent' = T
      /\ wop \notin Stores => Complete(n) /\ sent = 0
  <2>1. LET left == IF n = Total(tmp) /\ Complete(n) THEN <<>> ELSE Remaining(n)
        IN  /\ left \in Seq(IoVec)
            /\ sent + n \in 0 .. Total(iov)
            /\ wop # "inner_send" => Chained(left, sent + n, Total(iov) - (sent + n))
            /\ wop \in Stores /\ Complete(n) => sent + n = Total(iov)
            /\ wop \notin Stores => Complete(n) /\ sent = 0
    <3>1. n \in Nat /\ WriterInv
      BY <1>1 DEF StreamInv
    <3> QED
      BY <1>2, <3>1, LeftOver, Zenon
  <2> QED
    BY <1>2, <2>1, Zenon
<1>5. T \in Nat /\ sent \in 0 .. T /\ Total(tmp) = T - sent /\ n \in 0 .. T - sent
      /\ Chained(tmp, sent, T - sent)
  <2>1. Chained(tmp, sent, T - sent) /\ sent \in 0 .. T /\ Chained(iov, 0, T)
    BY <1>2 DEF StreamInv, WriterInv
  <2>2. T \in Nat /\ Total(tmp) = T - sent /\ T - sent \in Nat
    BY <2>1, ChainedTotal
  <2> QED
    BY <1>2, <2>1, <2>2
<1>6. WriterInv'
  <2>1. /\ wop \in {"inner_send", "inner_sendto"} \union Stores
        /\ wop = "inner_send" => wtime = "zero"
        /\ iov \in Seq(IoVec) /\ Chained(iov, 0, T) /\ wres \in Int
    BY DEF StreamInv, WriterInv
  <2>2. wpc' \in {"call", "poll", "done"} /\ wres' \in Int
    <3>1. DoneResult(n) \in Int
      BY <1>5 DEF DoneResult
    <3> QED
      BY <1>2, <2>1, <3>1
  <2>3. wpc' # "done" \/ wop \in Stores => Chained(tmp', sent', T - sent')
    <3>1. "inner_send" \notin Stores
      BY DEF Stores
    <3> QED
      BY <1>2, <1>4, <3>1
  <2>4. ~ (wop \notin Stores /\ wpc' # "done")
    BY <1>2, <1>4
  <2>5. ASSUME wpc' = "done"
        PROVE  /\ wop # "st_writev_resid" /\ wres' >= 0 => sent' = wres'
               /\ wop = "st_writev_resid" /\ wres' = 0 /\ wtime # "zero" => sent' = T
    <3>1. Complete(n) /\ wres' = DoneResult(n)
      BY <1>2, <2>5
    <3>2. CASE wop \in Stores
      <4>1. sent' = T
        BY <1>4, <3>1, <3>2
      <4>2. wop # "st_writev_resid" => DoneResult(n) = T
        BY <3>2 DEF DoneResult, Stores
      <4> QED
        BY <3>1, <4>1, <4>2
    <3>3. CASE wop \notin Stores
      <4>1. sent' = n
        BY <1>2, <1>4, <3>3
      <4>2. DoneResult(n) = n
        BY <2>1, <3>3 DEF DoneResult, Stores
      <4>3. wop # "st_writev_resid"
        BY <3>3 DEF Stores
      <4> QED
        BY <3>1, <4>1, <4>2, <4>3
    <3> QED
      BY <3>2, <3>3
  <2> HIDE DEF T
  <2>6. Total(iov)' = T
    BY <1>3 DEF T
  <2> QED
    BY <1>3, <1>4, <2>1, <2>2, <2>3, <2>4, <2>5, <2>6 DEF WriterInv, T
<1>7. NetInv'
  <2>1. SubSeq(Bytes(tmp), 1, n) = Span(sent, n)
    <3>1. Bytes(tmp) = Span(sent, T - sent)
      BY <1>5, BytesIs
    <3>2. T - sent \in Nat /\ sent \in Nat
      BY <1>5
    <3> QED
      BY <1>5, <3>1, <3>2, SpanFirst
  <2>2. pipe \in Seq(Nat) /\ rcvd \in Seq(Nat) /\ Len(pipe) \in Nat /\ Len(rcvd) \in Nat
        /\ Len(pipe) <= Cap /\ sent \in Nat /\ n \in Nat
    <3>1. pipe \in Seq(Nat) /\ rcvd \in Seq(Nat) /\ Len(pipe) <= Cap
      BY DEF StreamInv, NetInv
    <3> QED
      BY <1>1, <1>5, <3>1, LenProperties
  <2>3. Span(sent, n) \in Seq(Nat) /\ Len(Span(sent, n)) = n
    BY <2>2, SpanSeq
  <2>4. pipe' \in Seq(Nat) /\ Len(pipe') = Len(pipe) + n
    BY <1>2, <2>1, <2>2, <2>3, ConcatProperties
  <2>5. Len(pipe') <= Cap
    BY <1>1, <1>2, <2>2, <2>4
  <2>6. \/ pipe' = Span(Len(rcvd), Len(pipe')) /\ Len(rcvd) + Len(pipe') = sent'
        \/ /\ sent' = 0 /\ rcvd = <<>> /\ Len(pipe') = Cap
           /\ \A i \in 1 .. Cap : pipe'[i] = 0
    <3>1. CASE pipe = Span(Len(rcvd), Len(pipe)) /\ Len(rcvd) + Len(pipe) = sent
      <4>1. Span(Len(rcvd), Len(pipe)) \o Span(Len(rcvd) + Len(pipe), n)
              = Span(Len(rcvd), Len(pipe) + n)
        BY <2>2, SpanConcat
      <4>2. pipe' = Span(Len(rcvd), Len(pipe'))
        BY <1>2, <2>1, <2>4, <3>1, <4>1
      <4>3. Len(rcvd) + Len(pipe') = sent'
        <5> DEFINE r == Len(rcvd)  b == Len(pipe)
        <5>1. r \in Nat /\ b \in Nat /\ n \in Nat /\ r + b = sent
          BY <2>2, <3>1
        <5>2. Len(pipe') = b + n /\ sent' = sent + n
          BY <1>2, <2>4
        <5> HIDE DEF r, b
        <5>3. r + Len(pipe') = sent'
          BY <5>1, <5>2
        <5> QED
          BY <5>3 DEF r
      <4> QED
        BY <4>2, <4>3
    <3>2. CASE /\ sent = 0 /\ rcvd = <<>> /\ Len(pipe) = Cap
               /\ \A i \in 1 .. Cap : pipe[i] = 0
      <4>1. n = 0
        BY <1>1, <1>2, <3>2
      <4>2. Span(sent, n) = <<>>
        BY <2>3, <4>1, EmptySeq
      <4>3. pipe' = pipe
        BY <1>2, <2>1, <2>2, <4>2, ConcatEmptySeq
      <4>4. sent' = 0
        BY <1>2, <3>2, <4>1
      <4> QED
        BY <3>2, <4>3, <4>4
    <3> QED
      BY <3>1, <3>2 DEF StreamInv, NetInv
  <2>7. wpc' # "call"
    BY <1>2
  <2>8. rcvd = Span(0, Len(rcvd)) /\ closed \in BOOLEAN /\ broken \in BOOLEAN
    BY DEF StreamInv, NetInv
  <2> QED
    BY <1>3, <2>2, <2>4, <2>5, <2>6, <2>7, <2>8 DEF NetInv
<1>8. ReaderInv'
  BY <1>3 DEF StreamInv, ReaderInv, Chained, Runs, Total
<1> QED
  BY <1>6, <1>7, <1>8 DEF StreamInv

\* The writer's other steps change what it does next and its result.
LEMMA WriteOtherStep ==
  ASSUME StreamInv, WriteNotReady \/ WriteError \/ WritePollOk \/ WritePollFails
  PROVE  StreamInv'
<1>1. UNCHANGED <<wop, wtime, iov, tmp, sent, rvars, net>>
  BY DEF WriteNotReady, WriteError, WritePollOk, WritePollFails
<1>2. /\ wop' = wop /\ wtime' = wtime /\ iov' = iov /\ tmp' = tmp /\ sent' = sent
      /\ pipe' = pipe /\ closed' = closed /\ broken' = broken
      /\ rcvd' = rcvd /\ riov' = riov /\ rpc' = rpc /\ rres' = rres /\ mem' = mem
  BY <1>1 DEF rvars, net
<1>3. wpc # "done"
  BY DEF WriteNotReady, WriteError, WritePollOk, WritePollFails
<1>4. sent \in Int
  <2>1. sent \in 0 .. Total(iov)
    BY DEF StreamInv, WriterInv
  <2> QED
    BY <2>1
<1>5. wpc' \in {"call", "poll", "done"} /\ wres' \in Int
  <2>1. ZeroResult \in Int
    BY <1>4 DEF ZeroResult
  <2>2. wres \in Int
    BY DEF StreamInv, WriterInv
  <2> QED
    BY <2>1, <2>2
       DEF WriteNotReady, WriteError, WritePollOk, WritePollFails, Finish
<1>6. ASSUME wpc' = "done"
      PROVE  \/ wres' = -1
             \/ /\ wop \in Stores /\ wres' = ZeroResult /\ wtime = "zero"
                /\ wpc = "call" /\ ~ broken /\ Len(pipe) = Cap
  <2>1. CASE WriteNotReady
    <3>1. wres' = ZeroResult /\ wtime = "zero" /\ wpc = "call" /\ ~ broken
          /\ Len(pipe) = Cap
      BY <1>6, <2>1 DEF WriteNotReady, Finish
    <3>2. wop \notin Stores => ZeroResult = -1
      BY DEF StreamInv, WriterInv, ZeroResult, Stores
    <3> QED
      BY <3>1, <3>2
  <2>2. CASE WriteError \/ WritePollOk \/ WritePollFails
    BY <1>6, <2>2 DEF WriteError, WritePollOk, WritePollFails, Finish
  <2> QED
    BY <2>1, <2>2
<1>7. WriterInv'
  <2>1. ASSUME wpc' = "done"
        PROVE  /\ wop # "st_writev_resid" /\ wres' >= 0 => sent = wres'
               /\ wop = "st_writev_resid" /\ wres' = 0 /\ wtime # "zero"
                    => sent = Total(iov)
    <3>1. CASE wres' = -1
      <4>1. ~ (wres' >= 0) /\ wres' # 0
        BY <3>1
      <4> QED
        BY <4>1
    <3>2. CASE /\ wop \in Stores /\ wres' = ZeroResult /\ wtime = "zero"
               /\ wpc = "call" /\ ~ broken /\ Len(pipe) = Cap
      <4>1. sent = 0
        <5>1. Len(pipe) \in Nat
          BY LenProperties DEF StreamInv, NetInv
        <5>2. ~ (Len(pipe) < Cap)
          BY <3>2, <5>1
        <5> QED
          BY <3>2, <5>2 DEF StreamInv, NetInv
      <4>2. wop # "st_writev_resid" => ZeroResult \in {-1, sent}
        BY <3>2, <4>1 DEF ZeroResult, Stores
      <4>3. ~ (-1 >= 0)
        OBVIOUS
      <4> QED
        BY <3>2, <4>2, <4>3
    <3> QED
      BY <1>6, <2>1, <3>1, <3>2
  <2>2. Total(iov)' = Total(iov)
    BY <1>2
  <2>3. Chained(iov', 0, Total(iov')) <=> Chained(iov, 0, Total(iov))
    BY <1>2
  <2>4. Chained(tmp, sent, Total(iov) - sent)' <=> Chained(tmp, sent, Total(iov) - sent)
    BY <1>2
  <2> QED
    BY <1>2, <1>3, <1>5, <2>1, <2>2, <2>3, <2>4 DEF StreamInv, WriterInv
<1>8. NetInv'
  <2>1. wpc' = "call" => Len(pipe) < Cap \/ broken
    BY DEF WriteNotReady, WriteError, WritePollOk, WritePollFails, Finish
  <2> QED
    BY <1>2, <2>1 DEF StreamInv, NetInv
<1>9. ReaderInv'
  BY <1>2 DEF StreamInv, ReaderInv, Chained, Runs, Total
<1> QED
  BY <1>7, <1>8, <1>9 DEF StreamInv

-----------------------------------------------------------------------------
\* The reader receives what comes next, at the place where it belongs.
LEMMA ReadSomeStep ==
  ASSUME StreamInv, NEW n \in 1 .. Cap, ReadSome(n)
  PROVE  StreamInv'
<1> DEFINE r == Len(rcvd)  p == Len(pipe)  t == Total(riov)
<1>1. Cap \in Nat \ {0} /\ n \in Nat /\ n >= 1
  BY StreamAssumption
<1>2. /\ rpc = "call" /\ n <= p /\ n <= t /\ pipe[1] # 0
      /\ mem' = Store(n)
      /\ rcvd' = rcvd \o SubSeq(pipe, 1, n)
      /\ pipe' = SubSeq(pipe, n + 1, p)
      /\ rpc' \in {"poll", "done"}
      /\ rres' \in {rres, 0, n}
      /\ rpc' # "done" => riov' = Advance(riov, n)
      /\ riov' \in {riov, Advance(riov, n)}
  BY DEF ReadSome, ReadFinish
<1>3. /\ wop' = wop /\ wtime' = wtime /\ iov' = iov /\ tmp' = tmp /\ sent' = sent
      /\ wpc' = wpc /\ wres' = wres /\ closed' = closed /\ broken' = broken
  BY DEF ReadSome, wvars
<1>4. /\ pipe \in Seq(Nat) /\ p <= Cap /\ rcvd \in Seq(Nat) /\ rcvd = Span(0, r)
      /\ p \in Nat /\ r \in Nat
  BY LenProperties DEF StreamInv, NetInv
<1>5. pipe = Span(r, p) /\ r + p = sent
  <2>1. ~ \A i \in 1 .. Cap : pipe[i] = 0
    BY <1>1, <1>2
  <2> QED
    BY <2>1 DEF StreamInv, NetInv
<1>6. riov \in Seq(IoVec) /\ Chained(riov, r, t) /\ DOMAIN mem = 1 .. r + t
  BY <1>2 DEF StreamInv, ReaderInv
<1>7. t \in Nat /\ n \in 0 .. p /\ n \in 0 .. t
  <2>1. t \in Nat
    BY <1>6, ChainedTotal
  <2> QED
    BY <1>1, <1>2, <1>4, <2>1
<1>8. SubSeq(pipe, 1, n) = Span(r, n) /\ pipe' = Span(r + n, p - n)
  <2>1. SubSeq(Span(r, p), 1, n) = Span(r, n)
    BY <1>4, <1>7, SpanFirst
  <2>2. SubSeq(Span(r, p), n + 1, p) = Span(r + n, p - n)
    BY <1>4, <1>7, SpanBehind
  <2> QED
    BY <1>2, <1>5, <2>1, <2>2
<1>9. rcvd' = Span(0, r + n)
  <2>1. Span(0, r) \o Span(0 + r, n) = Span(0, r + n)
    BY <1>1, <1>4, SpanConcat
  <2>2. 0 + r = r
    BY <1>4
  <2> QED
    BY <1>2, <1>4, <1>8, <2>1, <2>2
<1>10. rcvd' \in Seq(Nat) /\ Len(rcvd') = r + n
       /\ pipe' \in Seq(Nat) /\ Len(pipe') = p - n
  <2>1. r + n \in Nat /\ p - n \in Nat
    BY <1>1, <1>4, <1>7
  <2> QED
    BY <1>8, <1>9, <2>1, SpanSeq
<1>11. NetInv'
  <2>1. Len(pipe') <= Cap /\ Len(pipe') < Cap /\ Len(rcvd') + Len(pipe') = sent
    BY <1>1, <1>4, <1>5, <1>7, <1>10
  <2>2. pipe' = Span(Len(rcvd'), Len(pipe')) /\ rcvd' = Span(0, Len(rcvd'))
    BY <1>8, <1>9, <1>10
  <2>3. closed \in BOOLEAN /\ broken \in BOOLEAN
    BY DEF StreamInv, NetInv
  <2> QED
    BY <1>3, <1>10, <2>1, <2>2, <2>3 DEF NetInv
<1>12. ReaderInv'
  <2>1. Chained(Advance(riov, n), r + n, t - n)
    BY <1>4, <1>6, <1>7, AdvanceIs
  <2>2. riov' \in Seq(IoVec)
    BY <1>2, <1>6, <2>1 DEF Chained
  <2>3. Bytes(riov) = Span(r, t) /\ \A j \in 1 .. n : Span(r, t)[j] = r + j
    <3>1. Bytes(riov) = Span(r, t)
      BY <1>4, <1>6, BytesIs
    <3>2. \A j \in 1 .. t : Span(r, t)[j] = r + j
      BY <1>4, <1>7, SpanSeq
    <3>3. \A j \in 1 .. n : j \in 1 .. t
      BY <1>7
    <3> QED
      BY <3>1, <3>2, <3>3
  <2> HIDE DEF r, p, t
  <2> DEFINE pos == Bytes(riov)
  <2>4. \A j \in 1 .. n : pos[j] = r + j /\ pipe[j] = r + j
    <3>1. \A j \in 1 .. p : pipe[j] = r + j
      BY <1>4, <1>5, SpanSeq
    <3>2. \A j \in 1 .. n : j \in 1 .. p
      BY <1>4, <1>7
    <3> QED
      BY <2>3, <3>1, <3>2
  <2>5. mem' = [i \in 1 .. r + t |->
                  IF \E j \in 1 .. n : pos[j] = i
                  THEN pipe[CHOOSE j \in 1 .. n : pos[j] = i] ELSE mem[i]]
    BY <1>2, <1>6 DEF Store
  <2>6. DOMAIN mem' = 1 .. r + t
    BY <2>5
  <2> HIDE DEF pos
  <2>7. ASSUME NEW i \in 1 .. r + n PROVE mem'[i] = i
    <3>1. i \in 1 .. r + t
      BY <1>4, <1>7
    <3>2. CASE i <= r
      <4>1. i \in 1 .. r
        BY <1>4, <3>2
      <4>2. \A j \in 1 .. n : pos[j] # i
        <5>1. \A j \in 1 .. n : r + j # i
          BY <1>4, <3>2
        <5> QED
          BY <2>4, <5>1
      <4>3. mem[i] = i
        BY <4>1 DEF StreamInv, ReaderInv, r
      <4> QED
        BY <2>5, <3>1, <4>2, <4>3
    <3>3. CASE ~ (i <= r)
      <4> DEFINE c == CHOOSE j \in 1 .. n : pos[j] = i
      <4>1. i - r \in 1 .. n /\ r + (i - r) = i
        BY <1>1, <1>4, <3>3
      <4>2. \E j \in 1 .. n : pos[j] = i
        BY <2>4, <4>1
      <4>3. c \in 1 .. n /\ pos[c] = i
        BY <4>2
      <4>4. mem'[i] = pipe[c]
        BY <2>5, <3>1, <4>2
      <4> HIDE DEF c
      <4> QED
        BY <2>4, <4>3, <4>4
    <3> QED
      BY <3>2, <3>3
  <2>8. ASSUME rpc' # "done"
        PROVE  Chained(riov', r + n, Total(riov'))
               /\ 1 .. r + t = 1 .. (r + n) + Total(riov')
    <3>1. Chained(riov', r + n, t - n)
      BY <1>2, <2>1, <2>8
    <3>2. Total(riov') = t - n
      BY <3>1, ChainedTotal
    <3>3. r + t = (r + n) + (t - n)
      BY <1>1, <1>4, <1>7
    <3> QED
      BY <3>1, <3>2, <3>3
  <2>9. rres' \in Int
    <3>1. rres \in Int
      BY DEF StreamInv, ReaderInv
    <3> QED
      BY <1>1, <1>2, <3>1
  <2> QED
    BY <1>2, <1>10, <2>2, <2>6, <2>7, <2>8, <2>9 DEF ReaderInv
<1>13. WriterInv'
  BY <1>3 DEF StreamInv, WriterInv, Chained, Runs, Total, Stores
<1> QED
  BY <1>11, <1>12, <1>13 DEF StreamInv

\* The reader's other steps and those of the connection.
LEMMA ReadOtherStep ==
  ASSUME StreamInv,
         ReadEnd \/ ReadNotReady \/ ReadError \/ ReadPollOk \/ ReadPollFails
  PROVE  StreamInv'
<1>1. UNCHANGED <<wvars, riov, rcvd, mem, net>>
  BY DEF ReadEnd, ReadNotReady, ReadError, ReadPollOk, ReadPollFails
<1>2. /\ wop' = wop /\ wtime' = wtime /\ iov' = iov /\ tmp' = tmp /\ sent' = sent
      /\ wpc' = wpc /\ wres' = wres /\ closed' = closed /\ broken' = broken
      /\ riov' = riov /\ rcvd' = rcvd /\ mem' = mem /\ pipe' = pipe
  BY <1>1 DEF wvars, net
<1>3. rpc # "done" /\ rpc' \in {"call", "poll", "done"} /\ rres' \in {rres, 0, -1}
  BY DEF ReadEnd, ReadNotReady, ReadError, ReadPollOk, ReadPollFails, ReadFinish
<1>4. WriterInv' /\ NetInv'
  <2>1. WriterInv'
    BY <1>2 DEF StreamInv, WriterInv, Chained, Runs, Total, Stores
  <2>2. NetInv'
    BY <1>2 DEF StreamInv, NetInv
  <2> QED
    BY <2>1, <2>2
<1>5. ReaderInv'
  <2>1. rres' \in Int
    <3>1. rres \in Int
      BY DEF StreamInv, ReaderInv
    <3> QED
      BY <1>3, <3>1
  <2> QED
    BY <1>2, <1>3, <2>1 DEF StreamInv, ReaderInv, Chained, Runs, Total
<1> QED
  BY <1>4, <1>5 DEF StreamInv

\* An earlier message leaves, and the connection is closed or reset.
LEMMA NetStep ==
  ASSUME StreamInv, ReadEarlier \/ CloseWriter \/ Break
  PROVE  StreamInv'
<1>1. UNCHANGED <<wvars, rvars>>
  BY DEF ReadEarlier, CloseWriter, Break
<1>2. /\ wop' = wop /\ wtime' = wtime /\ iov' = iov /\ tmp' = tmp /\ sent' = sent
      /\ wpc' = wpc /\ wres' = wres /\ riov' = riov /\ rpc' = rpc /\ rres' = rres
      /\ rcvd' = rcvd /\ mem' = mem
  BY <1>1 DEF wvars, rvars
<1>3. WriterInv'
  BY <1>2 DEF StreamInv, WriterInv, Chained, Runs, Total, Stores
<1>4. ReaderInv'
  BY <1>2 DEF StreamInv, ReaderInv, Chained, Runs, Total
<1>5. NetInv'
  <2>1. CASE ReadEarlier
    <3>1. pipe # <<>> /\ pipe[1] = 0 /\ pipe' = <<>>
          /\ closed' = closed /\ broken' = broken
      BY <2>1 DEF ReadEarlier
    <3>2. Len(pipe) \in Nat /\ Len(rcvd) \in Nat /\ Len(pipe) # 0 /\ pipe \in Seq(Nat)
      BY <3>1, LenProperties, EmptySeq DEF StreamInv, NetInv
    <3>3. ~ (pipe = Span(Len(rcvd), Len(pipe)))
      <4>1. Span(Len(rcvd), Len(pipe))[1] = Len(rcvd) + 1
        BY <3>2, SpanSeq
      <4>2. Len(rcvd) + 1 # 0
        BY <3>2
      <4> QED
        BY <3>1, <4>1, <4>2
    <3>4. sent = 0 /\ rcvd = <<>> /\ Len(rcvd) = 0 /\ rcvd \in Seq(Nat)
      <4>1. sent = 0 /\ rcvd = <<>>
        BY <3>3 DEF StreamInv, NetInv
      <4> QED
        BY <4>1, EmptySeq
    <3>5. pipe' \in Seq(Nat) /\ Len(pipe') = 0 /\ Span(0, 0) = <<>>
      BY <3>1, SpanSeq, EmptySeq
    <3>6. Len(pipe') <= Cap /\ Len(rcvd) + Len(pipe') = sent
      BY <3>4, <3>5, StreamAssumption
    <3>7. pipe' = Span(Len(rcvd), Len(pipe'))
      BY <3>1, <3>4, <3>5
    <3>8. rcvd = Span(0, Len(rcvd)) /\ closed \in BOOLEAN /\ broken \in BOOLEAN
      BY DEF StreamInv, NetInv
    <3> QED
      BY <1>2, <3>1, <3>4, <3>5, <3>6, <3>7, <3>8 DEF NetInv
  <2>2. CASE CloseWriter \/ Break
    <3>1. pipe' = pipe /\ closed' \in BOOLEAN /\ broken' \in BOOLEAN
          /\ (broken => broken')
      BY <2>2 DEF CloseWriter, Break, StreamInv, NetInv
    <3> QED
      BY <1>2, <3>1 DEF StreamInv, NetInv
  <2> QED
    BY <2>1, <2>2
<1> QED
  BY <1>3, <1>4, <1>5 DEF StreamInv

\* Every step.
LEMMA StreamNext ==
  ASSUME StreamInv, [Next]_vars
  PROVE  StreamInv'
<1>1. CASE Writer
  BY <1>1, WriteSomeStep, WriteOtherStep DEF Writer
<1>2. CASE Reader
  BY <1>2, ReadSomeStep, ReadOtherStep DEF Reader
<1>3. CASE ReadEarlier \/ CloseWriter \/ Break
  BY <1>3, NetStep
<1>4. CASE UNCHANGED vars
  <2>1. /\ wop' = wop /\ wtime' = wtime /\ iov' = iov /\ tmp' = tmp /\ sent' = sent
        /\ wpc' = wpc /\ wres' = wres /\ riov' = riov /\ rpc' = rpc /\ rres' = rres
        /\ rcvd' = rcvd /\ mem' = mem /\ pipe' = pipe /\ closed' = closed
        /\ broken' = broken
    BY <1>4 DEF vars, wvars, rvars, net
  <2> QED
    <3>1. WriterInv'
      BY <2>1 DEF StreamInv, WriterInv, Chained, Runs, Total, Stores
    <3>2. NetInv'
      BY <2>1 DEF StreamInv, NetInv
    <3>3. ReaderInv'
      BY <2>1 DEF StreamInv, ReaderInv, Chained, Runs, Total
    <3> QED
      BY <3>1, <3>2, <3>3 DEF StreamInv
<1> QED
  BY <1>1, <1>2, <1>3, <1>4 DEF Next

\* What the properties say of it.
LEMMA StreamProperties ==
  ASSUME StreamInv
  PROVE  StreamIntact /\ ResultIsTrue
<1> DEFINE T == Total(iov)
<1>1. StreamIntact
  <2> DEFINE r == Len(rcvd)  p == Len(pipe)
  <2>1. r \in Nat /\ p \in Nat /\ rcvd = Span(0, r) /\ pipe \in Seq(Nat)
    BY LenProperties DEF StreamInv, NetInv
  <2>2. DOMAIN rcvd = 1 .. r /\ \A i \in 1 .. r : rcvd[i] = i /\ mem[i] = i
    <3>1. \A i \in 1 .. r : Span(0, r)[i] = 0 + i /\ 0 + i = i
      <4> HIDE DEF r
      <4>1. \A i \in 1 .. r : Span(0, r)[i] = 0 + i
        BY <2>1, SpanSeq
      <4> QED
        BY <4>1
    <3>2. DOMAIN Span(0, r) = 1 .. r
      BY DEF Span
    <3>3. \A i \in 1 .. r : mem[i] = i
      BY DEF StreamInv, ReaderInv
    <3> QED
      BY <2>1, <3>1, <3>2, <3>3
  <2>3. ASSUME pipe = Span(r, p), r + p = sent
        PROVE  rcvd \o pipe = [i \in 1 .. sent |-> i]
    <3>1. Span(0, r) \o Span(0 + r, p) = Span(0, r + p) /\ 0 + r = r
      <4> HIDE DEF r, p
      <4>1. Span(0, r) \o Span(0 + r, p) = Span(0, r + p)
        BY <2>1, SpanConcat
      <4> QED
        BY <2>1, <4>1
    <3>2. rcvd \o pipe = Span(0, sent)
      BY <2>1, <2>3, <3>1
    <3>3. \A i \in 1 .. sent : 0 + i = i
      OBVIOUS
    <3> QED
      BY <3>2, <3>3 DEF Span
  <2>4. ASSUME Len(pipe) = Cap, \A i \in 1 .. Cap : pipe[i] = 0
        PROVE  \A i \in DOMAIN pipe : pipe[i] = 0
    BY <2>1, <2>4, LenProperties
  <2> QED
    BY <2>2, <2>3, <2>4 DEF StreamInv, NetInv, StreamIntact
<1>2. TypeOK
  <2>1. \A i \in DOMAIN tmp : tmp[i].base \in Nat /\ tmp[i].len \in Nat
    <3>1. \A i \in DOMAIN tmp : tmp[i] \in IoVec
      BY LenProperties, ElementOfSeq DEF StreamInv, WriterInv
    <3> QED
      BY <3>1 DEF IoVec
  <2>2. \A i \in DOMAIN riov : riov[i].base \in Nat /\ riov[i].len \in Nat
    <3>1. \A i \in DOMAIN riov : riov[i] \in IoVec
      BY LenProperties, ElementOfSeq DEF StreamInv, ReaderInv
    <3> QED
      BY <3>1 DEF IoVec
  <2> QED
    BY <2>1, <2>2 DEF StreamInv, WriterInv, NetInv, ReaderInv, TypeOK
<1>3. ResidIsRest
  <2> SUFFICES ASSUME wop \notin {"inner_send", "inner_sendto"}
               PROVE  Bytes(tmp) = [i \in 1 .. T - sent |-> sent + i]
    BY DEF ResidIsRest
  <2>1. Chained(tmp, sent, T - sent) /\ sent \in Nat
    BY DEF StreamInv, WriterInv
  <2>2. Bytes(tmp) = Span(sent, T - sent)
    BY <2>1, BytesIs
  <2> QED
    BY <2>2 DEF Span
<1>4. wpc = "done" =>
           /\ wop # "st_writev_resid" /\ wres >= 0 => sent = wres
           /\ wop = "st_writev_resid" /\ wres = 0 /\ wtime # "zero"
                  => sent = Total(iov)
  BY DEF StreamInv, WriterInv
<1> QED
  BY <1>1, <1>2, <1>3, <1>4, Zenon DEF ResultIsTrue

\* Without inner_send's mistake after a partial send.
LEMMA StreamAlways ==
  ASSUME "send" \notin Uses
  PROVE  MCSpec => []StreamInv
<1>1. MCInit => StreamInv
  <2> SUFFICES ASSUME MCInit PROVE StreamInv
    OBVIOUS
  <2>1. wop = "inner_send" => wtime = "zero"
    BY DEF MCInit, Stores
  <2> QED
    BY <2>1, StreamInit DEF MCInit
<1>2. StreamInv /\ [MCNext]_mcVars => StreamInv'
  <2> SUFFICES ASSUME StreamInv, [MCNext]_mcVars PROVE StreamInv'
    OBVIOUS
  <2>1. [Next]_vars
    BY DEF MCNext, Stream, Objects, mcVars
  <2> QED
    BY <2>1, StreamNext
<1> QED
  BY <1>1, <1>2, PTL DEF MCSpec

\* net_fd.h:119 and the like: however the connection splits a message, its bytes
\* arrive once and in order, for all functions but inner_send without timeout 0.
THEOREM BytesInOrder ==
  ASSUME "send" \notin Uses
  PROVE  MCSpec => []StreamIntact
<1>1. StreamInv => StreamIntact
  BY StreamProperties
<1> QED
  BY <1>1, StreamAlways, PTL

\* net_fd.h:103-108: what the calls return, and the iovecs they leave, is true of
\* what was sent.
THEOREM ResultsAreTrue ==
  ASSUME "send" \notin Uses
  PROVE  MCSpec => []ResultIsTrue
<1>1. StreamInv => ResultIsTrue
  BY StreamProperties
<1> QED
  BY <1>1, StreamAlways, PTL
=============================================================================
