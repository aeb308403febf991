----------------------------- MODULE TimerProofs -----------------------------
(***************************************************************************)
(* The timers of a Processer, for every set of timers and sleepers, every  *)
(* duration and every set of other threads that add and stop timers: no    *)
(* iterator is used after its element was erased, none is forgotten, they  *)
(* fire in time order, and what was stopped is not called.                 *)
(*                                                                         *)
(* Two uses are outside these promises, and the theorems say which timers  *)
(* they concern: one that is stopped after its callback has begun, and one *)
(* that another thread inserts in front of the iterator (overtaken), since *)
(* AddTimer takes the clock before it takes map_lock_.                     *)
(***************************************************************************)
EXTENDS TimerManager, SequenceTheorems, WellFoundedInduction, TLAPS

\* timer_map_ holds an element once, and only one that was added; threads add
\* different elements, the Processer's while it runs user code.
MapInv ==
    /\ \A i, j \in 1 .. Len(map) : map[i] = map[j] => i = j
    /\ \A i \in 1 .. Len(map) : map[i] \in added
    /\ \A th \in Foreign \union {Self} : adding[th] \notin added
    /\ \A t1, t2 \in Foreign \union {Self} :
         adding[t1] = adding[t2] => t1 = t2 \/ adding[t1] = End
    /\ adding[Self] # End => wpc \in {"run", "call"}

\* The iterator of WakeupTimers points into the map, and to an element that has
\* fired while its callback runs; what a callback adds comes behind it.
IterInv ==
    /\ wpc \in {"run", "wait"} => it = End
    /\ wpc \in {"scan", "call"} => wnow <= now
    /\ it # End => \E i \in 1 .. Len(map) : map[i] = it
    /\ wpc = "call" => /\ it \in fired /\ due[it] <= wnow
                       /\ adding[Self] # End => due[it] <= due[adding[Self]]

\* Every element the iteration has passed has fired or was put there behind it.
PassedFired ==
    wpc \in {"scan", "call"} =>
       \A i \in 1 .. Len(map) :
          it = End \/ (\E j \in 1 .. Len(map) : map[j] = it /\ i < j)
             => map[i] \in fired \union overtaken

\* A timer that can be stopped and neither fired nor was overtaken is in the map.
StoppableInMap ==
    \A e \in valid \ (fired \union overtaken) :
        \E i \in 1 .. Len(map) : map[i] = e

\* A timer that was stopped has left the map for good.
StoppedGone ==
    /\ stopped \subseteq added /\ valid \subseteq added
    /\ \A i \in 1 .. Len(map) : map[i] \notin stopped

\* The invariant as long as no dead iterator was used.
TmInv ==
    /\ TypeOK /\ wild = {}
    /\ MapInv /\ IterInv /\ PassedFired /\ StoppableInMap /\ StoppedGone
    /\ NothingForgotten

\* And afterwards.
TimerInv ==
    /\ TypeOK /\ NothingForgotten /\ wild \subseteq fired \union overtaken
    /\ wild = {} => TmInv

-----------------------------------------------------------------------------
\* A set of natural numbers has a least element.
LEMMA LeastNatural ==
  ASSUME NEW S \in SUBSET Nat, S # {}
  PROVE  Min(S) \in S /\ \A y \in S : Min(S) <= y
<1> DEFINE R == OpToRel(<, Nat)
<1>1. IsWellFoundedOn(R, Nat)
  BY NatLessThanWellFounded
<1>2. \A x, y \in Nat : <<y, x>> \in R <=> y < x
  BY DEF OpToRel
<1> HIDE DEF R
<1>3. \E x \in S : \A y \in S : ~ (<<y, x>> \in R)
  BY <1>1, WFMin
<1>4. PICK x \in S : \A y \in S : ~ (<<y, x>> \in R)
  BY <1>3
<1>5. ASSUME NEW y \in S PROVE x <= y
  <2>1. x \in Nat /\ y \in Nat
    OBVIOUS
  <2>2. ~ (y < x)
    BY <1>2, <1>4, <2>1
  <2> QED
    BY <2>1, <2>2
<1> QED
  BY <1>5 DEF Min

\* What stands where when two sequences are put together.
LEMMA ConcatElements ==
  ASSUME NEW S, NEW q \in Seq(S), NEW r \in Seq(S)
  PROVE  /\ q \o r \in Seq(S) /\ Len(q \o r) = Len(q) + Len(r)
         /\ \A i \in 1 .. Len(q) : (q \o r)[i] = q[i]
         /\ \A i \in 1 .. Len(r) : (q \o r)[Len(q) + i] = r[i]
<1>1. Len(q) \in Nat /\ Len(r) \in Nat
  BY LenProperties
<1>2. /\ q \o r \in Seq(S) /\ Len(q \o r) = Len(q) + Len(r)
      /\ \A i \in 1 .. Len(q) + Len(r) :
           (q \o r)[i] = IF i <= Len(q) THEN q[i] ELSE r[i - Len(q)]
  BY ConcatProperties
<1>3. ASSUME NEW i \in 1 .. Len(r) PROVE (q \o r)[Len(q) + i] = r[i]
  <2>1. /\ Len(q) + i \in 1 .. Len(q) + Len(r) /\ ~ (Len(q) + i <= Len(q))
        /\ Len(q) + i - Len(q) = i
    BY <1>1
  <2> QED
    BY <1>2, <2>1
<1> QED
  BY <1>1, <1>2, <1>3

\* The elements of timer_map_ by position.
LEMMA MapElements ==
  ASSUME TypeOK
  PROVE  /\ Len(map) \in Nat /\ DOMAIN map = 1 .. Len(map)
         /\ Range(map) = {map[i] : i \in 1 .. Len(map)}
         /\ \A i \in 1 .. Len(map) : map[i] \in Element /\ map[i] # End
         /\ \A i, j \in 1 .. Len(map) : i < j => due[map[i]] <= due[map[j]]
         /\ map = <<>> <=> Len(map) = 0
         /\ \A e \in Element : due[e] \in Nat
<1>1. map \in Seq(Element) /\ DOMAIN map = 1 .. Len(map)
  BY LenProperties DEF TypeOK
<1>2. \A i \in 1 .. Len(map) : map[i] \in Element
  BY <1>1, ElementOfSeq
<1>3. End \notin Element
  BY TimerAssumption DEF Element
<1>4. \A e \in Element : due[e] \in Nat
  BY TimerAssumption DEF TypeOK
<1>5. Range(map) = {map[i] : i \in 1 .. Len(map)}
  BY <1>1 DEF Range
<1>6. \A i, j \in 1 .. Len(map) : i < j => due[map[i]] <= due[map[j]]
  BY <1>1 DEF TypeOK
<1> QED
  BY <1>1, <1>2, <1>3, <1>4, <1>5, <1>6, LenProperties, EmptySeq

\* An iterator says where its element is.
LEMMA PositionInMap ==
  ASSUME TypeOK, NEW e \in Range(map)
  PROVE  Position(e) \in 1 .. Len(map) /\ map[Position(e)] = e
<1>1. \E i \in DOMAIN map : map[i] = e
  BY DEF Range
<1> QED
  BY <1>1, MapElements DEF Position

\* multimap::insert: the new element comes behind those that are due no later
\* and before the others.
LEMMA InsertElements ==
  ASSUME TypeOK, NEW e \in Element
  PROVE  /\ Insert(e) \in Seq(Element) /\ Len(Insert(e)) = Len(map) + 1
         /\ \E k \in 1 .. Len(map) + 1 :
              /\ \A i \in 1 .. k - 1 :
                   Insert(e)[i] = map[i] /\ due[map[i]] <= due[e]
              /\ Insert(e)[k] = e
              /\ \A i \in k .. Len(map) :
                   Insert(e)[i + 1] = map[i] /\ due[map[i]] > due[e]
<1> DEFINE later == {i \in DOMAIN map : due[map[i]] > due[e]}
           k == IF later = {} THEN Len(map) + 1 ELSE Min(later)
<1>1. Insert(e) = InsertAt(map, k, e)
  BY DEF Insert
<1>2. /\ k \in 1 .. Len(map) + 1
      /\ \A i \in 1 .. k - 1 : due[map[i]] <= due[e]
      /\ \A i \in k .. Len(map) : due[map[i]] > due[e]
  <2>1. CASE later = {}
    <3>1. k = Len(map) + 1
      BY <2>1
    <3>2. \A i \in 1 .. Len(map) : ~ (due[map[i]] > due[e])
      BY <2>1, MapElements
    <3> QED
      BY <3>1, <3>2, MapElements
  <2>2. CASE later # {}
    <3>1. later \in SUBSET Nat /\ k = Min(later)
      BY <2>2, MapElements
    <3>2. PICK m \in later : k = m /\ \A i \in later : m <= i
      BY <2>2, <3>1, LeastNatural
    <3>3. m \in 1 .. Len(map) /\ due[map[m]] > due[e] /\ Len(map) \in Nat
      BY MapElements
    <3>4. ASSUME NEW i \in 1 .. m - 1
          PROVE  due[map[i]] <= due[e]
      <4>1. i \in 1 .. Len(map) /\ ~ (m <= i)
        BY <3>3
      <4>2. ~ (due[map[i]] > due[e])
        BY <3>2, <4>1, MapElements
      <4> QED
        BY <4>1, <4>2, MapElements
    <3>5. ASSUME NEW i \in m .. Len(map)
          PROVE  due[map[i]] > due[e]
      <4>1. i \in 1 .. Len(map) /\ (i = m \/ m < i)
        BY <3>3
      <4>2. due[map[m]] <= due[map[i]]
        BY <3>3, <4>1, MapElements
      <4>3. due[map[m]] \in Nat /\ due[map[i]] \in Nat /\ due[e] \in Nat
        BY <3>3, <4>1, MapElements
      <4> QED
        BY <3>3, <4>2, <4>3
    <3>6. m \in 1 .. Len(map) + 1
      BY <3>3
    <3> HIDE DEF k
    <3> QED
      BY <3>2, <3>4, <3>5, <3>6
  <2> QED
    BY <2>1, <2>2
<1> HIDE DEF k
<1> DEFINE a == SubSeq(map, 1, k - 1)
           b == SubSeq(map, k, Len(map))
<1>3. map \in Seq(Element) /\ Len(map) \in Nat
  BY MapElements DEF TypeOK
<1>4. /\ a \in Seq(Element) /\ Len(a) = k - 1
      /\ \A i \in 1 .. k - 1 : a[i] = map[i]
  BY <1>2, <1>3, SubSeqProperties
<1>5. /\ b \in Seq(Element) /\ Len(b) = Len(map) - k + 1
      /\ \A i \in 1 .. Len(map) - k + 1 : b[i] = map[i + k - 1]
  BY <1>2, <1>3, SubSeqProperties
<1>6. Insert(e) = (a \o <<e>>) \o b
  BY <1>1 DEF InsertAt
<1> HIDE DEF a, b
<1>7. <<e>> \in Seq(Element) /\ Len(<<e>>) = 1 /\ <<e>>[1] = e
  OBVIOUS
<1>8. /\ a \o <<e>> \in Seq(Element) /\ Len(a \o <<e>>) = k
      /\ \A i \in 1 .. k - 1 : (a \o <<e>>)[i] = map[i]
      /\ (a \o <<e>>)[k] = e
  BY <1>2, <1>4, <1>7, ConcatProperties
<1> DEFINE c == a \o <<e>>
<1>9. c \in Seq(Element) /\ Len(c) = k /\ c[k] = e
      /\ \A i \in 1 .. k - 1 : c[i] = map[i]
  BY <1>8
<1> HIDE DEF c
<1>10. /\ c \o b \in Seq(Element) /\ Len(c \o b) = Len(c) + Len(b)
       /\ \A i \in 1 .. Len(c) : (c \o b)[i] = c[i]
       /\ \A i \in 1 .. Len(b) : (c \o b)[Len(c) + i] = b[i]
  BY <1>5, <1>9, ConcatElements
<1>11. Insert(e) = c \o b
  BY <1>6 DEF c
<1>12. \A i \in k .. Len(map) : Insert(e)[i + 1] = map[i]
  <2> SUFFICES ASSUME NEW i \in k .. Len(map) PROVE Insert(e)[i + 1] = map[i]
    OBVIOUS
  <2>1. i - k + 1 \in 1 .. Len(b) /\ i + 1 = Len(c) + (i - k + 1)
    BY <1>2, <1>3, <1>5, <1>9
  <2>2. Insert(e)[i + 1] = b[i - k + 1]
    BY <1>10, <1>11, <2>1
  <2>3. b[i - k + 1] = map[i - k + 1 + k - 1] /\ i - k + 1 + k - 1 = i
    BY <1>2, <1>3, <1>5, <2>1
  <2> QED
    BY <2>2, <2>3
<1>13. Insert(e) \in Seq(Element) /\ Len(Insert(e)) = Len(map) + 1
  BY <1>2, <1>3, <1>5, <1>9, <1>10, <1>11
<1>14. Insert(e)[k] = e /\ \A i \in 1 .. k - 1 : Insert(e)[i] = map[i]
  BY <1>2, <1>3, <1>9, <1>10, <1>11
<1> QED
  BY <1>2, <1>12, <1>13, <1>14

\* erase(it): the others keep their order.
LEMMA EraseElements ==
  ASSUME TypeOK, NEW e \in Range(map)
  PROVE  /\ Erase(e) \in Seq(Element) /\ Len(Erase(e)) = Len(map) - 1
         /\ \E k \in 1 .. Len(map) :
              /\ map[k] = e
              /\ \A i \in 1 .. k - 1 : Erase(e)[i] = map[i]
              /\ \A i \in k .. Len(map) - 1 : Erase(e)[i] = map[i + 1]
<1> DEFINE k == Position(e)
<1>1. k \in 1 .. Len(map) /\ map[k] = e
  BY PositionInMap
<1>2. Erase(e) = RemoveAt(map, k)
  BY DEF Erase
<1> HIDE DEF k
<1> DEFINE a == SubSeq(map, 1, k - 1)
           b == SubSeq(map, k + 1, Len(map))
<1>3. map \in Seq(Element) /\ Len(map) \in Nat
  BY MapElements DEF TypeOK
<1>4. /\ a \in Seq(Element) /\ Len(a) = k - 1
      /\ \A i \in 1 .. k - 1 : a[i] = map[i]
  BY <1>1, <1>3, SubSeqProperties
<1>5. /\ b \in Seq(Element) /\ Len(b) = Len(map) - k
      /\ \A i \in 1 .. Len(map) - k : b[i] = map[i + k]
  BY <1>1, <1>3, SubSeqProperties
<1>6. Erase(e) = a \o b
  BY <1>2 DEF RemoveAt
<1> HIDE DEF a, b
<1>7. /\ a \o b \in Seq(Element) /\ Len(a \o b) = Len(a) + Len(b)
      /\ \A i \in 1 .. Len(a) : (a \o b)[i] = a[i]
      /\ \A i \in 1 .. Len(b) : (a \o b)[Len(a) + i] = b[i]
  <2>1. a \in Seq(Element) /\ b \in Seq(Element)
    BY <1>4, <1>5
  <2> QED
    BY <2>1, ConcatElements
<1>8. \A i \in k .. Len(map) - 1 : Erase(e)[i] = map[i + 1]
  <2> SUFFICES ASSUME NEW i \in k .. Len(map) - 1 PROVE Erase(e)[i] = map[i + 1]
    OBVIOUS
  <2>1. i - k + 1 \in 1 .. Len(b) /\ i = Len(a) + (i - k + 1)
    BY <1>1, <1>3, <1>4, <1>5
  <2>2. Erase(e)[i] = b[i - k + 1]
    BY <1>6, <1>7, <2>1
  <2>3. b[i - k + 1] = map[i - k + 1 + k] /\ i - k + 1 + k = i + 1
    BY <1>1, <1>3, <1>5, <2>1
  <2> QED
    BY <2>2, <2>3
<1>9. Erase(e) \in Seq(Element) /\ Len(Erase(e)) = Len(map) - 1
      /\ \A i \in 1 .. k - 1 : Erase(e)[i] = map[i]
  BY <1>1, <1>3, <1>4, <1>5, <1>6, <1>7
<1> QED
  BY <1>1, <1>8, <1>9

\* Membership by position.
LEMMA InRange ==
  ASSUME NEW S, NEW q \in Seq(S)
  PROVE  /\ DOMAIN q = 1 .. Len(q) /\ Len(q) \in Nat
         /\ \A e : e \in Range(q) <=> \E i \in 1 .. Len(q) : q[i] = e
<1>1. DOMAIN q = 1 .. Len(q) /\ Len(q) \in Nat
  BY LenProperties
<1> QED
  BY <1>1 DEF Range

\* ++it: the next element, or end() behind the last.
LEMMA NextElement ==
  ASSUME TypeOK, MapInv, NEW i \in 1 .. Len(map)
  PROVE  Next1(map[i]) = IF i = Len(map) THEN End ELSE map[i + 1]
<1>1. Len(map) \in Nat /\ DOMAIN map = 1 .. Len(map) /\ Last(map) = map[Len(map)]
  BY MapElements DEF Last
<1>2. map[i] \in Range(map)
  BY <1>1 DEF Range
<1>3. Position(map[i]) = i
  BY <1>2, PositionInMap DEF MapInv
<1>4. map[i] = Last(map) <=> i = Len(map)
  <2>1. \A m, n \in 1 .. Len(map) : map[m] = map[n] => m = n
    BY DEF MapInv
  <2>2. Len(map) \in 1 .. Len(map)
    BY <1>1
  <2> QED
    BY <1>1, <2>1, <2>2
<1> QED
  BY <1>3, <1>4 DEF Next1

-----------------------------------------------------------------------------
\* The initial states satisfy the invariant.
LEMMA InitTmInv == Init => TmInv
<1> SUFFICES ASSUME Init PROVE TmInv
  OBVIOUS
<1>1. map = <<>> /\ Len(map) = 0 /\ map \in Seq(Element) /\ DOMAIN map = {}
  BY EmptySeq DEF Init
<1>2. 0 \in 0 .. MaxTime /\ 0 \in Nat
  BY TimerAssumption
<1>3. TypeOK
  BY <1>1, <1>2 DEF Init, TypeOK
<1>4. Self \in Foreign \union {Self} /\ adding[Self] = End
  BY DEF Init
<1>5. MapInv /\ IterInv /\ PassedFired /\ StoppableInMap /\ StoppedGone
  BY <1>1, <1>4 DEF Init, MapInv, IterInv, PassedFired, StoppableInMap, StoppedGone
<1>6. NothingForgotten /\ wild = {}
  BY DEF Init, NothingForgotten
<1> QED
  BY <1>3, <1>5, <1>6 DEF TmInv

\* While a callback runs the iterator points to its element.
LEMMA CallIterator ==
  ASSUME TmInv, wpc = "call"
  PROVE  it # End /\ it \in Element /\ \E i \in 1 .. Len(map) : map[i] = it
<1>1. it \in Element /\ it # End
  BY TimerAssumption DEF TmInv, IterInv, TypeOK, Element
<1> QED
  BY <1>1 DEF TmInv, IterInv

\* A key is computed: by the Processer's thread, later than what the iteration
\* has come to.
LEMMA AddBeginKeeps ==
  ASSUME TmInv, NEW th \in Foreign \union {Self}, NEW e \in Element,
         NEW d \in Duration, AddBegin(th, e, d)
  PROVE  TmInv'
<1>1. /\ adding[th] = End /\ now + d <= MaxTime
      /\ e \notin added /\ \A t \in Foreign \union {Self} : adding[t] # e
      /\ th = Self => wpc \in {"run", "call"}
      /\ adding' = [adding EXCEPT ![th] = e] /\ due' = [due EXCEPT ![e] = now + d]
      /\ UNCHANGED <<now, map, valid, wpc, it, wnow, wakeAt, added, fired, stopped,
                     overtaken, wild>>
  <2>1. \A t \in Foreign \union {Self} : adding[t] \in Range(adding)
    BY DEF TmInv, TypeOK, Range
  <2> QED
    BY <2>1, TimerAssumption DEF AddBegin, Acts
<1>2. now + d \in 0 .. MaxTime /\ now \in Nat /\ d \in Nat
  BY <1>1, TimerAssumption DEF TmInv, TypeOK
<1>3. \A i \in 1 .. Len(map) : map[i] # e /\ map[i] \in Element
  BY <1>1, MapElements DEF TmInv, MapInv
<1>4. \A i \in 1 .. Len(map) : due'[map[i]] = due[map[i]]
  BY <1>1, <1>3 DEF TmInv, TypeOK
<1>5. /\ due'[e] = now + d /\ adding'[th] = e /\ e # End
      /\ \A t \in Foreign \union {Self} : t # th => adding'[t] = adding[t]
      /\ \A x \in Element : x # e => due'[x] = due[x]
  BY <1>1, TimerAssumption DEF TmInv, TypeOK, Element
<1>6. TypeOK'
  <2>1. due' \in [Element -> 0 .. MaxTime]
        /\ adding' \in [Foreign \union {Self} -> Element \union {End}]
    BY <1>1, <1>2 DEF TmInv, TypeOK
  <2>2. \A i, j \in DOMAIN map : i < j => due'[map[i]] <= due'[map[j]]
    BY <1>4, MapElements DEF TmInv
  <2> QED
    BY <1>1, <2>1, <2>2 DEF TmInv, TypeOK
<1>7. MapInv'
  <2>1. \A t \in Foreign \union {Self} : adding'[t] \notin added
    BY <1>1, <1>5 DEF TmInv, MapInv
  <2>2. ASSUME NEW t1 \in Foreign \union {Self}, NEW t2 \in Foreign \union {Self},
               adding'[t1] = adding'[t2]
        PROVE  t1 = t2 \/ adding'[t1] = End
    BY <1>1, <1>5, <2>2 DEF TmInv, MapInv
  <2> QED
    BY <1>1, <1>5, <2>1, <2>2 DEF TmInv, MapInv
<1>8. IterInv'
  <2>1. wpc = "call" => due'[it] = due[it] /\ due[it] <= now + d
    <3> SUFFICES ASSUME wpc = "call" PROVE due'[it] = due[it] /\ due[it] <= now + d
      OBVIOUS
    <3>1. PICK i \in 1 .. Len(map) : map[i] = it
      BY CallIterator
    <3>2. due[it] <= wnow /\ wnow <= now
      BY DEF TmInv, IterInv
    <3>3. due[it] \in Nat /\ wnow \in Nat
      BY <1>3, <3>1, MapElements DEF TmInv, TypeOK
    <3> QED
      BY <1>2, <1>4, <3>1, <3>2, <3>3
  <2>2. CASE th = Self
    BY <1>1, <1>5, <2>1, <2>2 DEF TmInv, IterInv
  <2>3. CASE th # Self
    <3>1. adding'[Self] = adding[Self] /\ adding[Self] # e
      BY <1>1, <1>5, <2>3
    <3>2. adding[Self] # End => due'[adding[Self]] = due[adding[Self]]
      BY <1>5, <3>1 DEF TmInv, TypeOK
    <3> QED
      BY <1>1, <2>1, <3>1, <3>2 DEF TmInv, IterInv
  <2> QED
    BY <2>2, <2>3
<1>9. PassedFired' /\ StoppableInMap' /\ StoppedGone' /\ NothingForgotten'
  BY <1>1 DEF TmInv, PassedFired, StoppableInMap, StoppedGone, NothingForgotten
<1>10. wild' = {}
  BY <1>1 DEF TmInv
<1> QED
  BY <1>6, <1>7, <1>8, <1>9, <1>10 DEF TmInv

\* The element is inserted: behind the iterator if one is in use, or it counts as
\* overtaken.
LEMMA AddInsertKeeps ==
  ASSUME TmInv, NEW th \in Foreign \union {Self}, AddInsert(th)
  PROVE  TmInv'
<1> DEFINE e == adding[th]
<1>1. /\ e # End /\ wpc # "scan"
      /\ map' = Insert(e) /\ adding' = [adding EXCEPT ![th] = End]
      /\ added' = added \union {e}
      /\ valid' = valid \union ({e} \intersect Timer)
      /\ overtaken' = overtaken \union
            (IF th # Self /\ wpc = "call" /\ due[e] < due[it] THEN {e} ELSE {})
      /\ UNCHANGED <<now, due, wpc, it, wnow, wakeAt, fired, stopped, wild>>
  BY DEF AddInsert, Locked
<1>2. /\ e \in Element /\ e \notin added /\ adding'[th] = End
      /\ \A x \in Foreign \union {Self} : x # th => adding'[x] = adding[x] /\ adding[x] # e
  BY <1>1, TimerAssumption DEF TmInv, TypeOK, MapInv
<1> HIDE DEF e
<1>3. map' \in Seq(Element) /\ Len(map') = Len(map) + 1 /\ Len(map) \in Nat
  BY <1>1, <1>2, InsertElements, MapElements DEF TmInv
<1>4. PICK k \in 1 .. Len(map) + 1 :
         /\ \A i \in 1 .. k - 1 : map'[i] = map[i] /\ due[map[i]] <= due[e]
         /\ map'[k] = e
         /\ \A i \in k .. Len(map) : map'[i + 1] = map[i] /\ due[map[i]] > due[e]
  BY <1>1, <1>2, InsertElements DEF TmInv
<1>5. \A i \in 1 .. Len(map') :
         \/ i < k /\ i \in 1 .. Len(map) /\ map'[i] = map[i]
         \/ i = k /\ map'[i] = e
         \/ i > k /\ i - 1 \in k .. Len(map) /\ map'[i] = map[i - 1]
  <2> SUFFICES ASSUME NEW i \in 1 .. Len(map'), i > k
               PROVE  i - 1 \in k .. Len(map) /\ map'[i] = map[i - 1]
    BY <1>3, <1>4
  <2>1. i - 1 \in k .. Len(map) /\ (i - 1) + 1 = i
    BY <1>3
  <2> QED
    BY <1>4, <2>1
<1>6. \A j \in 1 .. Len(map) : \E i \in 1 .. Len(map') : map'[i] = map[j]
  <2> SUFFICES ASSUME NEW j \in 1 .. Len(map)
               PROVE  \E i \in 1 .. Len(map') : map'[i] = map[j]
    OBVIOUS
  <2>1. CASE j < k
    <3>1. j \in 1 .. k - 1 /\ j \in 1 .. Len(map')
      BY <1>3, <2>1
    <3> QED
      BY <1>4, <3>1
  <2>2. CASE ~ (j < k)
    <3>1. j \in k .. Len(map) /\ j + 1 \in 1 .. Len(map')
      BY <1>3, <2>2
    <3> QED
      BY <1>4, <3>1
  <2> QED
    BY <2>1, <2>2
<1>7. k \in 1 .. Len(map')
  BY <1>3
<1>8. \A i \in 1 .. Len(map) : map[i] \in added /\ map[i] # e
  BY <1>2 DEF TmInv, MapInv
<1>9. \A i, j \in 1 .. Len(map') : i < j => due[map'[i]] <= due[map'[j]]
  <2> SUFFICES ASSUME NEW i \in 1 .. Len(map'), NEW j \in 1 .. Len(map'), i < j
               PROVE  due[map'[i]] <= due[map'[j]]
    OBVIOUS
  <2>1. \A m \in 1 .. Len(map) : due[map[m]] \in Nat
    BY MapElements DEF TmInv
  <2>2. due[e] \in Nat
    BY <1>2, MapElements DEF TmInv
  <2>3. \A m, n \in 1 .. Len(map) : m < n => due[map[m]] <= due[map[n]]
    BY MapElements DEF TmInv
  <2>4. CASE i < k /\ j < k
    BY <1>5, <2>3, <2>4
  <2>5. CASE i < k /\ j = k
    BY <1>4, <1>5, <2>5
  <2>6. CASE i < k /\ j > k
    <3>1. i \in 1 .. Len(map) /\ j - 1 \in 1 .. Len(map) /\ i < j - 1
      BY <1>3, <2>6
    <3> QED
      BY <1>5, <2>3, <2>6, <3>1
  <2>7. CASE i = k
    <3>1. j > k /\ j - 1 \in k .. Len(map) /\ map'[j] = map[j - 1] /\ map'[i] = e
      BY <1>3, <1>5, <2>7
    <3>2. due[map[j - 1]] > due[e] /\ j - 1 \in 1 .. Len(map)
      BY <1>3, <1>4, <3>1
    <3> QED
      BY <2>1, <2>2, <3>1, <3>2
  <2>8. CASE i > k
    <3>1. i - 1 \in 1 .. Len(map) /\ j - 1 \in 1 .. Len(map) /\ i - 1 < j - 1 /\ j > k
      BY <1>3, <2>8
    <3> QED
      BY <1>5, <2>3, <2>8, <3>1
  <2> QED
    BY <1>3, <2>4, <2>5, <2>6, <2>7, <2>8
<1>10. TypeOK'
  <2>1. DOMAIN map' = 1 .. Len(map')
    BY <1>3, InRange
  <2>2. adding' \in [Foreign \union {Self} -> Element \union {End}]
        /\ added' \in SUBSET Element /\ valid' \in SUBSET Timer
        /\ overtaken' \in SUBSET Element
    BY <1>1, <1>2 DEF TmInv, TypeOK
  <2> QED
    BY <1>1, <1>3, <1>9, <2>1, <2>2 DEF TmInv, TypeOK
<1>11. MapInv'
  <2>1. ASSUME NEW i \in 1 .. Len(map'), NEW j \in 1 .. Len(map'), map'[i] = map'[j]
        PROVE  i = j
    <3>1. \A m, n \in 1 .. Len(map) : map[m] = map[n] => m = n
      BY DEF TmInv, MapInv
    <3>2. i > k => i - 1 \in 1 .. Len(map)
      BY <1>3
    <3>3. j > k => j - 1 \in 1 .. Len(map)
      BY <1>3
    <3>4. CASE i = k \/ j = k
      BY <1>3, <1>5, <1>8, <2>1, <3>2, <3>3, <3>4
    <3>5. CASE i < k /\ j < k
      BY <1>5, <2>1, <3>1, <3>5
    <3>6. CASE i > k /\ j > k
      <4>1. map'[i] = map[i - 1] /\ map'[j] = map[j - 1]
        BY <1>3, <1>5, <3>6
      <4>2. i - 1 = j - 1
        BY <2>1, <3>1, <3>2, <3>3, <3>6, <4>1
      <4> QED
        BY <1>3, <4>2
    <3>7. CASE i < k /\ j > k
      <4>1. i = j - 1 /\ j - 1 \in k .. Len(map)
        BY <1>5, <2>1, <3>1, <3>3, <3>7
      <4> QED
        BY <1>3, <3>7, <4>1
    <3>8. CASE i > k /\ j < k
      <4>1. j = i - 1 /\ i - 1 \in k .. Len(map)
        BY <1>5, <2>1, <3>1, <3>2, <3>8
      <4> QED
        BY <1>3, <3>8, <4>1
    <3> QED
      BY <1>3, <3>4, <3>5, <3>6, <3>7, <3>8
  <2>2. ASSUME NEW i \in 1 .. Len(map')
        PROVE  map'[i] \in added'
    <3>1. i > k => i - 1 \in 1 .. Len(map)
      BY <1>3
    <3> QED
      BY <1>1, <1>5, <1>8, <3>1
  <2>3. End \notin added'
    BY <1>1, <1>2, TimerAssumption DEF TmInv, TypeOK, Element
  <2>4. ASSUME NEW t1 \in Foreign \union {Self}, NEW t2 \in Foreign \union {Self},
               adding'[t1] = adding'[t2]
        PROVE  t1 = t2 \/ adding'[t1] = End
    BY <1>2, <2>4 DEF TmInv, MapInv
  <2>5. \A t \in Foreign \union {Self} : adding'[t] \notin added'
    BY <1>1, <1>2, <2>3 DEF TmInv, MapInv
  <2>6. adding'[Self] # End => wpc' \in {"run", "call"}
    BY <1>1, <1>2 DEF TmInv, MapInv
  <2> QED
    BY <2>1, <2>2, <2>4, <2>5, <2>6 DEF MapInv
<1>12. IterInv'
  <2>1. it # End => \E i \in 1 .. Len(map') : map'[i] = it
    BY <1>6 DEF TmInv, IterInv
  <2>2. adding'[Self] # End => adding'[Self] = adding[Self]
    BY <1>2
  <2> QED
    BY <1>1, <2>1, <2>2 DEF TmInv, IterInv
<1>13. PassedFired'
  <2> SUFFICES ASSUME wpc = "call", NEW i \in 1 .. Len(map'),
                      it = End \/ \E j \in 1 .. Len(map') : map'[j] = it /\ i < j
               PROVE  map'[i] \in fired \union overtaken'
    BY <1>1 DEF PassedFired
  <2>1. it # End
    BY CallIterator
  <2>2. PICK m \in 1 .. Len(map) : map[m] = it
    BY <2>1 DEF TmInv, IterInv
  <2>3. PICK j \in 1 .. Len(map') : map'[j] = it /\ i < j
    BY <2>1
  <2>4. \/ m < k /\ j = m
        \/ ~ (m < k) /\ j = m + 1
    <3>1. CASE m < k
      <4>1. m \in 1 .. Len(map') /\ map'[m] = it
        BY <1>3, <1>4, <2>2, <3>1
      <4> QED
        BY <1>11, <2>3, <3>1, <4>1 DEF MapInv
    <3>2. CASE ~ (m < k)
      <4>1. m \in k .. Len(map) /\ m + 1 \in 1 .. Len(map')
        BY <1>3, <2>2, <3>2
      <4>2. map'[m + 1] = it
        BY <1>4, <2>2, <4>1
      <4> QED
        BY <1>11, <2>3, <3>2, <4>1, <4>2 DEF MapInv
    <3> QED
      BY <3>1, <3>2
  <2>5. \A n \in 1 .. Len(map) : n < m => map[n] \in fired \union overtaken
    BY <2>2 DEF TmInv, PassedFired
  <2>6. CASE i = k
    <3>1. ~ (m < k) /\ m \in k .. Len(map)
      BY <1>3, <2>2, <2>3, <2>4, <2>6
    <3>2. due[it] > due[e]
      BY <1>4, <2>2, <3>1
    <3>3. due[it] \in Nat /\ due[e] \in Nat
      BY <1>2, <2>2, MapElements DEF TmInv
    <3>4. th # Self
      <4>1. CASE th = Self
        <5>1. due[it] <= due[e]
          BY <1>1, <4>1 DEF TmInv, IterInv, e
        <5> QED
          BY <3>2, <3>3, <5>1
      <4> QED
        BY <4>1
    <3>5. e \in overtaken'
      BY <1>1, <3>2, <3>3, <3>4
    <3> QED
      BY <1>4, <2>6, <3>5
  <2>7. CASE i < k
    <3>1. i \in 1 .. Len(map) /\ map'[i] = map[i] /\ i < m
      BY <1>3, <1>4, <1>5, <2>2, <2>3, <2>4, <2>7
    <3> QED
      BY <1>1, <2>5, <3>1
  <2>8. CASE i > k
    <3>1. i - 1 \in 1 .. Len(map) /\ map'[i] = map[i - 1] /\ i - 1 < m
      BY <1>3, <1>5, <2>2, <2>3, <2>4, <2>8
    <3> QED
      BY <1>1, <2>5, <3>1
  <2> QED
    BY <1>3, <2>6, <2>7, <2>8
<1>14. StoppableInMap'
  <2> SUFFICES ASSUME NEW x \in valid' \ (fired \union overtaken')
               PROVE  \E i \in 1 .. Len(map') : map'[i] = x
    BY <1>1 DEF StoppableInMap
  <2>1. CASE x = e
    BY <1>4, <1>7, <2>1
  <2>2. CASE x # e
    BY <1>1, <1>6, <2>2 DEF TmInv, StoppableInMap
  <2> QED
    BY <2>1, <2>2
<1>15. NothingForgotten'
  <2>1. \A x \in Range(map) : x \in Range(map')
    <3> SUFFICES ASSUME NEW x \in Range(map) PROVE x \in Range(map')
      OBVIOUS
    <3>1. PICK j \in 1 .. Len(map) : map[j] = x
      BY MapElements DEF TmInv
    <3> QED
      BY <1>3, <1>6, <3>1, InRange
  <2>2. e \in Range(map')
    BY <1>3, <1>4, <1>7, InRange
  <2> QED
    BY <1>1, <2>1, <2>2 DEF TmInv, NothingForgotten
<1>16. StoppedGone' /\ wild' = {}
  <2>1. e \notin stopped
    BY <1>2 DEF TmInv, StoppedGone
  <2>2. \A i \in 1 .. Len(map') : map'[i] \notin stopped
    <3> SUFFICES ASSUME NEW i \in 1 .. Len(map') PROVE map'[i] \notin stopped
      OBVIOUS
    <3>1. i > k => i - 1 \in 1 .. Len(map)
      BY <1>3
    <3> QED
      BY <1>5, <2>1, <3>1 DEF TmInv, StoppedGone
  <2> QED
    BY <1>1, <2>2 DEF TmInv, StoppedGone
<1> QED
  BY <1>10, <1>11, <1>12, <1>13, <1>14, <1>15, <1>16 DEF TmInv

\* A timer whose element is in the map is stopped; it is not the iterator's, or
\* the behaviour ends.
LEMMA StoppingKeeps ==
  ASSUME TmInv, NEW th \in Foreign \union {Self}, NEW e \in Timer,
         StopTimer(th, e), ~ Dead(e)
  PROVE  TmInv'
<1>1. /\ e \in valid /\ wpc # "scan" /\ map' = Erase(e) /\ wild' = {}
      /\ valid' = valid \ {e} /\ stopped' = stopped \union {e}
      /\ UNCHANGED <<now, due, adding, wpc, it, wnow, wakeAt, added, fired,
                     overtaken>>
  BY DEF StopTimer, Locked
<1>2. e \in Range(map) /\ ~ (wpc = "call" /\ it = e)
  BY DEF Dead
<1>3. map' \in Seq(Element) /\ Len(map') = Len(map) - 1 /\ Len(map) \in Nat
  BY <1>1, <1>2, EraseElements, MapElements DEF TmInv
<1>4. PICK k \in 1 .. Len(map) :
         /\ map[k] = e
         /\ \A i \in 1 .. k - 1 : map'[i] = map[i]
         /\ \A i \in k .. Len(map) - 1 : map'[i] = map[i + 1]
  BY <1>1, <1>2, EraseElements DEF TmInv
<1> DEFINE old(i) == IF i < k THEN i ELSE i + 1
<1>5. \A i \in 1 .. Len(map') :
         old(i) \in 1 .. Len(map) /\ old(i) # k /\ map'[i] = map[old(i)]
  <2> SUFFICES ASSUME NEW i \in 1 .. Len(map')
               PROVE  old(i) \in 1 .. Len(map) /\ old(i) # k /\ map'[i] = map[old(i)]
    OBVIOUS
  <2>1. CASE i < k
    <3>1. i \in 1 .. k - 1 /\ i \in 1 .. Len(map)
      BY <1>3, <2>1
    <3> QED
      BY <1>4, <2>1, <3>1
  <2>2. CASE ~ (i < k)
    <3>1. i \in k .. Len(map) - 1 /\ i + 1 \in 1 .. Len(map) /\ i + 1 # k
      BY <1>3, <2>2
    <3> QED
      BY <1>4, <2>2, <3>1
  <2> QED
    BY <2>1, <2>2
<1>6. \A i, j \in 1 .. Len(map') : (i < j <=> old(i) < old(j)) /\ (old(i) = old(j) => i = j)
  BY <1>3
<1>7. \A j \in 1 .. Len(map) : j # k => \E i \in 1 .. Len(map') : old(i) = j
  <2> SUFFICES ASSUME NEW j \in 1 .. Len(map), j # k
               PROVE  \E i \in 1 .. Len(map') : old(i) = j
    OBVIOUS
  <2>1. CASE j < k
    <3>1. j \in 1 .. Len(map') /\ old(j) = j
      BY <1>3, <2>1
    <3> QED
      BY <3>1
  <2>2. CASE ~ (j < k)
    <3>1. j - 1 \in 1 .. Len(map') /\ old(j - 1) = j
      BY <1>3, <2>2
    <3> QED
      BY <3>1
  <2> QED
    BY <2>1, <2>2
<1> HIDE DEF old
<1>8. \A x \in Range(map) : x # e => \E i \in 1 .. Len(map') : map'[i] = x
  <2> SUFFICES ASSUME NEW x \in Range(map), x # e
               PROVE  \E i \in 1 .. Len(map') : map'[i] = x
    OBVIOUS
  <2>1. PICK j \in 1 .. Len(map) : map[j] = x
    BY MapElements DEF TmInv
  <2>2. PICK i \in 1 .. Len(map') : old(i) = j
    BY <1>4, <1>7, <2>1
  <2> QED
    BY <1>5, <2>1, <2>2
<1>9. TypeOK'
  <2>1. DOMAIN map' = 1 .. Len(map')
    BY <1>3, InRange
  <2>2. \A i, j \in 1 .. Len(map') : i < j => due[map'[i]] <= due[map'[j]]
    BY <1>5, <1>6, MapElements DEF TmInv
  <2>3. valid' \in SUBSET Timer /\ stopped' \in SUBSET Timer /\ wild' \in SUBSET Timer
    BY <1>1 DEF TmInv, TypeOK
  <2> QED
    BY <1>1, <1>3, <2>1, <2>2, <2>3 DEF TmInv, TypeOK
<1>10. MapInv'
  <2>1. \A i, j \in 1 .. Len(map') : map'[i] = map'[j] => i = j
    BY <1>5, <1>6 DEF TmInv, MapInv
  <2>2. \A i \in 1 .. Len(map') : map'[i] \in added
    BY <1>5 DEF TmInv, MapInv
  <2> QED
    BY <1>1, <2>1, <2>2 DEF TmInv, MapInv
<1>11. it # End => \E i \in 1 .. Len(map') : map'[i] = it
  <2> SUFFICES ASSUME it # End PROVE \E i \in 1 .. Len(map') : map'[i] = it
    OBVIOUS
  <2>1. it \in Range(map) /\ it # e
    BY <1>1, <1>2, MapElements DEF TmInv, TypeOK, IterInv
  <2> QED
    BY <1>8, <2>1
<1>12. IterInv'
  BY <1>1, <1>11 DEF TmInv, IterInv
<1>13. PassedFired'
  <2> SUFFICES ASSUME wpc = "call", NEW i \in 1 .. Len(map'),
                      it = End \/ \E j \in 1 .. Len(map') : map'[j] = it /\ i < j
               PROVE  map'[i] \in fired \union overtaken
    BY <1>1 DEF PassedFired
  <2>1. PICK j \in 1 .. Len(map') : map'[j] = it /\ i < j
    BY CallIterator
  <2>2. old(i) < old(j) /\ map[old(j)] = it /\ map[old(i)] = map'[i]
        /\ old(i) \in 1 .. Len(map) /\ old(j) \in 1 .. Len(map)
    BY <1>5, <1>6, <2>1
  <2> QED
    BY <2>2 DEF TmInv, PassedFired
<1>14. StoppableInMap'
  <2> SUFFICES ASSUME NEW x \in valid \ (fired \union overtaken), x # e
               PROVE  \E i \in 1 .. Len(map') : map'[i] = x
    BY <1>1 DEF StoppableInMap
  <2>1. x \in Range(map)
    BY MapElements DEF TmInv, StoppableInMap
  <2> QED
    BY <1>8, <2>1
<1>15. NothingForgotten'
  <2>1. \A x \in Range(map) : x # e => x \in Range(map')
    BY <1>3, <1>8, InRange
  <2> QED
    BY <1>1, <2>1 DEF TmInv, NothingForgotten
<1>16. StoppedGone'
  <2>1. \A i \in 1 .. Len(map') : map'[i] \notin stopped /\ map'[i] # e
    BY <1>4, <1>5 DEF TmInv, MapInv, StoppedGone
  <2>2. e \in added
    BY <1>1 DEF TmInv, StoppedGone
  <2> QED
    BY <1>1, <2>1, <2>2 DEF TmInv, StoppedGone
<1> QED
  BY <1>1, <1>9, <1>10, <1>12, <1>13, <1>14, <1>15, <1>16 DEF TmInv

\* StopTimer meets a dead iterator only if the timer's callback has begun or it
\* was overtaken.
LEMMA StoppingLate ==
  ASSUME TmInv, NEW th \in Foreign \union {Self}, NEW e \in Timer,
         StopTimer(th, e), Dead(e)
  PROVE  /\ TypeOK' /\ NothingForgotten' /\ wild' = {e}
         /\ e \in fired' \union overtaken'
<1>1. /\ e \in valid /\ map' = Erase(e) /\ wild' = {e}
      /\ valid' = valid \ {e} /\ stopped' = stopped \union {e}
      /\ UNCHANGED <<now, due, adding, wpc, it, wnow, wakeAt, added, fired,
                     overtaken>>
  BY DEF StopTimer
<1>2. e \in fired \union overtaken
  <2>1. CASE wpc = "call" /\ it = e
    BY <2>1 DEF TmInv, IterInv
  <2>2. CASE e \notin Range(map)
    BY <1>1, <2>2, MapElements DEF TmInv, StoppableInMap
  <2> QED
    BY <2>1, <2>2 DEF Dead
<1>3. CASE e \notin Range(map)
  <2>1. map' = map
    BY <1>1, <1>3 DEF Erase
  <2> QED
    BY <1>1, <1>2, <2>1 DEF TmInv, TypeOK, NothingForgotten
<1>4. CASE e \in Range(map)
  <2>1. /\ map' \in Seq(Element) /\ Len(map') = Len(map) - 1 /\ Len(map) \in Nat
        /\ DOMAIN map' = 1 .. Len(map')
    BY <1>1, <1>4, EraseElements, MapElements, InRange DEF TmInv
  <2>2. PICK k \in 1 .. Len(map) :
           /\ map[k] = e
           /\ \A i \in 1 .. k - 1 : map'[i] = map[i]
           /\ \A i \in k .. Len(map) - 1 : map'[i] = map[i + 1]
    BY <1>1, <1>4, EraseElements DEF TmInv
  <2>3. ASSUME NEW i \in 1 .. Len(map'), NEW j \in 1 .. Len(map'), i < j
        PROVE  due[map'[i]] <= due[map'[j]]
    <3> DEFINE old(n) == IF n < k THEN n ELSE n + 1
    <3>1. ASSUME NEW n \in 1 .. Len(map')
          PROVE  old(n) \in 1 .. Len(map) /\ map'[n] = map[old(n)]
      <4>1. CASE n < k
        <5>1. n \in 1 .. k - 1 /\ n \in 1 .. Len(map)
          BY <2>1, <4>1
        <5> QED
          BY <2>2, <4>1, <5>1
      <4>2. CASE ~ (n < k)
        <5>1. n \in k .. Len(map) - 1 /\ n + 1 \in 1 .. Len(map)
          BY <2>1, <4>2
        <5> QED
          BY <2>2, <4>2, <5>1
      <4> QED
        BY <4>1, <4>2
    <3>2. old(i) < old(j)
      BY <2>1, <2>3
    <3> HIDE DEF old
    <3> QED
      BY <3>1, <3>2, MapElements DEF TmInv
  <2>4. \A x \in Range(map) : x # e => x \in Range(map')
    <3> SUFFICES ASSUME NEW x \in Range(map), x # e PROVE x \in Range(map')
      OBVIOUS
    <3>1. PICK m \in 1 .. Len(map) : map[m] = x
      BY MapElements DEF TmInv
    <3>2. CASE m < k
      <4>1. m \in 1 .. k - 1 /\ m \in 1 .. Len(map')
        BY <2>1, <3>2
      <4> QED
        BY <2>1, <2>2, <3>1, <4>1, InRange
    <3>3. CASE ~ (m < k)
      <4>1. m # k
        BY <2>2, <3>1
      <4>2. m - 1 \in k .. Len(map) - 1 /\ m - 1 \in 1 .. Len(map') /\ (m - 1) + 1 = m
        BY <2>1, <3>3, <4>1
      <4>3. map'[m - 1] = x
        BY <2>2, <3>1, <4>2
      <4> QED
        BY <2>1, <4>2, <4>3, InRange
    <3> QED
      BY <3>2, <3>3
  <2>5. TypeOK'
    BY <1>1, <2>1, <2>3 DEF TmInv, TypeOK
  <2>6. NothingForgotten'
    BY <1>1, <2>4 DEF TmInv, NothingForgotten
  <2> QED
    BY <1>1, <1>2, <2>5, <2>6
<1> QED
  BY <1>3, <1>4

\* WaitLoop is entered.
LEMMA IdleKeeps ==
  ASSUME TmInv, Idle
  PROVE  TmInv'
<1>1. /\ wpc = "run" /\ wpc' = "wait" /\ wakeAt' = now + GetLastDuration
      /\ adding[Self] = End
      /\ UNCHANGED <<now, map, due, adding, valid, it, wnow, added, fired, stopped,
                     overtaken, wild>>
  BY DEF Idle
<1>2. now \in Nat /\ \A e \in Element : due[e] \in Nat
  BY MapElements, TimerAssumption DEF TmInv, TypeOK
<1>3. wakeAt' \in Nat
  <2>1. CASE map = <<>>
    BY <1>1, <1>2, <2>1, TimerAssumption DEF GetLastDuration
  <2>2. CASE map # <<>>
    <3>1. Head(map) \in Element
      BY <2>2, MapElements DEF TmInv
    <3>2. due[Head(map)] \in Nat
      BY <1>2, <3>1
    <3>3. GetLastDuration = IF due[Head(map)] <= now THEN 0 ELSE due[Head(map)] - now
      BY <2>2 DEF GetLastDuration
    <3> QED
      BY <1>1, <1>2, <3>2, <3>3
  <2> QED
    BY <2>1, <2>2
<1>4. TypeOK'
  BY <1>1, <1>3 DEF TmInv, TypeOK
<1>5. MapInv' /\ IterInv' /\ PassedFired' /\ StoppableInMap' /\ StoppedGone'
      /\ NothingForgotten' /\ wild' = {}
  BY <1>1 DEF TmInv, MapInv, IterInv, PassedFired, StoppableInMap, StoppedGone,
              NothingForgotten
<1> QED
  BY <1>4, <1>5 DEF TmInv

\* The iteration begins with the first element.
LEMMA WakeupTimersKeeps ==
  ASSUME TmInv, WakeupTimers
  PROVE  TmInv'
<1>1. /\ wpc = "wait" /\ adding[Self] = End /\ it = End
      /\ UNCHANGED <<now, map, due, adding, valid, wakeAt, added, fired, stopped,
                     overtaken, wild>>
  BY DEF WakeupTimers, TmInv, MapInv, IterInv
<1>2. /\ wpc' = IF map = <<>> THEN "run" ELSE "scan"
      /\ it' = IF map = <<>> THEN it ELSE Head(map)
      /\ wnow' = IF map = <<>> THEN wnow ELSE now
  BY DEF WakeupTimers
<1>3. map # <<>> => 1 \in 1 .. Len(map) /\ Head(map) = map[1] /\ map[1] \in Element
  BY MapElements DEF TmInv
<1>4. TypeOK'
  BY <1>1, <1>2, <1>3 DEF TmInv, TypeOK
<1>5. MapInv' /\ StoppableInMap' /\ StoppedGone' /\ NothingForgotten' /\ wild' = {}
  BY <1>1 DEF TmInv, MapInv, StoppableInMap, StoppedGone, NothingForgotten
<1>6. IterInv'
  <2>1. now <= now
    BY TimerAssumption DEF TmInv, TypeOK
  <2> QED
    BY <1>1, <1>2, <1>3, <2>1 DEF TmInv, IterInv
<1>7. PassedFired'
  <2> SUFFICES ASSUME map # <<>>, NEW i \in 1 .. Len(map), NEW j \in 1 .. Len(map),
                      map[j] = map[1], i < j
               PROVE  FALSE
    <3>1. map # <<>> => map[1] # End
      BY <1>3, MapElements DEF TmInv
    <3> QED
      BY <1>1, <1>2, <1>3, <3>1 DEF PassedFired
  <2>1. j = 1
    BY <1>3 DEF TmInv, MapInv
  <2> QED
    BY <2>1
<1> QED
  BY <1>4, <1>5, <1>6, <1>7 DEF TmInv

\* The iteration reaches an element that is due and goes on behind it.
LEMMA AdvanceKeeps ==
  ASSUME TmInv, it # End, it \in fired', wpc \in {"scan", "call"}, adding[Self] = End,
         fired' \in {fired, fired \union {it}},
         wpc' = "scan", it' = Next1(it),
         UNCHANGED <<now, map, due, adding, valid, wnow, wakeAt, added, stopped,
                     overtaken, wild>>
  PROVE  TmInv'
<1>1. PICK i \in 1 .. Len(map) : map[i] = it
  BY DEF TmInv, IterInv
<1>2. it' = IF i = Len(map) THEN End ELSE map[i + 1]
  BY <1>1, NextElement DEF TmInv
<1>3. Len(map) \in Nat /\ (i # Len(map) => i + 1 \in 1 .. Len(map))
  <2>1. Len(map) \in Nat
    BY MapElements DEF TmInv
  <2> QED
    BY <2>1
<1>4. it' \in Element \union {End} /\ fired' \in SUBSET Element
  BY <1>1, <1>2, <1>3, MapElements DEF TmInv, TypeOK
<1>5. TypeOK'
  BY <1>4 DEF TmInv, TypeOK
<1>6. MapInv' /\ StoppableInMap' /\ StoppedGone' /\ NothingForgotten' /\ wild' = {}
  BY DEF TmInv, MapInv, StoppableInMap, StoppedGone, NothingForgotten
<1>7. IterInv'
  BY <1>2, <1>3 DEF TmInv, IterInv
<1>8. PassedFired'
  <2> SUFFICES ASSUME NEW m \in 1 .. Len(map),
                      it' = End \/ \E j \in 1 .. Len(map) : map[j] = it' /\ m < j
               PROVE  map[m] \in fired' \union overtaken'
    BY DEF PassedFired
  <2>1. m < i \/ m = i
    <3>1. CASE i = Len(map)
      BY <1>3, <3>1
    <3>2. CASE i # Len(map)
      <4>1. it' = map[i + 1] /\ it' # End
        BY <1>2, <1>3, <3>2, MapElements DEF TmInv
      <4>2. PICK j \in 1 .. Len(map) : map[j] = it' /\ m < j
        BY <4>1
      <4>3. j = i + 1
        BY <1>3, <3>2, <4>1, <4>2 DEF TmInv, MapInv
      <4> QED
        BY <4>2, <4>3
    <3> QED
      BY <3>1, <3>2
  <2> QED
    BY <1>1, <2>1 DEF TmInv, PassedFired
<1> QED
  BY <1>5, <1>6, <1>7, <1>8 DEF TmInv

\* A sleeper is woken, or a callback has returned.
LEMMA IterationKeeps ==
  ASSUME TmInv, WakeSleeper \/ CallReturns
  PROVE  TmInv'
<1>1. CASE WakeSleeper
  <2>1. /\ it # End /\ fired' = fired \union {it} /\ wpc = "scan" /\ it' = Next1(it)
        /\ UNCHANGED <<now, map, due, adding, valid, wpc, wnow, wakeAt, added,
                       stopped, overtaken, wild>>
    BY <1>1 DEF WakeSleeper, PastDue, Locked
  <2>2. adding[Self] = End
    BY <2>1 DEF TmInv, MapInv
  <2> QED
    BY <2>1, <2>2, AdvanceKeeps
<1>2. CASE CallReturns
  <2>1. it # End /\ it \in fired
    BY <1>2, CallIterator DEF CallReturns, TmInv, IterInv
  <2> QED
    BY <1>2, <2>1, AdvanceKeeps DEF CallReturns
<1> QED
  BY <1>1, <1>2

\* A callback begins, outside map_lock_.
LEMMA CallTimerKeeps ==
  ASSUME TmInv, CallTimer
  PROVE  TmInv'
<1>1. /\ wpc = "scan" /\ it # End /\ ~ (due[it] > wnow) /\ it \in Timer
      /\ wpc' = "call"
      /\ fired' = fired \union {it}
      /\ UNCHANGED <<now, map, due, adding, valid, it, wnow, wakeAt, added,
                     stopped, overtaken, wild>>
  BY DEF CallTimer, PastDue, Locked
<1>2. due[it] <= wnow /\ adding[Self] = End
  <2>1. due[it] \in Nat /\ wnow \in Nat
    BY <1>1, MapElements, TimerAssumption DEF TmInv, TypeOK, Element
  <2> QED
    BY <1>1, <2>1 DEF TmInv, MapInv
<1>3. TypeOK'
  BY <1>1 DEF TmInv, TypeOK, Element
<1>4. MapInv' /\ IterInv' /\ PassedFired' /\ StoppableInMap'
      /\ StoppedGone' /\ NothingForgotten' /\ wild' = {}
  BY <1>1, <1>2 DEF TmInv, MapInv, IterInv, PassedFired, StoppableInMap,
                    StoppedGone, NothingForgotten
<1> QED
  BY <1>3, <1>4 DEF TmInv

\* erase(begin(), it): what is erased has fired.
LEMMA EraseFiredKeeps ==
  ASSUME TmInv, EraseFired
  PROVE  TmInv'
<1>1. /\ wpc = "scan" /\ wpc' = "run" /\ it' = End /\ adding[Self] = End
      /\ map' = IF it = End THEN <<>> ELSE SubSeq(map, Position(it), Len(map))
      /\ UNCHANGED <<now, due, adding, valid, wnow, wakeAt, added, fired, stopped,
                     overtaken, wild>>
  BY DEF EraseFired, Locked, TmInv, MapInv
<1>2. Len(map) \in Nat /\ map \in Seq(Element)
  BY MapElements DEF TmInv, TypeOK
<1>3. PICK k \in 1 .. Len(map) + 1 :
         /\ map' \in Seq(Element) /\ Len(map') = Len(map) - k + 1
         /\ \A i \in 1 .. Len(map') : map'[i] = map[i + k - 1]
         /\ \A i \in 1 .. k - 1 : map[i] \in fired \union overtaken
  <2>1. CASE it = End
    <3>1. map' = <<>> /\ Len(map') = 0 /\ map' \in Seq(Element)
      BY <1>1, <2>1, EmptySeq
    <3>2. \A i \in 1 .. Len(map) : map[i] \in fired \union overtaken
      BY <1>1, <2>1 DEF TmInv, PassedFired
    <3>3. Len(map) + 1 \in 1 .. Len(map) + 1 /\ Len(map) - (Len(map) + 1) + 1 = 0
          /\ (Len(map) + 1) - 1 = Len(map)
      BY <1>2
    <3> QED
      BY <3>1, <3>2, <3>3
  <2>2. CASE it # End
    <3> DEFINE p == Position(it)
    <3>1. it \in Range(map)
      BY <2>2, MapElements DEF TmInv, IterInv
    <3>2. p \in 1 .. Len(map) /\ map[p] = it
      BY <3>1, PositionInMap DEF TmInv
    <3>3. map' = SubSeq(map, p, Len(map))
      BY <1>1, <2>2
    <3> HIDE DEF p
    <3>4. /\ map' \in Seq(Element) /\ Len(map') = Len(map) - p + 1
          /\ \A i \in 1 .. Len(map) - p + 1 : map'[i] = map[i + p - 1]
      BY <1>2, <3>2, <3>3, SubSeqProperties
    <3>5. ASSUME NEW i \in 1 .. p - 1 PROVE map[i] \in fired \union overtaken
      <4>1. i \in 1 .. Len(map) /\ i < p
        BY <1>2, <3>2
      <4> QED
        BY <1>1, <3>2, <4>1 DEF TmInv, PassedFired
    <3>6. p \in 1 .. Len(map) + 1
      BY <1>2, <3>2
    <3> QED
      BY <3>4, <3>5, <3>6
  <2> QED
    BY <2>1, <2>2
<1>4. \A i \in 1 .. Len(map') : i + k - 1 \in 1 .. Len(map) /\ map'[i] = map[i + k - 1]
  BY <1>2, <1>3
<1>5. \A x \in Range(map) : x \in fired \union overtaken
         \/ \E i \in 1 .. Len(map') : map'[i] = x
  <2> SUFFICES ASSUME NEW x \in Range(map), x \notin fired \union overtaken
               PROVE  \E i \in 1 .. Len(map') : map'[i] = x
    OBVIOUS
  <2>1. PICK j \in 1 .. Len(map) : map[j] = x
    BY MapElements DEF TmInv
  <2>2. ~ (j \in 1 .. k - 1)
    BY <1>3, <2>1
  <2>3. j - k + 1 \in 1 .. Len(map') /\ (j - k + 1) + k - 1 = j
    BY <1>2, <1>3, <2>2
  <2> QED
    BY <1>3, <2>1, <2>3
<1>6. TypeOK'
  <2>1. DOMAIN map' = 1 .. Len(map')
    BY <1>3, InRange
  <2>2. \A i, j \in 1 .. Len(map') : i < j => due[map'[i]] <= due[map'[j]]
    <3> SUFFICES ASSUME NEW i \in 1 .. Len(map'), NEW j \in 1 .. Len(map'), i < j
                 PROVE  due[map'[i]] <= due[map'[j]]
      OBVIOUS
    <3>1. i + k - 1 < j + k - 1
      BY <1>2
    <3> QED
      BY <1>4, <3>1, MapElements DEF TmInv
  <2> QED
    BY <1>1, <1>3, <2>1, <2>2 DEF TmInv, TypeOK
<1>7. MapInv'
  <2>1. ASSUME NEW i \in 1 .. Len(map'), NEW j \in 1 .. Len(map'), map'[i] = map'[j]
        PROVE  i = j
    <3>1. /\ i + k - 1 \in 1 .. Len(map) /\ j + k - 1 \in 1 .. Len(map)
          /\ map[i + k - 1] = map[j + k - 1]
      BY <1>4, <2>1
    <3>2. i + k - 1 = j + k - 1
      BY <3>1 DEF TmInv, MapInv
    <3> QED
      BY <1>2, <3>2
  <2>2. \A i \in 1 .. Len(map') : map'[i] \in added
    BY <1>4 DEF TmInv, MapInv
  <2> QED
    BY <1>1, <2>1, <2>2 DEF TmInv, MapInv
<1>8. IterInv' /\ PassedFired' /\ wild' = {}
  BY <1>1 DEF TmInv, IterInv, PassedFired
<1>11. StoppedGone'
  BY <1>1, <1>4 DEF TmInv, StoppedGone
<1>9. StoppableInMap'
  <2> SUFFICES ASSUME NEW x \in valid \ (fired \union overtaken)
               PROVE  \E i \in 1 .. Len(map') : map'[i] = x
    BY <1>1 DEF StoppableInMap
  <2>1. x \in Range(map)
    BY MapElements DEF TmInv, StoppableInMap
  <2> QED
    BY <1>5, <2>1
<1>10. NothingForgotten'
  <2>1. \A x \in Range(map) : x \in fired \union overtaken \/ x \in Range(map')
    BY <1>3, <1>5, InRange
  <2> QED
    BY <1>1, <2>1 DEF TmInv, NothingForgotten
<1> QED
  BY <1>6, <1>7, <1>8, <1>9, <1>10, <1>11 DEF TmInv

\* Time passes: not in WakeupTimers, nor past the end of WaitLoop.
LEMMA TickKeeps ==
  ASSUME TmInv, Tick
  PROVE  TmInv'
<1>1. /\ now' = now + 1 /\ now' \in 0 .. MaxTime /\ now \in Nat
      /\ UNCHANGED <<map, due, adding, valid, wpc, it, wnow, wakeAt, added, fired,
                     stopped, overtaken, wild>>
  BY TimerAssumption DEF Tick, TmInv, TypeOK
<1>2. TypeOK'
  BY <1>1 DEF TmInv, TypeOK
<1>3. MapInv' /\ PassedFired' /\ StoppableInMap'
      /\ StoppedGone' /\ NothingForgotten' /\ wild' = {}
  BY <1>1 DEF TmInv, MapInv, PassedFired, StoppableInMap, StoppedGone,
              NothingForgotten
<1>4. IterInv'
  <2>1. wnow \in Nat
    BY TimerAssumption DEF TmInv, TypeOK
  <2> QED
    BY <1>1, <2>1 DEF TmInv, IterInv
<1> QED
  BY <1>2, <1>3, <1>4 DEF TmInv

-----------------------------------------------------------------------------
\* Every step keeps the invariant, unless it meets a dead iterator.
LEMMA NextTmInv ==
  ASSUME TmInv, [Next]_vars
  PROVE  TimerInv'
<1>1. ASSUME TmInv' PROVE TimerInv'
  BY <1>1 DEF TmInv, TimerInv
<1>2. CASE UNCHANGED vars
  BY <1>1, <1>2 DEF TmInv, TypeOK, MapInv, IterInv, PassedFired, StoppableInMap,
                    StoppedGone, NothingForgotten, vars
<1>3. CASE Loop
  BY <1>1, <1>3, IdleKeeps, WakeupTimersKeeps, IterationKeeps, CallTimerKeeps,
     EraseFiredKeeps DEF Loop
<1>4. CASE Adding
  BY <1>1, <1>4, AddInsertKeeps DEF Adding
<1>5. CASE Using
  <2> SUFFICES ASSUME NEW th \in Foreign \union {Self},
                      \/ \E e \in Element, d \in Duration : AddBegin(th, e, d)
                      \/ \E e \in Timer : StopTimer(th, e)
               PROVE  TimerInv'
    BY <1>5 DEF Using
  <2>1. CASE \E e \in Element, d \in Duration : AddBegin(th, e, d)
    BY <1>1, <2>1, AddBeginKeeps
  <2>2. CASE \E e \in Timer : StopTimer(th, e)
    <3> PICK e \in Timer : StopTimer(th, e)
      BY <2>2
    <3>1. CASE Dead(e)
      BY <3>1, StoppingLate DEF TimerInv
    <3>2. CASE ~ Dead(e)
      BY <1>1, <3>2, StoppingKeeps
    <3> QED
      BY <3>1, <3>2
  <2> QED
    BY <2>1, <2>2
<1> QED
  BY <1>1, <1>2, <1>3, <1>4, <1>5, TickKeeps DEF Next

\* After a dead iterator nothing more happens.
LEMMA NextTimerInv == TimerInv /\ [Next]_vars => TimerInv'
<1> SUFFICES ASSUME TimerInv, [Next]_vars PROVE TimerInv'
  OBVIOUS
<1>1. CASE wild = {}
  BY <1>1, NextTmInv DEF TimerInv
<1>2. CASE wild # {}
  <2>1. UNCHANGED vars
    BY <1>2 DEF Next
  <2> QED
    BY <1>2, <2>1 DEF TimerInv, TypeOK, NothingForgotten, vars
<1> QED
  BY <1>1, <1>2

\* The invariant holds.
LEMMA TimerInvariant == Spec => []TimerInv
<1>1. Init => TimerInv
  BY InitTmInv DEF TmInv, TimerInv
<1> QED
  BY <1>1, NextTimerInv, PTL DEF Spec

\* No iterator is used after its element was erased, however callbacks and other
\* threads add and stop timers while WakeupTimers iterates (timer.h:37-41), but
\* by StopTimer of a timer whose callback has begun or that was overtaken.
THEOREM IteratorsStayValid == Spec => []IteratorsValid
<1>1. TimerInv => IteratorsValid
  <2> SUFFICES ASSUME TmInv, it # End PROVE it \in Range(map)
    BY DEF TimerInv, IteratorsValid
  <2> QED
    BY MapElements DEF TmInv, IterInv
<1> QED
  BY <1>1, TimerInvariant, PTL

\* An element that was added is in the map until it has been woken, stopped or
\* overtaken: erase(begin(), it) deletes nothing else (timer.cpp:68).
THEOREM NoneForgotten == Spec => []NothingForgotten
<1>1. TimerInv => NothingForgotten
  BY DEF TimerInv
<1> QED
  BY <1>1, TimerInvariant, PTL

\* What fires is the element of the iterator, which is due.
LEMMA FiringStep ==
  ASSUME TimerInv, [Next]_vars, fired' # fired
  PROVE  /\ TmInv /\ fired' = fired \union {it} /\ wpc = "scan" /\ it # End
         /\ ~ (due[it] > wnow)
         /\ \E i \in 1 .. Len(map) : map[i] = it
<1>1. /\ wild = {} /\ fired' = fired \union {it} /\ wpc = "scan" /\ it # End
      /\ ~ (due[it] > wnow)
  BY DEF Next, Loop, Adding, Using, Idle, WakeupTimers, WakeSleeper, CallTimer,
         CallReturns, EraseFired, AddBegin, AddInsert, StopTimer, Tick, vars,
         PastDue, Locked
<1> QED
  BY <1>1 DEF TimerInv, TmInv, IterInv

\* What fires is due, and nothing that has not fired was due before it.
LEMMA FiresInOrder ==
  ASSUME TimerInv, [Next]_vars, NEW e \in fired' \ fired
  PROVE  /\ due[e] <= now
         /\ \A x \in Range(map) \ (fired' \union overtaken) : due[x] >= due[e]
<1>1. fired' # fired
  OBVIOUS
<1>2. /\ TmInv /\ e = it /\ fired' = fired \union {it} /\ wpc = "scan" /\ it # End
      /\ ~ (due[it] > wnow)
  BY <1>1, FiringStep
<1>3. PICK i \in 1 .. Len(map) : map[i] = it
  BY <1>1, FiringStep
<1>4. due[it] \in Nat /\ wnow \in Nat /\ now \in Nat /\ wnow <= now
  BY <1>2, <1>3, MapElements, TimerAssumption DEF TmInv, TypeOK, IterInv
<1>5. ASSUME NEW x \in Range(map) \ (fired' \union overtaken)
      PROVE  due[x] >= due[it]
  <2>1. PICK j \in 1 .. Len(map) : map[j] = x
    BY <1>2, MapElements DEF TmInv
  <2>2. ~ (j < i) /\ j # i
    BY <1>2, <1>3, <2>1 DEF TmInv, PassedFired
  <2>3. i < j
    BY <2>2
  <2>4. due[it] <= due[x] /\ due[x] \in Nat
    BY <1>2, <1>3, <2>1, <2>3, MapElements DEF TmInv
  <2> QED
    BY <1>4, <2>4
<1> QED
  BY <1>2, <1>4, <1>5

\* Timers and sleepers fire in time order and never too early, whatever the
\* callbacks and other threads add: the safety part of EveryTimerFires.
THEOREM FiredInTimeOrder == Spec => InTimeOrder
<1>1. TimerInv /\ [Next]_vars =>
        [\A e \in fired' \ fired :
           /\ due[e] <= now
           /\ \A x \in Range(map) \ (fired' \union overtaken) :
                due[x] >= due[e]]_vars
  BY FiresInOrder
<1> QED
  BY <1>1, TimerInvariant, PTL DEF Spec, InTimeOrder

\* A timer that StopTimer answered with true is not called afterwards, whichever
\* thread stopped it: the callbacks of Wait, Push, Pop and Poll refer to the
\* stack of the task that stops them.
THEOREM StoppedNeverCalled == Spec => StoppedStaysQuiet
<1>1. TimerInv /\ [Next]_vars => [(fired' \ fired) \intersect stopped = {}]_vars
  <2> SUFFICES ASSUME TimerInv, [Next]_vars, fired' # fired
               PROVE  (fired' \ fired) \intersect stopped = {}
    OBVIOUS
  <2>1. fired' = fired \union {it} /\ it \notin stopped
    BY FiringStep DEF TmInv, StoppedGone
  <2> QED
    BY <2>1
<1> QED
  BY <1>1, TimerInvariant, PTL DEF Spec, StoppedStaysQuiet
=============================================================================
