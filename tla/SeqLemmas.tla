----------------------------- MODULE SeqLemmas -----------------------------
(***************************************************************************)
(* Queues without repetitions: what the operations of the code's linked    *)
(* lists do to the set of their elements.  The models write a list as a    *)
(* sequence; that no element is in a list twice, or in two lists, is then  *)
(* a statement about IsInjective and ToSet.                                *)
(***************************************************************************)
EXTENDS Integers, SequencesExt, SequenceTheorems, WellFoundedInduction, TLAPS

\* Membership by position.
LEMMA InToSet ==
  ASSUME NEW S, NEW q \in Seq(S)
  PROVE  /\ ToSet(q) \subseteq S
         /\ \A i \in 1 .. Len(q) : q[i] \in ToSet(q)
         /\ \A e \in ToSet(q) : \E i \in 1 .. Len(q) : q[i] = e
         /\ \A e : Contains(q, e) <=> e \in ToSet(q)
<1>1. DOMAIN q = 1 .. Len(q)
  BY LenProperties
<1>2. \A i \in 1 .. Len(q) : q[i] \in S
  BY ElementOfSeq
<1> QED
  BY <1>1, <1>2 DEF ToSet, Contains

\* Injectivity by position.
LEMMA Injective ==
  ASSUME NEW S, NEW q \in Seq(S)
  PROVE  IsInjective(q) <=> \A i, j \in 1 .. Len(q) : q[i] = q[j] => i = j
  BY LenProperties DEF IsInjective

\* The empty list has no elements.
LEMMA EmptyToSet == ToSet(<<>>) = {} /\ IsInjective(<<>>)
  BY DEF ToSet, IsInjective

\* The front of a list is one of its elements.
LEMMA HeadInToSet ==
  ASSUME NEW S, NEW q \in Seq(S), q # <<>>
  PROVE  Head(q) \in ToSet(q) /\ Head(q) = q[1]
<1>1. 1 \in 1 .. Len(q) /\ Head(q) = q[1]
  BY EmptySeq
<1> QED
  BY <1>1, InToSet

\* Linking two lists that share no element.
LEMMA ConcatToSet ==
  ASSUME NEW S, NEW q \in Seq(S), NEW r \in Seq(S)
  PROVE  /\ q \o r \in Seq(S)
         /\ ToSet(q \o r) = ToSet(q) \union ToSet(r)
         /\ IsInjective(q) /\ IsInjective(r) /\ ToSet(q) \intersect ToSet(r) = {}
              => IsInjective(q \o r)
<1> DEFINE c == q \o r
<1>1. /\ c \in Seq(S) /\ Len(c) = Len(q) + Len(r)
      /\ Len(q) \in Nat /\ Len(r) \in Nat
      /\ \A i \in 1 .. Len(q) + Len(r) :
           c[i] = IF i <= Len(q) THEN q[i] ELSE r[i - Len(q)]
  BY ConcatProperties, LenProperties
<1> HIDE DEF c
<1>2. ToSet(c) \subseteq ToSet(q) \union ToSet(r)
  <2> SUFFICES ASSUME NEW i \in 1 .. Len(c)
               PROVE  c[i] \in ToSet(q) \union ToSet(r)
    BY <1>1, InToSet
  <2>1. i <= Len(q) => i \in 1 .. Len(q)
    BY <1>1
  <2>2. ~(i <= Len(q)) => i - Len(q) \in 1 .. Len(r)
    BY <1>1
  <2> QED
    BY <1>1, <2>1, <2>2, InToSet
<1>3. ToSet(q) \subseteq ToSet(c)
  <2> SUFFICES ASSUME NEW i \in 1 .. Len(q)
               PROVE  q[i] \in ToSet(c)
    BY InToSet
  <2>1. i \in 1 .. Len(c) /\ c[i] = q[i]
    BY <1>1
  <2> QED
    BY <1>1, <2>1, InToSet
<1>4. ToSet(r) \subseteq ToSet(c)
  <2> SUFFICES ASSUME NEW i \in 1 .. Len(r)
               PROVE  r[i] \in ToSet(c)
    BY InToSet
  <2> DEFINE j == i + Len(q)
  <2>1. /\ j \in 1 .. Len(q) + Len(r) /\ ~(j <= Len(q)) /\ j - Len(q) = i
    BY <1>1
  <2> HIDE DEF j
  <2>2. j \in 1 .. Len(c) /\ c[j] = r[i]
    BY <1>1, <2>1
  <2> QED
    BY <1>1, <2>2, InToSet
<1>5. ASSUME IsInjective(q), IsInjective(r), ToSet(q) \intersect ToSet(r) = {}
      PROVE  IsInjective(c)
  <2> SUFFICES ASSUME NEW i \in 1 .. Len(c), NEW j \in 1 .. Len(c), c[i] = c[j]
               PROVE  i = j
    BY <1>1, Injective
  <2>1. CASE i <= Len(q) /\ j <= Len(q)
    <3>1. i \in 1 .. Len(q) /\ j \in 1 .. Len(q) /\ c[i] = q[i] /\ c[j] = q[j]
      BY <1>1, <2>1
    <3> QED
      BY <1>5, <3>1, Injective
  <2>2. CASE ~(i <= Len(q)) /\ ~(j <= Len(q))
    <3>1. /\ i - Len(q) \in 1 .. Len(r) /\ j - Len(q) \in 1 .. Len(r)
          /\ c[i] = r[i - Len(q)] /\ c[j] = r[j - Len(q)]
      BY <1>1, <2>2
    <3>2. i - Len(q) = j - Len(q)
      BY <1>5, <3>1, Injective
    <3> QED
      BY <1>1, <3>2
  <2>3. ASSUME NEW k \in 1 .. Len(c), NEW n \in 1 .. Len(c), c[k] = c[n],
               k <= Len(q), ~(n <= Len(q))
        PROVE  FALSE
    <3>1. /\ k \in 1 .. Len(q) /\ c[k] = q[k]
          /\ n - Len(q) \in 1 .. Len(r) /\ c[n] = r[n - Len(q)]
      BY <1>1, <2>3
    <3>2. c[k] \in ToSet(q) /\ c[k] \in ToSet(r)
      BY <2>3, <3>1, InToSet
    <3> QED
      BY <1>5, <3>2
  <2> QED
    BY <2>1, <2>2, <2>3
<1> QED
  BY <1>1, <1>2, <1>3, <1>4, <1>5 DEF c

\* A list of one element.
LEMMA SingletonToSet ==
  ASSUME NEW S, NEW e \in S
  PROVE  /\ <<e>> \in Seq(S) /\ Len(<<e>>) = 1
         /\ ToSet(<<e>>) = {e} /\ IsInjective(<<e>>)
<1>1. <<e>> \in Seq(S) /\ Len(<<e>>) = 1 /\ <<e>>[1] = e
  OBVIOUS
<1>2. ToSet(<<e>>) = {e}
  <2>1. \A i \in 1 .. Len(<<e>>) : i = 1
    BY <1>1
  <2>2. 1 \in 1 .. Len(<<e>>)
    BY <1>1
  <2>3. ToSet(<<e>>) \subseteq {e}
    BY <1>1, <2>1, InToSet
  <2>4. e \in ToSet(<<e>>)
    BY <1>1, <2>2, InToSet
  <2> QED
    BY <2>3, <2>4
<1>3. IsInjective(<<e>>)
  <2>1. \A i, j \in 1 .. Len(<<e>>) : i = j
    BY <1>1
  <2> QED
    BY <1>1, <2>1, Injective
<1> QED
  BY <1>1, <1>2, <1>3

\* push_back of an element that is not in the list.
LEMMA AppendToSet ==
  ASSUME NEW S, NEW q \in Seq(S), NEW e \in S
  PROVE  /\ Append(q, e) \in Seq(S)
         /\ ToSet(Append(q, e)) = ToSet(q) \union {e}
         /\ IsInjective(q) /\ e \notin ToSet(q) => IsInjective(Append(q, e))
<1>1. Append(q, e) = q \o <<e>>
  BY SingletonToSet
<1>2. /\ <<e>> \in Seq(S) /\ ToSet(<<e>>) = {e} /\ IsInjective(<<e>>)
  BY SingletonToSet
<1>3. /\ q \o <<e>> \in Seq(S)
      /\ ToSet(q \o <<e>>) = ToSet(q) \union ToSet(<<e>>)
      /\ IsInjective(q) /\ IsInjective(<<e>>) /\ ToSet(q) \intersect ToSet(<<e>>) = {}
              => IsInjective(q \o <<e>>)
  BY <1>2, ConcatToSet
<1> QED
  BY <1>1, <1>2, <1>3

\* pop_front.
LEMMA TailToSet ==
  ASSUME NEW S, NEW q \in Seq(S), q # <<>>
  PROVE  /\ Head(q) \in S /\ Tail(q) \in Seq(S)
         /\ ToSet(q) = {Head(q)} \union ToSet(Tail(q))
         /\ IsInjective(q) =>
              IsInjective(Tail(q)) /\ Head(q) \notin ToSet(Tail(q))
<1> DEFINE r == Tail(q)
<1>1. /\ r \in Seq(S) /\ Len(r) = Len(q) - 1 /\ Len(q) \in Nat
      /\ \A i \in 1 .. Len(r) : r[i] = q[i + 1]
  BY HeadTailProperties, LenProperties
<1>2. /\ Head(q) = q[1] /\ 1 \in 1 .. Len(q) /\ q[1] \in S
  BY <1>1, EmptySeq, ElementOfSeq
<1> HIDE DEF r
<1>3. \A e \in ToSet(q) : e = q[1] \/ e \in ToSet(r)
  <2> SUFFICES ASSUME NEW i \in 1 .. Len(q), i # 1 PROVE q[i] \in ToSet(r)
    BY InToSet
  <2>1. i - 1 \in 1 .. Len(r) /\ q[i] = r[i - 1]
    BY <1>1
  <2> QED
    BY <1>1, <2>1, InToSet
<1>4. \A e \in ToSet(r) : e \in ToSet(q)
  <2> SUFFICES ASSUME NEW i \in 1 .. Len(r) PROVE r[i] \in ToSet(q)
    BY <1>1, InToSet
  <2> QED
    BY <1>1, InToSet
<1>5. ASSUME IsInjective(q)
      PROVE  IsInjective(r) /\ q[1] \notin ToSet(r)
  <2>1. \A i, j \in 1 .. Len(q) : q[i] = q[j] => i = j
    BY <1>5, Injective
  <2>2. \A i \in 1 .. Len(r) : r[i] # q[1]
    BY <1>1, <1>2, <2>1
  <2>3. \A i, j \in 1 .. Len(r) : r[i] = r[j] => i = j
    BY <1>1, <2>1
  <2>4. IsInjective(r)
    BY <1>1, <2>3, Injective
  <2> QED
    BY <1>1, <2>2, <2>4, InToSet
<1>6. q[1] \in ToSet(q)
  BY <1>2, InToSet
<1> QED
  BY <1>1, <1>2, <1>3, <1>4, <1>5, <1>6 DEF r

\* Cutting a list in two.
LEMMA CutToSet ==
  ASSUME NEW S, NEW q \in Seq(S), NEW k \in 0 .. Len(q)
  PROVE  LET a == SubSeq(q, 1, k)
             b == SubSeq(q, k + 1, Len(q))
         IN  /\ a \in Seq(S) /\ b \in Seq(S)
             /\ Len(a) = k /\ Len(b) = Len(q) - k
             /\ ToSet(a) \union ToSet(b) = ToSet(q)
             /\ IsInjective(q) => /\ IsInjective(a) /\ IsInjective(b)
                                  /\ ToSet(a) \intersect ToSet(b) = {}
<1> DEFINE a == SubSeq(q, 1, k)
           b == SubSeq(q, k + 1, Len(q))
<1>1. Len(q) \in Nat /\ \A i \in 1 .. Len(q) : q[i] \in S
  BY LenProperties, ElementOfSeq
<1>2. a \in Seq(S) /\ Len(a) = k /\ \A i \in 1 .. k : a[i] = q[i]
  BY <1>1
<1>3. /\ b \in Seq(S) /\ Len(b) = Len(q) - k
      /\ \A i \in 1 .. Len(q) - k : b[i] = q[k + i]
  <2>1. k + 1 \in Int /\ Len(q) \in Int /\ \A i \in k + 1 .. Len(q) : q[i] \in S
    BY <1>1
  <2>2. /\ b \in Seq(S)
        /\ Len(b) = IF k + 1 <= Len(q) THEN Len(q) - (k + 1) + 1 ELSE 0
        /\ \A i \in 1 .. Len(q) - (k + 1) + 1 : b[i] = q[(k + 1) + i - 1]
    BY <2>1, SubSeqProperties
  <2>3. Len(q) - (k + 1) + 1 = Len(q) - k
    BY <1>1
  <2>4. Len(b) = Len(q) - k
    BY <1>1, <2>2
  <2> HIDE DEF b
  <2>5. ASSUME NEW i \in 1 .. Len(q) - k PROVE b[i] = q[k + i]
    <3>1. b[i] = q[(k + 1) + i - 1]
      BY <2>2, <2>3
    <3>2. (k + 1) + i - 1 = k + i
      BY <1>1
    <3> QED
      BY <3>1, <3>2
  <2> QED
    BY <2>2, <2>4, <2>5
<1> HIDE DEF a, b
<1>4. ToSet(a) \subseteq ToSet(q)
  BY <1>1, <1>2, InToSet
<1>5. ToSet(b) \subseteq ToSet(q)
  <2> SUFFICES ASSUME NEW i \in 1 .. Len(b) PROVE b[i] \in ToSet(q)
    BY <1>3, InToSet
  <2>1. k + i \in 1 .. Len(q) /\ b[i] = q[k + i]
    BY <1>1, <1>3
  <2> QED
    BY <2>1, InToSet
<1>6. ToSet(q) \subseteq ToSet(a) \union ToSet(b)
  <2> SUFFICES ASSUME NEW i \in 1 .. Len(q) PROVE q[i] \in ToSet(a) \union ToSet(b)
    BY InToSet
  <2>1. CASE i <= k
    <3>1. i \in 1 .. Len(a) /\ a[i] = q[i]
      BY <1>2, <2>1
    <3> QED
      BY <1>2, <3>1, InToSet
  <2>2. CASE ~(i <= k)
    <3>1. i - k \in 1 .. Len(b) /\ b[i - k] = q[i]
      BY <1>1, <1>3, <2>2
    <3> QED
      BY <1>3, <3>1, InToSet
  <2> QED
    BY <2>1, <2>2
<1>7. ASSUME IsInjective(q)
      PROVE  IsInjective(a) /\ IsInjective(b) /\ ToSet(a) \intersect ToSet(b) = {}
  <2>1. \A i, j \in 1 .. Len(q) : q[i] = q[j] => i = j
    BY <1>7, Injective
  <2>2. IsInjective(a)
    <3>1. \A i, j \in 1 .. Len(a) : a[i] = a[j] => i = j
      BY <1>1, <1>2, <2>1
    <3> QED
      BY <1>2, <3>1, Injective
  <2>3. IsInjective(b)
    <3> SUFFICES ASSUME NEW i \in 1 .. Len(b), NEW j \in 1 .. Len(b), b[i] = b[j]
                 PROVE  i = j
      BY <1>3, Injective
    <3>1. k + i \in 1 .. Len(q) /\ k + j \in 1 .. Len(q) /\ q[k + i] = q[k + j]
      BY <1>1, <1>3
    <3>2. k + i = k + j
      BY <2>1, <3>1
    <3> QED
      BY <1>1, <3>2
  <2>4. ASSUME NEW e \in ToSet(a), e \in ToSet(b) PROVE FALSE
    <3>1. PICK i \in 1 .. Len(a) : a[i] = e
      BY <1>2, InToSet
    <3>2. PICK j \in 1 .. Len(b) : b[j] = e
      BY <1>3, <2>4, InToSet
    <3>3. i \in 1 .. Len(q) /\ q[i] = e /\ i <= k
      BY <1>1, <1>2, <3>1
    <3>4. k + j \in 1 .. Len(q) /\ q[k + j] = e /\ k < k + j
      BY <1>1, <1>3, <3>2
    <3> QED
      BY <1>1, <2>1, <3>3, <3>4
  <2> QED
    BY <2>2, <2>3, <2>4
<1> QED
  BY <1>2, <1>3, <1>4, <1>5, <1>6, <1>7 DEF a, b

\* Unlinking the element at a position.
LEMMA RemoveAtToSet ==
  ASSUME NEW S, NEW q \in Seq(S), IsInjective(q), NEW i \in 1 .. Len(q)
  PROVE  /\ RemoveAt(q, i) \in Seq(S) /\ IsInjective(RemoveAt(q, i))
         /\ ToSet(RemoveAt(q, i)) = ToSet(q) \ {q[i]}
<1> DEFINE a == SubSeq(q, 1, i - 1)
           m == SubSeq(q, i, Len(q))
           b == SubSeq(q, i + 1, Len(q))
           c == SubSeq(q, 1, i)
<1>0. Len(q) \in Nat /\ i - 1 \in 0 .. Len(q) /\ i \in 0 .. Len(q)
      /\ (i - 1) + 1 = i
  BY LenProperties
<1>1. /\ a \in Seq(S)
      /\ ToSet(a) \union ToSet(m) = ToSet(q)
      /\ IsInjective(a)
      /\ ToSet(a) \intersect ToSet(m) = {}
  BY <1>0, CutToSet
<1>2. /\ b \in Seq(S) /\ IsInjective(b)
      /\ ToSet(c) \union ToSet(b) = ToSet(q)
      /\ ToSet(c) \intersect ToSet(b) = {}
  BY <1>0, CutToSet
<1>3. ToSet(c) = ToSet(a) \union {q[i]}
  <2>1. /\ c \in Seq(S) /\ Len(c) = i /\ \A j \in 1 .. i : c[j] = q[j]
        /\ a \in Seq(S) /\ Len(a) = i - 1 /\ \A j \in 1 .. i - 1 : a[j] = q[j]
    BY <1>0, ElementOfSeq
  <2> HIDE DEF a, c
  <2>2. ToSet(c) \subseteq ToSet(a) \union {q[i]}
    <3>0. \A e \in ToSet(c) : \E j \in 1 .. Len(c) : c[j] = e
      BY <2>1, InToSet
    <3> SUFFICES ASSUME NEW j \in 1 .. i PROVE q[j] \in ToSet(a) \union {q[i]}
      BY <2>1, <3>0
    <3>1. CASE j = i
      BY <3>1
    <3>2. CASE j # i
      <4>1. j \in 1 .. Len(a) /\ a[j] = q[j]
        BY <2>1, <3>2
      <4> QED
        BY <2>1, <4>1, InToSet
    <3> QED
      BY <3>1, <3>2
  <2>3. ToSet(a) \subseteq ToSet(c)
    <3>0. \A e \in ToSet(a) : \E j \in 1 .. Len(a) : a[j] = e
      BY <2>1, InToSet
    <3> SUFFICES ASSUME NEW j \in 1 .. i - 1 PROVE q[j] \in ToSet(c)
      BY <2>1, <3>0
    <3>1. j \in 1 .. Len(c) /\ c[j] = q[j]
      BY <2>1
    <3> QED
      BY <2>1, <3>1, InToSet
  <2>4. q[i] \in ToSet(c)
    <3>1. i \in 1 .. Len(c) /\ c[i] = q[i]
      BY <2>1
    <3> QED
      BY <2>1, <3>1, InToSet
  <2> QED
    BY <2>2, <2>3, <2>4
<1>4. q[i] \notin ToSet(a)
  <2>1. m \in Seq(S) /\ Len(m) = Len(q) - (i - 1) /\ m[1] = q[i]
    <3>1. /\ m \in Seq(S)
          /\ Len(m) = IF i <= Len(q) THEN Len(q) - i + 1 ELSE 0
          /\ \A j \in 1 .. Len(q) - i + 1 : m[j] = q[i + j - 1]
      BY <1>0, ElementOfSeq, SubSeqProperties
    <3>2. 1 \in 1 .. Len(q) - i + 1 /\ i + 1 - 1 = i
      BY <1>0
    <3> QED
      BY <1>0, <3>1, <3>2
  <2>2. 1 \in 1 .. Len(m)
    BY <1>0, <2>1
  <2>3. q[i] \in ToSet(m)
    BY <2>1, <2>2, InToSet
  <2> QED
    BY <1>1, <2>3
<1>5. RemoveAt(q, i) = a \o b
  BY DEF RemoveAt
<1> HIDE DEF a, b, c, m
<1>6. /\ a \o b \in Seq(S)
      /\ ToSet(a \o b) = ToSet(a) \union ToSet(b)
      /\ ToSet(a) \intersect ToSet(b) = {} => IsInjective(a \o b)
  BY <1>1, <1>2, ConcatToSet
<1>7. /\ ToSet(a) \union ToSet(b) = ToSet(q) \ {q[i]}
      /\ ToSet(a) \intersect ToSet(b) = {}
  BY <1>2, <1>3, <1>4
<1> QED
  BY <1>5, <1>6, <1>7

-----------------------------------------------------------------------------
\* A number is a multiple of n and a remainder, in one way.
LEMMA Remainder ==
  ASSUME NEW n \in Nat \ {0}, NEW a \in Int
  PROVE  /\ a \div n \in Int /\ a % n \in 0 .. n - 1
         /\ a = n * (a \div n) + (a % n)
<1>1. a \div n \in Int /\ a % n \in 0 .. n - 1
  OBVIOUS
<1>2. a = n * (a \div n) + (a % n)
  BY Z3
<1> QED
  BY <1>1, <1>2

LEMMA RemainderOf ==
  ASSUME NEW n \in Nat \ {0}, NEW q \in Int, NEW r \in 0 .. n - 1
  PROVE  (n * q + r) % n = r
  OBVIOUS

\* Multiples of n do not change a remainder.
LEMMA SameRemainder ==
  ASSUME NEW n \in Nat \ {0}, NEW a \in Int, NEW b \in Int, NEW q \in Int,
         a = b + n * q
  PROVE  a % n = b % n
<1> DEFINE p == b \div n  r == b % n
<1>1. p \in Int /\ r \in 0 .. n - 1 /\ b = n * p + r
  BY Remainder
<1> HIDE DEF p, r
<1>2. a = n * (p + q) + r /\ p + q \in Int
  BY <1>1, Z3
<1>3. (n * (p + q) + r) % n = r
  BY <1>1, <1>2, RemainderOf
<1>4. (n * p + r) % n = r
  BY <1>1, RemainderOf
<1> QED
  BY <1>1, <1>2, <1>3, <1>4

\* Remainders of numbers at most n away.
LEMMA SmallRemainder ==
  ASSUME NEW n \in Nat \ {0}, NEW a \in Int
  PROVE  /\ 0 <= a /\ a < n => a % n = a
         /\ n <= a /\ a < n + n => a % n = a - n
         /\ a < 0 /\ 0 <= a + n => a % n = a + n
<1>1. ASSUME NEW b \in Int, NEW q \in Int, a = b + n * q
      PROVE  a % n = b % n
  BY <1>1, SameRemainder
<1>2. ASSUME NEW b \in Int, b = a - n \/ b = a + n
      PROVE  a % n = b % n
  <2>1. a = b + n * 1 \/ a = b + n * (-1)
    BY <1>2
  <2> QED
    BY <2>1, <1>1
<1>3. \A r \in 0 .. n - 1 : r % n = r
  OBVIOUS
<1> QED
  BY <1>2, <1>3

\* The same, for a known remainder.
LEMMA RemainderIs ==
  ASSUME NEW n \in Nat \ {0}, NEW r \in 0 .. n - 1, NEW a \in Int,
         a = r \/ a = r + n \/ a = r - n
  PROVE  a % n = r
<1>1. CASE a = r
  BY <1>1, SmallRemainder
<1>2. CASE a = r + n
  <2>1. n <= a /\ a < n + n /\ r = a - n
    BY <1>2
  <2> QED
    BY <2>1, SmallRemainder
<1>3. CASE a = r - n
  <2>1. a < 0 /\ 0 <= a + n /\ r = a + n
    BY <1>3
  <2> QED
    BY <2>1, SmallRemainder
<1> QED
  BY <1>1, <1>2, <1>3

\* Where capacity_ + 1 divides the range of size_t, the wrap moves no slot.
LEMMA Divides ==
  ASSUME NEW n \in Nat \ {0}, NEW M \in Nat \ {0}, M % n = 0, NEW a \in Int
  PROVE  (a % M) % n = a % n
<1> DEFINE k == M \div n  j == a \div M  b == a % M
<1>1. k \in Int /\ M = n * k
  <2>1. k \in Int /\ M = n * k + (M % n)
    BY Remainder
  <2> QED
    BY <2>1
<1>2. j \in Int /\ b \in 0 .. M - 1 /\ a = M * j + b
  BY Remainder
<1> HIDE DEF k, j, b
<1>3. a = b + n * (k * j) /\ k * j \in Int
  <2>1. k * j \in Int
    BY <1>1, <1>2
  <2>2. n * (k * j) = M * j
    BY <1>1, <1>2
  <2>3. a = b + M * j
    BY <1>2
  <2> QED
    BY <2>1, <2>2, <2>3
<1>4. b \in Int
  BY <1>2
<1>5. \A q \in Int : a = b + n * q => a % n = b % n
  BY <1>4, SameRemainder
<1>6. a % n = b % n
  BY <1>3, <1>5, Zenon
<1> QED
  BY <1>6 DEF b

\* How far a slot is behind the one a counter stands for ...
LEMMA SlotBehind ==
  ASSUME NEW n \in Nat \ {0}, NEW a \in Int, NEW c, c = a % n,
         NEW s \in 0 .. n - 1
  PROVE  (s - a) % n = IF s >= c THEN s - c ELSE s - c + n
<1> DEFINE q == a \div n
<1>1. q \in Int /\ c \in 0 .. n - 1 /\ a = n * q + c
  BY Remainder
<1> DEFINE d == s - c  r == IF s >= c THEN s - c ELSE s - c + n  x == s - a
<1> HIDE DEF q
<1>2. x \in Int /\ d \in Int /\ -q \in Int
  BY <1>1
<1>3. x = d + n * (-q)
  BY <1>1
<1>4. r \in 0 .. n - 1 /\ (d = r \/ d = r - n)
  BY <1>1
<1> HIDE DEF d, r, x
<1>5. x % n = d % n
  BY <1>2, <1>3, SameRemainder
<1>6. d % n = r
  BY <1>2, <1>4, RemainderIs
<1> QED
  BY <1>5, <1>6 DEF r, x

\* ... and the slot that is b behind it.
LEMMA SlotAhead ==
  ASSUME NEW n \in Nat \ {0}, NEW a \in Int, NEW c, c = a % n, NEW b \in 0 .. n
  PROVE  (a + b) % n = IF c + b < n THEN c + b ELSE c + b - n
<1> DEFINE q == a \div n
<1>1. q \in Int /\ c \in 0 .. n - 1 /\ a = n * q + c
  BY Remainder
<1> DEFINE d == c + b  r == IF c + b < n THEN c + b ELSE c + b - n  x == a + b
<1> HIDE DEF q
<1>2. x \in Int /\ d \in Int
  BY <1>1
<1>3. x = d + n * q
  BY <1>1
<1>4. r \in 0 .. n - 1 /\ (d = r \/ d = r + n)
  BY <1>1
<1> HIDE DEF d, r, x
<1>5. x % n = d % n
  BY <1>1, <1>2, <1>3, SameRemainder
<1>6. d % n = r
  BY <1>2, <1>4, RemainderIs
<1> QED
  BY <1>5, <1>6 DEF r, x

\* A round added to a counter moves no slot.
LEMMA RoundMovesNothing ==
  ASSUME NEW n \in Nat \ {0}, NEW M \in Nat \ {0}, M % n = 0, NEW a \in Int
  PROVE  ((a + n) % M) % n = a % n
<1> DEFINE b == a + n  c == a % n
<1>1. b \in Int /\ n \in 0 .. n /\ c \in 0 .. n - 1
  BY Remainder
<1> HIDE DEF c
<1>2. b % n = IF c + n < n THEN c + n ELSE c + n - n
  BY <1>1, SlotAhead, ZenonT(30) DEF c
<1>3. b % n = c
  BY <1>1, <1>2
<1> HIDE DEF b
<1>4. (b % M) % n = b % n
  BY <1>1, Divides
<1> QED
  BY <1>3, <1>4 DEF b, c
-----------------------------------------------------------------------------
\* Every non-empty set of numbers has a least one ...
LEMMA LeastNat ==
  ASSUME NEW T, T \subseteq Nat, T # {}
  PROVE  \E x \in T : \A y \in T : x <= y
<1>1. IsWellFoundedOn(OpToRel(<, Nat), Nat)
  BY NatLessThanWellFounded
<1>2. PICK x \in T : \A y \in T : ~ (<<y, x>> \in OpToRel(<, Nat))
  BY <1>1, WFMin
<1>3. \A y \in T : ~ (y < x)
  BY <1>2 DEF OpToRel
<1> QED
  BY <1>3

\* ... which is induction, for a set in place of a predicate.
LEMMA SetInduction ==
  ASSUME NEW S, 0 \in S, \A n \in Nat : n \in S => n + 1 \in S
  PROVE  Nat \subseteq S
<1> SUFFICES ASSUME NEW k \in Nat, k \notin S PROVE FALSE
  OBVIOUS
<1>1. PICK x \in Nat \ S : \A y \in Nat \ S : x <= y
  BY LeastNat
<1>2. x - 1 \in Nat /\ x - 1 \in S
  BY <1>1
<1> QED
  BY <1>1, <1>2

\* Induction over sequences, an element at a time.
LEMMA SeqInduction ==
  ASSUME NEW S, NEW P, <<>> \in P,
         \A q \in Seq(S) : \A e \in S : q \in P => Append(q, e) \in P
  PROVE  Seq(S) \subseteq P
<1> DEFINE Good == {n \in Nat : \A q \in Seq(S) : Len(q) = n => q \in P}
<1>1. 0 \in Good
  BY EmptySeq
<1>2. ASSUME NEW n \in Nat, n \in Good PROVE n + 1 \in Good
  <2> SUFFICES ASSUME NEW q \in Seq(S), Len(q) = n + 1 PROVE q \in P
    OBVIOUS
  <2>1. q # <<>>
    BY EmptySeq
  <2>2. PICK f \in Seq(S), e \in S : q = Append(f, e)
    BY <2>1, SequenceEmptyOrAppend
  <2>3. Len(Append(f, e)) = Len(f) + 1 /\ Len(f) \in Nat
    BY AppendProperties, LenProperties
  <2>4. Len(f) = n
    BY <2>2, <2>3
  <2> QED
    BY <1>2, <2>2, <2>4
<1>3. Nat \subseteq Good
  <2> HIDE DEF Good
  <2> QED
    BY <1>1, <1>2, SetInduction
<1> QED
  BY <1>3, LenProperties

\* A list without its element i, element by element.
LEMMA RemoveAtElements ==
  ASSUME NEW T, NEW q \in Seq(T), NEW i \in 1 .. Len(q)
  PROVE  /\ RemoveAt(q, i) \in Seq(T) /\ Len(RemoveAt(q, i)) = Len(q) - 1
         /\ \A j \in 1 .. Len(q) - 1 :
              RemoveAt(q, i)[j] = IF j < i THEN q[j] ELSE q[j + 1]
<1> DEFINE n == Len(q)  a == SubSeq(q, 1, i - 1)  b == SubSeq(q, i + 1, n)
<1>1. n \in Nat /\ \A j \in 1 .. n : q[j] \in T
  BY LenProperties, ElementOfSeq
<1>2. a \in Seq(T) /\ Len(a) = i - 1 /\ \A j \in 1 .. i - 1 : a[j] = q[j]
  <2>1. /\ \A j \in 1 .. i - 1 : q[j] \in T
        /\ 1 \in Int /\ i - 1 \in Int
    BY <1>1
  <2>2. /\ a \in Seq(T) /\ Len(a) = IF 1 <= i - 1 THEN (i - 1) - 1 + 1 ELSE 0
        /\ \A j \in 1 .. (i - 1) - 1 + 1 : a[j] = q[1 + j - 1]
    BY <2>1, SubSeqProperties
  <2> HIDE DEF a
  <2>3. \A j \in 1 .. i - 1 : j \in 1 .. (i - 1) - 1 + 1 /\ 1 + j - 1 = j
    OBVIOUS
  <2> QED
    BY <2>2, <2>3
<1>3. b \in Seq(T) /\ Len(b) = n - i /\ \A j \in 1 .. n - i : b[j] = q[j + i]
  <2>1. /\ \A j \in i + 1 .. n : q[j] \in T
        /\ i + 1 \in Int /\ n \in Int
    BY <1>1
  <2>2. /\ b \in Seq(T) /\ Len(b) = IF i + 1 <= n THEN n - (i + 1) + 1 ELSE 0
        /\ \A j \in 1 .. n - (i + 1) + 1 : b[j] = q[(i + 1) + j - 1]
    BY <2>1, SubSeqProperties
  <2> HIDE DEF b, n
  <2>3. \A j \in 1 .. n - i : j \in 1 .. n - (i + 1) + 1 /\ (i + 1) + j - 1 = j + i
    BY <1>1
  <2>4. i <= n
    BY DEF n
  <2> QED
    BY <1>1, <2>2, <2>3, <2>4
<1>4. RemoveAt(q, i) = a \o b
  BY DEF RemoveAt
<1> HIDE DEF a, b
<1>5. /\ a \o b \in Seq(T) /\ Len(a \o b) = (i - 1) + (n - i)
      /\ \A j \in 1 .. (i - 1) + (n - i) :
           (a \o b)[j] = IF j <= i - 1 THEN a[j] ELSE b[j - (i - 1)]
  <2>1. a \in Seq(T) /\ b \in Seq(T)
    BY <1>2, <1>3
  <2>2. /\ a \o b \in Seq(T) /\ Len(a \o b) = Len(a) + Len(b)
        /\ \A j \in 1 .. Len(a) + Len(b) :
             (a \o b)[j] = IF j <= Len(a) THEN a[j] ELSE b[j - Len(a)]
    BY <2>1, ConcatProperties
  <2>3. Len(a) = i - 1 /\ Len(b) = n - i
    BY <1>2, <1>3
  <2> HIDE DEF n
  <2> QED
    BY <2>2, <2>3
<1>6. i \in Nat /\ 1 <= i /\ i <= n /\ (i - 1) + (n - i) = n - 1
  BY <1>1
<1>7. ASSUME NEW j \in 1 .. n - 1
      PROVE  (a \o b)[j] = IF j < i THEN q[j] ELSE q[j + 1]
  <2> HIDE DEF n
  <2>1. (a \o b)[j] = IF j <= i - 1 THEN a[j] ELSE b[j - (i - 1)]
    BY <1>5, <1>6
  <2>2. CASE j < i
    BY <1>2, <1>6, <2>1, <2>2
  <2>3. CASE ~ (j < i)
    <3>1. j - (i - 1) \in 1 .. n - i /\ (j - (i - 1)) + i = j + 1 /\ ~ (j <= i - 1)
      BY <1>1, <1>6, <2>3
    <3> QED
      BY <1>3, <2>1, <2>3, <3>1
  <2> QED
    BY <2>2, <2>3
<1> QED
  BY <1>4, <1>5, <1>6, <1>7

\* The front of a list that others follow.
LEMMA ConcatFirst ==
  ASSUME NEW S, NEW q \in Seq(S), NEW r \in Seq(S), q # <<>>
  PROVE  /\ q \o r \in Seq(S) /\ q \o r # <<>> /\ Head(q \o r) = Head(q)
         /\ Tail(q \o r) = Tail(q) \o r
<1> DEFINE n == Len(q)  m == Len(r)  c == q \o r  d == Tail(q) \o r
<1>1. /\ n \in Nat \ {0} /\ m \in Nat
      /\ Tail(q) \in Seq(S) /\ Len(Tail(q)) = n - 1 /\ Head(q) = q[1]
      /\ \A i \in 1 .. n - 1 : Tail(q)[i] = q[i + 1]
  BY HeadTailProperties, EmptySeq, LenProperties
<1>2. /\ c \in Seq(S) /\ Len(c) = n + m
      /\ \A i \in 1 .. n + m : c[i] = IF i <= n THEN q[i] ELSE r[i - n]
  BY ConcatProperties
<1>3. /\ d \in Seq(S) /\ Len(d) = (n - 1) + m
      /\ \A i \in 1 .. (n - 1) + m :
           d[i] = IF i <= n - 1 THEN Tail(q)[i] ELSE r[i - (n - 1)]
  <2> DEFINE k == n - 1  t == Tail(q)
  <2>1. t \in Seq(S) /\ Len(t) = k
    BY <1>1
  <2> HIDE DEF k, t
  <2>2. /\ t \o r \in Seq(S) /\ Len(t \o r) = k + m
        /\ \A i \in 1 .. k + m : (t \o r)[i] = IF i <= k THEN t[i] ELSE r[i - k]
    BY <2>1, ConcatProperties
  <2> QED
    BY <2>2 DEF k, t
<1> HIDE DEF n, m, c, d
<1>4. c # <<>>
  BY <1>1, <1>2
<1>5. /\ Tail(c) \in Seq(S) /\ Len(Tail(c)) = n + m - 1 /\ Head(c) = c[1]
      /\ \A i \in 1 .. n + m - 1 : Tail(c)[i] = c[i + 1]
  <2>1. c \in Seq(S)
    BY <1>2
  <2>2. /\ Tail(c) \in Seq(S) /\ Len(Tail(c)) = Len(c) - 1 /\ Head(c) = c[1]
        /\ \A i \in 1 .. Len(Tail(c)) : Tail(c)[i] = c[i + 1]
    BY <1>4, <2>1, HeadTailProperties
  <2>3. Len(Tail(c)) = n + m - 1
    BY <1>1, <1>2, <2>2
  <2> QED
    BY <2>2, <2>3
<1>6. ASSUME NEW i \in 1 .. n + m - 1 PROVE Tail(c)[i] = d[i]
  <2>1. i + 1 \in 1 .. n + m /\ i \in 1 .. (n - 1) + m
    BY <1>1
  <2>2. CASE i <= n - 1
    <3>1. i + 1 <= n /\ i \in 1 .. n - 1
      BY <1>1, <2>2
    <3> QED
      BY <1>1, <1>2, <1>3, <1>5, <2>1, <2>2, <3>1
  <2>3. CASE ~ (i <= n - 1)
    <3>1. ~ (i + 1 <= n) /\ (i + 1) - n = i - (n - 1)
      BY <1>1, <2>3
    <3> QED
      BY <1>2, <1>3, <1>5, <2>1, <2>3, <3>1
  <2> QED
    BY <2>2, <2>3
<1>7. Len(Tail(c)) = Len(d)
  BY <1>1, <1>3, <1>5
<1>8. Tail(c) = d
  BY <1>1, <1>3, <1>5, <1>6, <1>7, SeqEqual
<1>9. Head(c) = Head(q)
  BY <1>1, <1>2, <1>5
<1> QED
  BY <1>2, <1>4, <1>8, <1>9 DEF c, d

\* One element at the end of a list that follows another.
LEMMA ConcatLast ==
  ASSUME NEW S, NEW q \in Seq(S), NEW r \in Seq(S), NEW e \in S
  PROVE  Append(q \o r, e) = q \o Append(r, e)
<1> DEFINE n == Len(q)  m == Len(r)  a == Append(r, e)  c == q \o r
           x == Append(c, e)  y == q \o a
<1>1. n \in Nat /\ m \in Nat
  BY LenProperties
<1>2. /\ a \in Seq(S) /\ Len(a) = m + 1 /\ a[m + 1] = e
      /\ \A i \in 1 .. m : a[i] = r[i]
  BY AppendProperties
<1>3. /\ c \in Seq(S) /\ Len(c) = n + m
      /\ \A i \in 1 .. n + m : c[i] = IF i <= n THEN q[i] ELSE r[i - n]
  BY ConcatProperties
<1> HIDE DEF a, c
<1>4. /\ x \in Seq(S) /\ Len(x) = Len(c) + 1 /\ x[Len(c) + 1] = e
      /\ \A i \in 1 .. Len(c) : x[i] = c[i]
  <2>1. c \in Seq(S)
    BY <1>3
  <2> QED
    BY <2>1, AppendProperties
<1>5. /\ y \in Seq(S) /\ Len(y) = n + Len(a)
      /\ \A i \in 1 .. n + Len(a) : y[i] = IF i <= n THEN q[i] ELSE a[i - n]
  BY <1>2, ConcatProperties
<1> HIDE DEF n, m, x, y
<1>6. ASSUME NEW i \in 1 .. Len(x) PROVE x[i] = y[i]
  <2>0. i \in 1 .. n + m + 1 /\ i \in 1 .. n + Len(a)
    BY <1>1, <1>2, <1>3, <1>4
  <2>1. CASE i = n + m + 1
    <3>1. ~ (i <= n) /\ i - n = m + 1 /\ i = Len(c) + 1
      BY <1>1, <1>3, <2>1
    <3> QED
      BY <1>2, <1>4, <1>5, <2>0, <3>1
  <2>2. CASE i # n + m + 1 /\ i <= n
    <3>1. i \in 1 .. n + m /\ i \in 1 .. Len(c)
      BY <1>1, <1>3, <2>0, <2>2
    <3> QED
      BY <1>3, <1>4, <1>5, <2>0, <2>2, <3>1
  <2>3. CASE i # n + m + 1 /\ ~ (i <= n)
    <3>1. i \in 1 .. n + m /\ i \in 1 .. Len(c) /\ i - n \in 1 .. m
      BY <1>1, <1>3, <2>0, <2>3
    <3> QED
      BY <1>2, <1>3, <1>4, <1>5, <2>0, <2>3, <3>1
  <2> QED
    BY <2>1, <2>2, <2>3
<1>7. Len(x) = Len(y)
  BY <1>1, <1>2, <1>3, <1>4, <1>5
<1>8. x = y
  BY <1>4, <1>5, <1>6, <1>7, SeqEqual
<1> QED
  BY <1>8 DEF x, y, a, c

\* The first of the second list is the last of the first with it.
LEMMA ConcatMove ==
  ASSUME NEW S, NEW q \in Seq(S), NEW r \in Seq(S), r # <<>>
  PROVE  q \o r = Append(q, Head(r)) \o Tail(r)
<1> DEFINE n == Len(q)  m == Len(r)  a == Append(q, Head(r))  t == Tail(r)
           x == q \o r  y == a \o t
<1>1. /\ n \in Nat /\ m \in Nat \ {0} /\ Head(r) = r[1] /\ r[1] \in S
      /\ t \in Seq(S) /\ Len(t) = m - 1 /\ \A i \in 1 .. m - 1 : t[i] = r[i + 1]
  BY HeadTailProperties, EmptySeq, LenProperties
<1>2. /\ a \in Seq(S) /\ Len(a) = n + 1 /\ a[n + 1] = r[1]
      /\ \A i \in 1 .. n : a[i] = q[i]
  BY <1>1, AppendProperties
<1>3. /\ x \in Seq(S) /\ Len(x) = n + m
      /\ \A i \in 1 .. n + m : x[i] = IF i <= n THEN q[i] ELSE r[i - n]
  BY ConcatProperties
<1> HIDE DEF a, t
<1>4. /\ y \in Seq(S) /\ Len(y) = Len(a) + Len(t)
      /\ \A i \in 1 .. Len(a) + Len(t) : y[i] = IF i <= Len(a) THEN a[i] ELSE t[i - Len(a)]
  BY <1>1, <1>2, ConcatProperties
<1> HIDE DEF n, m, x, y
<1>5. Len(a) + Len(t) = n + m
  BY <1>1, <1>2
<1>6. ASSUME NEW i \in 1 .. n + m PROVE x[i] = y[i]
  <2>0. y[i] = IF i <= n + 1 THEN a[i] ELSE t[i - (n + 1)]
    BY <1>2, <1>4, <1>5
  <2>1. CASE i <= n
    <3>1. i <= n + 1 /\ i \in 1 .. n
      BY <1>1, <2>1
    <3> QED
      BY <1>2, <1>3, <2>0, <2>1, <3>1
  <2>2. CASE i = n + 1
    <3>1. ~ (i <= n) /\ i - n = 1 /\ i <= n + 1
      BY <1>1, <2>2
    <3> QED
      BY <1>2, <1>3, <2>0, <2>2, <3>1
  <2>3. CASE i > n + 1
    <3>1. ~ (i <= n) /\ ~ (i <= n + 1) /\ i - (n + 1) \in 1 .. m - 1
          /\ (i - (n + 1)) + 1 = i - n
      BY <1>1, <2>3
    <3> QED
      BY <1>1, <1>3, <2>0, <3>1
  <2> QED
    BY <1>1, <2>1, <2>2, <2>3
<1>7. x = y
  BY <1>3, <1>4, <1>5, <1>6, SeqEqual
<1> QED
  BY <1>7 DEF x, y, a, t

\* The first list of two.
LEMMA ConcatFront ==
  ASSUME NEW S, NEW q \in Seq(S), NEW r \in Seq(S)
  PROVE  SubSeq(q \o r, 1, Len(q)) = q
<1> DEFINE n == Len(q)  m == Len(r)  c == q \o r  f == SubSeq(c, 1, n)
<1>1. /\ n \in Nat /\ m \in Nat /\ c \in Seq(S) /\ Len(c) = n + m
      /\ \A i \in 1 .. n + m : c[i] = IF i <= n THEN q[i] ELSE r[i - n]
  BY LenProperties, ConcatProperties
<1>2. \A i \in 1 .. n : c[i] = q[i] /\ q[i] \in S
  <2>1. \A i \in 1 .. n : q[i] \in S
    BY ElementOfSeq
  <2> HIDE DEF n, m, c
  <2> QED
    BY <1>1, <2>1
<1> HIDE DEF n, c
<1>3. /\ f \in Seq(S) /\ Len(f) = IF 1 <= n THEN n - 1 + 1 ELSE 0
      /\ \A i \in 1 .. n - 1 + 1 : f[i] = c[1 + i - 1]
  BY <1>1, <1>2, SubSeqProperties
<1> HIDE DEF f
<1>4. Len(f) = n /\ \A i \in 1 .. n : i \in 1 .. n - 1 + 1 /\ 1 + i - 1 = i
  BY <1>1, <1>3
<1>5. \A i \in 1 .. n : f[i] = q[i]
  BY <1>2, <1>3, <1>4
<1>6. f = q
  BY <1>3, <1>4, <1>5, SeqEqual DEF n
<1> QED
  BY <1>6 DEF f, c, n

\* The first k of v, element by element.
LEMMA FirstOf ==
  ASSUME NEW T, NEW v \in Seq(T), NEW k \in 0 .. Len(v)
  PROVE  /\ SubSeq(v, 1, k) \in Seq(T) /\ Len(SubSeq(v, 1, k)) = k
         /\ \A i \in 1 .. k : SubSeq(v, 1, k)[i] = v[i]
<1>1. Len(v) \in Nat /\ k \in Nat
  BY LenProperties
<1>2. CASE k = 0
  <2>1. SubSeq(v, 1, k) = <<>>
    BY <1>1, <1>2, SubSeqProperties
  <2> QED
    BY <1>2, <2>1, EmptySeq
<1>3. CASE k # 0
  <2>1. \A i \in 1 .. k : i \in 1 .. Len(v) /\ 1 + i - 1 = i
    BY <1>1
  <2>2. 1 \in 1 .. Len(v) /\ k \in 1 .. Len(v) /\ 1 <= k /\ k - 1 + 1 = k
    BY <1>1, <1>3
  <2> DEFINE w == SubSeq(v, 1, k)
  <2>3. w \in Seq(T) /\ Len(w) = k /\ \A i \in 1 .. k : w[i] = v[1 + i - 1]
    BY <1>1, <2>2
  <2> QED
    BY <2>1, <2>3
<1> QED
  BY <1>2, <1>3

\* The least and the greatest of a set of numbers.
LEMMA MinOf ==
  ASSUME NEW T, T \subseteq Nat, T # {}
  PROVE  Min(T) \in T
<1>1. PICK x \in T : \A y \in T : x <= y
  BY LeastNat
<1> QED
  BY <1>1 DEF Min

LEMMA MaxOf ==
  ASSUME NEW n \in Nat, NEW T, T \subseteq 0 .. n, T # {}
  PROVE  Max(T) \in T /\ \A y \in T : Max(T) >= y
<1> DEFINE D == {d \in Nat : n - d \in T}
<1>1. D \subseteq Nat
  OBVIOUS
<1>2. D # {}
  <2>1. PICK y \in T : TRUE
    OBVIOUS
  <2>2. n - y \in Nat /\ n - (n - y) = y
    BY <2>1
  <2>3. n - y \in D
    BY <2>1, <2>2
  <2> QED
    BY <2>3
<1>3. PICK d \in D : \A c \in D : d <= c
  <2> HIDE DEF D
  <2> QED
    BY <1>1, <1>2, LeastNat
<1>4. ASSUME NEW y \in T PROVE n - d >= y
  <2>1. y \in 0 .. n /\ n - y \in Nat /\ n - (n - y) = y
    OBVIOUS
  <2>2. n - y \in D
    BY <2>1
  <2> QED
    BY <1>3, <2>1, <2>2
<1>5. n - d \in T
  BY <1>3
<1> QED
  BY <1>4, <1>5 DEF Max
=============================================================================
