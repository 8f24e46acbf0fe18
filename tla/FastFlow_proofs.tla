--------------------------- MODULE FastFlow_proofs ---------------------------
(***************************************************************************)
(* The proofs about the FastFlow runtime: the queue between two threads    *)
(* (USWSR), then the barrier that all threads start at (SpinBarrier).      *)
(*                                                                         *)
(* The queue.  A ring fills a contiguous run of its slots, from pread to   *)
(* pwrite; a cache stores no address twice.  The nodes from head on and    *)
(* the rings from the one that is read on make a chain, of which the       *)
(* producer links the last ring and the consumer unlinks the first; each   *)
(* node and each ring that was allocated belongs to the chain, to a cache  *)
(* or to one of the threads, and to one of them only.  The nodes, stale    *)
(* ones included, are ranked, so that the walk along the list ends: a node *)
(* that is linked goes below all others.  From that, the values in the     *)
(* rings, one ring after the other, change as a first-in first-out queue.  *)
(*                                                                         *)
(* The barrier, for any finite set of threads and any number of rounds.    *)
(* All threads are within one round of each other: m rounds are complete,  *)
(* the threads that have been counted in round m + 1 spin on one counter,  *)
(* which counts exactly them, and the other counter belongs to round m:    *)
(* full until it is reset, then 0.                                         *)
(***************************************************************************)
EXTENDS USWSR, SpinBarrier, SequenceTheorems, FiniteSetTheorems,
        WellFoundedInduction, TLAPS

\* Slot number k from the one that is read next.
Slot(r, size, k) == IF r.pread + k < size THEN r.pread + k ELSE r.pread + k - size

\* The slots filled are those from pread to pwrite, and c is how many.
Contiguous(r, size, c) ==
    /\ c \in 0..size /\ c = Cardinality(Filled(r)) /\ IsFiniteSet(Filled(r))
    /\ \A k \in 0..(size - 1) : r.buf[Slot(r, size, k)] # NULL <=> k < c
    /\ r.pwrite = Slot(r, size, c)

\* The remainder, for a sum that goes round at most once.
LEMMA RoundOnce ==
    ASSUME NEW size \in Nat \ {0}, NEW x \in 0..(2 * size - 1)
    PROVE  x % size = IF x < size THEN x ELSE x - size
<1>1. /\ x \div size \in Int /\ x % size \in 0..(size - 1)
      /\ x = (size * (x \div size)) + (x % size)
  OBVIOUS
<1> DEFINE d == x \div size
           m == x % size
<1> HIDE DEF d, m
<1>2. d \in Int /\ m \in Int /\ m >= 0 /\ m < size /\ x = size * d + m
      /\ size \in Int /\ size > 0 /\ x >= 0 /\ x < 2 * size
  BY <1>1 DEF d, m
<1>3. d = 0 \/ d = 1
  <2>1. CASE d >= 2
    <3>1. size * d >= size * 2
      BY ONLY <1>2, <2>1
    <3>2. QED
      BY ONLY <1>2, <3>1
  <2>2. CASE d <= -1
    <3>1. size * d <= -size
      BY ONLY <1>2, <2>2
    <3>2. QED
      BY ONLY <1>2, <3>1
  <2>3. QED
    BY ONLY <1>2, <2>1, <2>2
<1>4. m = IF x < size THEN x ELSE x - size
  BY ONLY <1>2, <1>3
<1>5. QED
  BY ONLY <1>4 DEF m

\* The slots are numbered from pread without a gap.
SlotOrder(r, size) ==
    /\ \A k \in 0..(size - 1) : Slot(r, size, k) \in 0..(size - 1)
    /\ \A k \in 0..(size - 1) : \A l \in 0..(size - 1) :
         Slot(r, size, k) = Slot(r, size, l) => k = l
    /\ \A j \in 0..(size - 1) : \E k \in 0..(size - 1) : j = Slot(r, size, k)
    /\ \A k \in 0..(size - 1) :
         Slot(r, size, k + 1) = IF Slot(r, size, k) + 1 < size
                                THEN Slot(r, size, k) + 1 ELSE 0
    /\ Slot(r, size, 0) = r.pread /\ Slot(r, size, size) = r.pread

\* Each ring has this order.
LEMMA SlotFacts ==
    ASSUME NEW size \in Nat \ {0}, NEW Ptr, NEW r \in Ring(size, Ptr)
    PROVE  /\ DOMAIN r.buf = 0..(size - 1)
           /\ r.pread \in 0..(size - 1) /\ r.pwrite \in 0..(size - 1)
           /\ \A j \in 0..(size - 1) : r.buf[j] \in Ptr \cup {NULL}
           /\ SlotOrder(r, size)
<1> DEFINE p == r.pread
<1>1. /\ DOMAIN r.buf = 0..(size - 1) /\ p \in 0..(size - 1) /\ r.pwrite \in 0..(size - 1)
      /\ \A j \in 0..(size - 1) : r.buf[j] \in Ptr \cup {NULL}
  BY DEF Ring
<1>2. \A k : Slot(r, size, k) = IF p + k < size THEN p + k ELSE p + k - size
  BY DEF Slot
<1> HIDE DEF p
<1>3. size \in Int /\ size > 0 /\ p \in Int /\ 0 <= p /\ p < size
  BY <1>1
<1>4. \A k \in 0..(size - 1) : Slot(r, size, k) \in 0..(size - 1)
  BY ONLY <1>2, <1>3
<1>5. \A k \in 0..(size - 1) : \A l \in 0..(size - 1) :
        Slot(r, size, k) = Slot(r, size, l) => k = l
  BY ONLY <1>2, <1>3
<1>6. ASSUME NEW j \in 0..(size - 1)
      PROVE  \E k \in 0..(size - 1) : j = Slot(r, size, k)
  <2>1. CASE j >= p
    <3>1. j - p \in 0..(size - 1) /\ j = Slot(r, size, j - p)
      BY <1>2, <1>3, <2>1
    <3>2. QED
      BY <3>1
  <2>2. CASE j < p
    <3>1. j - p + size \in 0..(size - 1) /\ j = Slot(r, size, j - p + size)
      BY <1>2, <1>3, <2>2
    <3>2. QED
      BY <3>1
  <2>3. QED
    BY <1>3, <2>1, <2>2
<1>7. \A k \in 0..(size - 1) :
         Slot(r, size, k + 1) = IF Slot(r, size, k) + 1 < size
                                THEN Slot(r, size, k) + 1 ELSE 0
  BY ONLY <1>2, <1>3
<1>8. Slot(r, size, 0) = p /\ Slot(r, size, size) = p
  BY ONLY <1>2, <1>3
<1>9. SlotOrder(r, size)
  BY ONLY <1>4, <1>5, <1>6, <1>7, <1>8 DEF p, SlotOrder
<1>10. QED
  BY <1>1, <1>9 DEF p

\* What the ring contains, slot by slot.
LEMMA ContentsFacts ==
    ASSUME NEW size \in Nat \ {0}, NEW Ptr, NULL \notin Ptr, NEW r \in Ring(size, Ptr),
           NEW c \in 0..size, Contiguous(r, size, c)
    PROVE  /\ RingContents(r) \in Seq(Ptr) /\ Len(RingContents(r)) = c
           /\ \A k \in 1..c : RingContents(r)[k] = r.buf[Slot(r, size, k - 1)]
<1> DEFINE s == RingContents(r)
<1>1. Cardinality(DOMAIN r.buf) = size
  <2>1. DOMAIN r.buf = 0..(size - 1) /\ size \in Nat
    BY SlotFacts
  <2>2. \A a, b \in Int : Cardinality(a..b) = IF a > b THEN 0 ELSE b - a + 1
    BY FS_Interval
  <2>3. QED
    BY <2>1, <2>2
<1>2. s = [k \in 1..c |-> r.buf[(r.pread + k - 1) % size]]
  BY <1>1 DEF RingContents, Contiguous
<1>3. ASSUME NEW k \in 1..c
      PROVE  /\ (r.pread + k - 1) % size = Slot(r, size, k - 1)
             /\ r.buf[Slot(r, size, k - 1)] \in Ptr
  <2>1. r.pread \in 0..(size - 1)
    BY SlotFacts
  <2> DEFINE x == r.pread + k - 1
  <2>2. x \in 0..(2 * size - 1) /\ k - 1 \in 0..(size - 1) /\ k - 1 < c
    BY <2>1
  <2>3. x % size = IF x < size THEN x ELSE x - size
    BY <2>2, RoundOnce
  <2>4. x = r.pread + (k - 1)
    BY <2>1
  <2>5. x % size = Slot(r, size, k - 1)
    <3> DEFINE p == r.pread
    <3>1. \A j : Slot(r, size, j) = IF p + j < size THEN p + j ELSE p + j - size
      BY DEF Slot
    <3>2. p \in Int /\ k - 1 \in Int /\ size \in Int /\ x = p + (k - 1) /\ x \in Int
      BY <2>1
    <3> HIDE DEF x, p
    <3>3. QED
      BY ONLY <2>3, <3>1, <3>2
  <2>6. r.buf[Slot(r, size, k - 1)] # NULL
    BY <2>2 DEF Contiguous
  <2>7. Slot(r, size, k - 1) \in 0..(size - 1)
    BY <2>2, SlotFacts DEF SlotOrder
  <2>8. r.buf[Slot(r, size, k - 1)] \in Ptr \cup {NULL}
    BY <2>7, SlotFacts
  <2>9. QED
    BY <2>5, <2>6, <2>8
<1>4. s = [k \in 1..c |-> r.buf[Slot(r, size, k - 1)]]
  BY <1>2, <1>3
<1>5. c \in Nat
  OBVIOUS
<1>6. s \in Seq(Ptr)
  BY <1>3, <1>4, <1>5
<1>7. Len(s) = c
  BY <1>4, <1>5, <1>6
<1>8. QED
  BY <1>4, <1>6, <1>7

\* reset() makes the ring empty.
LEMMA NewRingFacts ==
    ASSUME NEW size \in Nat \ {0}, NEW Ptr
    PROVE  /\ NewRing(size) \in Ring(size, Ptr)
           /\ Contiguous(NewRing(size), size, 0)
           /\ Empty(NewRing(size)) /\ Available(NewRing(size))
           /\ Filled(NewRing(size)) = {}
<1> DEFINE r == NewRing(size)
<1>1. /\ r.pread = 0 /\ r.pwrite = 0 /\ DOMAIN r.buf = 0..(size - 1)
      /\ \A k \in 0..(size - 1) : r.buf[k] = NULL
      /\ 0 \in 0..(size - 1)
  BY DEF NewRing
<1>2. r \in Ring(size, Ptr)
  BY DEF NewRing, Ring
<1>3. Filled(r) = {} /\ Empty(r) /\ Available(r)
  BY <1>1 DEF Filled, Empty, Available
<1>4. \A k \in 0..(size - 1) : Slot(r, size, k) \in 0..(size - 1)
  BY <1>2, SlotFacts DEF SlotOrder
<1>5. Slot(r, size, 0) = 0
  <2>1. Slot(r, size, 0) = IF r.pread + 0 < size THEN r.pread + 0 ELSE r.pread + 0 - size
    BY DEF Slot
  <2> HIDE DEF r
  <2>2. QED
    BY ONLY <1>1, <2>1, size \in Nat \ {0}
<1>6. Contiguous(r, size, 0)
  <2>1. Cardinality(Filled(r)) = 0 /\ IsFiniteSet(Filled(r))
    BY <1>3, FS_EmptySet
  <2>2. \A k \in 0..(size - 1) : r.buf[Slot(r, size, k)] = NULL /\ ~ (k < 0)
    BY <1>1, <1>4
  <2> HIDE DEF r
  <2>3. QED
    BY <1>1, <1>5, <2>1, <2>2 DEF Contiguous
<1>7. QED
  BY <1>2, <1>3, <1>6

\* An empty ring contains nothing.
LEMMA EmptyFacts ==
    ASSUME NEW size \in Nat \ {0}, NEW Ptr, NULL \notin Ptr, NEW r \in Ring(size, Ptr),
           NEW c \in 0..size, Contiguous(r, size, c)
    PROVE  /\ Empty(r) <=> c = 0
           /\ Empty(r) => RingContents(r) = <<>>
           /\ ~ Empty(r) => /\ RingContents(r) # <<>> /\ Top(r) = Head(RingContents(r))
                            /\ Top(r) \in Ptr
<1>1. Empty(r) <=> c = 0
  <2> DEFINE a == r.pread
  <2>1. a \in 0..(size - 1) /\ 0 \in 0..(size - 1) /\ c >= 0
    BY SlotFacts
  <2>2. Slot(r, size, 0) = IF a + 0 < size THEN a + 0 ELSE a + 0 - size
    BY DEF Slot
  <2>3. r.buf[Slot(r, size, 0)] # NULL <=> 0 < c
    BY <2>1 DEF Contiguous
  <2> HIDE DEF a
  <2>4. Slot(r, size, 0) = a
    BY ONLY <2>1, <2>2, size \in Nat \ {0}
  <2>5. c \in Int /\ (c = 0 <=> ~ (0 < c))
    BY <2>1
  <2>6. QED
    BY <2>3, <2>4, <2>5 DEF Empty, a
<1>2. /\ RingContents(r) \in Seq(Ptr) /\ Len(RingContents(r)) = c
      /\ \A k \in 1..c : RingContents(r)[k] = r.buf[Slot(r, size, k - 1)]
  BY ContentsFacts
<1>3. c = 0 => RingContents(r) = <<>>
  BY <1>2
<1>4. ASSUME c # 0
      PROVE  /\ RingContents(r) # <<>> /\ Top(r) = Head(RingContents(r)) /\ Top(r) \in Ptr
  <2>1. 1 \in 1..c /\ RingContents(r) # <<>>
    BY <1>2, <1>4
  <2>2. Head(RingContents(r)) = RingContents(r)[1] /\ RingContents(r)[1] \in Ptr
    BY <1>2, <2>1
  <2>3. RingContents(r)[1] = r.buf[r.pread]
    <3>1. Slot(r, size, 0) = r.pread
      <4>1. SlotOrder(r, size)
        BY SlotFacts
      <4>2. QED
        BY ONLY <4>1 DEF SlotOrder
    <3>2. RingContents(r)[1] = r.buf[Slot(r, size, 1 - 1)]
      BY <1>2, <2>1
    <3>3. QED
      BY <3>1, <3>2
  <2>4. QED
    BY <2>1, <2>2, <2>3 DEF Top
<1>5. QED
  BY <1>1, <1>3, <1>4

\* push() to a ring with room appends.
LEMMA PutFacts ==
    ASSUME NEW size \in Nat \ {0}, NEW Ptr, NULL \notin Ptr, NEW r \in Ring(size, Ptr),
           NEW c \in 0..size, Contiguous(r, size, c), Available(r), NEW v \in Ptr
    PROVE  /\ c < size
           /\ Put(r, v) \in Ring(size, Ptr) /\ Contiguous(Put(r, v), size, c + 1)
           /\ RingContents(Put(r, v)) = Append(RingContents(r), v)
<1> DEFINE w == r.pwrite
           q == Put(r, v)
<1>1. /\ w \in 0..(size - 1) /\ r.pread \in 0..(size - 1) /\ DOMAIN r.buf = 0..(size - 1)
      /\ \A j \in 0..(size - 1) : r.buf[j] \in Ptr \cup {NULL}
  BY SlotFacts
<1>s. /\ size \in Int /\ size > 0 /\ c \in Int /\ 0 <= c /\ c <= size
      /\ SlotOrder(r, size)
  BY SlotFacts
<1>2. r.buf[w] = NULL
  BY DEF Available
<1>3. c < size
  <2>1. CASE c = size
    <3>1. w = Slot(r, size, 0) /\ 0 \in 0..(size - 1) /\ 0 < c
      <4>1. w = Slot(r, size, c)
        BY DEF Contiguous
      <4> HIDE DEF w
      <4>2. QED
        BY ONLY <1>s, <2>1, <4>1 DEF SlotOrder
    <3>2. r.buf[w] # NULL
      BY <3>1 DEF Contiguous
    <3>3. QED
      BY <1>2, <3>2
  <2>2. QED
    BY <2>1
<1>4. w = Slot(r, size, c) /\ c \in 0..(size - 1)
  BY <1>3 DEF Contiguous
<1>5. /\ q.pread = r.pread /\ q.pwrite = Wrap(r, w)
      /\ q.buf = [r.buf EXCEPT ![w] = v]
      /\ q \in Ring(size, Ptr)
  <2>1. Wrap(r, w) \in 0..(size - 1)
    BY <1>1 DEF Wrap
  <2>2. q = [r EXCEPT !.buf = [r.buf EXCEPT ![w] = v], !.pwrite = Wrap(r, w)]
    BY DEF Put
  <2>3. q = [pread |-> r.pread, pwrite |-> Wrap(r, w), buf |-> [r.buf EXCEPT ![w] = v]]
    BY <2>2 DEF Ring
  <2>4. [r.buf EXCEPT ![w] = v] \in [0..(size - 1) -> Ptr \cup {NULL}]
    BY <1>1 DEF Ring
  <2>5. QED
    BY <1>1, <2>1, <2>3, <2>4 DEF Ring
<1>6. \A k : Slot(q, size, k) = Slot(r, size, k)
  BY <1>5 DEF Slot
<1> HIDE DEF q, w
<1>7. Filled(q) = Filled(r) \cup {w} /\ w \notin Filled(r)
  BY <1>1, <1>2, <1>5 DEF Filled
<1>8. IsFiniteSet(Filled(q)) /\ Cardinality(Filled(q)) = c + 1
  BY <1>7, FS_AddElement DEF Contiguous
<1>9. \A k \in 0..(size - 1) : q.buf[Slot(q, size, k)] # NULL <=> k < c + 1
  <2> TAKE k \in 0..(size - 1)
  <2>1. Slot(r, size, k) \in 0..(size - 1) /\ (Slot(r, size, k) = w <=> k = c)
    BY ONLY <1>s, <1>4 DEF SlotOrder
  <2>2. CASE k = c
    BY <1>1, <1>5, <1>6, <2>1, <2>2
  <2>3. CASE k # c
    <3>1. q.buf[Slot(q, size, k)] = r.buf[Slot(r, size, k)]
      BY <1>1, <1>5, <1>6, <2>1, <2>3
    <3>2. r.buf[Slot(r, size, k)] # NULL <=> k < c
      BY DEF Contiguous
    <3>3. QED
      BY <2>3, <3>1, <3>2
  <2>4. QED
    BY <2>2, <2>3
<1>10. q.pwrite = Slot(q, size, c + 1)
  <2>1. Slot(r, size, c + 1) = IF w + 1 < size THEN w + 1 ELSE 0
    BY ONLY <1>s, <1>4 DEF SlotOrder
  <2>2. Wrap(r, w) = IF w + 1 < size THEN w + 1 ELSE 0
    BY <1>1 DEF Wrap
  <2>3. QED
    BY <1>5, <1>6, <2>1, <2>2
<1>11. Contiguous(q, size, c + 1) /\ c + 1 \in 0..size
  BY <1>4, <1>8, <1>9, <1>10 DEF Contiguous
<1>12. RingContents(q) = Append(RingContents(r), v)
  <2> DEFINE s == RingContents(r)
             z == RingContents(q)
             a == Append(s, v)
  <2>1. /\ s \in Seq(Ptr) /\ Len(s) = c
        /\ \A k \in 1..c : s[k] = r.buf[Slot(r, size, k - 1)]
    BY ContentsFacts
  <2>2. /\ z \in Seq(Ptr) /\ Len(z) = c + 1
        /\ \A k \in 1..(c + 1) : z[k] = q.buf[Slot(q, size, k - 1)]
    <3>1. q \in Ring(size, Ptr) /\ c + 1 \in 0..size /\ Contiguous(q, size, c + 1)
      BY <1>5, <1>11
    <3> DEFINE d == c + 1
    <3>2. d \in 0..size /\ Contiguous(q, size, d)
      BY <3>1
    <3> HIDE DEF d
    <3>3. /\ z \in Seq(Ptr) /\ Len(z) = d
          /\ \A k \in 1..d : z[k] = q.buf[Slot(q, size, k - 1)]
      BY <3>1, <3>2, ContentsFacts
    <3>4. QED
      BY <3>3 DEF d
  <2> HIDE DEF s, z
  <2>3. a \in Seq(Ptr) /\ Len(a) = c + 1 /\ a[c + 1] = v /\ \A k \in 1..c : a[k] = s[k]
    BY <2>1, AppendProperties
  <2> HIDE DEF a
  <2>4. ASSUME NEW k \in 1..(c + 1) PROVE z[k] = a[k]
    <3>1. k - 1 \in 0..(size - 1) /\ (k - 1 = c <=> k = c + 1)
      BY <1>4
    <3>2. Slot(r, size, k - 1) \in 0..(size - 1) /\ (Slot(r, size, k - 1) = w <=> k = c + 1)
      <4>1. Slot(r, size, k - 1) = w <=> k - 1 = c
        BY ONLY <1>s, <1>4, <3>1 DEF SlotOrder
      <4>2. Slot(r, size, k - 1) \in 0..(size - 1)
        BY ONLY <1>s, <3>1 DEF SlotOrder
      <4>3. QED
        BY <3>1, <4>1, <4>2
    <3>3. z[k] = q.buf[Slot(r, size, k - 1)]
      BY <1>6, <2>2
    <3>4. CASE k = c + 1
      BY <1>1, <1>5, <2>3, <3>2, <3>3, <3>4
    <3>5. CASE k # c + 1
      <4>1. k \in 1..c
        BY <3>5
      <4>2. z[k] = r.buf[Slot(r, size, k - 1)]
        BY <1>1, <1>5, <3>2, <3>3, <3>5
      <4>3. QED
        BY <2>1, <2>3, <4>1, <4>2
    <3>6. QED
      BY <3>4, <3>5
  <2>5. z = a
    BY <2>2, <2>3, <2>4, SeqEqual
  <2>6. QED
    BY <2>5 DEF s, z, a
<1>13. QED
  BY <1>3, <1>5, <1>11, <1>12 DEF q

\* pop() from a ring that is not empty removes the oldest value.
LEMMA IncFacts ==
    ASSUME NEW size \in Nat \ {0}, NEW Ptr, NULL \notin Ptr, NEW r \in Ring(size, Ptr),
           NEW c \in 0..size, Contiguous(r, size, c), ~ Empty(r)
    PROVE  /\ c > 0
           /\ Inc(r) \in Ring(size, Ptr) /\ Contiguous(Inc(r), size, c - 1)
           /\ RingContents(Inc(r)) = Tail(RingContents(r))
           /\ Available(r) => Available(Inc(r))
<1> DEFINE p == r.pread
           q == Inc(r)
<1>1. /\ p \in 0..(size - 1) /\ r.pwrite \in 0..(size - 1) /\ DOMAIN r.buf = 0..(size - 1)
      /\ \A j \in 0..(size - 1) : r.buf[j] \in Ptr \cup {NULL}
  BY SlotFacts
<1>s. /\ size \in Int /\ size > 0 /\ c \in Int /\ 0 <= c /\ c <= size
      /\ SlotOrder(r, size)
  BY SlotFacts
<1>2. r.buf[p] # NULL
  BY DEF Empty
<1>3. c > 0
  <2>1. Empty(r) <=> c = 0
    BY EmptyFacts
  <2>2. QED
    BY <2>1
<1>4. Slot(r, size, 0) = p /\ Slot(r, size, size) = p
  BY ONLY <1>s DEF SlotOrder
<1>5. /\ q.pread = Wrap(r, p) /\ q.pwrite = r.pwrite
      /\ q.buf = [r.buf EXCEPT ![p] = NULL]
      /\ q \in Ring(size, Ptr)
  <2>1. Wrap(r, p) \in 0..(size - 1)
    BY <1>1 DEF Wrap
  <2>2. q = [r EXCEPT !.buf = [r.buf EXCEPT ![p] = NULL], !.pread = Wrap(r, p)]
    BY DEF Inc
  <2>3. q = [pread |-> Wrap(r, p), pwrite |-> r.pwrite, buf |-> [r.buf EXCEPT ![p] = NULL]]
    BY <2>2 DEF Ring
  <2>4. [r.buf EXCEPT ![p] = NULL] \in [0..(size - 1) -> Ptr \cup {NULL}]
    BY <1>1 DEF Ring
  <2>5. QED
    BY <1>1, <2>1, <2>3, <2>4 DEF Ring
<1>6. \A k \in 0..(size - 1) : Slot(q, size, k) = Slot(r, size, k + 1)
  <2>1. Wrap(r, p) = IF p + 1 < size THEN p + 1 ELSE 0
    BY <1>1 DEF Wrap
  <2> TAKE k \in 0..(size - 1)
  <2> DEFINE x == q.pread
             y == r.pread
  <2>2. x = IF y + 1 < size THEN y + 1 ELSE 0
    BY <1>5, <2>1
  <2>3. y \in Int /\ y >= 0 /\ y < size /\ k \in Int /\ k >= 0 /\ k < size
    BY <1>1, <1>s
  <2>4. /\ Slot(q, size, k) = IF x + k < size THEN x + k ELSE x + k - size
        /\ \A j : Slot(r, size, j) = IF y + j < size THEN y + j ELSE y + j - size
    BY DEF Slot
  <2> HIDE DEF x, y
  <2>5. Slot(r, size, k + 1) = IF y + (k + 1) < size THEN y + (k + 1) ELSE y + (k + 1) - size
    BY ONLY <2>4
  <2> DEFINE a == Slot(q, size, k)
             b == Slot(r, size, k + 1)
  <2>6. /\ a = IF x + k < size THEN x + k ELSE x + k - size
        /\ b = IF y + (k + 1) < size THEN y + (k + 1) ELSE y + (k + 1) - size
    BY <2>4, <2>5
  <2> HIDE DEF a, b
  <2>7. a = b
    BY ONLY <1>s, <2>2, <2>3, <2>6
  <2>8. QED
    BY <2>7 DEF a, b
<1> HIDE DEF q, p
<1>7. Filled(q) = Filled(r) \ {p} /\ p \in Filled(r)
  BY <1>1, <1>2, <1>5 DEF Filled
<1>8. IsFiniteSet(Filled(q)) /\ Cardinality(Filled(q)) = c - 1
  BY <1>7, FS_RemoveElement DEF Contiguous
<1>9. \A k \in 0..(size - 1) : q.buf[Slot(q, size, k)] # NULL <=> k < c - 1
  <2> TAKE k \in 0..(size - 1)
  <2>1. k \in Int /\ k >= 0 /\ k < size
    BY <1>s
  <2>2. CASE k + 1 < size
    <3>1. /\ Slot(r, size, k + 1) \in 0..(size - 1) /\ Slot(r, size, k + 1) # p
          /\ k + 1 \in 0..(size - 1)
      BY ONLY <1>s, <1>4, <2>1, <2>2 DEF SlotOrder
    <3>2. q.buf[Slot(q, size, k)] = r.buf[Slot(r, size, k + 1)]
      BY <1>1, <1>5, <1>6, <3>1
    <3>3. r.buf[Slot(r, size, k + 1)] # NULL <=> k + 1 < c
      BY <3>1 DEF Contiguous
    <3>4. k + 1 < c <=> k < c - 1
      BY ONLY <1>s, <2>1
    <3>5. QED
      BY ONLY <3>2, <3>3, <3>4
  <2>3. CASE k + 1 = size
    <3>1. Slot(q, size, k) = p
      BY <1>4, <1>6, <2>3
    <3>2. q.buf[p] = NULL
      BY <1>1, <1>5
    <3>3. ~ (k < c - 1)
      BY ONLY <1>s, <2>1, <2>3
    <3>4. QED
      BY ONLY <3>1, <3>2, <3>3
  <2>4. QED
    BY ONLY <1>s, <2>1, <2>2, <2>3
<1>10. q.pwrite = Slot(q, size, c - 1)
  <2>1. c - 1 \in 0..(size - 1) /\ c - 1 + 1 = c
    BY ONLY <1>s, <1>3
  <2>2. Slot(q, size, c - 1) = Slot(r, size, c - 1 + 1)
    BY <1>6, <2>1
  <2>3. r.pwrite = Slot(r, size, c)
    BY DEF Contiguous
  <2>4. QED
    BY <1>5, <2>1, <2>2, <2>3
<1>11. Contiguous(q, size, c - 1) /\ c - 1 \in 0..size
  <2>1. c - 1 \in 0..size
    BY ONLY <1>s, <1>3
  <2>2. QED
    BY <1>8, <1>9, <1>10, <2>1 DEF Contiguous
<1>12. RingContents(q) = Tail(RingContents(r))
  <2> DEFINE s == RingContents(r)
             z == RingContents(q)
             a == Tail(s)
             d == c - 1
  <2>1. /\ s \in Seq(Ptr) /\ Len(s) = c
        /\ \A k \in 1..c : s[k] = r.buf[Slot(r, size, k - 1)]
    BY ContentsFacts
  <2>2. /\ z \in Seq(Ptr) /\ Len(z) = d
        /\ \A k \in 1..d : z[k] = q.buf[Slot(q, size, k - 1)]
    <3>1. q \in Ring(size, Ptr) /\ d \in 0..size /\ Contiguous(q, size, d)
      BY <1>5, <1>11
    <3> HIDE DEF d
    <3>2. QED
      BY <3>1, ContentsFacts
  <2> HIDE DEF s, z
  <2>3. a \in Seq(Ptr) /\ Len(a) = d /\ \A k \in 1..d : a[k] = s[k + 1]
    <3>1. s # <<>>
      BY <1>3, <2>1
    <3>2. QED
      BY <1>3, <2>1, <3>1, HeadTailProperties
  <2> HIDE DEF a
  <2>4. ASSUME NEW k \in 1..d PROVE z[k] = a[k]
    <3>0. k \in Int /\ k >= 1 /\ k <= c - 1
      BY <1>s
    <3>1. k - 1 \in 0..(size - 1) /\ k - 1 + 1 = k /\ k \in 0..(size - 1) /\ k # 0
          /\ k + 1 \in 1..c /\ k + 1 - 1 = k
      BY ONLY <1>s, <3>0
    <3>2. Slot(r, size, k) \in 0..(size - 1) /\ Slot(r, size, k) # p
      BY ONLY <1>s, <1>4, <3>1 DEF SlotOrder
    <3>3. z[k] = q.buf[Slot(r, size, k)]
      BY <1>6, <2>2, <3>1
    <3>4. z[k] = r.buf[Slot(r, size, k)]
      BY <1>1, <1>5, <3>2, <3>3
    <3>5. s[k + 1] = r.buf[Slot(r, size, k + 1 - 1)]
      BY <2>1, <3>1
    <3>6. QED
      BY <2>3, <3>1, <3>4, <3>5
  <2> HIDE DEF d
  <2>5. z = a
    BY <2>2, <2>3, <2>4, SeqEqual
  <2>6. QED
    BY <2>5 DEF s, z, a
<1>13. Available(r) => Available(q)
  BY <1>1, <1>5 DEF Available
<1>14. QED
  BY <1>3, <1>5, <1>11, <1>12, <1>13 DEF q

\* What a ring of free memory holds, and that it holds nothing twice.
Stored(r) == {r.buf[k] : k \in Filled(r)}
Distinct(r) ==
    \A j, k \in DOMAIN r.buf : r.buf[j] # NULL /\ r.buf[j] = r.buf[k] => j = k

\* A cache that nothing was given to.
LEMMA NewCacheFacts ==
    ASSUME NEW size \in Nat \ {0}, NEW Ptr
    PROVE  /\ NewRing(size) \in Ring(size, Ptr)
           /\ Stored(NewRing(size)) = {} /\ Distinct(NewRing(size))
<1>1. NewRing(size) \in Ring(size, Ptr) /\ Filled(NewRing(size)) = {}
  BY NewRingFacts
<1>2. Distinct(NewRing(size))
  BY DEF Distinct, NewRing
<1>3. QED
  BY <1>1, <1>2 DEF Stored

\* What a cache takes in.
LEMMA CachePut ==
    ASSUME NEW size \in Nat \ {0}, NEW Ptr, NULL \notin Ptr, NEW r \in Ring(size, Ptr),
           Distinct(r), Available(r), NEW v \in Ptr, v \notin Stored(r)
    PROVE  /\ Put(r, v) \in Ring(size, Ptr) /\ Distinct(Put(r, v))
           /\ Stored(Put(r, v)) = Stored(r) \cup {v}
<1> DEFINE q == Put(r, v)
           w == r.pwrite
<1>1. /\ w \in 0..(size - 1) /\ r.pread \in 0..(size - 1) /\ DOMAIN r.buf = 0..(size - 1)
      /\ \A j \in 0..(size - 1) : r.buf[j] \in Ptr \cup {NULL}
  BY SlotFacts
<1>2. r.buf[w] = NULL
  BY DEF Available
<1>3. q.buf = [r.buf EXCEPT ![w] = v] /\ q \in Ring(size, Ptr)
  <2>1. Wrap(r, w) \in 0..(size - 1)
    BY <1>1 DEF Wrap
  <2>2. q = [r EXCEPT !.buf = [r.buf EXCEPT ![w] = v], !.pwrite = Wrap(r, w)]
    BY DEF Put
  <2>3. q = [pread |-> r.pread, pwrite |-> Wrap(r, w), buf |-> [r.buf EXCEPT ![w] = v]]
    BY <2>2 DEF Ring
  <2>4. [r.buf EXCEPT ![w] = v] \in [0..(size - 1) -> Ptr \cup {NULL}]
    BY <1>1 DEF Ring
  <2>5. QED
    BY <1>1, <2>1, <2>3, <2>4 DEF Ring
<1> HIDE DEF q, w
<1>4. /\ DOMAIN q.buf = 0..(size - 1) /\ q.buf[w] = v /\ v # NULL
      /\ \A j \in 0..(size - 1) \ {w} : q.buf[j] = r.buf[j]
  BY <1>1, <1>3
<1>5. \A j \in 0..(size - 1) : r.buf[j] # v
  BY <1>1, <1>4 DEF Stored, Filled
<1>6. Distinct(q)
  BY <1>1, <1>4, <1>5 DEF Distinct
<1>7. Stored(q) = Stored(r) \cup {v}
  BY <1>1, <1>2, <1>4 DEF Stored, Filled
<1>8. QED
  BY <1>3, <1>6, <1>7 DEF q

\* What a cache gives back.
LEMMA CacheTake ==
    ASSUME NEW size \in Nat \ {0}, NEW Ptr, NULL \notin Ptr, NEW r \in Ring(size, Ptr),
           Distinct(r), ~ Empty(r)
    PROVE  /\ Inc(r) \in Ring(size, Ptr) /\ Distinct(Inc(r))
           /\ Top(r) \in Ptr /\ Top(r) \in Stored(r)
           /\ Stored(Inc(r)) = Stored(r) \ {Top(r)}
<1> DEFINE q == Inc(r)
           p == r.pread
<1>1. /\ p \in 0..(size - 1) /\ r.pwrite \in 0..(size - 1) /\ DOMAIN r.buf = 0..(size - 1)
      /\ \A j \in 0..(size - 1) : r.buf[j] \in Ptr \cup {NULL}
  BY SlotFacts
<1>2. r.buf[p] # NULL /\ Top(r) = r.buf[p]
  BY DEF Empty, Top
<1>3. q.buf = [r.buf EXCEPT ![p] = NULL] /\ q \in Ring(size, Ptr)
  <2>1. Wrap(r, p) \in 0..(size - 1)
    BY <1>1 DEF Wrap
  <2>2. q = [r EXCEPT !.buf = [r.buf EXCEPT ![p] = NULL], !.pread = Wrap(r, p)]
    BY DEF Inc
  <2>3. q = [pread |-> Wrap(r, p), pwrite |-> r.pwrite, buf |-> [r.buf EXCEPT ![p] = NULL]]
    BY <2>2 DEF Ring
  <2>4. [r.buf EXCEPT ![p] = NULL] \in [0..(size - 1) -> Ptr \cup {NULL}]
    BY <1>1 DEF Ring
  <2>5. QED
    BY <1>1, <2>1, <2>3, <2>4 DEF Ring
<1> HIDE DEF q, p
<1>4. /\ DOMAIN q.buf = 0..(size - 1) /\ q.buf[p] = NULL
      /\ \A j \in 0..(size - 1) \ {p} : q.buf[j] = r.buf[j]
  BY <1>1, <1>3
<1>5. Distinct(q)
  BY <1>1, <1>4 DEF Distinct
<1>6. Stored(q) = Stored(r) \ {Top(r)} /\ Top(r) \in Stored(r) /\ Top(r) \in Ptr
  BY <1>1, <1>2, <1>4 DEF Stored, Filled, Distinct
<1>7. QED
  BY <1>3, <1>5, <1>6 DEF q

\* Each slot filled stores something else.
LEMMA StoredCount ==
    ASSUME NEW size \in Nat \ {0}, NEW Ptr, NEW r \in Ring(size, Ptr), Distinct(r)
    PROVE  /\ IsFiniteSet(Stored(r)) /\ Cardinality(Stored(r)) = Cardinality(Filled(r))
<1> DEFINE f == [k \in Filled(r) |-> r.buf[k]]
<1>1. DOMAIN r.buf = 0..(size - 1)
  BY SlotFacts
<1>2. IsFiniteSet(Filled(r))
  <2>1. \A a, b \in Int : IsFiniteSet(a..b)
    BY FS_Interval
  <2>2. IsFiniteSet(0..(size - 1))
    BY <2>1
  <2>3. Filled(r) \in SUBSET (0..(size - 1))
    BY <1>1 DEF Filled
  <2>4. QED
    BY <2>2, <2>3, FS_Subset
<1>3. f \in Bijection(Filled(r), Stored(r))
  <2>1. f \in [Filled(r) -> Stored(r)] /\ \A v \in Stored(r) : \E k \in Filled(r) : f[k] = v
    BY DEF Stored
  <2>2. \A j, k \in Filled(r) : f[j] = f[k] => j = k
    BY <1>1 DEF Filled, Distinct
  <2> HIDE DEF f
  <2>3. QED
    BY <2>1, <2>2 DEF Bijection, Injection, Surjection, IsInjective
<1>4. QED
  BY <1>2, <1>3, FS_Bijection DEF ExistsBijection

\* A set of natural numbers that is not empty has a least element.
LEMMA Least ==
    ASSUME NEW S \in SUBSET Nat, S # {}
    PROVE  \E m \in S : \A n \in S : m <= n
<1> DEFINE R == OpToRel(<, Nat)
<1>1. IsWellFoundedOn(R, Nat)
  BY NatLessThanWellFounded
<1>2. \A x, y \in Nat : x < y => <<x, y>> \in R
  BY DEF OpToRel
<1> HIDE DEF R
<1>3. PICK m \in S : \A n \in S : ~ (<<n, m>> \in R)
  BY <1>1, WFMin
<1>4. \A n \in S : ~ (n < m)
  BY <1>2, <1>3
<1>5. \A n \in S : m <= n
  BY <1>4
<1>6. QED
  BY <1>5

(* The nodes are ranked: next leads to a lower rank, so that a recursion   *)
(* along the list, stale nodes included, comes to an end.                  *)
Ranked(rank, bound) ==
    /\ bound \in Nat /\ rank \in [Node -> 0..bound]
    /\ \A n \in Node : node[n].next \in Node \cup {NULL}
    /\ \A n \in Node : node[n].next # NULL => rank[node[n].next] < rank[n]

\* A function that recurs along the list exists.
LEMMA ListRecursion ==
    ASSUME NEW rank, NEW bound, Ranked(rank, bound), NULL \notin Node, NEW X
    PROVE  \E f : f = [n \in Node \cup {NULL} |->
                         IF n = NULL THEN <<>> ELSE X[n] \o f[node[n].next]]
<1> DEFINE S == Node \cup {NULL}
           E(f, n) == IF n = NULL THEN <<>> ELSE X[n] \o f[node[n].next]
           Good(k) == \E f : \A n \in S :
                        (n # NULL => rank[n] < k) => f[n] = E(f, n)
<1>1. Good(0)
  <2>1. \A n \in S : (n # NULL => rank[n] < 0) => n = NULL
    BY DEF Ranked
  <2> DEFINE g == [n \in S |-> <<>>]
  <2>2. \A n \in S : (n # NULL => rank[n] < 0) => g[n] = E(g, n)
    BY <2>1
  <2>3. QED
    BY <2>2
<1>2. ASSUME NEW k \in Nat, Good(k)
      PROVE  Good(k + 1)
  <2>1. PICK f : \A n \in S : (n # NULL => rank[n] < k) => f[n] = E(f, n)
    BY <1>2
  <2> DEFINE g == [n \in S |-> E(f, n)]
  <2>2. ASSUME NEW n \in S, n # NULL => rank[n] < k + 1
        PROVE  g[n] = E(g, n)
    <3>1. CASE n = NULL
      BY <3>1
    <3>2. CASE n # NULL
      <4> DEFINE x == node[n].next
      <4>1. x \in S /\ (x # NULL => rank[x] < k)
        BY <2>2, <3>2 DEF Ranked
      <4> HIDE DEF x
      <4>2. f[x] = E(f, x)
        BY <2>1, <4>1
      <4>3. g[x] = E(f, x)
        BY <4>1
      <4>4. QED
        BY <3>2, <4>2, <4>3 DEF x
    <3>3. QED
      BY <3>1, <3>2
  <2>3. QED
    BY <2>2
<1> HIDE DEF Good
<1>3. Good(bound + 1)
  <2> DEFINE Bad == {k \in 0..(bound + 1) : ~ Good(k)}
  <2>1. CASE Bad = {}
    BY <2>1 DEF Ranked
  <2>2. CASE Bad # {}
    <3>0. Bad \in SUBSET Nat
      BY DEF Ranked
    <3> HIDE DEF Bad
    <3>a. PICK k \in Bad : \A j \in Bad : k <= j
      BY <2>2, <3>0, Least
    <3> USE DEF Bad
    <3>1. k \in Bad /\ \A j \in Bad : k <= j
      BY <3>a
    <3>2. k # 0 /\ k \in Nat /\ k <= bound + 1 /\ bound \in Nat
      BY <1>1, <3>1 DEF Ranked
    <3>3. k - 1 \in 0..(bound + 1) /\ k - 1 \notin Bad /\ k - 1 \in Nat
      BY <3>1, <3>2
    <3>4. Good(k)
      BY <1>2, <3>2, <3>3
    <3>5. QED
      BY <3>1, <3>4
  <2>3. QED
    BY <2>1, <2>2
<1>4. \E f : f = [n \in S |-> E(f, n)]
  <2>1. PICK f : \A n \in S : (n # NULL => rank[n] < bound + 1) => f[n] = E(f, n)
    BY <1>3 DEF Good
  <2>2. \A n \in S : f[n] = E(f, n)
    <3>1. \A n \in S : n # NULL => rank[n] < bound + 1
      BY DEF Ranked
    <3> HIDE DEF S, E
    <3>2. QED
      BY ONLY <2>1, <3>1
  <2> DEFINE g == [n \in S |-> f[n]]
  <2>3. ASSUME NEW n \in S PROVE g[n] = E(g, n)
    BY <2>2 DEF Ranked
  <2>4. g = [n \in S |-> g[n]]
    OBVIOUS
  <2>5. g = [n \in S |-> E(g, n)]
    BY <2>3, <2>4
  <2>6. QED
    BY <2>5
<1>5. QED
  BY <1>4

\* The list, node by node.
LEMMA NodesUnrolled ==
    ASSUME NEW rank, NEW bound, Ranked(rank, bound), NULL \notin Node
    PROVE  \E from : /\ Nodes = from[head] /\ from[NULL] = <<>>
                     /\ \A n \in Node : from[n] = <<n>> \o from[node[n].next]
<1> DEFINE S == Node \cup {NULL}
           E(f, n) == IF n = NULL THEN <<>> ELSE <<n>> \o f[node[n].next]
           X == [n \in Node |-> <<n>>]
           from == CHOOSE f : f = [n \in S |-> E(f, n)]
<1>1. \E f : f = [n \in S |-> E(f, n)]
  <2> DEFINE G(f) == [n \in S |-> IF n = NULL THEN <<>> ELSE X[n] \o f[node[n].next]]
  <2>1. \E f : f = G(f)
    <3> HIDE DEF X
    <3>1. QED
      BY ListRecursion
  <2>2. \A f : G(f) = [n \in S |-> E(f, n)]
    OBVIOUS
  <2> HIDE DEF G, E, S
  <2>3. QED
    BY <2>1, <2>2
<1>2. from = [n \in S |-> E(from, n)]
  <2> HIDE DEF E
  <2>1. QED
    BY <1>1, Zenon
<1>3. Nodes = from[head]
  BY Zenon DEF Nodes
<1>4. \A n \in S : from[n] = E(from, n)
  BY <1>2
<1>5. QED
  BY <1>3, <1>4

\* The values in the chained rings, node by node.
Unrolled(from) ==
    /\ Contents = RingContents(ring[Reading]) \o from[ListNext] /\ from[NULL] = <<>>
    /\ \A n \in Node : from[n] = RingContents(ring[node[n].data]) \o from[node[n].next]

\* Ranked nodes are enough for them to be defined.
LEMMA ContentsUnrolled ==
    ASSUME NEW rank, NEW bound, Ranked(rank, bound), NULL \notin Node
    PROVE  \E from : Unrolled(from)
<1> DEFINE S == Node \cup {NULL}
           V(n) == RingContents(ring[node[n].data])
           E(f, n) == IF n = NULL THEN <<>> ELSE V(n) \o f[node[n].next]
           X == [n \in Node |-> V(n)]
           from == CHOOSE f : f = [n \in S |-> E(f, n)]
<1>1. \E f : f = [n \in S |-> E(f, n)]
  <2> DEFINE G(f) == [n \in S |-> IF n = NULL THEN <<>> ELSE X[n] \o f[node[n].next]]
  <2>1. \E f : f = G(f)
    <3> HIDE DEF X
    <3>1. QED
      BY ListRecursion
  <2> HIDE DEF V
  <2>2. \A f : G(f) = [n \in S |-> E(f, n)]
    OBVIOUS
  <2> HIDE DEF G, E, S
  <2>3. QED
    BY <2>1, <2>2
<1>2. from = [n \in S |-> E(from, n)]
  <2> HIDE DEF E
  <2>1. QED
    BY <1>1, Zenon
<1>3. Contents = RingContents(ring[Reading]) \o from[ListNext]
  BY Zenon DEF Contents
<1> HIDE DEF V, from
<1>4. \A n \in S : from[n] = E(from, n)
  BY <1>2
<1>5. from[NULL] = <<>> /\ \A n \in Node : from[n] = V(n) \o from[node[n].next]
  BY <1>4
<1>6. QED
  BY <1>3, <1>5 DEF V, Unrolled

\* What a thread holds between two owners: a node or a ring out of the cache
\* and not yet linked, or unlinked and not yet given back.
Held == IF ppc = "link" THEN {pnode} ELSE {}
Retired == IF cpc = "recycle" THEN {cnode} ELSE {}
Installed == IF ppc \in {"next_w", "link"} THEN {t} ELSE {}
Released == IF cpc \in {"recycle", "reset", "release"} THEN {buf_r} ELSE {}

\* The new ring is linked and the producer has not moved to it.
Growing == ppc \in {"swing", "buf_w"}

\* Everything allocated has one owner.
Owned(live, a, b, c, d) ==
    /\ live = a \cup b \cup c \cup d
    /\ a \cap b = {} /\ a \cap c = {} /\ a \cap d = {}
    /\ b \cap c = {} /\ b \cap d = {} /\ c \cap d = {}

OneToOne(s) == \A i, j \in 1..Len(s) : s[i] = s[j] => i = j

\* s is the list of nodes, R the chain of rings: the one that is read, then
\* one for each node behind head.  The last is the one that is written, but
\* for the time when the producer has linked a new one.
Linked(s, R) ==
    /\ s \in Seq(Node) /\ R \in Seq(Buffer) /\ s # <<>> /\ Len(R) = Len(s)
    /\ OneToOne(s) /\ OneToOne(R)
    /\ s[1] = head /\ R[1] = Reading
    /\ \A i \in 1..(Len(s) - 1) :
         node[s[i]].next = s[i + 1] /\ node[s[i + 1]].data = R[i + 1]
    /\ node[s[Len(s)]].next = NULL

Ends(s, R) ==
    /\ Growing => Len(s) > 1 /\ R[Len(s) - 1] = buf_w /\ R[Len(s)] = t
    /\ ~ Growing => R[Len(s)] = buf_w
    /\ ppc = "swing" => pnode = s[Len(s)]
    /\ ppc # "swing" => tail = s[Len(s)]

Owners(s, R) ==
    /\ Owned(liveNodes, Range(s), Held, Stored(cache), Retired)
    /\ Owned(liveBuffers, Range(R), Installed, Stored(bufcache), Released)

Chain(s, R) == Linked(s, R) /\ Ends(s, R) /\ Owners(s, R)

\* What the threads know where they are.
Pushing ==
    /\ ppc = "link" => node[pnode] = [data |-> t, next |-> NULL]
    /\ ppc \in {"link", "swing"} <=> pnode # NULL
    /\ ppc \in {"next_w", "link", "swing", "buf_w"} <=> t # NULL
    /\ ppc # "idle" => data >= 1

Popping ==
    /\ cpc = "recycle" <=> cnode # NULL
    /\ cpc \in {"recycle", "reset", "release", "load", "store", "buf_r"} <=> tmp # NULL
    /\ cpc \in {"again", "next_r"} => buf_r # buf_w

\* The rings hold values from pread to pwrite; a ring that is not in use is
\* clean, and the producer has found room before it puts.
Rings ==
    /\ \A b \in Buffer : \E c \in 0..Size : Contiguous(ring[b], Size, c)
    /\ \A b \in Stored(bufcache) : ring[b] = NewRing(Size)
    /\ t # NULL => ring[t] = NewRing(Size)
    /\ ppc \in {"load", "store", "put"} => Available(ring[buf_w])
    /\ cpc = "next_r" => Empty(ring[buf_r])
    /\ cpc = "release" => ring[buf_r] = NewRing(Size)

Caches == Distinct(cache) /\ Distinct(bufcache)

\* A call of push() takes one node and one ring at most.
Memory ==
    /\ IsFiniteSet(liveNodes) /\ IsFiniteSet(liveBuffers)
    /\ Cardinality(liveNodes) <= data + (IF ppc \in {"available", "next_w"} THEN 0 ELSE 1)
    /\ Cardinality(liveBuffers) <= data + (IF ppc = "available" THEN 0 ELSE 1)

Acyclic == \E rank : \E bound \in Nat : Ranked(rank, bound)

QInv ==
    /\ TypeOK /\ Pushing /\ Popping /\ Rings /\ Caches /\ Memory /\ Acyclic
    /\ \E s \in Seq(Node), R \in Seq(Buffer) : Chain(s, R)

\* The null pointer is no address and no value.
LEMMA Sorts ==
    /\ Size \in Nat \ {0} /\ NodeCacheSize \in Nat \ {0} /\ BufferCacheSize \in Nat \ {0}
    /\ MaxPushes \in Nat /\ NULL = 0
    /\ NULL \notin Node /\ NULL \notin Buffer /\ NULL \notin 1..MaxPushes
    /\ Node \in SUBSET Nat /\ Buffer \in SUBSET Nat
BY NodeAssumption, BufferAssumption DEF NULL

\* malloc() finds an address as long as the pushes do not need more.
LEMMA MallocFacts ==
    ASSUME NEW addresses \in {Node, Buffer}, NEW live, IsFiniteSet(live),
           Cardinality(live) <= MaxPushes
    PROVE  Malloc(addresses, live) \in addresses /\ Malloc(addresses, live) \notin live
<1>1. addresses \ live # {}
  <2>1. SUFFICES ASSUME addresses \in SUBSET live PROVE FALSE
    OBVIOUS
  <2>2. IsFiniteSet(addresses) /\ Cardinality(addresses) <= Cardinality(live)
    BY <2>1, FS_Subset
  <2>3. Cardinality(addresses) > MaxPushes
    BY <2>2, RoomAssumption
  <2>4. Cardinality(addresses) \in Nat /\ Cardinality(live) \in Nat /\ MaxPushes \in Nat
    BY <2>2, FS_CardinalityType, Sorts
  <2>5. QED
    BY <2>2, <2>3, <2>4
<1>2. addresses \ live \in SUBSET Nat
  BY Sorts
<1>3. \E a \in addresses \ live : \A b \in addresses \ live : a <= b
  BY <1>1, <1>2, Least
<1>4. Malloc(addresses, live) \in addresses \ live
  BY <1>3 DEF Malloc
<1>5. QED
  BY <1>4

\* The invariant holds of the queue that the constructor leaves.
LEMMA InitQInv == Init => QInv
<1> SUFFICES ASSUME Init PROVE QInv
  OBVIOUS
<1> DEFINE n == Malloc(Node, {})
           b == Malloc(Buffer, {})
<1>1. n \in Node /\ b \in Buffer
  <2>1. IsFiniteSet({}) /\ Cardinality({}) <= MaxPushes
    BY FS_EmptySet, Sorts
  <2>2. QED
    BY <2>1, MallocFacts
<1>2. /\ node = [m \in Node |-> [data |-> NULL, next |-> NULL]]
      /\ liveNodes = {n} /\ head = n /\ tail = n /\ cache = NewRing(NodeCacheSize)
      /\ pnode = NULL /\ cnode = NULL
      /\ ring = [a \in Buffer |-> NewRing(Size)]
      /\ liveBuffers = {b} /\ bufcache = NewRing(BufferCacheSize)
      /\ buf_r = b /\ buf_w = b /\ in_use_buffers = 1 /\ fixedsize \in BOOLEAN
      /\ ppc = "idle" /\ data = 0 /\ t = NULL /\ preg = 0
      /\ cpc = "idle" /\ tmp = NULL /\ rc = NULL /\ creg = 0
  BY DEF Init, ListInit
<1> HIDE DEF n, b
<1>3. /\ cache \in Ring(NodeCacheSize, Node) /\ Stored(cache) = {} /\ Distinct(cache)
      /\ bufcache \in Ring(BufferCacheSize, Buffer) /\ Stored(bufcache) = {}
      /\ Distinct(bufcache)
  BY <1>2, Sorts, NewCacheFacts
<1>4. /\ NewRing(Size) \in Ring(Size, 1..MaxPushes) /\ Contiguous(NewRing(Size), Size, 0)
      /\ 0 \in 0..Size
  BY Sorts, NewRingFacts
<1>5. TypeOK
  BY <1>1, <1>2, <1>3, <1>4, Sorts DEF TypeOK, ListTypeOK
<1>6. Pushing /\ Popping /\ Caches
  BY <1>2, <1>3 DEF Pushing, Popping, Caches
<1>7. Rings
  BY <1>2, <1>3, <1>4 DEF Rings
<1>8. Memory
  <2>1. /\ IsFiniteSet({n}) /\ Cardinality({n}) = 1
        /\ IsFiniteSet({b}) /\ Cardinality({b}) = 1
    BY FS_Singleton
  <2>2. QED
    BY <1>2, <2>1 DEF Memory
<1>9. Acyclic
  <2>1. Ranked([m \in Node |-> 0], 0)
    BY <1>2, Sorts DEF Ranked
  <2>2. QED
    BY <2>1 DEF Acyclic
<1>10. Chain(<<n>>, <<b>>)
  <2> DEFINE s == <<n>>
             R == <<b>>
  <2>1. /\ s \in Seq(Node) /\ Len(s) = 1 /\ s[1] = n /\ s # <<>>
        /\ R \in Seq(Buffer) /\ Len(R) = 1 /\ R[1] = b
        /\ Range(s) = {n} /\ Range(R) = {b}
    <3>1. /\ s \in Seq(Node) /\ Len(s) = 1 /\ s[1] = n /\ s # <<>> /\ DOMAIN s = {1}
          /\ R \in Seq(Buffer) /\ Len(R) = 1 /\ R[1] = b /\ DOMAIN R = {1}
      BY <1>1
    <3> HIDE DEF s, R
    <3>2. QED
      BY <3>1 DEF Range
  <2> HIDE DEF s, R
  <2>2. Linked(s, R)
    BY <1>1, <1>2, <2>1 DEF Linked, OneToOne, Reading
  <2>3. Ends(s, R)
    BY <1>2, <2>1 DEF Ends, Growing
  <2>4. Owners(s, R)
    BY <1>2, <1>3, <2>1 DEF Owners, Owned, Held, Retired, Installed, Released
  <2>5. QED
    BY <2>2, <2>3, <2>4 DEF Chain, s, R
<1>11. <<n>> \in Seq(Node) /\ <<b>> \in Seq(Buffer)
  BY <1>1
<1>12. QED
  BY <1>5, <1>6, <1>7, <1>8, <1>9, <1>10, <1>11 DEF QInv

\* Where the tops of the caches and malloc() take their memory from.
LEMMA NextNode ==
    ASSUME QInv, ppc = "next_w"
    PROVE  /\ Empty(cache) => /\ Malloc(Node, liveNodes) \in Node
                              /\ Malloc(Node, liveNodes) \notin liveNodes
           /\ ~ Empty(cache) => /\ Top(cache) \in Node /\ Top(cache) \in Stored(cache)
                                /\ Inc(cache) \in Ring(NodeCacheSize, Node)
                                /\ Distinct(Inc(cache))
                                /\ Stored(Inc(cache)) = Stored(cache) \ {Top(cache)}
<1>1. IsFiniteSet(liveNodes) /\ Cardinality(liveNodes) <= MaxPushes
  <2>1. /\ IsFiniteSet(liveNodes) /\ Cardinality(liveNodes) <= data + 0
        /\ data \in 0..MaxPushes
    BY DEF QInv, Memory, TypeOK
  <2>2. Cardinality(liveNodes) \in Nat /\ MaxPushes \in Nat
    BY <2>1, FS_CardinalityType, Sorts
  <2>3. QED
    BY <2>1, <2>2
<1>2. Malloc(Node, liveNodes) \in Node /\ Malloc(Node, liveNodes) \notin liveNodes
  BY <1>1, MallocFacts
<1>3. /\ cache \in Ring(NodeCacheSize, Node) /\ Distinct(cache)
      /\ NodeCacheSize \in Nat \ {0} /\ NULL \notin Node
  BY Sorts DEF QInv, TypeOK, ListTypeOK, Caches
<1>4. QED
  BY <1>2, <1>3, CacheTake

\* The same of the rings.
LEMMA NextRing ==
    ASSUME QInv, ppc = "available"
    PROVE  /\ Empty(bufcache) => /\ Malloc(Buffer, liveBuffers) \in Buffer
                                 /\ Malloc(Buffer, liveBuffers) \notin liveBuffers
           /\ ~ Empty(bufcache) => /\ Top(bufcache) \in Buffer
                                   /\ Top(bufcache) \in Stored(bufcache)
                                   /\ Inc(bufcache) \in Ring(BufferCacheSize, Buffer)
                                   /\ Distinct(Inc(bufcache))
                                   /\ Stored(Inc(bufcache))
                                        = Stored(bufcache) \ {Top(bufcache)}
<1>1. IsFiniteSet(liveBuffers) /\ Cardinality(liveBuffers) <= MaxPushes
  <2>1. /\ IsFiniteSet(liveBuffers) /\ Cardinality(liveBuffers) <= data + 0
        /\ data \in 0..MaxPushes
    BY DEF QInv, Memory, TypeOK
  <2>2. Cardinality(liveBuffers) \in Nat /\ MaxPushes \in Nat
    BY <2>1, FS_CardinalityType, Sorts
  <2>3. QED
    BY <2>1, <2>2
<1>2. Malloc(Buffer, liveBuffers) \in Buffer /\ Malloc(Buffer, liveBuffers) \notin liveBuffers
  BY <1>1, MallocFacts
<1>3. /\ bufcache \in Ring(BufferCacheSize, Buffer) /\ Distinct(bufcache)
      /\ BufferCacheSize \in Nat \ {0} /\ NULL \notin Buffer
  BY Sorts DEF QInv, TypeOK, Caches
<1>4. QED
  BY <1>2, <1>3, CacheTake

\* What pop() gives back to the caches is not there yet.
LEMMA GivenBack ==
    ASSUME QInv
    PROVE  /\ cpc = "recycle" => cnode \in Node /\ cnode \notin Stored(cache)
           /\ cpc = "recycle" /\ Available(cache) =>
                /\ Put(cache, cnode) \in Ring(NodeCacheSize, Node)
                /\ Distinct(Put(cache, cnode))
                /\ Stored(Put(cache, cnode)) = Stored(cache) \cup {cnode}
           /\ cpc = "release" => buf_r \notin Stored(bufcache)
           /\ cpc = "release" /\ Available(bufcache) =>
                /\ Put(bufcache, buf_r) \in Ring(BufferCacheSize, Buffer)
                /\ Distinct(Put(bufcache, buf_r))
                /\ Stored(Put(bufcache, buf_r)) = Stored(bufcache) \cup {buf_r}
<1>1. PICK s \in Seq(Node), R \in Seq(Buffer) : Owners(s, R)
  BY DEF QInv, Chain
<1>2. cpc = "recycle" => cnode \in Node /\ cnode \notin Stored(cache)
  BY <1>1 DEF QInv, TypeOK, ListTypeOK, Popping, Owners, Owned, Retired
<1>3. cpc = "release" => buf_r \in Buffer /\ buf_r \notin Stored(bufcache)
  BY <1>1 DEF QInv, TypeOK, Owners, Owned, Released
<1>4. /\ bufcache \in Ring(BufferCacheSize, Buffer) /\ Distinct(bufcache)
      /\ cache \in Ring(NodeCacheSize, Node) /\ Distinct(cache)
  BY DEF QInv, TypeOK, ListTypeOK, Caches
<1>5. cpc = "recycle" /\ Available(cache) =>
                /\ Put(cache, cnode) \in Ring(NodeCacheSize, Node)
                /\ Distinct(Put(cache, cnode))
                /\ Stored(Put(cache, cnode)) = Stored(cache) \cup {cnode}
  BY <1>2, <1>4, CachePut, Sorts
<1>6. cpc = "release" /\ Available(bufcache) =>
                /\ Put(bufcache, buf_r) \in Ring(BufferCacheSize, Buffer)
                /\ Distinct(Put(bufcache, buf_r))
                /\ Stored(Put(bufcache, buf_r)) = Stored(bufcache) \cup {buf_r}
  BY <1>3, <1>4, CachePut, Sorts
<1>7. QED
  BY <1>2, <1>3, <1>5, <1>6

\* The value put, and the value taken.
LEMMA RingSteps ==
    ASSUME QInv, NEW b \in Buffer
    PROVE  /\ \A v \in 1..MaxPushes : Available(ring[b]) =>
                /\ Put(ring[b], v) \in Ring(Size, 1..MaxPushes)
                /\ \E c \in 0..Size : Contiguous(Put(ring[b], v), Size, c)
                /\ RingContents(Put(ring[b], v)) = Append(RingContents(ring[b]), v)
           /\ ~ Empty(ring[b]) =>
                /\ Inc(ring[b]) \in Ring(Size, 1..MaxPushes)
                /\ \E c \in 0..Size : Contiguous(Inc(ring[b]), Size, c)
                /\ RingContents(ring[b]) # <<>>
                /\ Top(ring[b]) = Head(RingContents(ring[b]))
                /\ RingContents(Inc(ring[b])) = Tail(RingContents(ring[b]))
                /\ Available(ring[b]) => Available(Inc(ring[b]))
                /\ Top(ring[b]) \in 1..MaxPushes
           /\ RingContents(ring[b]) \in Seq(1..MaxPushes)
           /\ Empty(ring[b]) => RingContents(ring[b]) = <<>>
<1> DEFINE r == ring[b]
<1>1. PICK c \in 0..Size : Contiguous(r, Size, c)
  BY DEF QInv, Rings
<1>2. r \in Ring(Size, 1..MaxPushes)
  BY DEF QInv, TypeOK
<1>3. Size \in Nat \ {0} /\ NULL \notin 1..MaxPushes
  BY Sorts
<1> HIDE DEF r
<1>4. ASSUME NEW v \in 1..MaxPushes, Available(r)
      PROVE  /\ Put(r, v) \in Ring(Size, 1..MaxPushes)
             /\ \E d \in 0..Size : Contiguous(Put(r, v), Size, d)
             /\ RingContents(Put(r, v)) = Append(RingContents(r), v)
  <2>1. /\ c < Size /\ Put(r, v) \in Ring(Size, 1..MaxPushes)
        /\ Contiguous(Put(r, v), Size, c + 1)
        /\ RingContents(Put(r, v)) = Append(RingContents(r), v)
    <3> DEFINE V == 1..MaxPushes
    <3>1. /\ Size \in Nat \ {0} /\ NULL \notin V /\ r \in Ring(Size, V) /\ c \in 0..Size
          /\ Contiguous(r, Size, c) /\ Available(r) /\ v \in V
      BY <1>1, <1>2, <1>3, <1>4
    <3> HIDE DEF V
    <3>2. c < Size /\ Put(r, v) \in Ring(Size, V) /\ Contiguous(Put(r, v), Size, c + 1)
          /\ RingContents(Put(r, v)) = Append(RingContents(r), v)
      BY ONLY <3>1, PutFacts
    <3>3. QED
      BY <3>2 DEF V
  <2>2. c + 1 \in 0..Size
    BY <1>3, <2>1
  <2>3. QED
    BY ONLY <2>1, <2>2
<1>5. ASSUME ~ Empty(r)
      PROVE  /\ Inc(r) \in Ring(Size, 1..MaxPushes)
             /\ \E d \in 0..Size : Contiguous(Inc(r), Size, d)
             /\ RingContents(r) # <<>> /\ Top(r) = Head(RingContents(r))
             /\ RingContents(Inc(r)) = Tail(RingContents(r))
             /\ Available(r) => Available(Inc(r))
             /\ Top(r) \in 1..MaxPushes
  <2>1. /\ c > 0 /\ Inc(r) \in Ring(Size, 1..MaxPushes)
        /\ Contiguous(Inc(r), Size, c - 1)
        /\ RingContents(Inc(r)) = Tail(RingContents(r))
        /\ Available(r) => Available(Inc(r))
    BY ONLY <1>1, <1>2, <1>3, <1>5, IncFacts
  <2>2. c - 1 \in 0..Size
    BY <1>3, <2>1
  <2>3. /\ RingContents(r) # <<>> /\ Top(r) = Head(RingContents(r))
        /\ Top(r) \in 1..MaxPushes
    BY ONLY <1>1, <1>2, <1>3, <1>5, EmptyFacts
  <2>4. QED
    BY ONLY <2>1, <2>2, <2>3
<1>6. RingContents(r) \in Seq(1..MaxPushes) /\ (Empty(r) => RingContents(r) = <<>>)
  BY <1>1, <1>2, <1>3, ContentsFacts, EmptyFacts
<1>7. QED
  BY <1>4, <1>5, <1>6 DEF r

\* Every step keeps the types.
LEMMA KeepsTypeOK ==
    ASSUME QInv, [Next]_vars
    PROVE  TypeOK'
<1>1. CASE CallPush
  BY <1>1, Sorts DEF QInv, TypeOK, ListTypeOK, Pushing, Popping, CallPush, PGoto,
      PushLeaves, listVars, poolVars, pushVars, popVars
<1>2. CASE PushFits
  BY <1>2, Sorts DEF QInv, TypeOK, ListTypeOK, Pushing, Popping, PushFits, PGoto,
      PushLeaves, listVars, poolVars, pushVars, popVars
<1>3. CASE PushRefused
  BY <1>3, Sorts DEF QInv, TypeOK, ListTypeOK, Pushing, Popping, PushRefused,
      PGoto, PushLeaves, listVars, poolVars, pushVars, popVars
<1>4. CASE PushGrow
  <2> DEFINE b == IF Empty(bufcache) THEN Malloc(Buffer, liveBuffers) ELSE Top(bufcache)
  <2>1. /\ b \in Buffer /\ NewRing(Size) \in Ring(Size, 1..MaxPushes)
        /\ ~ Empty(bufcache) => Inc(bufcache) \in Ring(BufferCacheSize, Buffer)
    BY <1>4, NextRing, NewRingFacts, Sorts DEF PushGrow, PGoto
  <2>2. /\ t' = b /\ liveBuffers' = liveBuffers \cup {b}
        /\ bufcache' = IF Empty(bufcache) THEN bufcache ELSE Inc(bufcache)
        /\ ring' = IF Empty(bufcache) THEN [ring EXCEPT ![b] = NewRing(Size)] ELSE ring
        /\ ppc' = "next_w" /\ PushLeaves
        /\ UNCHANGED <<listVars, buf_w, in_use_buffers, data, preg>>
    BY <1>4 DEF PushGrow, PGoto
  <2> HIDE DEF b
  <2>3. QED
    BY <2>1, <2>2, Sorts DEF QInv, TypeOK, ListTypeOK, PushLeaves, listVars,
        popVars
<1>5. CASE PushAlloc
  BY <1>5, Sorts, NextNode DEF QInv, TypeOK, ListTypeOK, Pushing, Popping,
      PushAlloc, PGoto, PushLeaves, ListAlloc, listVars, poolVars, pushVars,
      popVars
<1>6. CASE PushLink
  <2>1. /\ node' = [node EXCEPT ![tail].next = pnode]
        /\ ppc' = "swing" /\ PushLeaves
        /\ UNCHANGED <<liveNodes, head, tail, cache, pnode, cnode>>
        /\ UNCHANGED <<poolVars, buf_w, in_use_buffers, data, t, preg>>
    BY <1>6 DEF PushLink, PGoto, ListLink
  <2>2. node' \in [Node -> [data : Buffer \cup {NULL}, next : Node \cup {NULL}]]
    BY <2>1 DEF QInv, TypeOK, ListTypeOK
  <2>3. QED
    BY <2>1, <2>2 DEF QInv, TypeOK, ListTypeOK, PushLeaves, poolVars, popVars
<1>7. CASE PushSwing
  BY <1>7, Sorts DEF QInv, TypeOK, ListTypeOK, Pushing, Popping, PushSwing, PGoto,
      PushLeaves, ListSwing, listVars, poolVars, pushVars, popVars
<1>8. CASE PushSetBufW
  BY <1>8, Sorts DEF QInv, TypeOK, ListTypeOK, Pushing, Popping, PushSetBufW,
      PGoto, PushLeaves, listVars, poolVars, pushVars, popVars
<1>9. CASE PushLoad
  BY <1>9, Sorts DEF QInv, TypeOK, ListTypeOK, Pushing, Popping, PushLoad, PGoto,
      PushLeaves, listVars, poolVars, pushVars, popVars
<1>10. CASE PushStore
  BY <1>10, Sorts DEF QInv, TypeOK, ListTypeOK, Pushing, Popping, PushStore,
      PGoto, PushLeaves, listVars, poolVars, pushVars, popVars
<1>11. CASE PushPut
  <2>1. Put(ring[buf_w], data) \in Ring(Size, 1..MaxPushes) /\ buf_w \in Buffer
    <3>1. ppc = "put"
      BY <1>11 DEF PushPut, PGoto
    <3>2. /\ Available(ring[buf_w]) /\ buf_w \in Buffer
          /\ data \in 0..MaxPushes /\ data >= 1
      BY <3>1 DEF QInv, TypeOK, Pushing, Rings
    <3>3. data \in 1..MaxPushes
      BY <3>2, Sorts
    <3>4. QED
      BY <3>2, <3>3, RingSteps
  <2>2. QED
    BY <1>11, <2>1, Sorts DEF QInv, TypeOK, ListTypeOK, PushPut, PGoto,
        PushLeaves, listVars, poolVars, pushVars, popVars
<1>12. CASE PopTest
  BY <1>12, Sorts DEF QInv, TypeOK, ListTypeOK, Pushing, Popping, PopTest, CGoto,
      PopLeaves, listVars, poolVars, pushVars, popVars
<1>13. CASE PopCompare
  BY <1>13, Sorts DEF QInv, TypeOK, ListTypeOK, Pushing, Popping, PopCompare,
      CGoto, PopLeaves, listVars, poolVars, pushVars, popVars
<1>14. CASE PopTestAgain
  BY <1>14, Sorts DEF QInv, TypeOK, ListTypeOK, Pushing, Popping, PopTestAgain,
      CGoto, PopLeaves, listVars, poolVars, pushVars, popVars
<1>15. CASE PopNext
  <2>1. /\ head' \in Node /\ cnode' \in Node \cup {NULL} /\ tmp' \in Buffer \cup {NULL}
        /\ UNCHANGED <<node, liveNodes, tail, cache, pnode>>
    BY <1>15 DEF QInv, TypeOK, ListTypeOK, PopNext, ListAdvance, ListNext,
        ListFront, listVars
  <2>2. /\ cpc' \in {"pop", "recycle"} /\ PopLeaves
        /\ UNCHANGED <<poolVars, buf_r, in_use_buffers, rc, creg>>
    BY <1>15 DEF PopNext, CGoto
  <2>3. QED
    BY <2>1, <2>2 DEF QInv, TypeOK, ListTypeOK, PopLeaves, poolVars, pushVars
<1>16. CASE PopRecycle
  <2>1. Available(cache) => Put(cache, cnode) \in Ring(NodeCacheSize, Node)
    BY <1>16, GivenBack DEF PopRecycle, CGoto
  <2>2. QED
    BY <1>16, <2>1, Sorts DEF QInv, TypeOK, ListTypeOK, PopRecycle, CGoto,
        PopLeaves, ListRecycle, listVars, poolVars, pushVars, popVars
<1>17. CASE PopReset
  <2>1. NewRing(Size) \in Ring(Size, 1..MaxPushes)
    BY NewRingFacts, Sorts
  <2>2. QED
    BY <1>17, <2>1, Sorts DEF QInv, TypeOK, ListTypeOK, PopReset, CGoto,
        PopLeaves, listVars, poolVars, pushVars, popVars
<1>18. CASE PopRelease
  <2>1. Available(bufcache) => Put(bufcache, buf_r) \in Ring(BufferCacheSize, Buffer)
    BY <1>18, GivenBack DEF PopRelease, CGoto
  <2>2. /\ bufcache' \in Ring(BufferCacheSize, Buffer) /\ liveBuffers' \in SUBSET Buffer
        /\ cpc' = "load" /\ PopLeaves
        /\ UNCHANGED <<listVars, ring, buf_r, in_use_buffers, tmp, rc, creg>>
    BY <1>18, <2>1 DEF QInv, TypeOK, PopRelease, CGoto
  <2>3. QED
    BY <2>2 DEF QInv, TypeOK, ListTypeOK, PopLeaves, listVars, pushVars
<1>19. CASE PopLoad
  BY <1>19, Sorts DEF QInv, TypeOK, ListTypeOK, Pushing, Popping, PopLoad, CGoto,
      PopLeaves, listVars, poolVars, pushVars, popVars
<1>20. CASE PopStore
  BY <1>20, Sorts DEF QInv, TypeOK, ListTypeOK, Pushing, Popping, PopStore, CGoto,
      PopLeaves, listVars, poolVars, pushVars, popVars
<1>21. CASE PopSetBufR
  BY <1>21, Sorts DEF QInv, TypeOK, ListTypeOK, Pushing, Popping, PopSetBufR,
      CGoto, PopLeaves, listVars, poolVars, pushVars, popVars
<1>22. CASE PopTake
  <2>1. ~ Empty(ring[buf_r]) => /\ Inc(ring[buf_r]) \in Ring(Size, 1..MaxPushes)
                                /\ Top(ring[buf_r]) \in 1..MaxPushes
    BY RingSteps DEF QInv, TypeOK
  <2>2. Top(ring[buf_r]) \in 1..MaxPushes => Top(ring[buf_r]) \in 0..MaxPushes
    BY Sorts
  <2>3. QED
    <3>1. /\ ring' \in [Buffer -> Ring(Size, 1..MaxPushes)] /\ rc' \in 0..MaxPushes
      BY <1>22, <2>1, <2>2 DEF QInv, TypeOK, PopTake
    <3>2. cpc' = "idle" /\ PopLeaves
          /\ UNCHANGED <<listVars, liveBuffers, bufcache, buf_r, in_use_buffers, tmp, creg>>
      BY <1>22 DEF PopTake, CGoto
    <3>3. QED
      BY <3>1, <3>2 DEF QInv, TypeOK, ListTypeOK, PopLeaves, listVars, pushVars
<1>23. CASE UNCHANGED vars
  BY <1>23, Sorts DEF QInv, TypeOK, ListTypeOK, Pushing, Popping, vars, listVars,
      poolVars, pushVars, popVars
<1>24. QED
  BY <1>1, <1>2, <1>3, <1>4, <1>5, <1>6, <1>7, <1>8, <1>9, <1>10, <1>11, <1>12,
      <1>13, <1>14, <1>15, <1>16, <1>17, <1>18, <1>19, <1>20, <1>21, <1>22, <1>23
      DEF Next, PushStep, PopStep

\* push() stays where its locals say.
LEMMA KeepsPushing ==
    ASSUME QInv, [Next]_vars
    PROVE  Pushing'
<1>1. CASE CallPush
  BY <1>1, Sorts DEF QInv, TypeOK, ListTypeOK, Pushing, CallPush, PGoto,
      PushLeaves, listVars, poolVars, pushVars, popVars
<1>2. CASE PushFits
  BY <1>2, Sorts DEF QInv, TypeOK, ListTypeOK, Pushing, PushFits, PGoto,
      PushLeaves, listVars, poolVars, pushVars, popVars
<1>3. CASE PushRefused
  BY <1>3, Sorts DEF QInv, TypeOK, ListTypeOK, Pushing, PushRefused, PGoto,
      PushLeaves, listVars, poolVars, pushVars, popVars
<1>4. CASE PushGrow
  BY <1>4, Sorts, NextRing DEF QInv, TypeOK, ListTypeOK, Pushing, PushGrow, PGoto,
      PushLeaves, listVars, poolVars, pushVars, popVars
<1>5. CASE PushAlloc
  BY <1>5, Sorts, NextNode DEF QInv, TypeOK, ListTypeOK, Pushing, PushAlloc,
      PGoto, PushLeaves, ListAlloc, listVars, poolVars, pushVars, popVars
<1>6. CASE PushLink
  BY <1>6, Sorts DEF QInv, TypeOK, ListTypeOK, Pushing, PushLink, PGoto,
      PushLeaves, ListLink, listVars, poolVars, pushVars, popVars
<1>7. CASE PushSwing
  BY <1>7, Sorts DEF QInv, TypeOK, ListTypeOK, Pushing, PushSwing, PGoto,
      PushLeaves, ListSwing, listVars, poolVars, pushVars, popVars
<1>8. CASE PushSetBufW
  BY <1>8, Sorts DEF QInv, TypeOK, ListTypeOK, Pushing, PushSetBufW, PGoto,
      PushLeaves, listVars, poolVars, pushVars, popVars
<1>9. CASE PushLoad
  BY <1>9, Sorts DEF QInv, TypeOK, ListTypeOK, Pushing, PushLoad, PGoto,
      PushLeaves, listVars, poolVars, pushVars, popVars
<1>10. CASE PushStore
  BY <1>10, Sorts DEF QInv, TypeOK, ListTypeOK, Pushing, PushStore, PGoto,
      PushLeaves, listVars, poolVars, pushVars, popVars
<1>11. CASE PushPut
  BY <1>11, Sorts DEF QInv, TypeOK, ListTypeOK, Pushing, PushPut, PGoto,
      PushLeaves, listVars, poolVars, pushVars, popVars
<1>12. CASE PopTest
  BY <1>12, Sorts DEF QInv, TypeOK, ListTypeOK, Pushing, PopTest, CGoto,
      PopLeaves, listVars, poolVars, pushVars, popVars
<1>13. CASE PopCompare
  BY <1>13, Sorts DEF QInv, TypeOK, ListTypeOK, Pushing, PopCompare, CGoto,
      PopLeaves, listVars, poolVars, pushVars, popVars
<1>14. CASE PopTestAgain
  BY <1>14, Sorts DEF QInv, TypeOK, ListTypeOK, Pushing, PopTestAgain, CGoto,
      PopLeaves, listVars, poolVars, pushVars, popVars
<1>15. CASE PopNext
  BY <1>15, Sorts DEF QInv, TypeOK, ListTypeOK, Pushing, PopNext, CGoto,
      PopLeaves, ListAdvance, ListNext, ListFront, listVars, poolVars, pushVars,
      popVars
<1>16. CASE PopRecycle
  BY <1>16, Sorts DEF QInv, TypeOK, ListTypeOK, Pushing, PopRecycle, CGoto,
      PopLeaves, ListRecycle, listVars, poolVars, pushVars, popVars
<1>17. CASE PopReset
  BY <1>17, Sorts DEF QInv, TypeOK, ListTypeOK, Pushing, PopReset, CGoto,
      PopLeaves, listVars, poolVars, pushVars, popVars
<1>18. CASE PopRelease
  BY <1>18, Sorts DEF QInv, TypeOK, ListTypeOK, Pushing, PopRelease, CGoto,
      PopLeaves, listVars, poolVars, pushVars, popVars
<1>19. CASE PopLoad
  BY <1>19, Sorts DEF QInv, TypeOK, ListTypeOK, Pushing, PopLoad, CGoto,
      PopLeaves, listVars, poolVars, pushVars, popVars
<1>20. CASE PopStore
  BY <1>20, Sorts DEF QInv, TypeOK, ListTypeOK, Pushing, PopStore, CGoto,
      PopLeaves, listVars, poolVars, pushVars, popVars
<1>21. CASE PopSetBufR
  BY <1>21, Sorts DEF QInv, TypeOK, ListTypeOK, Pushing, PopSetBufR, CGoto,
      PopLeaves, listVars, poolVars, pushVars, popVars
<1>22. CASE PopTake
  BY <1>22, Sorts DEF QInv, TypeOK, ListTypeOK, Pushing, PopTake, CGoto,
      PopLeaves, listVars, poolVars, pushVars, popVars
<1>23. CASE UNCHANGED vars
  BY <1>23, Sorts DEF QInv, TypeOK, ListTypeOK, Pushing, vars, listVars, poolVars,
      pushVars, popVars
<1>24. QED
  BY <1>1, <1>2, <1>3, <1>4, <1>5, <1>6, <1>7, <1>8, <1>9, <1>10, <1>11, <1>12,
      <1>13, <1>14, <1>15, <1>16, <1>17, <1>18, <1>19, <1>20, <1>21, <1>22, <1>23
      DEF Next, PushStep, PopStep
\* The ring the consumer goes to is the second of the chain.
LEMMA FrontRing ==
    ASSUME QInv, NEW s, NEW R, Chain(s, R)
    PROVE  /\ ListNext # NULL <=> Len(s) > 1
           /\ ListNext # NULL => /\ ListNext = s[2] /\ ListFront = R[2]
                                /\ ListNext \in Node /\ ListFront \in Buffer
           /\ cpc = "next_r" => Len(s) > 1 /\ (Growing => Len(s) > 2)
           /\ cpc \in {"again", "next_r"} => R[1] = buf_r
           /\ ppc = "buf_w" => t = R[Len(s)] /\ Len(s) > 1 /\ R[1] # t
<1>1. /\ s \in Seq(Node) /\ R \in Seq(Buffer) /\ Len(s) \in Nat /\ Len(s) > 0
      /\ Len(R) = Len(s) /\ s[1] = head /\ R[1] = Reading
      /\ \A i \in 1..(Len(s) - 1) :
           node[s[i]].next = s[i + 1] /\ node[s[i + 1]].data = R[i + 1]
      /\ node[s[Len(s)]].next = NULL
      /\ \A i, j \in 1..Len(R) : R[i] = R[j] => i = j
  BY DEF Chain, Linked, OneToOne
<1>2. /\ \A i \in 1..Len(s) : s[i] \in Node /\ R[i] \in Buffer
      /\ 1 \in 1..Len(s) /\ Len(s) \in 1..Len(s)
  BY <1>1
<1>3. CASE Len(s) = 1
  <2>1. ListNext = NULL
    BY <1>1, <1>3 DEF ListNext
  <2>2. ~ Growing /\ R[1] = buf_w
    BY <1>3 DEF Chain, Ends
  <2>3. cpc \in {"again", "next_r"} => R[1] = buf_r /\ buf_r # buf_w
    BY <1>1 DEF QInv, Popping, Reading
  <2>4. QED
    BY <1>3, <2>1, <2>2, <2>3 DEF Growing
<1>4. CASE Len(s) > 1
  <2>1. 1 \in 1..(Len(s) - 1) /\ 2 \in 1..Len(s)
    BY <1>1, <1>4
  <2>2. ListNext = s[2] /\ ListFront = R[2] /\ ListNext \in Node /\ ListFront \in Buffer
    BY <1>1, <1>2, <2>1 DEF ListNext, ListFront
  <2>3. cpc \in {"again", "next_r"} => R[1] = buf_r /\ buf_r # buf_w
    BY <1>1 DEF QInv, Popping, Reading
  <2>4. Growing => R[Len(s) - 1] = buf_w /\ R[Len(s)] = t
    BY DEF Chain, Ends
  <2>5. R[1] # R[Len(s)]
    BY <1>1, <1>2, <1>4
  <2>6. cpc = "next_r" /\ Growing => Len(s) > 2
    BY <1>1, <1>4, <2>3, <2>4
  <2>7. QED
    BY <1>4, <2>2, <2>3, <2>4, <2>5, <2>6, Sorts DEF Growing
<1>5. QED
  BY <1>1, <1>3, <1>4

\* pop() stays where its locals say.
LEMMA KeepsPopping ==
    ASSUME QInv, [Next]_vars
    PROVE  Popping'
<1>c. PICK s, R : Chain(s, R)
  BY DEF QInv
<1>1. CASE CallPush
  BY <1>1, Sorts DEF QInv, TypeOK, ListTypeOK, Popping, CallPush, PGoto,
      PushLeaves, listVars, poolVars, pushVars, popVars
<1>2. CASE PushFits
  BY <1>2, Sorts DEF QInv, TypeOK, ListTypeOK, Popping, PushFits, PGoto,
      PushLeaves, listVars, poolVars, pushVars, popVars
<1>3. CASE PushRefused
  BY <1>3, Sorts DEF QInv, TypeOK, ListTypeOK, Popping, PushRefused, PGoto,
      PushLeaves, listVars, poolVars, pushVars, popVars
<1>4. CASE PushGrow
  BY <1>4, Sorts DEF QInv, TypeOK, ListTypeOK, Popping, PushGrow, PGoto,
      PushLeaves, listVars, poolVars, pushVars, popVars
<1>5. CASE PushAlloc
  BY <1>5, Sorts DEF QInv, TypeOK, ListTypeOK, Popping, PushAlloc, PGoto,
      PushLeaves, ListAlloc, listVars, poolVars, pushVars, popVars
<1>6. CASE PushLink
  BY <1>6, Sorts DEF QInv, TypeOK, ListTypeOK, Popping, PushLink, PGoto,
      PushLeaves, ListLink, listVars, poolVars, pushVars, popVars
<1>7. CASE PushSwing
  BY <1>7, Sorts DEF QInv, TypeOK, ListTypeOK, Popping, PushSwing, PGoto,
      PushLeaves, ListSwing, listVars, poolVars, pushVars, popVars
<1>8. CASE PushSetBufW
  <2>1. cpc \in {"again", "next_r"} => t # buf_r
    BY <1>c, FrontRing, <1>8 DEF PushSetBufW, PGoto
  <2>2. QED
    BY <1>8, <2>1, Sorts DEF QInv, TypeOK, ListTypeOK, Popping, PushSetBufW,
        PGoto, PushLeaves, listVars, poolVars, pushVars, popVars
<1>9. CASE PushLoad
  BY <1>9, Sorts DEF QInv, TypeOK, ListTypeOK, Popping, PushLoad, PGoto,
      PushLeaves, listVars, poolVars, pushVars, popVars
<1>10. CASE PushStore
  BY <1>10, Sorts DEF QInv, TypeOK, ListTypeOK, Popping, PushStore, PGoto,
      PushLeaves, listVars, poolVars, pushVars, popVars
<1>11. CASE PushPut
  BY <1>11, Sorts DEF QInv, TypeOK, ListTypeOK, Popping, PushPut, PGoto,
      PushLeaves, listVars, poolVars, pushVars, popVars
<1>12. CASE PopTest
  BY <1>12, Sorts DEF QInv, TypeOK, ListTypeOK, Popping, PopTest, CGoto,
      PopLeaves, listVars, poolVars, pushVars, popVars
<1>13. CASE PopCompare
  BY <1>13, Sorts DEF QInv, TypeOK, ListTypeOK, Popping, PopCompare, CGoto,
      PopLeaves, listVars, poolVars, pushVars, popVars
<1>14. CASE PopTestAgain
  BY <1>14, Sorts DEF QInv, TypeOK, ListTypeOK, Popping, PopTestAgain, CGoto,
      PopLeaves, listVars, poolVars, pushVars, popVars
<1>15. CASE PopNext
  <2>1. ListNext # NULL => ListFront \in Buffer
    BY <1>c, FrontRing, <1>15 DEF PopNext, CGoto
  <2>2. QED
    <3>1. /\ cpc = "next_r" /\ tmp = NULL /\ cnode = NULL /\ head \in Node
          /\ buf_r' = buf_r /\ buf_w' = buf_w
      BY <1>15 DEF QInv, TypeOK, ListTypeOK, Popping, PopNext, CGoto, PopLeaves
    <3>2. CASE ListNext = NULL
      <4>1. cpc' = "pop" /\ tmp' = tmp /\ cnode' = cnode
        BY <1>15, <3>2 DEF PopNext, CGoto, listVars
      <4>2. QED
        BY <3>1, <4>1 DEF Popping
    <3>3. CASE ListNext # NULL
      <4>1. cpc' = "recycle" /\ tmp' = ListFront /\ cnode' = head
        BY <1>15, <3>3 DEF PopNext, CGoto, ListAdvance
      <4>2. QED
        BY <2>1, <3>1, <3>3, <4>1, Sorts DEF Popping
    <3>4. QED
      BY <3>2, <3>3
<1>16. CASE PopRecycle
  BY <1>16, Sorts DEF QInv, TypeOK, ListTypeOK, Popping, PopRecycle, CGoto,
      PopLeaves, ListRecycle, listVars, poolVars, pushVars, popVars
<1>17. CASE PopReset
  BY <1>17, Sorts DEF QInv, TypeOK, ListTypeOK, Popping, PopReset, CGoto,
      PopLeaves, listVars, poolVars, pushVars, popVars
<1>18. CASE PopRelease
  BY <1>18, Sorts DEF QInv, TypeOK, ListTypeOK, Popping, PopRelease, CGoto,
      PopLeaves, listVars, poolVars, pushVars, popVars
<1>19. CASE PopLoad
  BY <1>19, Sorts DEF QInv, TypeOK, ListTypeOK, Popping, PopLoad, CGoto,
      PopLeaves, listVars, poolVars, pushVars, popVars
<1>20. CASE PopStore
  BY <1>20, Sorts DEF QInv, TypeOK, ListTypeOK, Popping, PopStore, CGoto,
      PopLeaves, listVars, poolVars, pushVars, popVars
<1>21. CASE PopSetBufR
  BY <1>21, Sorts DEF QInv, TypeOK, ListTypeOK, Popping, PopSetBufR, CGoto,
      PopLeaves, listVars, poolVars, pushVars, popVars
<1>22. CASE PopTake
  BY <1>22, Sorts DEF QInv, TypeOK, ListTypeOK, Popping, PopTake, CGoto,
      PopLeaves, listVars, poolVars, pushVars, popVars
<1>23. CASE UNCHANGED vars
  BY <1>23, Sorts DEF QInv, TypeOK, ListTypeOK, Popping, vars, listVars, poolVars,
      pushVars, popVars
<1>24. QED
  BY <1>1, <1>2, <1>3, <1>4, <1>5, <1>6, <1>7, <1>8, <1>9, <1>10, <1>11, <1>12,
      <1>13, <1>14, <1>15, <1>16, <1>17, <1>18, <1>19, <1>20, <1>21, <1>22, <1>23
      DEF Next, PushStep, PopStep

\* Where the rings in use are not.
LEMMA Apart ==
    ASSUME QInv
    PROVE  /\ buf_w \notin Stored(bufcache) /\ Reading \notin Stored(bufcache)
           /\ cpc = "release" => buf_r # buf_w
           /\ t # NULL => t # Reading
           /\ Stored(bufcache) \in SUBSET liveBuffers
           /\ ppc = "link" => tail # pnode
<1>1. PICK s, R : Chain(s, R)
  BY DEF QInv
<1>2. /\ Len(R) \in Nat /\ Len(s) = Len(R) /\ Len(R) > 0
      /\ DOMAIN R = 1..Len(R) /\ DOMAIN s = 1..Len(s) /\ R[1] = Reading
      /\ \A i, j \in 1..Len(R) : R[i] = R[j] => i = j
  BY <1>1 DEF Chain, Linked, OneToOne
<1>3. /\ Growing => Len(R) > 1 /\ R[Len(R) - 1] = buf_w /\ R[Len(R)] = t
      /\ ~ Growing => R[Len(R)] = buf_w
      /\ ppc # "swing" => tail = s[Len(s)]
  BY <1>1, <1>2 DEF Chain, Ends
<1>4. buf_w \in Range(R) /\ Reading \in Range(R)
  BY <1>2, <1>3 DEF Range
<1>5. Owned(liveBuffers, Range(R), Installed, Stored(bufcache), Released)
  BY <1>1 DEF Chain, Owners
<1>6. t # NULL => t # Reading
  <2>1. CASE Growing
    BY <1>2, <1>3, <2>1
  <2>2. CASE ~ Growing /\ t # NULL
    BY <1>4, <1>5, <2>2 DEF Owned, Installed, Growing, QInv, Pushing
  <2>3. QED
    BY <2>1, <2>2
<1>7. ppc = "link" => tail # pnode
  <2>1. ppc = "link" => tail \in Range(s)
    BY <1>2, <1>3 DEF Range
  <2>2. QED
    BY <1>1, <2>1 DEF Chain, Owners, Owned, Held
<1>9. QED
  BY <1>4, <1>5, <1>6, <1>7 DEF Owned, Released

\* No address is in a cache twice.
LEMMA KeepsCaches ==
    ASSUME QInv, [Next]_vars
    PROVE  Caches'
<1>1. CASE CallPush
  BY <1>1 DEF QInv, TypeOK, ListTypeOK, Caches, CallPush, PGoto, PushLeaves,
      listVars, poolVars, pushVars, popVars
<1>2. CASE PushFits
  BY <1>2 DEF QInv, TypeOK, ListTypeOK, Caches, PushFits, PGoto, PushLeaves,
      listVars, poolVars, pushVars, popVars
<1>3. CASE PushRefused
  BY <1>3 DEF QInv, TypeOK, ListTypeOK, Caches, PushRefused, PGoto, PushLeaves,
      listVars, poolVars, pushVars, popVars
<1>4. CASE PushGrow
  BY <1>4, NextRing DEF QInv, TypeOK, ListTypeOK, Caches, PushGrow, PGoto,
      PushLeaves, listVars, poolVars, pushVars, popVars
<1>5. CASE PushAlloc
  BY <1>5, NextNode DEF QInv, TypeOK, ListTypeOK, Caches, PushAlloc, PGoto,
      PushLeaves, ListAlloc, listVars, poolVars, pushVars, popVars
<1>6. CASE PushLink
  BY <1>6 DEF QInv, TypeOK, ListTypeOK, Caches, PushLink, PGoto, PushLeaves,
      ListLink, listVars, poolVars, pushVars, popVars
<1>7. CASE PushSwing
  BY <1>7 DEF QInv, TypeOK, ListTypeOK, Caches, PushSwing, PGoto, PushLeaves,
      ListSwing, listVars, poolVars, pushVars, popVars
<1>8. CASE PushSetBufW
  BY <1>8 DEF QInv, TypeOK, ListTypeOK, Caches, PushSetBufW, PGoto, PushLeaves,
      listVars, poolVars, pushVars, popVars
<1>9. CASE PushLoad
  BY <1>9 DEF QInv, TypeOK, ListTypeOK, Caches, PushLoad, PGoto, PushLeaves,
      listVars, poolVars, pushVars, popVars
<1>10. CASE PushStore
  BY <1>10 DEF QInv, TypeOK, ListTypeOK, Caches, PushStore, PGoto, PushLeaves,
      listVars, poolVars, pushVars, popVars
<1>11. CASE PushPut
  BY <1>11 DEF QInv, TypeOK, ListTypeOK, Caches, PushPut, PGoto, PushLeaves,
      listVars, poolVars, pushVars, popVars
<1>12. CASE PopTest
  BY <1>12 DEF QInv, TypeOK, ListTypeOK, Caches, PopTest, CGoto, PopLeaves,
      listVars, poolVars, pushVars, popVars
<1>13. CASE PopCompare
  BY <1>13 DEF QInv, TypeOK, ListTypeOK, Caches, PopCompare, CGoto, PopLeaves,
      listVars, poolVars, pushVars, popVars
<1>14. CASE PopTestAgain
  BY <1>14 DEF QInv, TypeOK, ListTypeOK, Caches, PopTestAgain, CGoto, PopLeaves,
      listVars, poolVars, pushVars, popVars
<1>15. CASE PopNext
  BY <1>15 DEF QInv, TypeOK, ListTypeOK, Caches, PopNext, CGoto, PopLeaves,
      ListAdvance, ListNext, ListFront, listVars, poolVars, pushVars, popVars
<1>16. CASE PopRecycle
  <2>1. Available(cache) => Distinct(Put(cache, cnode))
    BY <1>16, GivenBack DEF PopRecycle, CGoto
  <2>2. QED
    BY <1>16, <2>1 DEF QInv, Caches, PopRecycle, ListRecycle, PopLeaves, poolVars
<1>17. CASE PopReset
  BY <1>17 DEF QInv, TypeOK, ListTypeOK, Caches, PopReset, CGoto, PopLeaves,
      listVars, poolVars, pushVars, popVars
<1>18. CASE PopRelease
  <2>1. Available(bufcache) => Distinct(Put(bufcache, buf_r))
    BY <1>18, GivenBack DEF PopRelease, CGoto
  <2>2. QED
    BY <1>18, <2>1 DEF QInv, Caches, PopRelease, PopLeaves, listVars
<1>19. CASE PopLoad
  BY <1>19 DEF QInv, TypeOK, ListTypeOK, Caches, PopLoad, CGoto, PopLeaves,
      listVars, poolVars, pushVars, popVars
<1>20. CASE PopStore
  BY <1>20 DEF QInv, TypeOK, ListTypeOK, Caches, PopStore, CGoto, PopLeaves,
      listVars, poolVars, pushVars, popVars
<1>21. CASE PopSetBufR
  BY <1>21 DEF QInv, TypeOK, ListTypeOK, Caches, PopSetBufR, CGoto, PopLeaves,
      listVars, poolVars, pushVars, popVars
<1>22. CASE PopTake
  BY <1>22 DEF QInv, TypeOK, ListTypeOK, Caches, PopTake, CGoto, PopLeaves,
      listVars, poolVars, pushVars, popVars
<1>23. CASE UNCHANGED vars
  BY <1>23 DEF QInv, TypeOK, ListTypeOK, Caches, vars, listVars, poolVars,
      pushVars, popVars
<1>24. QED
  BY <1>1, <1>2, <1>3, <1>4, <1>5, <1>6, <1>7, <1>8, <1>9, <1>10, <1>11, <1>12,
      <1>13, <1>14, <1>15, <1>16, <1>17, <1>18, <1>19, <1>20, <1>21, <1>22, <1>23
      DEF Next, PushStep, PopStep

\* The rings stay in order.
LEMMA KeepsRings ==
    ASSUME QInv, [Next]_vars
    PROVE  Rings'
<1>n. /\ Available(NewRing(Size)) /\ Empty(NewRing(Size))
      /\ \E c \in 0..Size : Contiguous(NewRing(Size), Size, c)
  BY NewRingFacts, Sorts
<1>t. ring \in [Buffer -> Ring(Size, 1..MaxPushes)] /\ buf_w \in Buffer /\ buf_r \in Buffer
  BY DEF QInv, TypeOK
<1>r. Rings
  BY DEF QInv
<1>1. CASE CallPush
  BY <1>1, <1>r DEF QInv, TypeOK, Rings, Pushing, Popping, CallPush, PGoto,
      PushLeaves, listVars, poolVars, pushVars, popVars
<1>2. CASE PushFits
  BY <1>2, <1>r DEF QInv, TypeOK, Rings, Pushing, Popping, PushFits, PGoto,
      PushLeaves, listVars, poolVars, pushVars, popVars
<1>3. CASE PushRefused
  BY <1>3, <1>r DEF QInv, TypeOK, Rings, Pushing, Popping, PushRefused, PGoto,
      PushLeaves, listVars, poolVars, pushVars, popVars
<1>4. CASE PushGrow
  <2> DEFINE b == IF Empty(bufcache) THEN Malloc(Buffer, liveBuffers) ELSE Top(bufcache)
  <2>1. /\ b \in Buffer
        /\ ~ Empty(bufcache) => b \in Stored(bufcache)
        /\ Stored(bufcache') \in SUBSET Stored(bufcache)
        /\ Empty(bufcache) => b \notin Stored(bufcache)
    BY <1>4, NextRing, Apart DEF PushGrow, PGoto
  <2>2. /\ t' = b /\ ppc' = "next_w" /\ buf_r' = buf_r /\ cpc' = cpc
        /\ ring' = IF Empty(bufcache) THEN [ring EXCEPT ![b] = NewRing(Size)] ELSE ring
    BY <1>4 DEF PushGrow, PGoto, PushLeaves, popVars
  <2> HIDE DEF b
  <2>3. /\ \A a \in Buffer : ring'[a] = IF a = b THEN NewRing(Size) ELSE ring[a]
    BY <1>r, <1>t, <2>1, <2>2 DEF Rings
  <2>4. \A a \in Stored(bufcache) : a \in Buffer
    BY <1>t, Apart DEF QInv, TypeOK
  <2>5. QED
    BY <1>n, <1>r, <1>t, <2>1, <2>2, <2>3, <2>4 DEF Rings
<1>5. CASE PushAlloc
  BY <1>5, <1>r DEF QInv, TypeOK, Rings, Pushing, Popping, PushAlloc, PGoto,
      PushLeaves, ListAlloc, listVars, poolVars, pushVars, popVars
<1>6. CASE PushLink
  BY <1>6, <1>r DEF QInv, TypeOK, Rings, Pushing, Popping, PushLink, PGoto,
      PushLeaves, ListLink, listVars, poolVars, pushVars, popVars
<1>7. CASE PushSwing
  BY <1>7, <1>r DEF QInv, TypeOK, Rings, Pushing, Popping, PushSwing, PGoto,
      PushLeaves, ListSwing, listVars, poolVars, pushVars, popVars
<1>8. CASE PushSetBufW
  <2>1. ring[t] = NewRing(Size)
    BY <1>8, <1>r DEF QInv, Pushing, PushSetBufW, PGoto, Rings
  <2>2. /\ ppc' = "load" /\ buf_w' = t /\ t' = NULL
        /\ UNCHANGED <<ring, bufcache, cpc, buf_r>>
    BY <1>8 DEF PushSetBufW, PGoto, PushLeaves, listVars, poolVars, pushVars,
        popVars
  <2>3. QED
    BY <1>n, <1>r, <2>1, <2>2 DEF Rings
<1>9. CASE PushLoad
  BY <1>9, <1>r DEF QInv, TypeOK, Rings, Pushing, Popping, PushLoad, PGoto,
      PushLeaves, listVars, poolVars, pushVars, popVars
<1>10. CASE PushStore
  BY <1>10, <1>r DEF QInv, TypeOK, Rings, Pushing, Popping, PushStore, PGoto,
      PushLeaves, listVars, poolVars, pushVars, popVars
<1>11. CASE PushPut
  <2> DEFINE q == Put(ring[buf_w], data)
  <2>1. \E c \in 0..Size : Contiguous(q, Size, c)
    BY <1>11, <1>r, <1>t, RingSteps DEF PushPut, PGoto, Rings, QInv, TypeOK,
        Pushing
  <2>2. /\ ppc = "put" /\ ppc' = "idle" /\ ring' = [ring EXCEPT ![buf_w] = q]
        /\ UNCHANGED <<bufcache, t, cpc, buf_r, buf_w>>
    BY <1>11 DEF PushPut, PGoto, PushLeaves, popVars
  <2> HIDE DEF q
  <2>3. \A a \in Buffer : ring'[a] = IF a = buf_w THEN q ELSE ring[a]
    BY <1>t, <2>2
  <2>4. \A a \in Stored(bufcache) : a \in Buffer /\ a # buf_w
    BY Apart DEF QInv, TypeOK
  <2>5. t = NULL /\ (cpc \in {"next_r", "release"} => buf_r # buf_w)
    BY <2>2, Apart DEF QInv, Pushing, Popping
  <2>6. QED
    BY <1>r, <1>t, <2>1, <2>2, <2>3, <2>4, <2>5 DEF Rings
<1>12. CASE PopTest
  BY <1>12, <1>r DEF QInv, TypeOK, Rings, Pushing, Popping, PopTest, CGoto,
      PopLeaves, listVars, poolVars, pushVars, popVars
<1>13. CASE PopCompare
  BY <1>13, <1>r DEF QInv, TypeOK, Rings, Pushing, Popping, PopCompare, CGoto,
      PopLeaves, listVars, poolVars, pushVars, popVars
<1>14. CASE PopTestAgain
  BY <1>14, <1>r DEF QInv, TypeOK, Rings, Pushing, Popping, PopTestAgain, CGoto,
      PopLeaves, listVars, poolVars, pushVars, popVars
<1>15. CASE PopNext
  BY <1>15, <1>r DEF QInv, TypeOK, Rings, Pushing, Popping, PopNext, CGoto,
      PopLeaves, ListAdvance, ListNext, ListFront, listVars, poolVars, pushVars,
      popVars
<1>16. CASE PopRecycle
  BY <1>16, <1>r DEF QInv, TypeOK, Rings, Pushing, Popping, PopRecycle, CGoto,
      PopLeaves, ListRecycle, listVars, poolVars, pushVars, popVars
<1>17. CASE PopReset
  <2>1. /\ cpc' = "release" /\ ring' = [ring EXCEPT ![buf_r] = NewRing(Size)]
        /\ UNCHANGED <<bufcache, t, ppc, buf_r, buf_w>>
    BY <1>17 DEF PopReset, CGoto, PopLeaves, pushVars
  <2>2. \A a \in Buffer : ring'[a] = IF a = buf_r THEN NewRing(Size) ELSE ring[a]
    BY <1>t, <2>1
  <2>3. \A a \in Stored(bufcache) \cup (IF t = NULL THEN {} ELSE {t}) : a \in Buffer
    BY Apart DEF QInv, TypeOK
  <2>4. QED
    BY <1>n, <1>r, <1>t, <2>1, <2>2, <2>3 DEF Rings
<1>18. CASE PopRelease
  <2>1. /\ Stored(bufcache') \in SUBSET (Stored(bufcache) \cup {buf_r})
        /\ ring[buf_r] = NewRing(Size)
    BY <1>18, <1>r, GivenBack DEF PopRelease, CGoto, Rings
  <2>2. cpc' = "load" /\ UNCHANGED <<ring, t, ppc, buf_r, buf_w>>
    BY <1>18 DEF PopRelease, CGoto, PopLeaves, pushVars
  <2>3. QED
    BY <1>r, <2>1, <2>2 DEF Rings
<1>19. CASE PopLoad
  BY <1>19, <1>r DEF QInv, TypeOK, Rings, Pushing, Popping, PopLoad, CGoto,
      PopLeaves, listVars, poolVars, pushVars, popVars
<1>20. CASE PopStore
  BY <1>20, <1>r DEF QInv, TypeOK, Rings, Pushing, Popping, PopStore, CGoto,
      PopLeaves, listVars, poolVars, pushVars, popVars
<1>21. CASE PopSetBufR
  BY <1>21, <1>r DEF QInv, TypeOK, Rings, Pushing, Popping, PopSetBufR, CGoto,
      PopLeaves, listVars, poolVars, pushVars, popVars
<1>22. CASE PopTake
  <2> DEFINE q == Inc(ring[buf_r])
  <2>1. CASE Empty(ring[buf_r])
    <3>1. cpc' = "idle" /\ UNCHANGED <<ring, bufcache, t, ppc, buf_r, buf_w>>
      BY <1>22, <2>1 DEF PopTake, CGoto, PopLeaves, pushVars
    <3>2. QED
      BY <1>r, <3>1 DEF Rings
  <2>2. CASE ~ Empty(ring[buf_r])
    <3>1. /\ \E c \in 0..Size : Contiguous(q, Size, c)
          /\ Available(ring[buf_r]) => Available(q)
      BY <1>t, <2>2, RingSteps
    <3>2. /\ cpc = "pop" /\ cpc' = "idle" /\ ring' = [ring EXCEPT ![buf_r] = q]
          /\ UNCHANGED <<bufcache, t, ppc, buf_r, buf_w>>
      BY <1>22, <2>2 DEF PopTake, CGoto, PopLeaves, pushVars
    <3> HIDE DEF q
    <3>3. \A a \in Buffer : ring'[a] = IF a = buf_r THEN q ELSE ring[a]
      BY <1>t, <3>2
    <3>4. Reading = buf_r
      BY <3>2 DEF QInv, Popping, Reading
    <3>5. /\ \A a \in Stored(bufcache) : a \in Buffer /\ a # buf_r
          /\ t # NULL => t \in Buffer /\ t # buf_r
      BY <3>4, Apart DEF QInv, TypeOK
    <3>6. QED
      BY <1>r, <1>t, <3>1, <3>2, <3>3, <3>5 DEF Rings
  <2>3. QED
    BY <2>1, <2>2
<1>23. CASE UNCHANGED vars
  BY <1>23, <1>r DEF QInv, TypeOK, Rings, Pushing, Popping, vars, listVars,
      poolVars, pushVars, popVars
<1>24. QED
  BY <1>1, <1>2, <1>3, <1>4, <1>5, <1>6, <1>7, <1>8, <1>9, <1>10, <1>11, <1>12,
      <1>13, <1>14, <1>15, <1>16, <1>17, <1>18, <1>19, <1>20, <1>21, <1>22, <1>23
      DEF Next, PushStep, PopStep

\* No step takes more than its share of the memory.
LEMMA KeepsMemory ==
    ASSUME QInv, [Next]_vars
    PROVE  Memory'
<1>m. Memory /\ data \in Nat
  BY Sorts DEF QInv, TypeOK
<1>c. Cardinality(liveNodes) \in Nat /\ Cardinality(liveBuffers) \in Nat
  BY <1>m, FS_CardinalityType DEF Memory
<1>1. CASE CallPush
  BY <1>1, <1>m, <1>c DEF Memory, CallPush, PGoto, PushLeaves, listVars, poolVars,
      pushVars, popVars
<1>2. CASE PushFits
  BY <1>2, <1>m, <1>c DEF Memory, PushFits, PGoto, PushLeaves, listVars, poolVars,
      pushVars, popVars
<1>3. CASE PushRefused
  BY <1>3, <1>m, <1>c DEF Memory, PushRefused, PGoto, PushLeaves, listVars,
      poolVars, pushVars, popVars
<1>4. CASE PushGrow
  <2>1. PICK x : liveBuffers' = liveBuffers \cup {x}
    BY <1>4 DEF PushGrow
  <2>2. /\ IsFiniteSet(liveBuffers')
        /\ Cardinality(liveBuffers') \in Nat /\ Cardinality(liveBuffers') <= Cardinality(liveBuffers) + 1
    <3>1. /\ IsFiniteSet(liveBuffers \cup {x})
          /\ Cardinality(liveBuffers \cup {x}) = IF x \in liveBuffers THEN Cardinality(liveBuffers)
                                               ELSE Cardinality(liveBuffers) + 1
      BY <1>m, FS_AddElement DEF Memory
    <3>2. QED
      BY <1>c, <2>1, <3>1
  <2>3. QED
    BY <1>4, <1>m, <1>c, <2>2 DEF Memory, PushGrow, PGoto, PushLeaves, listVars,
        poolVars, pushVars, popVars
<1>5. CASE PushAlloc
  <2>1. PICK x : liveNodes' = liveNodes \cup {x}
    BY <1>5 DEF PushAlloc, ListAlloc
  <2>2. /\ IsFiniteSet(liveNodes')
        /\ Cardinality(liveNodes') \in Nat /\ Cardinality(liveNodes') <= Cardinality(liveNodes) + 1
    <3>1. /\ IsFiniteSet(liveNodes \cup {x})
          /\ Cardinality(liveNodes \cup {x}) = IF x \in liveNodes THEN Cardinality(liveNodes)
                                               ELSE Cardinality(liveNodes) + 1
      BY <1>m, FS_AddElement DEF Memory
    <3>2. QED
      BY <1>c, <2>1, <3>1
  <2>3. QED
    BY <1>5, <1>m, <1>c, <2>2 DEF Memory, PushAlloc, PGoto, PushLeaves, ListAlloc,
        listVars, poolVars, pushVars, popVars
<1>6. CASE PushLink
  BY <1>6, <1>m, <1>c DEF Memory, PushLink, PGoto, PushLeaves, ListLink, listVars,
      poolVars, pushVars, popVars
<1>7. CASE PushSwing
  BY <1>7, <1>m, <1>c DEF Memory, PushSwing, PGoto, PushLeaves, ListSwing,
      listVars, poolVars, pushVars, popVars
<1>8. CASE PushSetBufW
  BY <1>8, <1>m, <1>c DEF Memory, PushSetBufW, PGoto, PushLeaves, listVars,
      poolVars, pushVars, popVars
<1>9. CASE PushLoad
  BY <1>9, <1>m, <1>c DEF Memory, PushLoad, PGoto, PushLeaves, listVars, poolVars,
      pushVars, popVars
<1>10. CASE PushStore
  BY <1>10, <1>m, <1>c DEF Memory, PushStore, PGoto, PushLeaves, listVars,
      poolVars, pushVars, popVars
<1>11. CASE PushPut
  BY <1>11, <1>m, <1>c DEF Memory, PushPut, PGoto, PushLeaves, listVars, poolVars,
      pushVars, popVars
<1>12. CASE PopTest
  BY <1>12, <1>m, <1>c DEF Memory, PopTest, CGoto, PopLeaves, listVars, poolVars,
      pushVars, popVars
<1>13. CASE PopCompare
  BY <1>13, <1>m, <1>c DEF Memory, PopCompare, CGoto, PopLeaves, listVars,
      poolVars, pushVars, popVars
<1>14. CASE PopTestAgain
  BY <1>14, <1>m, <1>c DEF Memory, PopTestAgain, CGoto, PopLeaves, listVars,
      poolVars, pushVars, popVars
<1>15. CASE PopNext
  BY <1>15, <1>m, <1>c DEF Memory, PopNext, CGoto, PopLeaves, ListAdvance,
      ListNext, ListFront, listVars, poolVars, pushVars, popVars
<1>16. CASE PopRecycle
  <2>1. liveNodes' \in SUBSET liveNodes
    BY <1>16 DEF PopRecycle, ListRecycle
  <2>2. IsFiniteSet(liveNodes') /\ Cardinality(liveNodes') <= Cardinality(liveNodes)
    BY <1>m, <2>1, FS_Subset DEF Memory
  <2>3. Cardinality(liveNodes') \in Nat
    BY <2>2, FS_CardinalityType
  <2>4. QED
    BY <1>16, <1>m, <1>c, <2>2, <2>3 DEF Memory, PopRecycle, CGoto, PopLeaves,
        ListRecycle, listVars, poolVars, pushVars, popVars
<1>17. CASE PopReset
  BY <1>17, <1>m, <1>c DEF Memory, PopReset, CGoto, PopLeaves, listVars, poolVars,
      pushVars, popVars
<1>18. CASE PopRelease
  <2>1. liveBuffers' \in SUBSET liveBuffers
    BY <1>18 DEF PopRelease
  <2>2. IsFiniteSet(liveBuffers') /\ Cardinality(liveBuffers') <= Cardinality(liveBuffers)
    BY <1>m, <2>1, FS_Subset DEF Memory
  <2>3. Cardinality(liveBuffers') \in Nat
    BY <2>2, FS_CardinalityType
  <2>4. QED
    BY <1>18, <1>m, <1>c, <2>2, <2>3 DEF Memory, PopRelease, CGoto, PopLeaves,
        listVars, poolVars, pushVars, popVars
<1>19. CASE PopLoad
  BY <1>19, <1>m, <1>c DEF Memory, PopLoad, CGoto, PopLeaves, listVars, poolVars,
      pushVars, popVars
<1>20. CASE PopStore
  BY <1>20, <1>m, <1>c DEF Memory, PopStore, CGoto, PopLeaves, listVars, poolVars,
      pushVars, popVars
<1>21. CASE PopSetBufR
  BY <1>21, <1>m, <1>c DEF Memory, PopSetBufR, CGoto, PopLeaves, listVars,
      poolVars, pushVars, popVars
<1>22. CASE PopTake
  BY <1>22, <1>m, <1>c DEF Memory, PopTake, CGoto, PopLeaves, listVars, poolVars,
      pushVars, popVars
<1>23. CASE UNCHANGED vars
  BY <1>23, <1>m, <1>c DEF Memory, vars, listVars, poolVars, pushVars, popVars
<1>24. QED
  BY <1>1, <1>2, <1>3, <1>4, <1>5, <1>6, <1>7, <1>8, <1>9, <1>10, <1>11, <1>12,
      <1>13, <1>14, <1>15, <1>16, <1>17, <1>18, <1>19, <1>20, <1>21, <1>22, <1>23
      DEF Next, PushStep, PopStep

\* Linking a node keeps the nodes ranked: the new one goes below all others.
LEMMA KeepsAcyclic ==
    ASSUME QInv, [Next]_vars
    PROVE  Acyclic'
<1>a. PICK rank, bound : bound \in Nat /\ Ranked(rank, bound)
  BY DEF QInv, Acyclic
<1>b. ASSUME UNCHANGED node PROVE Acyclic'
  BY <1>a, <1>b DEF Ranked, Acyclic
<1>1. CASE CallPush
  BY <1>1, <1>b DEF CallPush, PGoto, PushLeaves, listVars, poolVars,
      pushVars, popVars
<1>2. CASE PushFits
  BY <1>2, <1>b DEF PushFits, PGoto, PushLeaves, listVars, poolVars,
      pushVars, popVars
<1>3. CASE PushRefused
  BY <1>3, <1>b DEF PushRefused, PGoto, PushLeaves, listVars, poolVars,
      pushVars, popVars
<1>4. CASE PushGrow
  BY <1>4, <1>b DEF PushGrow, PGoto, PushLeaves, listVars, poolVars,
      pushVars, popVars
<1>5. CASE PushAlloc
  <2> DEFINE n == IF Empty(cache) THEN Malloc(Node, liveNodes) ELSE Top(cache)
  <2>1. n \in Node
    BY <1>5, NextNode DEF PushAlloc, PGoto
  <2>2. node' = [node EXCEPT ![n] = [data |-> t, next |-> NULL]]
    BY <1>5 DEF PushAlloc, ListAlloc
  <2>3. node \in [Node -> [data : Buffer \cup {NULL}, next : Node \cup {NULL}]]
    BY DEF QInv, TypeOK, ListTypeOK
  <2> HIDE DEF n
  <2>4. \A m \in Node : node'[m].next = IF m = n THEN NULL ELSE node[m].next
    BY <2>1, <2>2, <2>3
  <2>5. Ranked(rank, bound)'
    BY <1>a, <2>4, Sorts DEF Ranked
  <2>6. QED
    BY <1>a, <2>5 DEF Acyclic
<1>6. CASE PushLink
  <2> DEFINE higher == [m \in Node |-> IF m = pnode THEN 0 ELSE rank[m] + 1]
  <2>1. /\ tail \in Node /\ pnode \in Node /\ tail # pnode /\ node[pnode].next = NULL
        /\ node \in [Node -> [data : Buffer \cup {NULL}, next : Node \cup {NULL}]]
    <3>1. ppc = "link"
      BY <1>6 DEF PushLink, PGoto
    <3>2. tail # pnode
      BY <3>1, Apart
    <3>3. node[pnode] = [data |-> t, next |-> NULL] /\ pnode # NULL
      BY <3>1 DEF QInv, Pushing
    <3>4. /\ tail \in Node /\ pnode \in Node \cup {NULL}
          /\ node \in [Node -> [data : Buffer \cup {NULL}, next : Node \cup {NULL}]]
      BY DEF QInv, TypeOK, ListTypeOK
    <3>5. QED
      BY <3>2, <3>3, <3>4
  <2>2. \A m \in Node : node'[m].next = IF m = tail THEN pnode ELSE node[m].next
    BY <1>6, <2>1 DEF PushLink, ListLink
  <2>3. higher \in [Node -> 0..(bound + 1)] /\ bound + 1 \in Nat
    BY <1>a DEF Ranked
  <2>4. ASSUME NEW m \in Node, node'[m].next # NULL
        PROVE  higher[node'[m].next] < higher[m]
    <3>1. CASE m = tail
      BY <1>a, <2>1, <2>2, <3>1 DEF Ranked
    <3>2. CASE m # tail
      <4>1. m # pnode /\ node'[m].next = node[m].next
        BY <2>1, <2>2, <2>4, <3>2
      <4>2. /\ node[m].next \in Node /\ rank[node[m].next] < rank[m]
            /\ rank[m] \in Nat /\ rank[node[m].next] \in Nat
        BY <1>a, <2>4, <4>1 DEF Ranked
      <4>3. QED
        BY <4>1, <4>2
    <3>3. QED
      BY <3>1, <3>2
  <2>5. \A m \in Node : node'[m].next \in Node \cup {NULL}
    BY <1>a, <2>1, <2>2 DEF Ranked
  <2> HIDE DEF higher
  <2>6. PICK h : h = higher
    OBVIOUS
  <2>7. Ranked(h, bound + 1)'
    BY <2>3, <2>4, <2>5, <2>6 DEF Ranked
  <2>8. QED
    BY <2>3, <2>7 DEF Acyclic
<1>7. CASE PushSwing
  BY <1>7, <1>b DEF PushSwing, PGoto, PushLeaves, ListSwing, listVars,
      poolVars, pushVars, popVars
<1>8. CASE PushSetBufW
  BY <1>8, <1>b DEF PushSetBufW, PGoto, PushLeaves, listVars, poolVars,
      pushVars, popVars
<1>9. CASE PushLoad
  BY <1>9, <1>b DEF PushLoad, PGoto, PushLeaves, listVars, poolVars,
      pushVars, popVars
<1>10. CASE PushStore
  BY <1>10, <1>b DEF PushStore, PGoto, PushLeaves, listVars, poolVars,
      pushVars, popVars
<1>11. CASE PushPut
  BY <1>11, <1>b DEF PushPut, PGoto, PushLeaves, listVars, poolVars,
      pushVars, popVars
<1>12. CASE PopTest
  BY <1>12, <1>b DEF PopTest, CGoto, PopLeaves, listVars, poolVars,
      pushVars, popVars
<1>13. CASE PopCompare
  BY <1>13, <1>b DEF PopCompare, CGoto, PopLeaves, listVars, poolVars,
      pushVars, popVars
<1>14. CASE PopTestAgain
  BY <1>14, <1>b DEF PopTestAgain, CGoto, PopLeaves, listVars, poolVars,
      pushVars, popVars
<1>15. CASE PopNext
  BY <1>15, <1>b DEF PopNext, CGoto, PopLeaves, ListAdvance, ListNext,
      ListFront, listVars, poolVars, pushVars, popVars
<1>16. CASE PopRecycle
  BY <1>16, <1>b DEF PopRecycle, CGoto, PopLeaves, ListRecycle, listVars,
      poolVars, pushVars, popVars
<1>17. CASE PopReset
  BY <1>17, <1>b DEF PopReset, CGoto, PopLeaves, listVars, poolVars,
      pushVars, popVars
<1>18. CASE PopRelease
  BY <1>18, <1>b DEF PopRelease, CGoto, PopLeaves, listVars, poolVars,
      pushVars, popVars
<1>19. CASE PopLoad
  BY <1>19, <1>b DEF PopLoad, CGoto, PopLeaves, listVars, poolVars,
      pushVars, popVars
<1>20. CASE PopStore
  BY <1>20, <1>b DEF PopStore, CGoto, PopLeaves, listVars, poolVars,
      pushVars, popVars
<1>21. CASE PopSetBufR
  BY <1>21, <1>b DEF PopSetBufR, CGoto, PopLeaves, listVars, poolVars,
      pushVars, popVars
<1>22. CASE PopTake
  BY <1>22, <1>b DEF PopTake, CGoto, PopLeaves, listVars, poolVars,
      pushVars, popVars
<1>23. CASE UNCHANGED vars
  BY <1>23, <1>b DEF vars, listVars, poolVars, pushVars, popVars
<1>24. QED
  BY <1>1, <1>2, <1>3, <1>4, <1>5, <1>6, <1>7, <1>8, <1>9, <1>10, <1>11, <1>12,
      <1>13, <1>14, <1>15, <1>16, <1>17, <1>18, <1>19, <1>20, <1>21, <1>22, <1>23
      DEF Next, PushStep, PopStep

\* An address changes hands.
LEMMA Hand ==
    ASSUME NEW live, NEW a, NEW b, NEW c, NEW d, Owned(live, a, b, c, d)
    PROVE  /\ \A x : b = {x} => Owned(live, a \cup {x}, {}, c, d)
           /\ \A x \in a : d = {} => Owned(live, a \ {x}, b, c, {x})
           /\ \A x : d = {x} => Owned(live, a, b, c \cup {x}, {})
           /\ \A x : d = {x} => Owned(live \ {x}, a, b, c, {})
           /\ \A x \in c : b = {} => Owned(live \cup {x}, a, {x}, c \ {x}, d)
           /\ \A x : b = {} /\ x \notin live => Owned(live \cup {x}, a, {x}, c, d)
<1>1. ASSUME NEW x, b = {x} PROVE Owned(live, a \cup {x}, {}, c, d)
  BY <1>1 DEF Owned
<1>2. ASSUME NEW x \in a, d = {} PROVE Owned(live, a \ {x}, b, c, {x})
  BY <1>2 DEF Owned
<1>3. ASSUME NEW x, d = {x} PROVE Owned(live, a, b, c \cup {x}, {})
  BY <1>3 DEF Owned
<1>4. ASSUME NEW x, d = {x} PROVE Owned(live \ {x}, a, b, c, {})
  BY <1>4 DEF Owned
<1>5. ASSUME NEW x \in c, b = {} PROVE Owned(live \cup {x}, a, {x}, c \ {x}, d)
  BY <1>5 DEF Owned
<1>6. ASSUME NEW x, b = {}, x \notin live PROVE Owned(live \cup {x}, a, {x}, c, d)
  BY <1>6 DEF Owned
<1>7. QED
  BY <1>1, <1>2, <1>3, <1>4, <1>5, <1>6

\* A sequence without repetitions, one longer ...
LEMMA Longer ==
    ASSUME NEW T, NEW s \in Seq(T), NEW x \in T, OneToOne(s), x \notin Range(s)
    PROVE  /\ Append(s, x) \in Seq(T) /\ Len(Append(s, x)) = Len(s) + 1
           /\ Append(s, x)[Len(s) + 1] = x
           /\ \A i \in 1..Len(s) : Append(s, x)[i] = s[i]
           /\ OneToOne(Append(s, x)) /\ Range(Append(s, x)) = Range(s) \cup {x}
<1> DEFINE S == Append(s, x)
<1>1. /\ S \in Seq(T) /\ Len(s) \in Nat /\ Len(S) = Len(s) + 1 /\ S[Len(s) + 1] = x
      /\ \A i \in 1..Len(s) : S[i] = s[i]
      /\ DOMAIN s = 1..Len(s) /\ DOMAIN S = 1..(Len(s) + 1)
  OBVIOUS
<1> HIDE DEF S
<1>2. \A i \in 1..Len(s) : s[i] # x
  BY <1>1 DEF Range
<1>3. OneToOne(S)
  BY <1>1, <1>2 DEF OneToOne
<1>4. Range(S) = Range(s) \cup {x}
  <2>1. Range(S) = {S[i] : i \in 1..(Len(s) + 1)} /\ Range(s) = {s[i] : i \in 1..Len(s)}
    BY <1>1 DEF Range
  <2>2. 1..(Len(s) + 1) = (1..Len(s)) \cup {Len(s) + 1}
    BY <1>1
  <2>3. QED
    BY <1>1, <2>1, <2>2
<1>5. QED
  BY <1>1, <1>3, <1>4 DEF S

\* ... and one shorter.
LEMMA Shorter ==
    ASSUME NEW T, NEW s \in Seq(T), OneToOne(s), Len(s) > 1
    PROVE  /\ Tail(s) \in Seq(T) /\ Len(Tail(s)) = Len(s) - 1 /\ Tail(s) # <<>>
           /\ \A i \in 1..(Len(s) - 1) : Tail(s)[i] = s[i + 1]
           /\ OneToOne(Tail(s)) /\ Range(Tail(s)) = Range(s) \ {s[1]} /\ s[1] \in Range(s)
<1> DEFINE S == Tail(s)
<1>1. /\ S \in Seq(T) /\ Len(s) \in Nat /\ Len(S) = Len(s) - 1 /\ S # <<>>
      /\ \A i \in 1..(Len(s) - 1) : S[i] = s[i + 1]
      /\ DOMAIN s = 1..Len(s) /\ DOMAIN S = 1..(Len(s) - 1)
  OBVIOUS
<1> HIDE DEF S
<1>2. 1 \in 1..Len(s) /\ \A i \in 1..(Len(s) - 1) : i + 1 \in 1..Len(s) /\ i + 1 # 1
  BY <1>1
<1>3. OneToOne(S)
  BY <1>1, <1>2 DEF OneToOne
<1>4. Range(S) = Range(s) \ {s[1]}
  <2>1. Range(S) = {S[i] : i \in 1..(Len(s) - 1)} /\ Range(s) = {s[i] : i \in 1..Len(s)}
    BY <1>1 DEF Range
  <2>2. \A i \in 1..(Len(s) - 1) : S[i] \in Range(s) /\ S[i] # s[1]
    BY <1>1, <1>2, <2>1 DEF OneToOne
  <2>3. ASSUME NEW i \in 1..Len(s), s[i] # s[1]
        PROVE  s[i] \in Range(S)
    <3>1. i - 1 \in 1..(Len(s) - 1) /\ (i - 1) + 1 = i
      BY <1>1, <2>3
    <3>2. QED
      BY <1>1, <2>1, <3>1
  <2>4. QED
    BY <2>1, <2>2, <2>3
<1>5. QED
  BY <1>1, <1>2, <1>3, <1>4 DEF S, Range

\* A link puts the new node and the new ring at the end of the chain.
LEMMA PushLinkChain ==
    ASSUME QInv, PushLink, NEW s \in Seq(Node), NEW R \in Seq(Buffer), Chain(s, R)
    PROVE  \E p \in Node, b \in Buffer :
             /\ b = t /\ b \notin Range(R)
             /\ Append(s, p) \in Seq(Node) /\ Append(R, b) \in Seq(Buffer)
             /\ Chain(Append(s, p), Append(R, b))'
<1>c. Chain(s, R)
  OBVIOUS
<1>q. PICK p, b : p = pnode /\ b = t
  OBVIOUS
<1> DEFINE S == Append(s, p)
           Q == Append(R, b)
           L == Len(s)
<1>1. /\ ppc = "link" /\ ppc' = "swing" /\ node' = [node EXCEPT ![tail].next = p]
      /\ p = pnode /\ b = t
      /\ UNCHANGED <<head, tail, pnode, t, buf_w, liveNodes, liveBuffers, cache, bufcache>>
      /\ UNCHANGED Reading /\ UNCHANGED Retired /\ UNCHANGED Released
  BY <1>q DEF Reading, Retired, Released, PushLink, ListLink, PGoto, PushLeaves,
      poolVars, popVars
<1>2. p \in Node /\ b \in Buffer /\ node[p] = [data |-> b, next |-> NULL] /\ tail # p
  BY <1>1, Apart DEF QInv, TypeOK, ListTypeOK, Pushing
<1>3. /\ L \in Nat /\ L > 0 /\ Len(R) = L /\ OneToOne(s) /\ OneToOne(R)
      /\ s[1] = head /\ R[1] = Reading /\ tail = s[L] /\ R[L] = buf_w
      /\ \A i \in 1..(L - 1) : node[s[i]].next = s[i + 1] /\ node[s[i + 1]].data = R[i + 1]
      /\ \A i \in 1..L : s[i] \in Node
      /\ DOMAIN s = 1..L /\ DOMAIN R = 1..L
  BY <1>1, <1>c DEF Chain, Linked, Ends, Growing
<1>4. /\ Owned(liveNodes, Range(s), {p}, Stored(cache), Retired)
      /\ Owned(liveBuffers, Range(R), {b}, Stored(bufcache), Released)
      /\ Held' = {} /\ Installed' = {}
  BY <1>1, <1>c DEF Chain, Owners, Held, Installed
<1>5. p \notin Range(s) /\ b \notin Range(R)
  BY <1>4 DEF Owned
<1>6. /\ S \in Seq(Node) /\ Len(S) = L + 1 /\ S[L + 1] = p /\ \A i \in 1..L : S[i] = s[i]
      /\ Q \in Seq(Buffer) /\ Len(Q) = L + 1 /\ Q[L + 1] = b /\ \A i \in 1..L : Q[i] = R[i]
      /\ OneToOne(S) /\ OneToOne(Q)
      /\ Range(S) = Range(s) \cup {p} /\ Range(Q) = Range(R) \cup {b}
  BY <1>2, <1>3, <1>5, Longer
<1> HIDE DEF S, Q, L
<1>7. Owners(S, Q)'
  <2>1. /\ Owned(liveNodes, Range(s) \cup {p}, {}, Stored(cache), Retired)
        /\ Owned(liveBuffers, Range(R) \cup {b}, {}, Stored(bufcache), Released)
    BY <1>4, Hand
  <2>2. QED
    BY <1>1, <1>4, <1>6, <2>1 DEF Owners
<1>8. Ends(S, Q)'
  BY <1>1, <1>3, <1>6 DEF Ends, Growing
<1>9. Linked(S, Q)'
  <2>1. /\ node \in [Node -> [data : Buffer \cup {NULL}, next : Node \cup {NULL}]]
        /\ tail \in Node
    BY DEF QInv, TypeOK, ListTypeOK
  <2>2. \A m \in Node : /\ node'[m].data = node[m].data
                        /\ node'[m].next = IF m = tail THEN p ELSE node[m].next
    BY <1>1, <2>1
  <2>3. ASSUME NEW i \in 1..L
        PROVE  node'[S[i]].next = S[i + 1] /\ node'[S[i + 1]].data = Q[i + 1]
    <3>1. CASE i = L
      BY <1>2, <1>3, <1>6, <2>2, <3>1
    <3>2. CASE i # L
      <4>1. /\ i \in 1..(L - 1) /\ i + 1 \in 1..L /\ L \in 1..L
        BY <1>3, <3>2
      <4>2. s[i] # s[L]
        BY <1>3, <3>2, <4>1 DEF OneToOne
      <4>3. S[i] = s[i] /\ S[i + 1] = s[i + 1] /\ Q[i + 1] = R[i + 1]
        BY <1>6, <4>1
      <4>4. QED
        BY <1>3, <2>2, <4>1, <4>2, <4>3
    <3>3. QED
      BY <3>1, <3>2
  <2>4. node'[p].next = NULL
    BY <1>2, <2>2
  <2>5. S[1] = head' /\ Q[1] = Reading' /\ S # <<>>
    <3>1. 1 \in 1..L /\ head' = head /\ Reading' = Reading /\ S # <<>>
      BY <1>1, <1>3, <1>6
    <3>2. QED
      BY <1>3, <1>6, <3>1
  <2>6. QED
    BY <1>3, <1>6, <2>3, <2>4, <2>5 DEF Linked
<1>10. QED
  BY <1>1, <1>2, <1>5, <1>6, <1>7, <1>8, <1>9 DEF Chain, S, Q

\* next_r() takes the first node and the first ring off the chain.
LEMMA PopNextChain ==
    ASSUME QInv, PopNext, NEW s \in Seq(Node), NEW R \in Seq(Buffer), Chain(s, R)
    PROVE  /\ Tail(s) \in Seq(Node) /\ Tail(R) \in Seq(Buffer) /\ Len(s) > 1
           /\ Chain(Tail(s), Tail(R))'
<1>c. Chain(s, R)
  OBVIOUS
<1> DEFINE S == Tail(s)
           Q == Tail(R)
           L == Len(s)
<1>1. cpc = "next_r" /\ L > 1 /\ ListNext # NULL /\ R[1] = buf_r /\ (Growing => L > 2)
      /\ ListNext = s[2] /\ ListFront = R[2] /\ ListFront # NULL
  BY <1>c, FrontRing, Sorts DEF PopNext, CGoto
<1>2. PICK h, b : h = head /\ b = buf_r
  OBVIOUS
<1>3. /\ cpc' = "recycle" /\ tmp' = R[2] /\ cnode' = h /\ head' = s[2] /\ Reading' = R[2]
      /\ UNCHANGED <<node, liveNodes, tail, cache, pnode, liveBuffers, bufcache>>
      /\ UNCHANGED <<buf_r, buf_w, t, ppc>> /\ UNCHANGED Held /\ UNCHANGED Installed
      /\ UNCHANGED Growing
      /\ Retired = {} /\ Released = {} /\ Retired' = {h} /\ Released' = {b}
  BY <1>1, <1>2 DEF PopNext, ListAdvance, CGoto, PopLeaves, poolVars, pushVars,
      Reading, Retired, Released, Held, Installed, Growing
<1>4. /\ L \in Nat /\ Len(R) = L /\ OneToOne(s) /\ OneToOne(R)
      /\ s[1] = head /\ R[1] = Reading
      /\ \A i \in 1..(L - 1) : node[s[i]].next = s[i + 1] /\ node[s[i + 1]].data = R[i + 1]
      /\ node[s[L]].next = NULL
  BY <1>c DEF Chain, Linked
<1>5. /\ S \in Seq(Node) /\ Len(S) = L - 1 /\ \A i \in 1..(L - 1) : S[i] = s[i + 1]
      /\ Q \in Seq(Buffer) /\ Len(Q) = L - 1 /\ \A i \in 1..(L - 1) : Q[i] = R[i + 1]
      /\ OneToOne(S) /\ OneToOne(Q) /\ S # <<>>
      /\ Range(S) = Range(s) \ {h} /\ Range(Q) = Range(R) \ {b}
      /\ h \in Range(s) /\ b \in Range(R)
  BY <1>1, <1>2, <1>4, Shorter
<1> HIDE DEF S, Q, L
<1>6. Owners(S, Q)'
  <2>1. /\ Owned(liveNodes, Range(s), Held, Stored(cache), {})
        /\ Owned(liveBuffers, Range(R), Installed, Stored(bufcache), {})
    BY <1>3, <1>c DEF Chain, Owners
  <2>2. /\ Owned(liveNodes, Range(s) \ {h}, Held, Stored(cache), {h})
        /\ Owned(liveBuffers, Range(R) \ {b}, Installed, Stored(bufcache), {b})
    BY <1>5, <2>1, Hand
  <2>3. QED
    BY <1>3, <1>5, <2>2 DEF Owners
<1>7. Ends(S, Q)'
  <2>1. /\ Growing => R[L - 1] = buf_w /\ R[L] = t
        /\ ~ Growing => R[L] = buf_w
        /\ ppc = "swing" => pnode = s[L]
        /\ ppc # "swing" => tail = s[L]
    BY <1>c DEF Chain, Ends, L
  <2>2. Len(S) \in 1..(L - 1) /\ S[Len(S)] = s[L] /\ Q[Len(S)] = R[L]
    BY <1>1, <1>4, <1>5
  <2>3. Growing => Len(S) > 1 /\ Q[Len(S) - 1] = R[L - 1]
    BY <1>1, <1>4, <1>5
  <2>4. QED
    BY <1>3, <2>1, <2>2, <2>3 DEF Ends
<1>8. Linked(S, Q)'
  <2>1. \A i \in 1..(Len(S) - 1) :
          node[S[i]].next = S[i + 1] /\ node[S[i + 1]].data = Q[i + 1]
    <3>1. TAKE i \in 1..(Len(S) - 1)
    <3>2. i \in 1..(L - 1) /\ i + 1 \in 1..(L - 1)
      BY <1>1, <1>4, <1>5
    <3>3. S[i] = s[i + 1] /\ S[i + 1] = s[i + 1 + 1] /\ Q[i + 1] = R[i + 1 + 1]
      BY <1>5, <3>2
    <3>4. QED
      BY <1>4, <3>2, <3>3
  <2>2. Len(S) \in 1..(L - 1) /\ S[Len(S)] = s[L] /\ 1 \in 1..(L - 1)
    BY <1>1, <1>4, <1>5
  <2>3. node[S[Len(S)]].next = NULL /\ S[1] = head' /\ Q[1] = Reading'
    BY <1>3, <1>4, <1>5, <2>2
  <2>4. QED
    BY <1>3, <1>4, <1>5, <2>1, <2>3 DEF Linked
<1>9. QED
  BY <1>1, <1>5, <1>6, <1>7, <1>8 DEF Chain, S, Q, L

\* Every other step leaves the chain of nodes and rings as it is.
LEMMA SameChain ==
    ASSUME QInv, [Next]_vars, ~ PushLink, ~ PopNext,
           NEW s \in Seq(Node), NEW R \in Seq(Buffer), Chain(s, R)
    PROVE  Chain(s, R)'
<1>c. Chain(s, R) /\ s \in Seq(Node) /\ R \in Seq(Buffer)
  OBVIOUS
<1>l. ASSUME head' = head, Reading' = Reading,
             \A i \in 1..Len(s) : node'[s[i]] = node[s[i]]
      PROVE  Linked(s, R)'
  <2>1. /\ Linked(s, R) /\ Len(s) \in Nat /\ Len(s) > 0
        /\ \A i \in 1..(Len(s) - 1) : i \in 1..Len(s) /\ i + 1 \in 1..Len(s)
        /\ Len(s) \in 1..Len(s)
    BY <1>c DEF Chain, Linked
  <2>2. QED
    BY <1>l, <2>1 DEF Linked
<1>e. ASSUME UNCHANGED <<buf_w, t, pnode, tail>>, Growing' <=> Growing,
             ppc' = "swing" <=> ppc = "swing"
      PROVE  Ends(s, R)'
  BY <1>c, <1>e DEF Chain, Ends
<1>o. ASSUME UNCHANGED <<liveNodes, liveBuffers, cache, bufcache>>, UNCHANGED Held,
             UNCHANGED Retired, UNCHANGED Installed, UNCHANGED Released
      PROVE  Owners(s, R)'
  BY <1>c, <1>o DEF Chain, Owners
<1>q. ASSUME UNCHANGED <<node, liveNodes, head, cache, liveBuffers, bufcache>>,
             UNCHANGED Reading, UNCHANGED Held, UNCHANGED Retired,
             UNCHANGED Installed, UNCHANGED Released, Ends(s, R)'
      PROVE  Chain(s, R)'
  BY <1>l, <1>o, <1>q DEF Chain
<1>s. ASSUME UNCHANGED <<node, liveNodes, head, cache, liveBuffers, bufcache>>,
             UNCHANGED Reading, UNCHANGED Held, UNCHANGED Retired,
             UNCHANGED Installed, UNCHANGED Released, UNCHANGED Growing,
             UNCHANGED <<buf_w, t, pnode, tail>>, ppc' = "swing" <=> ppc = "swing"
      PROVE  Chain(s, R)'
  BY <1>e, <1>q, <1>s
<1>1. CASE CallPush
  BY <1>1, <1>s DEF Reading, Held, Retired, Installed, Released, Growing,
      CallPush, PGoto, PushLeaves, listVars, poolVars, pushVars, popVars
<1>2. CASE PushFits
  BY <1>2, <1>s DEF Reading, Held, Retired, Installed, Released, Growing,
      PushFits, PGoto, PushLeaves, listVars, poolVars, pushVars, popVars
<1>3. CASE PushRefused
  BY <1>3, <1>s DEF Reading, Held, Retired, Installed, Released, Growing,
      PushRefused, PGoto, PushLeaves, listVars, poolVars, pushVars, popVars
<1>4. CASE PushGrow
  <2> DEFINE b == IF Empty(bufcache) THEN Malloc(Buffer, liveBuffers) ELSE Top(bufcache)
  <2>1. /\ t' = b /\ liveBuffers' = liveBuffers \cup {b}
        /\ bufcache' = IF Empty(bufcache) THEN bufcache ELSE Inc(bufcache)
        /\ ppc = "available" /\ ppc' = "next_w"
        /\ UNCHANGED <<node, liveNodes, head, cache, buf_w, pnode, tail>>
        /\ UNCHANGED Reading /\ UNCHANGED Held /\ UNCHANGED Retired /\ UNCHANGED Released
    BY <1>4 DEF Reading, Held, Retired, Released, PushGrow, PGoto, PushLeaves,
        listVars, popVars
  <2>2. /\ Empty(bufcache) => b \notin liveBuffers
        /\ ~ Empty(bufcache) => /\ b \in Stored(bufcache)
                                /\ Stored(Inc(bufcache)) = Stored(bufcache) \ {b}
    BY <2>1, NextRing
  <2> HIDE DEF b
  <2>3. Owned(liveBuffers, Range(R), {}, Stored(bufcache), Released) /\ Installed' = {b}
    BY <1>c, <2>1 DEF Chain, Owners, Installed
  <2>4. Owned(liveBuffers, Range(R), Installed, Stored(bufcache), Released)'
    <3>1. CASE Empty(bufcache)
      BY <2>1, <2>2, <2>3, <3>1, Hand
    <3>2. CASE ~ Empty(bufcache)
      BY <2>1, <2>2, <2>3, <3>2, Hand
    <3>3. QED
      BY <3>1, <3>2
  <2>5. Owners(s, R)'
    BY <1>c, <2>1, <2>4 DEF Chain, Owners
  <2>6. Ends(s, R)'
    BY <1>c, <2>1 DEF Chain, Ends, Growing
  <2>7. Linked(s, R)'
    BY <1>l, <2>1
  <2>8. QED
    BY <1>c, <2>5, <2>6, <2>7 DEF Chain
<1>5. CASE PushAlloc
  <2> DEFINE n == IF Empty(cache) THEN Malloc(Node, liveNodes) ELSE Top(cache)
  <2>1. /\ pnode' = n /\ liveNodes' = liveNodes \cup {n}
        /\ cache' = IF Empty(cache) THEN cache ELSE Inc(cache)
        /\ node' = [node EXCEPT ![n] = [data |-> t, next |-> NULL]]
        /\ ppc = "next_w" /\ ppc' = "link"
        /\ UNCHANGED <<head, tail, bufcache, liveBuffers, buf_w, t>>
        /\ UNCHANGED Reading /\ UNCHANGED Retired /\ UNCHANGED Released
        /\ UNCHANGED Installed
    BY <1>5 DEF Reading, Retired, Released, Installed, PushAlloc, ListAlloc,
        PGoto, PushLeaves,
        poolVars, popVars
  <2>2. /\ Empty(cache) => n \notin liveNodes
        /\ ~ Empty(cache) => n \in Stored(cache) /\ Stored(Inc(cache)) = Stored(cache) \ {n}
    BY <2>1, NextNode
  <2> HIDE DEF n
  <2>3. /\ Owned(liveNodes, Range(s), {}, Stored(cache), Retired) /\ Held' = {n}
        /\ Owned(liveBuffers, Range(R), Installed, Stored(bufcache), Released)
    BY <1>c, <2>1 DEF Chain, Owners, Held
  <2>4. Owned(liveNodes, Range(s), Held, Stored(cache), Retired)'
    <3>1. CASE Empty(cache)
      BY <2>1, <2>2, <2>3, <3>1, Hand
    <3>2. CASE ~ Empty(cache)
      BY <2>1, <2>2, <2>3, <3>2, Hand
    <3>3. QED
      BY <3>1, <3>2
  <2>5. Owners(s, R)'
    BY <2>1, <2>3, <2>4 DEF Owners
  <2>6. Ends(s, R)'
    BY <1>c, <2>1 DEF Chain, Ends, Growing
  <2>7. n \notin Range(s)
    BY <2>2, <2>3 DEF Owned
  <2>8. \A i \in 1..Len(s) : s[i] \in Range(s) /\ s[i] \in Node
    BY <1>c DEF Range
  <2>9. node \in [Node -> [data : Buffer \cup {NULL}, next : Node \cup {NULL}]]
    BY DEF QInv, TypeOK, ListTypeOK
  <2>10. \A i \in 1..Len(s) : node'[s[i]] = node[s[i]]
    BY <2>1, <2>7, <2>8, <2>9
  <2>11. Linked(s, R)'
    BY <1>l, <2>1, <2>10
  <2>12. QED
    BY <1>c, <2>5, <2>6, <2>11 DEF Chain
<1>6. CASE PushLink
  BY <1>6
<1>7. CASE PushSwing
  <2>1. /\ UNCHANGED <<node, liveNodes, head, cache, liveBuffers, bufcache>>
        /\ UNCHANGED Reading /\ UNCHANGED Held /\ UNCHANGED Retired
        /\ UNCHANGED Installed /\ UNCHANGED Released
    BY <1>7 DEF Reading, Held, Retired, Installed, Released, PushSwing, PGoto,
        PushLeaves, ListSwing, listVars, poolVars, pushVars, popVars
  <2>2. Ends(s, R)'
    BY <1>7, <1>c DEF Chain, Ends, Growing, PushSwing, PGoto, PushLeaves,
        ListSwing, listVars, poolVars, pushVars, popVars
  <2>3. QED
    BY <1>c, <1>q, <2>1, <2>2
<1>8. CASE PushSetBufW
  <2>1. /\ UNCHANGED <<node, liveNodes, head, cache, liveBuffers, bufcache>>
        /\ UNCHANGED Reading /\ UNCHANGED Held /\ UNCHANGED Retired
        /\ UNCHANGED Installed /\ UNCHANGED Released
    BY <1>8 DEF Reading, Held, Retired, Installed, Released, PushSetBufW, PGoto,
        PushLeaves, listVars, poolVars, pushVars, popVars
  <2>2. Ends(s, R)'
    BY <1>8, <1>c DEF Chain, Ends, Growing, PushSetBufW, PGoto, PushLeaves,
        listVars, poolVars, pushVars, popVars
  <2>3. QED
    BY <1>c, <1>q, <2>1, <2>2
<1>9. CASE PushLoad
  BY <1>9, <1>s DEF Reading, Held, Retired, Installed, Released, Growing,
      PushLoad, PGoto, PushLeaves, listVars, poolVars, pushVars, popVars
<1>10. CASE PushStore
  BY <1>10, <1>s DEF Reading, Held, Retired, Installed, Released, Growing,
      PushStore, PGoto, PushLeaves, listVars, poolVars, pushVars, popVars
<1>11. CASE PushPut
  BY <1>11, <1>s DEF Reading, Held, Retired, Installed, Released, Growing,
      PushPut, PGoto, PushLeaves, listVars, poolVars, pushVars, popVars
<1>12. CASE PopTest
  BY <1>12, <1>s DEF Reading, Held, Retired, Installed, Released, Growing,
      PopTest, CGoto, PopLeaves, listVars, poolVars, pushVars, popVars
<1>13. CASE PopCompare
  BY <1>13, <1>s DEF Reading, Held, Retired, Installed, Released, Growing,
      PopCompare, CGoto, PopLeaves, listVars, poolVars, pushVars, popVars
<1>14. CASE PopTestAgain
  BY <1>14, <1>s DEF Reading, Held, Retired, Installed, Released, Growing,
      PopTestAgain, CGoto, PopLeaves, listVars, poolVars, pushVars, popVars
<1>15. CASE PopNext
  BY <1>15
<1>16. CASE PopRecycle
  <2>1. /\ IF Available(cache) THEN cache' = Put(cache, cnode) /\ liveNodes' = liveNodes
           ELSE liveNodes' = liveNodes \ {cnode} /\ cache' = cache
        /\ UNCHANGED <<liveBuffers, bufcache, buf_r>>
        /\ UNCHANGED <<node, head, buf_w, t, tail, pnode, ppc>>
        /\ UNCHANGED Reading /\ UNCHANGED Held /\ UNCHANGED Installed
        /\ Retired = {cnode} /\ Retired' = {}
    BY <1>16 DEF Reading, Held, Installed, Retired, Released, PopRecycle, CGoto,
        PopLeaves, ListRecycle, listVars, poolVars, pushVars, popVars
  <2>2. Available(cache) => Stored(cache') = Stored(cache) \cup {cnode}
    BY <1>16, <2>1, GivenBack DEF PopRecycle, CGoto
  <2>3. Owned(liveNodes, Range(s), Held, Stored(cache), Retired)
    BY <1>c DEF Chain, Owners
  <2>4. (Owned(liveNodes, Range(s), Held, Stored(cache), Retired))'
    <3>1. PICK a : a = cnode
      OBVIOUS
    <3>2. /\ Owned(liveNodes, Range(s), Held, Stored(cache) \cup {a}, {})
          /\ Owned(liveNodes \ {a}, Range(s), Held, Stored(cache), {})
      BY <2>1, <2>3, <3>1, Hand
    <3>3. QED
      BY <2>1, <2>2, <3>1, <3>2
  <2>5. Owners(s, R)'
    BY <1>16, <1>c, <2>1, <2>4 DEF Chain, Owners, Retired, Released, CGoto,
        PopRecycle
  <2>6. Ends(s, R)'
    BY <1>c, <2>1 DEF Chain, Ends, Growing
  <2>7. Linked(s, R)'
    BY <1>l, <2>1
  <2>8. QED
    BY <1>c, <2>5, <2>6, <2>7 DEF Chain
<1>17. CASE PopReset
  BY <1>17, <1>s DEF Reading, Held, Retired, Installed, Released, Growing,
      PopReset, CGoto, PopLeaves, listVars, poolVars, pushVars, popVars
<1>18. CASE PopRelease
  <2>1. /\ IF Available(bufcache) THEN bufcache' = Put(bufcache, buf_r) /\ liveBuffers' = liveBuffers
           ELSE liveBuffers' = liveBuffers \ {buf_r} /\ bufcache' = bufcache
        /\ UNCHANGED <<liveNodes, cache, cnode>>
        /\ UNCHANGED <<node, head, buf_w, t, tail, pnode, ppc>>
        /\ UNCHANGED Reading /\ UNCHANGED Held /\ UNCHANGED Installed
        /\ Released = {buf_r} /\ Released' = {}
    BY <1>18 DEF Reading, Held, Installed, Retired, Released, PopRelease, CGoto,
        PopLeaves, listVars, poolVars, pushVars, popVars
  <2>2. Available(bufcache) => Stored(bufcache') = Stored(bufcache) \cup {buf_r}
    BY <1>18, <2>1, GivenBack DEF PopRelease, CGoto
  <2>3. Owned(liveBuffers, Range(R), Installed, Stored(bufcache), Released)
    BY <1>c DEF Chain, Owners
  <2>4. (Owned(liveBuffers, Range(R), Installed, Stored(bufcache), Released))'
    <3>1. PICK a : a = buf_r
      OBVIOUS
    <3>2. /\ Owned(liveBuffers, Range(R), Installed, Stored(bufcache) \cup {a}, {})
          /\ Owned(liveBuffers \ {a}, Range(R), Installed, Stored(bufcache), {})
      BY <2>1, <2>3, <3>1, Hand
    <3>3. QED
      BY <2>1, <2>2, <3>1, <3>2
  <2>5. Owners(s, R)'
    BY <1>18, <1>c, <2>1, <2>4 DEF Chain, Owners, Retired, Released, CGoto,
        PopRelease
  <2>6. Ends(s, R)'
    BY <1>c, <2>1 DEF Chain, Ends, Growing
  <2>7. Linked(s, R)'
    BY <1>l, <2>1
  <2>8. QED
    BY <1>c, <2>5, <2>6, <2>7 DEF Chain
<1>19. CASE PopLoad
  BY <1>19, <1>s DEF Reading, Held, Retired, Installed, Released, Growing,
      PopLoad, CGoto, PopLeaves, listVars, poolVars, pushVars, popVars
<1>20. CASE PopStore
  BY <1>20, <1>s DEF Reading, Held, Retired, Installed, Released, Growing,
      PopStore, CGoto, PopLeaves, listVars, poolVars, pushVars, popVars
<1>21. CASE PopSetBufR
  <2>1. Reading' = Reading
    BY <1>21 DEF Reading, QInv, Popping, PopSetBufR, CGoto
  <2>2. /\ UNCHANGED <<node, liveNodes, head, cache, liveBuffers, bufcache>>
        /\ UNCHANGED Held /\ UNCHANGED Retired
        /\ UNCHANGED Installed /\ UNCHANGED Released
        /\ UNCHANGED <<buf_w, t, pnode, tail>> /\ (Growing' <=> Growing)
        /\ ppc' = "swing" <=> ppc = "swing"
    BY <1>21 DEF Held, Retired, Installed, Released, Growing, PopSetBufR, CGoto,
        PopLeaves, listVars, poolVars, pushVars, popVars
  <2>3. Ends(s, R)'
    BY <1>e, <2>2
  <2>4. QED
    BY <1>c, <1>q, <2>1, <2>2, <2>3
<1>22. CASE PopTake
  BY <1>22, <1>s DEF Reading, Held, Retired, Installed, Released, Growing,
      PopTake, CGoto, PopLeaves, listVars, poolVars, pushVars, popVars
<1>23. CASE UNCHANGED vars
  BY <1>23, <1>s DEF Reading, Held, Retired, Installed, Released, Growing, vars,
      listVars, poolVars, pushVars, popVars
<1>24. QED
  BY <1>1, <1>2, <1>3, <1>4, <1>5, <1>6, <1>7, <1>8, <1>9, <1>10, <1>11, <1>12,
      <1>13, <1>14, <1>15, <1>16, <1>17, <1>18, <1>19, <1>20, <1>21, <1>22, <1>23
      DEF Next, PushStep, PopStep

\* There is always a chain of nodes and rings.
LEMMA KeepsChain ==
    ASSUME QInv, [Next]_vars
    PROVE  \E s \in Seq(Node), R \in Seq(Buffer) : Chain(s, R)'
<1>1. PICK s \in Seq(Node), R \in Seq(Buffer) : Chain(s, R)
  BY DEF QInv
<1>2. CASE PushLink
  BY <1>1, <1>2, PushLinkChain
<1>3. CASE PopNext
  BY <1>1, <1>3, PopNextChain
<1>4. CASE ~ PushLink /\ ~ PopNext
  BY <1>1, <1>4, SameChain
<1>5. QED
  BY <1>2, <1>3, <1>4

\* The invariant holds in every state.
LEMMA Invariance == Spec => []QInv
<1>1. QInv /\ [Next]_vars => QInv'
  <2>1. SUFFICES ASSUME QInv, [Next]_vars PROVE QInv'
    OBVIOUS
  <2>2. TypeOK' /\ Pushing' /\ Popping' /\ Rings'
    BY <2>1, KeepsTypeOK, KeepsPushing, KeepsPopping, KeepsRings
  <2>3. Caches' /\ Memory' /\ Acyclic'
    BY <2>1, KeepsCaches, KeepsMemory, KeepsAcyclic
  <2>4. \E s \in Seq(Node), R \in Seq(Buffer) : Chain(s, R)'
    BY <2>1, KeepsChain
  <2>5. QED
    BY ONLY <2>2, <2>3, <2>4 DEF QInv
<1>2. QED
  BY <1>1, InitQInv, PTL DEF Spec

\* The queue keeps its types: the pointers, the nodes and the rings of any
\* execution, for every number of addresses, size of ring and of cache.
THEOREM TypeCorrect == Spec => []TypeOK
<1>1. QInv => TypeOK
  BY DEF QInv
<1>2. QED
  BY <1>1, Invariance, PTL

(* What is laid out along a list, x[i] at its place i, put together from   *)
(* the end.                                                                *)
Laid(x, L, c) ==
    /\ L \in Nat /\ c[L + 1] = <<>>
    /\ \A i \in 1..L : c[i] = x[i] \o c[i + 1]

\* It is determined by what is laid out.
LEMMA SameLaid ==
    ASSUME NEW L, NEW x, NEW c, NEW d, Laid(x, L, c), Laid(x, L, d)
    PROVE  \A i \in 1..(L + 1) : c[i] = d[i]
<1>1. L \in Nat
  BY DEF Laid
<1> DEFINE Bad == {k \in 0..L : c[L + 1 - k] # d[L + 1 - k]}
<1>2. Bad = {}
  <2>1. SUFFICES ASSUME Bad # {} PROVE FALSE
    OBVIOUS
  <2>2. Bad \in SUBSET Nat
    BY <1>1
  <2>3. PICK k \in Bad : \A j \in Bad : k <= j
    BY <2>1, <2>2, Least
  <2>4. k # 0
    BY <1>1 DEF Laid
  <2>5. k - 1 \in 0..L /\ ~ (k <= k - 1) /\ L + 1 - k \in 1..L
        /\ L + 1 - k + 1 = L + 1 - (k - 1)
    BY <1>1, <2>4
  <2>6. c[L + 1 - (k - 1)] = d[L + 1 - (k - 1)]
    BY <2>3, <2>5
  <2>7. c[L + 1 - k] = d[L + 1 - k]
    BY <2>5, <2>6 DEF Laid
  <2>8. QED
    BY <2>7
<1>3. TAKE i \in 1..(L + 1)
<1>4. L + 1 - i \in 0..L /\ L + 1 - (L + 1 - i) = i
  BY <1>1
<1>5. QED
  BY <1>2, <1>4

\* The nodes that Nodes walks along are the ones of the chain.
LEMMA ChainNodes ==
    ASSUME QInv, NEW s \in Seq(Node), NEW R \in Seq(Buffer), Chain(s, R)
    PROVE  Nodes = s
<1>1. PICK rank, bound : Ranked(rank, bound)
  BY DEF QInv, Acyclic
<1>2. PICK from : /\ Nodes = from[head] /\ from[NULL] = <<>>
                  /\ \A n \in Node : from[n] = <<n>> \o from[node[n].next]
  BY <1>1, NodesUnrolled, Sorts
<1> DEFINE L == Len(s)
           x == [i \in 1..L |-> <<s[i]>>]
           c == [i \in 1..(L + 1) |-> IF i = L + 1 THEN <<>> ELSE from[s[i]]]
           d == [i \in 1..(L + 1) |-> [j \in 1..(L + 1 - i) |-> s[i + j - 1]]]
<1>3. /\ L \in Nat /\ L > 0 /\ s[1] = head /\ \A i \in 1..L : s[i] \in Node
      /\ \A i \in 1..(L - 1) : node[s[i]].next = s[i + 1]
      /\ node[s[L]].next = NULL
  BY DEF Chain, Linked
<1> HIDE DEF L
<1>4. Laid(x, L, c)
  <2>1. c[L + 1] = <<>>
    BY <1>3
  <2>2. ASSUME NEW i \in 1..L PROVE c[i] = x[i] \o c[i + 1]
    <3>1. /\ c[i] = from[s[i]] /\ x[i] = <<s[i]>>
          /\ c[i + 1] = IF i = L THEN <<>> ELSE from[s[i + 1]]
      BY <1>3
    <3>2. from[s[i]] = <<s[i]>> \o from[node[s[i]].next]
      BY <1>2, <1>3
    <3>3. from[node[s[i]].next] = c[i + 1]
      <4>1. CASE i = L
        BY <1>2, <1>3, <3>1, <4>1
      <4>2. CASE i # L
        <5>1. i \in 1..(L - 1)
          BY <1>3, <4>2
        <5>2. QED
          BY <1>3, <3>1, <4>2, <5>1
      <4>3. QED
        BY <4>1, <4>2
    <3>4. QED
      BY <3>1, <3>2, <3>3
  <2>3. QED
    BY <1>3, <2>1, <2>2 DEF Laid
<1>5. Laid(x, L, d)
  <2>1. d[L + 1] = <<>>
    BY <1>3
  <2>2. ASSUME NEW i \in 1..L PROVE d[i] = x[i] \o d[i + 1]
    <3> DEFINE u == d[i]
               v == d[i + 1]
    <3>1. /\ i + 1 \in 1..(L + 1) /\ L + 1 - i \in Nat /\ L - i \in Nat
          /\ L + 1 - (i + 1) = L - i
      BY <1>3
    <3>2. /\ u = [j \in 1..(L + 1 - i) |-> s[i + j - 1]]
          /\ v = [j \in 1..(L - i) |-> s[i + 1 + j - 1]]
      BY <1>3, <3>1
    <3> HIDE DEF d
    <3>3. /\ u \in Seq(Node) /\ Len(u) = L + 1 - i
          /\ v \in Seq(Node) /\ Len(v) = L - i
      <4>1. ASSUME NEW j \in 1..(L + 1 - i) PROVE s[i + j - 1] \in Node
        <5>1. i + j - 1 \in 1..L
          BY <1>3
        <5>2. QED
          BY <1>3, <5>1
      <4>2. ASSUME NEW j \in 1..(L - i) PROVE s[i + 1 + j - 1] \in Node
        <5>1. i + 1 + j - 1 \in 1..L
          BY <1>3
        <5>2. QED
          BY <1>3, <5>1
      <4>3. u \in [1..(L + 1 - i) -> Node] /\ v \in [1..(L - i) -> Node]
        BY <3>2, <4>1, <4>2
      <4>4. \A n \in Nat : \A f \in [1..n -> Node] : f \in Seq(Node) /\ Len(f) = n
        OBVIOUS
      <4>5. QED
        BY <3>1, <4>3, <4>4
    <3> DEFINE w == <<s[i]>> \o v
    <3>4. /\ w \in Seq(Node) /\ Len(w) = L + 1 - i /\ w[1] = s[i]
          /\ \A j \in 2..(L + 1 - i) : w[j] = v[j - 1]
      <4>1. s[i] \in Node
        BY <1>3
      <4>2. \A a \in Node : \A z \in Seq(Node) :
              /\ <<a>> \o z \in Seq(Node) /\ Len(<<a>> \o z) = Len(z) + 1
              /\ (<<a>> \o z)[1] = a
              /\ \A j \in 2..(Len(z) + 1) : (<<a>> \o z)[j] = z[j - 1]
        OBVIOUS
      <4> HIDE DEF u, v
      <4>3. L - i + 1 = L + 1 - i
        BY <1>3
      <4>4. QED
        BY <3>3, <4>1, <4>2, <4>3
    <3> HIDE DEF w, u, v
    <3>5. \A j \in 1..(L + 1 - i) : w[j] = u[j]
      <4>1. TAKE j \in 1..(L + 1 - i)
      <4>2. CASE j = 1
        BY <1>3, <3>1, <3>2, <3>4, <4>2
      <4>3. CASE j # 1
        <5>1. j \in 2..(L + 1 - i) /\ j - 1 \in 1..(L - i) /\ i + 1 + (j - 1) - 1 = i + j - 1
          BY <1>3, <3>1, <4>3
        <5>2. QED
          BY <3>2, <3>4, <5>1
      <4>4. QED
        BY <4>2, <4>3
    <3>6. w = u
      BY <3>3, <3>4, <3>5, SeqEqual
    <3>7. QED
      BY <1>3, <3>6 DEF w, u, v
  <2>3. QED
    BY <1>3, <2>1, <2>2 DEF Laid
<1>6. c[1] = d[1]
  <2>1. 1 \in 1..(L + 1)
    BY <1>3
  <2> HIDE DEF x, c, d
  <2>2. QED
    BY <1>4, <1>5, <2>1, SameLaid
<1>7. c[1] = Nodes
  BY <1>2, <1>3
<1>8. d[1] = s
  <2>1. d[1] = [j \in 1..L |-> s[j]]
    BY <1>3
  <2>2. QED
    BY <2>1 DEF L
<1>9. QED
  BY <1>6, <1>7, <1>8

\* A sequence without repetitions has as many elements as it is long.
LEMMA RangeCount ==
    ASSUME NEW T, NEW s \in Seq(T), OneToOne(s)
    PROVE  IsFiniteSet(Range(s)) /\ Cardinality(Range(s)) = Len(s)
<1>1. Len(s) \in Nat /\ DOMAIN s = 1..Len(s)
  OBVIOUS
<1> DEFINE f == [i \in 1..Len(s) |-> s[i]]
<1>2. f \in Bijection(1..Len(s), Range(s))
  <2>1. /\ f \in [1..Len(s) -> Range(s)]
        /\ \A v \in Range(s) : \E k \in 1..Len(s) : f[k] = v
    BY <1>1 DEF Range
  <2>2. \A j, k \in 1..Len(s) : f[j] = f[k] => j = k
    BY DEF OneToOne
  <2> HIDE DEF f
  <2>3. QED
    BY <2>1, <2>2 DEF Bijection, Injection, Surjection, IsInjective
<1>3. \A n \in Nat : IsFiniteSet(1..n) /\ Cardinality(1..n) = n
  <2>1. \A a, b \in Int : IsFiniteSet(a..b)
    BY FS_Interval
  <2>2. \A a, b \in Int : Cardinality(a..b) = IF a > b THEN 0 ELSE b - a + 1
    BY FS_Interval
  <2>3. TAKE n \in Nat
  <2>4. n \in Int /\ 1 \in Int /\ (1 > n => n = 0) /\ n - 1 + 1 = n
    OBVIOUS
  <2>5. Cardinality(1..n) = IF 1 > n THEN 0 ELSE n - 1 + 1
    BY <2>2, <2>4
  <2>6. QED
    BY <2>1, <2>4, <2>5
<1>4. QED
  BY <1>1, <1>2, <1>3, FS_Bijection DEF ExistsBijection

\* What belongs to one owner each is counted owner by owner.
LEMMA OwnedCount ==
    ASSUME NEW live, NEW a, NEW b, NEW c, NEW d, Owned(live, a, b, c, d),
           IsFiniteSet(a), IsFiniteSet(b), IsFiniteSet(c), IsFiniteSet(d)
    PROVE  Cardinality(live) =
             Cardinality(a) + Cardinality(b) + Cardinality(c) + Cardinality(d)
<1>1. /\ live = ((a \cup b) \cup c) \cup d /\ a \cap b = {}
      /\ (a \cup b) \cap c = {} /\ ((a \cup b) \cup c) \cap d = {}
  BY DEF Owned
<1>2. /\ Cardinality(a) \in Nat /\ Cardinality(b) \in Nat /\ Cardinality(c) \in Nat
      /\ Cardinality(d) \in Nat /\ Cardinality({}) = 0
  BY FS_CardinalityType, FS_EmptySet
<1>u. \A S, T : IsFiniteSet(S) /\ IsFiniteSet(T) /\ S \cap T = {} =>
        /\ IsFiniteSet(S \cup T)
        /\ Cardinality(S \cup T) = Cardinality(S) + Cardinality(T) - 0
  BY <1>2, FS_Union
<1>3. IsFiniteSet(a \cup b) /\ Cardinality(a \cup b) = Cardinality(a) + Cardinality(b) - 0
  BY <1>1, <1>u
<1>4. /\ IsFiniteSet((a \cup b) \cup c)
      /\ Cardinality((a \cup b) \cup c) = Cardinality(a \cup b) + Cardinality(c) - 0
  BY <1>1, <1>3, <1>u
<1>5. Cardinality(live) = Cardinality((a \cup b) \cup c) + Cardinality(d) - 0
  BY <1>1, <1>4, <1>u
<1>6. QED
  BY <1>2, <1>3, <1>4, <1>5

\* What is held by the threads is finite.
LEMMA HeldFinite ==
    /\ IsFiniteSet(Held) /\ IsFiniteSet(Retired)
    /\ IsFiniteSet(Installed) /\ IsFiniteSet(Released)
<1>1. IsFiniteSet({}) /\ \A x : IsFiniteSet({x})
  BY FS_EmptySet, FS_Singleton
<1>2. QED
  BY <1>1 DEF Held, Retired, Installed, Released

\* The nodes counted by NodesOwned are those of the invariant's owners.
LEMMA OwnNodes == QInv => NodesOwned
<1> SUFFICES ASSUME QInv PROVE NodesOwned
  OBVIOUS
<1>1. PICK s \in Seq(Node), R \in Seq(Buffer) : Chain(s, R)
  BY DEF QInv
<1>2. Nodes = s
  BY <1>1, ChainNodes
<1>3. /\ OneToOne(s) /\ DOMAIN s = 1..Len(s) /\ Len(s) \in 1..Len(s)
      /\ Owned(liveNodes, Range(s), Held, Stored(cache), Retired)
      /\ ppc = "swing" => pnode = s[Len(s)]
  BY <1>1 DEF Chain, Linked, Ends, Owners
<1>4. {pnode} \ (Range(s) \cup {NULL}) = Held
  <2>1. CASE ppc = "link"
    BY <1>3, <2>1 DEF QInv, Pushing, Held, Owned
  <2>2. CASE ppc = "swing"
    BY <1>3, <2>2 DEF Held, Range
  <2>3. CASE ppc \notin {"link", "swing"}
    BY <2>3 DEF QInv, Pushing, Held
  <2>4. QED
    BY <2>1, <2>2, <2>3
<1>5. {cnode} \ {NULL} = Retired
  BY DEF QInv, Popping, Retired
<1>6. IsFiniteSet(Stored(cache)) /\ Cardinality(Stored(cache)) = Cardinality(Filled(cache))
  BY Sorts, StoredCount DEF QInv, TypeOK, ListTypeOK, Caches
<1>7. IsFiniteSet(Range(s)) /\ Cardinality(Range(s)) = Len(s)
  BY <1>3, RangeCount
<1>8. Cardinality(liveNodes) =
        Len(s) + Cardinality(Held) + Cardinality(Filled(cache)) + Cardinality(Retired)
  BY <1>3, <1>6, <1>7, HeldFinite, OwnedCount
<1>9. liveNodes = Range(s) \cup Held \cup Stored(cache) \cup Retired
  BY <1>3 DEF Owned
<1>10. QED
  BY <1>2, <1>4, <1>5, <1>8, <1>9 DEF NodesOwned, Stored

\* The rings counted by RingsOwned are those of the invariant's owners.
LEMMA OwnRings == QInv => RingsOwned
<1> SUFFICES ASSUME QInv PROVE RingsOwned
  OBVIOUS
<1>1. PICK s \in Seq(Node), R \in Seq(Buffer) : Chain(s, R)
  BY DEF QInv
<1>2. Nodes = s
  BY <1>1, ChainNodes
<1> DEFINE L == Len(s)
           linked == {node[n].data : n \in Range(Tail(Nodes))}
<1>3. /\ OneToOne(s) /\ OneToOne(R) /\ L \in Nat /\ L > 0 /\ Len(R) = L /\ R[1] = Reading
      /\ \A i \in 1..(L - 1) : node[s[i + 1]].data = R[i + 1]
      /\ Owned(liveBuffers, Range(R), Installed, Stored(bufcache), Released)
      /\ DOMAIN R = 1..L
  <2>1. Linked(s, R) /\ Owners(s, R)
    BY <1>1 DEF Chain
  <2>2. /\ OneToOne(s) /\ OneToOne(R) /\ Len(R) = Len(s) /\ s # <<>> /\ R[1] = Reading
    BY <2>1 DEF Linked
  <2>3. \A i \in 1..(Len(s) - 1) : node[s[i + 1]].data = R[i + 1]
    BY <2>1 DEF Linked
  <2>4. Len(s) \in Nat /\ Len(s) > 0 /\ DOMAIN R = 1..Len(R)
    BY <2>2
  <2>5. Owned(liveBuffers, Range(R), Installed, Stored(bufcache), Released)
    BY <2>1 DEF Owners
  <2>6. QED
    BY ONLY <2>2, <2>3, <2>4, <2>5
<1>4. linked = Range(R) \ {Reading} /\ Reading \in Range(R)
  <2>1. CASE L = 1
    <3>1. Tail(s) = <<>> /\ Range(<<>>) = {}
      BY <2>1 DEF Range
    <3>2. Range(R) = {Reading}
      BY <1>3, <2>1 DEF Range
    <3>3. QED
      BY <1>2, <3>1, <3>2
  <2>2. CASE L > 1
    <3>0. Tail(Nodes) = Tail(s)
      BY <1>2
    <3> DEFINE S == Tail(s)
               Q == Tail(R)
    <3>1. /\ DOMAIN S = 1..(L - 1) /\ DOMAIN Q = 1..(L - 1)
          /\ \A i \in 1..(L - 1) : S[i] = s[i + 1] /\ Q[i] = R[i + 1]
          /\ Range(Q) = Range(R) \ {R[1]} /\ R[1] \in Range(R)
      BY <1>3, <2>2, Shorter
    <3> HIDE DEF S, Q, L
    <3>2. {node[n].data : n \in Range(S)} = {node[S[i]].data : i \in 1..(L - 1)}
      BY <3>1 DEF Range
    <3>3. \A i \in 1..(L - 1) : node[S[i]].data = Q[i]
      BY <1>3, <3>1
    <3>4. {node[S[i]].data : i \in 1..(L - 1)} = {Q[i] : i \in 1..(L - 1)}
      BY <3>3
    <3>5. {Q[i] : i \in 1..(L - 1)} = Range(Q)
      BY <3>1 DEF Range
    <3>6. linked = Range(Q)
      BY <3>0, <3>2, <3>4, <3>5 DEF S
    <3>7. QED
      BY <1>3, <3>1, <3>6
  <2>3. QED
    BY <1>3, <2>1, <2>2
<1> HIDE DEF linked
<1>5. /\ IsFiniteSet(Range(R)) /\ Cardinality(Range(R)) = L
      /\ IsFiniteSet(linked) /\ Cardinality(linked) = Cardinality(Range(R)) - 1
  BY <1>3, <1>4, RangeCount, FS_RemoveElement
<1>6. /\ IsFiniteSet(Stored(bufcache))
      /\ Cardinality(Stored(bufcache)) = Cardinality(Filled(bufcache))
  BY Sorts, StoredCount DEF QInv, TypeOK, Caches
<1>7. Cardinality(liveBuffers) =
        Cardinality(linked) + 1 + Cardinality(Filled(bufcache)) + Cardinality(Installed)
        + Cardinality(Released)
  <2>1. Cardinality(liveBuffers) =
          Cardinality(Range(R)) + Cardinality(Installed) + Cardinality(Stored(bufcache))
          + Cardinality(Released)
    BY <1>3, <1>5, <1>6, HeldFinite, OwnedCount
  <2>2. /\ Cardinality(Installed) \in Nat /\ Cardinality(Released) \in Nat
        /\ Cardinality(linked) \in Nat /\ Cardinality(Stored(bufcache)) \in Nat
        /\ Cardinality(Range(R)) \in Nat
    BY <1>5, <1>6, HeldFinite, FS_CardinalityType
  <2>3. QED
    BY <1>5, <1>6, <2>1, <2>2
<1>8. liveBuffers = linked \cup {Reading} \cup Stored(bufcache) \cup Installed \cup Released
  BY <1>3, <1>4 DEF Owned
<1>9. buf_w \in linked \cup {Reading}
  <2>1. buf_w \in Range(R)
    <3>1. /\ Growing => R[L - 1] = buf_w /\ L > 1
          /\ ~ Growing => R[L] = buf_w
      BY <1>1 DEF Chain, Ends
    <3>2. QED
      BY <1>3, <3>1 DEF Range
  <2>2. QED
    BY <1>4, <2>1
<1>10. cpc = "next_r" => ListNext # NULL
  BY <1>1, FrontRing
<1>11. \A b \in Stored(bufcache) : ring[b] = NewRing(Size)
  BY DEF QInv, Rings
<1>12. QED
  BY <1>7, <1>8, <1>9, <1>10, <1>11 DEF RingsOwned, linked, Stored, Installed, Released

\* No node of the list is leaked, freed while it is reached, or handed out twice.
THEOREM NodesAreOwned == Spec => []NodesOwned
  BY Invariance, OwnNodes, PTL

\* No ring of the queue is leaked, freed or released while the producer writes
\* it; the pool's are clean; and next_r() always finds a ring.
THEOREM RingsAreOwned == Spec => []RingsOwned
  BY Invariance, OwnRings, PTL

\* The values of the rings of the chain, ring by ring.
Values(R) == [i \in 1..Len(R) |-> RingContents(ring[R[i]])]

\* The values in the queue are the ones of the chain, laid out.
Flat(s, R) == \E c : Laid(Values(R), Len(R), c) /\ c[1] = Contents

\* What Linked says, fact by fact.
LEMMA ChainFacts ==
    ASSUME NEW s \in Seq(Node), NEW R \in Seq(Buffer), Chain(s, R)
    PROVE  /\ Len(s) \in Nat /\ Len(s) > 0 /\ Len(R) = Len(s)
           /\ s[1] = head /\ R[1] = Reading
           /\ \A i \in 1..Len(s) : s[i] \in Node /\ R[i] \in Buffer
           /\ \A i \in 1..(Len(s) - 1) : node[s[i]].next = s[i + 1]
           /\ \A i \in 1..(Len(s) - 1) : node[s[i + 1]].data = R[i + 1]
           /\ node[s[Len(s)]].next = NULL
           /\ OneToOne(R)
<1>1. Linked(s, R)
  BY DEF Chain
<1>2. /\ Len(R) = Len(s) /\ s[1] = head /\ R[1] = Reading /\ s # <<>>
      /\ node[s[Len(s)]].next = NULL /\ OneToOne(R)
  BY <1>1 DEF Linked
<1>3. Len(s) \in Nat /\ Len(s) > 0
  BY <1>2
<1>4. \A i \in 1..Len(s) : s[i] \in Node /\ R[i] \in Buffer
  BY <1>2
<1>5. \A i \in 1..(Len(s) - 1) : node[s[i]].next = s[i + 1]
  BY <1>1 DEF Linked
<1>6. \A i \in 1..(Len(s) - 1) : node[s[i + 1]].data = R[i + 1]
  BY <1>1 DEF Linked
<1>7. QED
  BY ONLY <1>2, <1>3, <1>4, <1>5, <1>6

\* The contents of the queue are those of the rings of the chain.
LEMMA ChainContents ==
    ASSUME QInv, NEW s \in Seq(Node), NEW R \in Seq(Buffer), Chain(s, R)
    PROVE  Flat(s, R)
<1>1. PICK rank, bound : Ranked(rank, bound)
  BY DEF QInv, Acyclic
<1>2. PICK from : Unrolled(from)
  BY <1>1, ContentsUnrolled, Sorts
<1> DEFINE L == Len(s)
           c == [i \in 1..(L + 1) |->
                   IF i = 1 THEN Contents ELSE IF i = L + 1 THEN <<>> ELSE from[s[i]]]
<1>3. /\ L \in Nat /\ L > 0 /\ Len(R) = L /\ s[1] = head /\ R[1] = Reading
      /\ \A i \in 1..L : s[i] \in Node
      /\ \A i \in 1..(L - 1) : node[s[i]].next = s[i + 1]
      /\ \A i \in 1..(L - 1) : node[s[i + 1]].data = R[i + 1]
      /\ node[s[L]].next = NULL
  BY ChainFacts
<1> HIDE DEF L
<1>4. \A i \in 1..L : from[node[s[i]].next] = c[i + 1]
  <2>1. TAKE i \in 1..L
  <2>2. CASE i = L
    BY <1>2, <1>3, <2>2 DEF Unrolled
  <2>3. CASE i # L
    <3>1. i \in 1..(L - 1) /\ i + 1 \in 1..(L + 1) /\ i + 1 # 1 /\ i + 1 # L + 1
      BY <1>3, <2>3
    <3>2. QED
      BY <1>3, <3>1
  <2>4. QED
    BY <2>2, <2>3
<1>5. ASSUME NEW i \in 1..L
      PROVE  c[i] = RingContents(ring[R[i]]) \o c[i + 1]
  <2>1. CASE i = 1
    <3>0. ListNext = node[s[i]].next /\ c[i] = Contents
      BY <1>3, <2>1 DEF ListNext
    <3>1. c[i] = RingContents(ring[Reading]) \o from[node[s[i]].next]
      BY <1>2, <3>0 DEF Unrolled
    <3>2. QED
      BY <1>3, <1>4, <2>1, <3>1
  <2>2. CASE i # 1
    <3>1. i - 1 \in 1..(L - 1) /\ i - 1 + 1 = i /\ i \in 1..(L + 1) /\ i # L + 1
      BY <1>3, <2>2
    <3>2. node[s[i]].data = R[i]
      <4>1. node[s[i - 1 + 1]].data = R[i - 1 + 1]
        BY <1>3, <3>1
      <4>2. QED
        BY <3>1, <4>1
    <3>3. c[i] = from[s[i]]
      BY <2>2, <3>1
    <3>4. from[s[i]] = RingContents(ring[node[s[i]].data]) \o from[node[s[i]].next]
      BY <1>2, <1>3 DEF Unrolled
    <3>5. QED
      BY <1>4, <3>2, <3>3, <3>4
  <2>3. QED
    BY <2>1, <2>2
<1>6. c[L + 1] = <<>> /\ c[1] = Contents
  BY <1>3
<1> HIDE DEF c
<1>7. Laid(Values(R), Len(R), c)
  BY <1>3, <1>5, <1>6 DEF Laid, Values
<1>8. QED
  BY <1>6, <1>7 DEF Flat

\* Sequences laid out make a sequence.
LEMMA LaidType ==
    ASSUME NEW T, NEW L, NEW x, NEW c, Laid(x, L, c), \A i \in 1..L : x[i] \in Seq(T)
    PROVE  \A i \in 1..(L + 1) : c[i] \in Seq(T)
<1>1. L \in Nat
  BY DEF Laid
<1> DEFINE Bad == {k \in 0..L : c[L + 1 - k] \notin Seq(T)}
<1>2. Bad = {}
  <2>1. SUFFICES ASSUME Bad # {} PROVE FALSE
    OBVIOUS
  <2>2. Bad \in SUBSET Nat
    BY <1>1
  <2>3. PICK k \in Bad : \A j \in Bad : k <= j
    BY <2>1, <2>2, Least
  <2>4. k # 0
    <3>1. c[L + 1] \in Seq(T) /\ L + 1 - 0 = L + 1
      BY <1>1 DEF Laid
    <3>2. QED
      BY <3>1
  <2>5. k - 1 \in 0..L /\ ~ (k <= k - 1) /\ L + 1 - k \in 1..L
        /\ L + 1 - k + 1 = L + 1 - (k - 1)
    BY <1>1, <2>4
  <2>6. c[L + 1 - (k - 1)] \in Seq(T) /\ x[L + 1 - k] \in Seq(T)
    BY <2>3, <2>5
  <2>7. c[L + 1 - k] \in Seq(T)
    <3>1. \A a, b \in Seq(T) : a \o b \in Seq(T)
      OBVIOUS
    <3>2. c[L + 1 - k] = x[L + 1 - k] \o c[L + 1 - (k - 1)]
      BY <2>5 DEF Laid
    <3>3. QED
      BY <2>6, <3>1, <3>2
  <2>8. QED
    BY <2>7
<1>3. TAKE i \in 1..(L + 1)
<1>4. L + 1 - i \in 0..L /\ L + 1 - (L + 1 - i) = i
  BY <1>1
<1>5. QED
  BY <1>2, <1>4

\* The values of a chain of rings, and the queue they make.
Shape(R) ==
    \E x, c : /\ Laid(x, Len(R), c) /\ c[1] = Contents
              /\ Len(R) \in Nat /\ Len(R) > 0
              /\ \A i \in 1..Len(R) : x[i] = RingContents(ring[R[i]])
              /\ \A i \in 1..Len(R) : x[i] \in Seq(1..MaxPushes)
              /\ \A i \in 1..(Len(R) + 1) : c[i] \in Seq(1..MaxPushes)

Shaped == \A s \in Seq(Node), R \in Seq(Buffer) : Chain(s, R) => Shape(R)

\* Every chain has that shape.
LEMMA ChainShape == QInv => Shaped
<1> SUFFICES ASSUME QInv, NEW s \in Seq(Node), NEW R \in Seq(Buffer), Chain(s, R)
             PROVE  Shape(R)
  BY DEF Shaped
<1>1. PICK c : Laid(Values(R), Len(R), c) /\ c[1] = Contents
  BY ChainContents DEF Flat
<1>2. Len(R) \in Nat /\ Len(R) > 0 /\ Len(R) = Len(s)
  BY ChainFacts
<1>3. \A i \in 1..Len(R) : R[i] \in Buffer
  OBVIOUS
<1>4. \A i \in 1..Len(R) : Values(R)[i] = RingContents(ring[R[i]])
  BY DEF Values
<1>5. \A i \in 1..Len(R) : Values(R)[i] \in Seq(1..MaxPushes)
  <2>1. \A b \in Buffer : RingContents(ring[b]) \in Seq(1..MaxPushes)
    BY RingSteps
  <2>2. QED
    BY ONLY <1>3, <1>4, <2>1
<1>6. \A i \in 1..(Len(R) + 1) : c[i] \in Seq(1..MaxPushes)
  BY <1>1, <1>5, LaidType
<1>7. QED
  BY <1>1, <1>2, <1>4, <1>5, <1>6 DEF Shape

\* Most steps change no ring of the chain.
LEMMA SameRings ==
    ASSUME QInv, [Next]_vars, ~ PushLink, ~ PopNext, ~ PushPut, ~ PopTake,
           NEW s \in Seq(Node), NEW R \in Seq(Buffer), Chain(s, R)
    PROVE  rc' = rc /\ \A i \in 1..Len(R) : ring'[R[i]] = ring[R[i]]
<1>a. \A i \in 1..Len(R) : R[i] \in Buffer /\ R[i] \in Range(R) /\ R[i] \in liveBuffers
  BY DEF Chain, Owners, Owned, Range
<1>b. ring \in [Buffer -> Ring(Size, 1..MaxPushes)]
  BY DEF QInv, TypeOK
<1>c. Owned(liveBuffers, Range(R), Installed, Stored(bufcache), Released)
  BY DEF Chain, Owners
<1>1. CASE CallPush
  BY <1>1 DEF CallPush, PGoto, PushLeaves, listVars, poolVars, pushVars, popVars
<1>2. CASE PushFits
  BY <1>2 DEF PushFits, PGoto, PushLeaves, listVars, poolVars, pushVars, popVars
<1>3. CASE PushRefused
  BY <1>3 DEF PushRefused, PGoto, PushLeaves, listVars, poolVars, pushVars,
      popVars
<1>4. CASE PushGrow
  <2>1. PICK b : /\ Empty(bufcache) => b = Malloc(Buffer, liveBuffers)
                 /\ ring' = IF Empty(bufcache) THEN [ring EXCEPT ![b] = NewRing(Size)]
                            ELSE ring
                 /\ rc' = rc
    BY <1>4 DEF PushGrow, PushLeaves, popVars
  <2>2. Empty(bufcache) => b \notin liveBuffers /\ b \in Buffer
    BY <1>4, <2>1, NextRing DEF PushGrow, PGoto
  <2>3. QED
    BY <1>a, <1>b, <2>1, <2>2
<1>5. CASE PushAlloc
  BY <1>5 DEF PushAlloc, PGoto, PushLeaves, ListAlloc, listVars, poolVars,
      pushVars, popVars
<1>6. CASE PushLink
  BY <1>6
<1>7. CASE PushSwing
  BY <1>7 DEF PushSwing, PGoto, PushLeaves, ListSwing, listVars, poolVars,
      pushVars, popVars
<1>8. CASE PushSetBufW
  BY <1>8 DEF PushSetBufW, PGoto, PushLeaves, listVars, poolVars, pushVars,
      popVars
<1>9. CASE PushLoad
  BY <1>9 DEF PushLoad, PGoto, PushLeaves, listVars, poolVars, pushVars, popVars
<1>10. CASE PushStore
  BY <1>10 DEF PushStore, PGoto, PushLeaves, listVars, poolVars, pushVars,
      popVars
<1>11. CASE PushPut
  BY <1>11
<1>12. CASE PopTest
  BY <1>12 DEF PopTest, CGoto, PopLeaves, listVars, poolVars, pushVars, popVars
<1>13. CASE PopCompare
  BY <1>13 DEF PopCompare, CGoto, PopLeaves, listVars, poolVars, pushVars,
      popVars
<1>14. CASE PopTestAgain
  BY <1>14 DEF PopTestAgain, CGoto, PopLeaves, listVars, poolVars, pushVars,
      popVars
<1>15. CASE PopNext
  BY <1>15
<1>16. CASE PopRecycle
  BY <1>16 DEF PopRecycle, CGoto, PopLeaves, ListRecycle, listVars, poolVars,
      pushVars, popVars
<1>17. CASE PopReset
  <2>1. ring' = [ring EXCEPT ![buf_r] = NewRing(Size)] /\ rc' = rc /\ Released = {buf_r}
    BY <1>17 DEF PopReset, CGoto, Released
  <2>2. \A i \in 1..Len(R) : R[i] # buf_r
    BY <1>a, <1>c, <2>1 DEF Owned
  <2>3. QED
    BY <1>a, <1>b, <2>1, <2>2
<1>18. CASE PopRelease
  BY <1>18 DEF PopRelease, CGoto, PopLeaves, listVars, poolVars, pushVars,
      popVars
<1>19. CASE PopLoad
  BY <1>19 DEF PopLoad, CGoto, PopLeaves, listVars, poolVars, pushVars, popVars
<1>20. CASE PopStore
  BY <1>20 DEF PopStore, CGoto, PopLeaves, listVars, poolVars, pushVars, popVars
<1>21. CASE PopSetBufR
  BY <1>21 DEF PopSetBufR, CGoto, PopLeaves, listVars, poolVars, pushVars,
      popVars
<1>22. CASE PopTake
  BY <1>22
<1>23. CASE UNCHANGED vars
  BY <1>23 DEF vars, listVars, poolVars, pushVars, popVars
<1>24. QED
  BY <1>1, <1>2, <1>3, <1>4, <1>5, <1>6, <1>7, <1>8, <1>9, <1>10, <1>11, <1>12,
      <1>13, <1>14, <1>15, <1>16, <1>17, <1>18, <1>19, <1>20, <1>21, <1>22, <1>23
      DEF Next, PushStep, PopStep

\* Such a step leaves the queue alone ...
LEMMA QuietFifo ==
    ASSUME QInv, [Next]_vars, ~ PushLink, ~ PopNext, ~ PushPut, ~ PopTake, Shaped, Shaped'
    PROVE  Contents' = Contents /\ rc' = rc
<1>1. PICK s \in Seq(Node), R \in Seq(Buffer) : Chain(s, R)
  BY DEF QInv
<1>2. Chain(s, R)' /\ rc' = rc /\ \A i \in 1..Len(R) : ring'[R[i]] = ring[R[i]]
  BY <1>1, SameChain, SameRings
<1>3. Shape(R) /\ Shape(R)'
  BY <1>1, <1>2 DEF Shaped
<1>4. PICK x, c : /\ Laid(x, Len(R), c) /\ c[1] = Contents
                  /\ Len(R) \in Nat /\ Len(R) > 0
                  /\ \A i \in 1..Len(R) : x[i] = RingContents(ring[R[i]])
  BY <1>3 DEF Shape
<1>5. PICK y, d : /\ Laid(y, Len(R), d) /\ d[1] = Contents'
                  /\ \A i \in 1..Len(R) : y[i] = RingContents(ring'[R[i]])
  BY <1>3 DEF Shape
<1>6. Laid(x, Len(R), d)
  <2>1. \A i \in 1..Len(R) : y[i] = x[i]
    BY <1>2, <1>4, <1>5
  <2>2. QED
    BY <1>5, <2>1 DEF Laid
<1>7. c[1] = d[1]
  BY <1>4, <1>6, SameLaid
<1>8. QED
  BY <1>2, <1>4, <1>5, <1>7

\* ... and so does the link of a new ring, which is empty ...
LEMMA LinkFifo ==
    ASSUME QInv, PushLink, Shaped, Shaped'
    PROVE  Contents' = Contents /\ rc' = rc
<1>1. PICK s \in Seq(Node), R \in Seq(Buffer) : Chain(s, R)
  BY DEF QInv
<1>2. PICK p \in Node, b \in Buffer : /\ b = t
                                      /\ Append(s, p) \in Seq(Node)
                                      /\ Append(R, b) \in Seq(Buffer)
                                      /\ Chain(Append(s, p), Append(R, b))'
  BY <1>1, PushLinkChain
<1> DEFINE Q == Append(R, b)
<1>3. Shape(R) /\ Shape(Q)'
  BY <1>1, <1>2 DEF Shaped
<1>4. PICK x, c : /\ Laid(x, Len(R), c) /\ c[1] = Contents
                  /\ Len(R) \in Nat /\ Len(R) > 0
                  /\ \A i \in 1..Len(R) : x[i] = RingContents(ring[R[i]])
                  /\ \A i \in 1..Len(R) : x[i] \in Seq(1..MaxPushes)
                  /\ \A i \in 1..(Len(R) + 1) : c[i] \in Seq(1..MaxPushes)
  BY <1>3 DEF Shape
<1>5. PICK y, d : /\ Laid(y, Len(Q), d) /\ d[1] = Contents'
                  /\ \A i \in 1..Len(Q) : y[i] = RingContents(ring'[Q[i]])
  BY <1>3 DEF Shape
<1>6. rc' = rc /\ ring' = ring /\ ring[b] = NewRing(Size)
  BY <1>2, Sorts DEF PushLink, PGoto, PushLeaves, poolVars, popVars, QInv, Rings
<1>7. RingContents(NewRing(Size)) = <<>>
  BY Sorts, NewRingFacts, EmptyFacts
<1> DEFINE L == Len(R)
           e == [i \in 1..(L + 2) |-> IF i = L + 2 THEN <<>> ELSE c[i]]
<1>8. Len(Q) = L + 1 /\ Q[L + 1] = b /\ \A i \in 1..L : Q[i] = R[i]
  BY <1>1, <1>2, <1>4
<1> HIDE DEF Q, L
<1>9. L \in Nat /\ L > 0 /\ L + 1 + 1 = L + 2
  BY <1>4 DEF L
<1>10. /\ \A i \in 1..L : y[i] = x[i]
       /\ y[L + 1] = <<>>
  <2>1. L + 1 \in 1..Len(Q) /\ \A i \in 1..L : i \in 1..Len(Q)
    BY <1>8, <1>9
  <2>2. y[L + 1] = RingContents(ring'[Q[L + 1]])
    BY <1>5, <2>1
  <2>3. \A i \in 1..L : y[i] = RingContents(ring'[Q[i]])
    BY <1>5, <2>1
  <2>4. \A i \in 1..L : x[i] = RingContents(ring[R[i]])
    BY <1>4 DEF L
  <2>5. QED
    BY <1>6, <1>7, <1>8, <2>2, <2>3, <2>4
<1>11. /\ c[L + 1] = <<>> /\ \A i \in 1..L : c[i] = x[i] \o c[i + 1]
  BY <1>4 DEF Laid, L
<1>12. Laid(y, L + 1, e)
  <2>1. e[L + 1 + 1] = <<>>
    BY <1>9
  <2>2. ASSUME NEW i \in 1..(L + 1) PROVE e[i] = y[i] \o e[i + 1]
    <3>1. CASE i = L + 1
      <4>1. e[i] = <<>> /\ e[i + 1] = <<>> /\ y[i] = <<>>
        BY <1>9, <1>10, <1>11, <3>1
      <4>2. <<>> = <<>> \o <<>>
        OBVIOUS
      <4>3. QED
        BY ONLY <4>1, <4>2
    <3>2. CASE i # L + 1
      <4>1. /\ i \in 1..L /\ i \in 1..(L + 2) /\ i + 1 \in 1..(L + 2)
            /\ i # L + 2 /\ i + 1 # L + 2
        BY <1>9, <3>2
      <4>2. e[i] = c[i] /\ e[i + 1] = c[i + 1]
        BY <4>1
      <4>3. QED
        BY <1>10, <1>11, <4>1, <4>2
    <3>3. QED
      BY <3>1, <3>2
  <2>3. L + 1 \in Nat
    BY <1>9
  <2> HIDE DEF e
  <2>4. QED
    BY ONLY <2>1, <2>2, <2>3 DEF Laid
<1>13. e[1] = d[1] /\ e[1] = c[1]
  <2>1. Laid(y, L + 1, d)
    BY <1>5, <1>8
  <2>2. 1 \in 1..(L + 1 + 1) /\ 1 \in 1..(L + 2) /\ 1 # L + 2
    BY <1>9
  <2>3. e[1] = c[1]
    BY <2>2
  <2> HIDE DEF e
  <2>4. QED
    BY <1>12, <2>1, <2>2, <2>3, SameLaid
<1>14. QED
  BY <1>4, <1>5, <1>6, <1>13

\* ... and next_r(), which leaves an empty ring behind.
LEMMA NextFifo ==
    ASSUME QInv, PopNext, Shaped, Shaped'
    PROVE  Contents' = Contents /\ rc' = rc
<1>1. PICK s \in Seq(Node), R \in Seq(Buffer) : Chain(s, R)
  BY DEF QInv
<1> DEFINE Q == Tail(R)
           L == Len(R)
<1>2. /\ Tail(s) \in Seq(Node) /\ Q \in Seq(Buffer) /\ Len(s) > 1
      /\ Chain(Tail(s), Q)'
  BY <1>1, PopNextChain
<1>3. Shape(R) /\ Shape(Q)'
  BY <1>1, <1>2 DEF Shaped
<1>4. PICK x, c : /\ Laid(x, L, c) /\ c[1] = Contents
                  /\ \A i \in 1..L : x[i] = RingContents(ring[R[i]])
                  /\ \A i \in 1..(L + 1) : c[i] \in Seq(1..MaxPushes)
  BY <1>3 DEF Shape
<1>5. PICK y, d : /\ Laid(y, Len(Q), d) /\ d[1] = Contents'
                  /\ \A i \in 1..Len(Q) : y[i] = RingContents(ring'[Q[i]])
  BY <1>3 DEF Shape
<1>6. L \in Nat /\ L > 1
  BY <1>1, <1>2, ChainFacts
<1>7. /\ Len(Q) = L - 1 /\ \A i \in 1..(L - 1) : Q[i] = R[i + 1]
  BY <1>6
<1>8. /\ rc' = rc /\ ring' = ring /\ R[1] = buf_r /\ Empty(ring[buf_r]) /\ buf_r \in Buffer
  BY <1>1, FrontRing DEF PopNext, CGoto, PopLeaves, poolVars, QInv, Rings, TypeOK
<1> HIDE DEF Q, L
<1>9. x[1] = <<>>
  <2>1. RingContents(ring[buf_r]) = <<>> /\ 1 \in 1..L
    BY <1>6, <1>8, RingSteps
  <2>2. QED
    BY <1>4, <1>8, <2>1
<1>10. c[L + 1] = <<>> /\ \A i \in 1..L : c[i] = x[i] \o c[i + 1]
  BY <1>4 DEF Laid
<1> DEFINE e == [i \in 1..L |-> c[i + 1]]
<1>11. Laid(y, L - 1, e)
  <2>1. L - 1 \in Nat /\ L - 1 + 1 \in 1..L /\ e[L - 1 + 1] = <<>>
    BY <1>6, <1>10
  <2>2. ASSUME NEW i \in 1..(L - 1) PROVE e[i] = y[i] \o e[i + 1]
    <3>1. i \in 1..L /\ i + 1 \in 1..L
      BY <1>6
    <3>2. y[i] = x[i + 1]
      BY <1>4, <1>5, <1>7, <1>8, <3>1
    <3>3. e[i] = c[i + 1] /\ e[i + 1] = c[i + 1 + 1]
      BY <3>1
    <3>4. QED
      BY <1>10, <3>1, <3>2, <3>3
  <2> HIDE DEF e
  <2>3. QED
    BY <2>1, <2>2 DEF Laid
<1>12. e[1] = d[1]
  <2>1. 1 \in 1..(L - 1 + 1)
    BY <1>6
  <2> HIDE DEF e
  <2>2. QED
    BY <1>5, <1>7, <1>11, <2>1, SameLaid
<1>13. e[1] = c[1]
  <2>1. e[1] = c[2] /\ 1 \in 1..L /\ 2 \in 1..(L + 1) /\ 1 + 1 = 2
    BY <1>6
  <2>2. c[1] = <<>> \o c[2] /\ c[2] \in Seq(1..MaxPushes)
    BY <1>4, <1>9, <1>10, <2>1
  <2>3. \A z \in Seq(1..MaxPushes) : <<>> \o z = z
    OBVIOUS
  <2>4. QED
    BY <2>1, <2>2, <2>3
<1>14. QED
  BY <1>4, <1>5, <1>8, <1>12, <1>13

\* The store into the ring written appends the value of the call.
LEMMA PutFifo ==
    ASSUME QInv, PushPut, Shaped, Shaped'
    PROVE  Contents' = Append(Contents, data) /\ rc' = rc /\ data \in 1..MaxPushes
<1>1. PICK s \in Seq(Node), R \in Seq(Buffer) : Chain(s, R)
  BY DEF QInv
<1> DEFINE L == Len(R)
           T == 1..MaxPushes
<1>2. /\ ppc = "put" /\ ppc' = "idle" /\ rc' = rc
      /\ ring' = [ring EXCEPT ![buf_w] = Put(@, data)]
  BY DEF PushPut, PGoto, PushLeaves, popVars
<1>3. Chain(s, R)'
  <2>1. ~ PushLink /\ ~ PopNext /\ [Next]_vars
    BY <1>2 DEF PushLink, PGoto, PopNext, PopLeaves, pushVars, Next, PushStep
  <2>2. QED
    BY <1>1, <2>1, SameChain
<1>4. Shape(R) /\ Shape(R)'
  BY <1>1, <1>3 DEF Shaped
<1>5. PICK x, c : /\ Laid(x, L, c) /\ c[1] = Contents /\ L \in Nat /\ L > 0
                  /\ \A i \in 1..L : x[i] = RingContents(ring[R[i]])
                  /\ \A i \in 1..L : x[i] \in Seq(T)
                  /\ \A i \in 1..(L + 1) : c[i] \in Seq(T)
  BY <1>4 DEF Shape
<1>6. PICK y, d : /\ Laid(y, L, d) /\ d[1] = Contents'
                  /\ \A i \in 1..L : y[i] = RingContents(ring'[R[i]])
  BY <1>4 DEF Shape
<1>7. PICK v \in T : v = data
  BY <1>2, Sorts DEF QInv, TypeOK, Pushing
<1>8. /\ R[L] = buf_w /\ buf_w \in Buffer /\ Available(ring[buf_w])
      /\ \A i \in 1..L : R[i] = buf_w => i = L
      /\ \A i \in 1..L : R[i] \in Buffer
  <2>1. R[Len(s)] = buf_w /\ Len(s) = L /\ OneToOne(R) /\ \A i \in 1..L : R[i] \in Buffer
    BY <1>1, <1>2, ChainFacts DEF Chain, Ends, Growing
  <2>2. buf_w \in Buffer /\ Available(ring[buf_w])
    BY <1>2 DEF QInv, Rings, TypeOK
  <2>3. QED
    BY <1>5, <2>1, <2>2 DEF OneToOne
<1>9. RingContents(Put(ring[buf_w], v)) = Append(RingContents(ring[buf_w]), v)
  BY <1>7, <1>8, RingSteps DEF T
<1>10. ring \in [Buffer -> Ring(Size, T)]
  BY DEF QInv, TypeOK
<1> HIDE DEF L, T
<1>11. \A i \in 1..L : y[i] = IF i = L THEN Append(x[i], v) ELSE x[i]
  BY <1>2, <1>5, <1>6, <1>7, <1>8, <1>9, <1>10
<1>12. c[L + 1] = <<>> /\ \A i \in 1..L : c[i] = x[i] \o c[i + 1]
  BY <1>5 DEF Laid
<1> DEFINE e == [i \in 1..(L + 1) |-> IF i = L + 1 THEN <<>> ELSE Append(c[i], v)]
<1>13. Laid(y, L, e)
  <2>1. e[L + 1] = <<>>
    BY <1>5
  <2>2. ASSUME NEW i \in 1..L PROVE e[i] = y[i] \o e[i + 1]
    <3>1. /\ i \in 1..(L + 1) /\ i + 1 \in 1..(L + 1) /\ i # L + 1
          /\ (i + 1 = L + 1 <=> i = L)
      BY <1>5
    <3>2. e[i] = Append(c[i], v) /\ c[i] = x[i] \o c[i + 1]
      BY <1>12, <3>1
    <3>3. x[i] \in Seq(T) /\ c[i + 1] \in Seq(T)
      BY <1>5, <3>1
    <3>4. ASSUME NEW a \in Seq(T), NEW b \in Seq(T)
          PROVE  Append(a \o b, v) = a \o Append(b, v)
      <4>1. a \o b \in Seq(T) /\ <<v>> \in Seq(T)
        OBVIOUS
      <4>2. Append(a \o b, v) = (a \o b) \o <<v>> /\ Append(b, v) = b \o <<v>>
        BY <4>1, AppendIsConcat
      <4>3. QED
        BY ONLY <4>1, <4>2, ConcatAssociative, a \in Seq(T), b \in Seq(T)
    <3>5. CASE i = L
      <4>1. /\ c[i + 1] = <<>> /\ e[i + 1] = <<>> /\ y[i] = Append(x[i], v)
        BY <1>11, <1>12, <3>1, <3>5
      <4>2. \A a \in Seq(T) : Append(a \o <<>>, v) = Append(a, v) \o <<>>
        OBVIOUS
      <4>3. QED
        BY <3>2, <3>3, <4>1, <4>2
    <3>6. CASE i # L
      <4>1. e[i + 1] = Append(c[i + 1], v) /\ y[i] = x[i]
        BY <1>11, <3>1, <3>6
      <4>2. QED
        BY <3>2, <3>3, <3>4, <4>1
    <3>7. QED
      BY <3>5, <3>6
  <2> HIDE DEF e
  <2>3. QED
    BY <1>5, <2>1, <2>2 DEF Laid
<1>14. e[1] = Append(c[1], v)
  <2>1. 1 \in 1..(L + 1) /\ 1 # L + 1
    BY <1>5
  <2>2. QED
    BY <2>1
<1>15. e[1] = d[1]
  <2>1. 1 \in 1..(L + 1)
    BY <1>5
  <2> HIDE DEF e
  <2>2. QED
    BY <1>6, <1>13, <2>1, SameLaid
<1>16. QED
  BY <1>2, <1>5, <1>6, <1>7, <1>14, <1>15 DEF T

\* The read of the slot takes the oldest value, unless pop() returns false.
LEMMA TakeFifo ==
    ASSUME QInv, PopTake, Shaped, Shaped'
    PROVE  \/ /\ Contents # <<>> /\ rc' = Head(Contents)
              /\ Contents' = Tail(Contents)
           \/ Contents' = Contents /\ rc' = rc
<1>1. PICK s \in Seq(Node), R \in Seq(Buffer) : Chain(s, R)
  BY DEF QInv
<1> DEFINE L == Len(R)
           T == 1..MaxPushes
<1>2. cpc = "pop" /\ cpc' = "idle" /\ ppc' = ppc
  BY DEF PopTake, CGoto, PopLeaves, pushVars
<1>3. Chain(s, R)'
  <2>1. ~ PushLink /\ ~ PopNext /\ [Next]_vars
    BY <1>2 DEF PushLink, PGoto, PopNext, CGoto, Next, PopStep
  <2>2. QED
    BY <1>1, <2>1, SameChain
<1>4. Shape(R) /\ Shape(R)'
  BY <1>1, <1>3 DEF Shaped
<1>5. PICK x, c : /\ Laid(x, L, c) /\ c[1] = Contents /\ L \in Nat /\ L > 0
                  /\ \A i \in 1..L : x[i] = RingContents(ring[R[i]])
                  /\ \A i \in 1..L : x[i] \in Seq(T)
                  /\ \A i \in 1..(L + 1) : c[i] \in Seq(T)
  BY <1>4 DEF Shape
<1>6. PICK y, d : /\ Laid(y, L, d) /\ d[1] = Contents'
                  /\ \A i \in 1..L : y[i] = RingContents(ring'[R[i]])
  BY <1>4 DEF Shape
<1>7. /\ R[1] = buf_r /\ buf_r \in Buffer /\ 1 \in 1..L
      /\ \A i \in 1..L : R[i] = buf_r => i = 1
      /\ \A i \in 1..L : R[i] \in Buffer
  <2>1. R[1] = Reading /\ Len(s) = L /\ OneToOne(R) /\ \A i \in 1..L : R[i] \in Buffer
    BY <1>1, ChainFacts
  <2>2. Reading = buf_r /\ buf_r \in Buffer
    BY <1>2 DEF QInv, Popping, Reading, TypeOK
  <2>3. QED
    BY <1>5, <2>1, <2>2 DEF OneToOne
<1>8. ring \in [Buffer -> Ring(Size, T)]
  BY DEF QInv, TypeOK
<1>9. CASE Empty(ring[buf_r])
  <2>1. ring' = ring /\ rc' = rc
    BY <1>9 DEF PopTake
  <2>2. \A i \in 1..L : y[i] = x[i]
    BY <1>5, <1>6, <2>1
  <2>3. Laid(x, L, d)
    BY <1>6, <2>2 DEF Laid
  <2>4. c[1] = d[1]
    <3>1. 1 \in 1..(L + 1)
      BY <1>5
    <3>2. Laid(x, L, c)
      BY <1>5
    <3> HIDE DEF L
    <3>3. QED
      BY ONLY <2>3, <3>1, <3>2, SameLaid
  <2>5. QED
    BY <1>5, <1>6, <2>1, <2>4
<1>10. CASE ~ Empty(ring[buf_r])
  <2>1. ring' = [ring EXCEPT ![buf_r] = Inc(@)] /\ rc' = Top(ring[buf_r])
    BY <1>10 DEF PopTake
  <2>2. /\ RingContents(ring[buf_r]) # <<>>
        /\ Top(ring[buf_r]) = Head(RingContents(ring[buf_r]))
        /\ RingContents(Inc(ring[buf_r])) = Tail(RingContents(ring[buf_r]))
    BY <1>7, <1>10, RingSteps
  <2> HIDE DEF L, T
  <2>3. \A i \in 1..L : y[i] = IF i = 1 THEN Tail(x[i]) ELSE x[i]
    <3>1. \A b \in Buffer : ring'[b] = IF b = buf_r THEN Inc(ring[b]) ELSE ring[b]
      BY <1>7, <1>8, <2>1
    <3>2. TAKE i \in 1..L
    <3>3. /\ x[i] = RingContents(ring[R[i]]) /\ y[i] = RingContents(ring'[R[i]])
          /\ R[i] \in Buffer
      BY <1>5, <1>6, <1>7
    <3>4. CASE i = 1
      BY ONLY <1>7, <2>2, <3>1, <3>3, <3>4
    <3>5. CASE i # 1
      BY ONLY <1>7, <3>1, <3>2, <3>3, <3>5
    <3>6. QED
      BY <3>4, <3>5
  <2>4. x[1] # <<>> /\ rc' = Head(x[1])
    BY <1>5, <1>7, <2>1, <2>2
  <2>5. c[L + 1] = <<>> /\ \A i \in 1..L : c[i] = x[i] \o c[i + 1]
    BY <1>5 DEF Laid
  <2>6. /\ c[1] = x[1] \o c[1 + 1] /\ x[1] \in Seq(T) /\ c[1 + 1] \in Seq(T)
    <3>1. 1 + 1 \in 1..(L + 1)
      BY <1>5
    <3>2. QED
      BY <1>5, <1>7, <2>5, <3>1
  <2>7. /\ c[1] # <<>> /\ Head(c[1]) = Head(x[1])
        /\ Tail(c[1]) = Tail(x[1]) \o c[1 + 1]
    <3>1. \A a, b \in Seq(T) : a # <<>> =>
            /\ a \o b # <<>> /\ Head(a \o b) = Head(a) /\ Tail(a \o b) = Tail(a) \o b
      OBVIOUS
    <3>2. QED
      BY <2>4, <2>6, <3>1
  <2> DEFINE e == [i \in 1..(L + 1) |-> IF i = 1 THEN Tail(c[1]) ELSE c[i]]
  <2>8. Laid(y, L, e)
    <3>1. e[L + 1] = <<>>
      BY <1>5, <2>5
    <3>2. ASSUME NEW i \in 1..L PROVE e[i] = y[i] \o e[i + 1]
      <4>1. i \in 1..(L + 1) /\ i + 1 \in 1..(L + 1) /\ i + 1 # 1
        BY <1>5
      <4>2. e[i + 1] = c[i + 1]
        BY <4>1
      <4>3. CASE i = 1
        BY <2>3, <2>7, <4>1, <4>2, <4>3
      <4>4. CASE i # 1
        BY <2>3, <2>5, <4>1, <4>2, <4>4
      <4>5. QED
        BY <4>3, <4>4
    <3> HIDE DEF e
    <3>3. QED
      BY <1>5, <3>1, <3>2 DEF Laid
  <2>9. e[1] = Tail(c[1])
    <3>1. 1 \in 1..(L + 1)
      BY <1>5
    <3>2. QED
      BY <3>1
  <2>10. e[1] = d[1]
    <3>1. 1 \in 1..(L + 1)
      BY <1>5
    <3> HIDE DEF e
    <3>2. QED
      BY <1>6, <2>8, <3>1, SameLaid
  <2>11. QED
    BY <1>5, <1>6, <2>4, <2>7, <2>9, <2>10
<1>11. QED
  BY <1>9, <1>10

\* Each step of the two threads is a step of the queue, or none.
LEMMA StepFifo ==
    ASSUME QInv, [Next]_vars, Shaped, Shaped'
    PROVE  [Fifo!Next]_<<Contents, [c \in {"consumer"} |-> rc]>>
<1>1. ASSUME Contents' = Contents /\ rc' = rc
      PROVE  [Fifo!Next]_<<Contents, [c \in {"consumer"} |-> rc]>>
  BY <1>1
<1>2. CASE PushLink
  BY <1>1, <1>2, LinkFifo
<1>3. CASE PopNext
  BY <1>1, <1>3, NextFifo
<1>4. CASE PushPut
  <2>1. Contents' = Append(Contents, data) /\ rc' = rc /\ data \in 1..MaxPushes
    BY <1>4, PutFifo
  <2>2. Fifo!Enqueue(data)
    BY <2>1 DEF Fifo!Enqueue
  <2>3. QED
    BY <2>1, <2>2 DEF Fifo!Next
<1>5. CASE PopTake
  <2>1. CASE /\ Contents # <<>> /\ rc' = Head(Contents)
             /\ Contents' = Tail(Contents)
    <3>1. [c \in {"consumer"} |-> rc'] =
            [[c \in {"consumer"} |-> rc] EXCEPT !["consumer"] = Head(Contents)]
      BY <2>1
    <3>2. Fifo!Dequeue("consumer")
      BY <2>1, <3>1 DEF Fifo!Dequeue
    <3>3. QED
      BY <3>2 DEF Fifo!Next
  <2>2. QED
    BY <1>1, <1>5, <2>1, TakeFifo
<1>6. CASE ~ PushLink /\ ~ PopNext /\ ~ PushPut /\ ~ PopTake
  BY <1>1, <1>6, QuietFifo
<1>7. QED
  BY <1>2, <1>3, <1>4, <1>5, <1>6

\* The queue that the constructor leaves is empty.
LEMMA InitFifo == Init => Fifo!Init
<1> SUFFICES ASSUME Init PROVE Fifo!Init
  OBVIOUS
<1>1. QInv
  BY InitQInv
<1>2. PICK rank, bound : Ranked(rank, bound)
  BY <1>1 DEF QInv, Acyclic
<1>3. PICK from : Unrolled(from)
  BY <1>2, ContentsUnrolled, Sorts
<1>4. /\ head \in Node /\ Reading \in Buffer /\ ring[Reading] = NewRing(Size) /\ rc = NULL
  BY <1>1 DEF QInv, TypeOK, ListTypeOK, Init, Reading
<1>5. ListNext = NULL
  BY <1>4 DEF Init, ListInit, ListNext
<1>6. RingContents(NewRing(Size)) = <<>>
  BY Sorts, NewRingFacts, EmptyFacts
<1>7. Contents = <<>> \o <<>>
  BY <1>3, <1>4, <1>5, <1>6 DEF Unrolled
<1>8. Contents = <<>>
  BY ONLY <1>7
<1>9. QED
  BY <1>4, <1>8 DEF Fifo!Init

(* The chain of rings implements a first-in first-out queue without a lock: *)
(* every value pushed is popped once, in the order of the pushes, whatever  *)
(* the steps of the other thread that come between those of push() and      *)
(* those of pop().                                                          *)
THEOREM KeepsFifo == Spec => ImplementsFifo
  BY InitFifo, StepFifo, ChainShape, Invariance, PTL DEF Spec, ImplementsFifo, Fifo!Spec
-----------------------------------------------------------------------------
\* The threads counted in the round after round m.
Ahead(m) == {p \in Thread : Arrived(p) = m + 1}

\* Round m is the last that all have arrived in; w is its counter.
Phase(m, w) ==
    /\ \A p \in Thread : Arrived(p) \in {m, m + 1}
    /\ \A p \in Thread : Arrived(p) = m + 1 => pc[p] = "spin" /\ barArray[p] = 1 - w
    /\ \A p \in Thread : Arrived(p) = m =>
           barArray[p] = IF pc[p] = "count" THEN 1 - w ELSE w
    /\ \E p \in Thread : Arrived(p) = m
    /\ B[1 - w] = Cardinality(Ahead(m))
    /\ \A p \in Thread : pc[p] = "reset" =>
           /\ B[w] = Cardinality(Thread)
           /\ \A u \in Thread \ {p} : pc[u] # "reset"
    /\ (\A p \in Thread : pc[p] # "reset") => B[w] = 0

Types ==
    /\ B \in [0..1 -> Nat]
    /\ barArray \in [Thread -> 0..1]
    /\ pc \in [Thread -> {"out", "count", "spin", "reset"}]
    /\ round \in [Thread -> 0..MaxRounds]

IInv == Types /\ \E m \in Int, w \in 0..1 : Phase(m, w)

\* The number of threads is a positive number.
LEMMA ThreadCount == Cardinality(Thread) \in Nat /\ Cardinality(Thread) > 0
  BY FS_CardinalityType, FS_EmptySet, ThreadAssumption

\* The threads ahead are a finite set, at most all of them.
LEMMA AheadFinite ==
  ASSUME NEW m
  PROVE  /\ IsFiniteSet(Ahead(m)) /\ Cardinality(Ahead(m)) \in Nat
         /\ Cardinality(Ahead(m)) <= Cardinality(Thread)
         /\ Cardinality(Ahead(m)) = Cardinality(Thread) => Ahead(m) = Thread
<1>1. Ahead(m) \subseteq Thread
  BY DEF Ahead
<1> QED
  BY <1>1, FS_Subset, FS_CardinalityType, ThreadAssumption

\* The invariant holds when barrierSetup() returns.
LEMMA InitIInv == BarrierInit => IInv
<1> SUFFICES ASSUME BarrierInit PROVE IInv
  OBVIOUS
<1>1. Types
  BY RoundsAssumption DEF BarrierInit, Types
<1>2. \A p \in Thread : Arrived(p) = 0
  BY DEF BarrierInit, Arrived
<1>3. Ahead(0) = {}
  BY <1>2 DEF Ahead
<1>4. Phase(0, 0)
  BY <1>2, <1>3, FS_EmptySet, ThreadAssumption DEF BarrierInit, Phase
<1> QED
  BY <1>1, <1>4 DEF IInv

\* Entering a round counts nobody yet: the phase stays.
LEMMA EnterPhase ==
  ASSUME Types, NEW m \in Int, NEW w \in 0..1, Phase(m, w),
         NEW p \in Thread, Enter(p)
  PROVE  Types' /\ Phase(m, w)'
<1> USE DEF Enter, Goto, Types
<1>1. Types'
  BY RoundsAssumption
<1>2. \A u \in Thread : Arrived(u)' = Arrived(u)
  BY DEF Arrived
<1>3. Ahead(m)' = Ahead(m)
  BY <1>2 DEF Ahead
<1>4. Arrived(p) = m /\ barArray[p] = w
  BY DEF Phase
<1>5. \A u \in Thread : Arrived(u)' = m =>
          barArray'[u] = IF pc'[u] = "count" THEN 1 - w ELSE w
  BY <1>2, <1>4 DEF Phase
<1>6. \A u \in Thread : Arrived(u)' = m + 1 => pc'[u] = "spin" /\ barArray'[u] = 1 - w
  BY <1>2, <1>4 DEF Phase
<1>7. \A u \in Thread : pc'[u] = "reset" <=> pc[u] = "reset"
  OBVIOUS
<1> QED
  BY <1>1, <1>2, <1>3, <1>5, <1>6, <1>7 DEF Phase

\* The count of a thread: it joins the ones ahead, or completes the round.
LEMMA CountPhase ==
  ASSUME Types, NEW m \in Int, NEW w \in 0..1, Phase(m, w),
         NEW p \in Thread, Count(p)
  PROVE  Types' /\ (Phase(m, w)' \/ Phase(m + 1, 1 - w)')
<1> USE DEF Count, Goto, Types
<1> DEFINE N == Cardinality(Thread)
<1>0. N \in Nat /\ N > 0
  BY ThreadCount
<1>1. Types'
  OBVIOUS
<1>2. Arrived(p) = m /\ barArray[p] = 1 - w
  BY DEF Phase
<1>3. Arrived(p)' = m + 1
  BY <1>2 DEF Arrived
<1>4. \A u \in Thread \ {p} : Arrived(u)' = Arrived(u) /\ pc'[u] = pc[u]
  BY DEF Arrived
<1>5. Ahead(m)' = Ahead(m) \cup {p} /\ p \notin Ahead(m)
  BY <1>2, <1>3, <1>4 DEF Ahead
<1>6. Cardinality(Ahead(m)') = Cardinality(Ahead(m)) + 1
  BY <1>5, AheadFinite, FS_AddElement
<1>7. B[1 - w] = Cardinality(Ahead(m)) /\ B'[1 - w] = Cardinality(Ahead(m)') /\ B'[w] = B[w]
  BY <1>2, <1>6 DEF Phase
<1>8. Ahead(m)' \subseteq Thread
  BY DEF Ahead
<1>9. CASE B[1 - w] + 1 # N
  <2>1. pc'[p] = "spin"
    BY <1>2, <1>9
  <2>2. Ahead(m)' # Thread
    BY <1>6, <1>7, <1>9
  <2>3. \A u \in Thread : Arrived(u)' \in {m, m + 1}
    BY <1>3, <1>4 DEF Phase
  <2>4. \E u \in Thread : Arrived(u)' = m
    BY <2>2, <2>3, <1>8 DEF Ahead
  <2>5. \A u \in Thread : Arrived(u)' = m + 1 => pc'[u] = "spin" /\ barArray'[u] = 1 - w
    BY <1>2, <1>4, <2>1 DEF Phase
  <2>6. \A u \in Thread : Arrived(u)' = m =>
            barArray'[u] = IF pc'[u] = "count" THEN 1 - w ELSE w
    BY <1>3, <1>4 DEF Phase
  <2>7. \A u \in Thread : pc'[u] = "reset" <=> pc[u] = "reset"
    BY <1>4, <2>1
  <2>8. Phase(m, w)'
    BY <2>3, <2>4, <2>5, <2>6, <2>7, <1>7 DEF Phase
  <2> QED
    BY <1>1, <2>8
<1>10. CASE B[1 - w] + 1 = N
  <2>1. pc'[p] = "reset"
    BY <1>2, <1>10
  <2>2. Ahead(m)' = Thread
    <3>1. IsFiniteSet(Ahead(m)')
      BY <1>8, FS_Subset, ThreadAssumption
    <3> QED
      BY <3>1, <1>6, <1>7, <1>8, <1>10, FS_Subset, ThreadAssumption
  <2>3. \A u \in Thread : Arrived(u)' = m + 1
    BY <2>2 DEF Ahead
  <2>4. \A u \in Thread \ {p} : pc[u] = "spin" /\ barArray[u] = 1 - w
    BY <2>3, <1>4 DEF Phase
  <2>5. \A u \in Thread \ {p} : pc'[u] = "spin" /\ barArray'[u] = 1 - w
    BY <2>4, <1>4
  <2>6. B[w] = 0
    BY <2>4 DEF Phase
  <2>7. Ahead(m + 1)' = {}
    BY <2>3 DEF Ahead
  <2>8. B'[w] = Cardinality(Ahead(m + 1)')
    BY <2>6, <2>7, <1>7, FS_EmptySet
  <2>9. B'[1 - w] = N
    BY <1>2, <1>10
  <2>10. 1 - (1 - w) = w
    OBVIOUS
  <2>11. \A u \in Thread : barArray'[u] = 1 - w /\ pc'[u] # "count"
    BY <1>2, <2>1, <2>5
  <2>12. Phase(m + 1, 1 - w)'
    BY <2>1, <2>3, <2>5, <2>8, <2>9, <2>10, <2>11 DEF Phase
  <2> QED
    BY <1>1, <2>12
<1> QED
  BY <1>9, <1>10

\* The reset touches the counter of the complete round only.
LEMMA ResetPhase ==
  ASSUME Types, NEW m \in Int, NEW w \in 0..1, Phase(m, w),
         NEW p \in Thread, Reset(p)
  PROVE  Types' /\ Phase(m, w)'
<1> USE DEF Reset, Goto, Types
<1>1. Types'
  OBVIOUS
<1>2. \A u \in Thread : Arrived(u)' = Arrived(u)
  BY DEF Arrived
<1>3. Ahead(m)' = Ahead(m)
  BY <1>2 DEF Ahead
<1>4. Arrived(p) = m /\ barArray[p] = w
  BY DEF Phase
<1>5. B'[w] = 0 /\ B'[1 - w] = B[1 - w]
  BY <1>4
<1>6. \A u \in Thread : pc'[u] # "reset"
  BY DEF Phase
<1>7. \A u \in Thread : pc'[u] = "count" <=> pc[u] = "count"
  OBVIOUS
<1>8. \A u \in Thread : Arrived(u)' = m + 1 => pc'[u] = "spin" /\ barArray'[u] = 1 - w
  BY <1>2, <1>4 DEF Phase
<1> QED
  BY <1>1, <1>2, <1>3, <1>5, <1>6, <1>7, <1>8 DEF Phase

\* Only a thread of the complete round can find its counter at 0.
LEMMA SpinPhase ==
  ASSUME Types, NEW m \in Int, NEW w \in 0..1, Phase(m, w),
         NEW p \in Thread, Spin(p)
  PROVE  Types' /\ Phase(m, w)'
<1> USE DEF Spin, Goto, Types
<1>1. Types'
  OBVIOUS
<1>2. \A u \in Thread : Arrived(u)' = Arrived(u)
  BY DEF Arrived
<1>3. Ahead(m)' = Ahead(m)
  BY <1>2 DEF Ahead
<1>4. Arrived(p) = m
  <2> SUFFICES ASSUME Arrived(p) = m + 1 PROVE FALSE
    BY DEF Phase
  <2>1. p \in Ahead(m)
    BY DEF Ahead
  <2>2. Cardinality(Ahead(m)) # 0
    BY <2>1, AheadFinite, FS_EmptySet
  <2>3. barArray[p] = 1 - w
    BY DEF Phase
  <2> QED
    BY <2>2, <2>3 DEF Phase
<1>5. \A u \in Thread : Arrived(u)' = m + 1 => pc'[u] = "spin" /\ barArray'[u] = 1 - w
  BY <1>2, <1>4 DEF Phase
<1>6. \A u \in Thread : /\ pc'[u] = "count" <=> pc[u] = "count"
                        /\ pc'[u] = "reset" <=> pc[u] = "reset"
  OBVIOUS
<1> QED
  BY <1>1, <1>2, <1>3, <1>5, <1>6 DEF Phase

\* Every step of doBarrier() keeps it.
LEMMA NextIInv == IInv /\ [BarrierNext]_barrierVars => IInv'
<1> SUFFICES ASSUME IInv, [BarrierNext]_barrierVars PROVE IInv'
  OBVIOUS
<1>1. PICK m \in Int, w \in 0..1 : Phase(m, w)
  BY DEF IInv
<1>2. Types
  BY DEF IInv
<1>3. CASE UNCHANGED barrierVars
  <2>1. Types' /\ Phase(m, w)'
    BY <1>1, <1>2, <1>3 DEF barrierVars, Types, Phase, Ahead, Arrived
  <2> QED
    BY <2>1 DEF IInv
<1>4. CASE BarrierNext
  <2>1. PICK p \in Thread : doBarrier(p)
    BY <1>4 DEF BarrierNext
  <2>2. CASE Enter(p)
    BY <1>1, <1>2, <2>2, EnterPhase DEF IInv
  <2>3. CASE Count(p)
    <3>1. Types' /\ (Phase(m, w)' \/ Phase(m + 1, 1 - w)')
      BY <1>1, <1>2, <2>3, CountPhase
    <3>2. m + 1 \in Int /\ 1 - w \in 0..1
      OBVIOUS
    <3> QED
      BY <3>1, <3>2 DEF IInv
  <2>4. CASE Reset(p)
    BY <1>1, <1>2, <2>4, ResetPhase DEF IInv
  <2>5. CASE Spin(p)
    BY <1>1, <1>2, <2>5, SpinPhase DEF IInv
  <2> QED
    BY <2>1, <2>2, <2>3, <2>4, <2>5 DEF doBarrier
<1> QED
  BY <1>3, <1>4

\* It implies what the run checks.
LEMMA IInvImplies == IInv => BarrierTypeOK /\ Agreement /\ ResetIsLast
<1> SUFFICES ASSUME IInv PROVE BarrierTypeOK /\ Agreement /\ ResetIsLast
  OBVIOUS
<1>1. PICK m \in Int, w \in 0..1 : Phase(m, w)
  BY DEF IInv
<1>2. BarrierTypeOK
  <2>1. B[1 - w] \in 0..Cardinality(Thread)
    BY <1>1, AheadFinite, ThreadCount DEF Phase
  <2>2. B[w] \in 0..Cardinality(Thread)
    BY <1>1, ThreadCount DEF Phase
  <2>3. \A k \in 0..1 : k = w \/ k = 1 - w
    OBVIOUS
  <2>4. B \in [0..1 -> 0..Cardinality(Thread)]
    BY <2>1, <2>2, <2>3 DEF IInv, Types
  <2> QED
    BY <2>4 DEF IInv, Types, BarrierTypeOK
<1>3. Agreement
  <2>1. \A p \in Thread : Left(p) <= m
    BY <1>1, RoundsAssumption DEF IInv, Types, Phase, Left, Arrived
  <2>2. \A u \in Thread : m <= Arrived(u)
    BY <1>1 DEF Phase
  <2>3. \A p \in Thread : Left(p) \in Int /\ Arrived(p) \in Int
    BY RoundsAssumption DEF IInv, Types, Left, Arrived
  <2> QED
    BY <2>1, <2>2, <2>3 DEF Agreement
<1>4. ResetIsLast
  <2>1. \A p \in Thread : pc[p] = "reset" => Arrived(p) = m /\ barArray[p] = w
    BY <1>1 DEF Phase
  <2> QED
    BY <1>1, <2>1 DEF ResetIsLast, Phase
<1> QED
  BY <1>2, <1>3, <1>4

(* The counters and indices of spinBarrier stay in range, in any number of *)
(* rounds: no counter ever exceeds the number of threads.                  *)
THEOREM BarrierTypes == BarrierSpec => []BarrierTypeOK
  BY InitIInv, NextIInv, IInvImplies, PTL DEF BarrierSpec

(* No thread leaves a round of doBarrier() before every thread of the      *)
(* barrier has arrived in it.                                              *)
THEOREM BarrierAgreement == BarrierSpec => []Agreement
  BY InitIInv, NextIInv, IInvImplies, PTL DEF BarrierSpec

(* The last thread of a round resets a counter that holds all arrivals and *)
(* that nobody else is resetting, so no arrival is wiped out.              *)
THEOREM BarrierReset == BarrierSpec => []ResetIsLast
  BY InitIInv, NextIInv, IInvImplies, PTL DEF BarrierSpec
=============================================================================
