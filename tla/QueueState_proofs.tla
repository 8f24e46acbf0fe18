-------------------------- MODULE QueueState_proofs --------------------------
(***************************************************************************)
(* What each statement of queue<T> does to the record that models it.      *)
(***************************************************************************)
EXTENDS QueueState, SequenceTheorems, FiniteSetTheorems, TLAPS

\* A queue starts empty with nobody waiting.
LEMMA NewQueueFacts ==
    ASSUME NEW Item, NEW Thread
    PROVE  /\ NewQueue \in QueueRecord(Item, Thread)
           /\ NewQueue.d_queue = <<>>
           /\ NewQueue.d_condition = {}
BY DEF NewQueue, QueueRecord

\* push_front() makes the deque one longer and wakes nobody.
LEMMA PushFrontFacts ==
    ASSUME NEW Item, NEW Thread, NEW q \in QueueRecord(Item, Thread),
           NEW v \in Item
    PROVE  /\ PushFront(q, v) \in QueueRecord(Item, Thread)
           /\ PushFront(q, v).d_queue = Append(q.d_queue, v)
           /\ PushFront(q, v).d_condition = q.d_condition
           /\ Len(PushFront(q, v).d_queue) = Len(q.d_queue) + 1
<1>1. /\ q = [d_queue |-> q.d_queue, d_condition |-> q.d_condition]
      /\ q.d_queue \in Seq(Item) /\ q.d_condition \in SUBSET Thread
  BY DEF QueueRecord
<1>2. PushFront(q, v) =
        [d_queue |-> Append(q.d_queue, v), d_condition |-> q.d_condition]
  BY <1>1 DEF PushFront
<1>3. /\ Append(q.d_queue, v) \in Seq(Item)
      /\ Len(Append(q.d_queue, v)) = Len(q.d_queue) + 1
  BY <1>1, AppendProperties
<1>4. QED
  BY <1>1, <1>2, <1>3 DEF QueueRecord

\* back() is a value of the deque, and pop_back() leaves the rest of it.
LEMMA PopBackFacts ==
    ASSUME NEW Item, NEW Thread, NEW q \in QueueRecord(Item, Thread),
           Nonempty(q)
    PROVE  /\ Back(q) \in Item
           /\ PopBack(q) \in QueueRecord(Item, Thread)
           /\ PopBack(q).d_queue = Tail(q.d_queue)
           /\ PopBack(q).d_condition = q.d_condition
           /\ Len(PopBack(q).d_queue) = Len(q.d_queue) - 1
<1>1. /\ q = [d_queue |-> q.d_queue, d_condition |-> q.d_condition]
      /\ q.d_queue \in Seq(Item) /\ q.d_condition \in SUBSET Thread
      /\ q.d_queue # <<>>
  BY DEF QueueRecord, Nonempty
<1>2. PopBack(q) =
        [d_queue |-> Tail(q.d_queue), d_condition |-> q.d_condition]
  BY <1>1, SMTT(30) DEF PopBack
<1>3. /\ Head(q.d_queue) \in Item
      /\ Tail(q.d_queue) \in Seq(Item)
      /\ Len(Tail(q.d_queue)) = Len(q.d_queue) - 1
  BY <1>1, HeadTailProperties
<1>4. QED
  BY <1>1, <1>2, <1>3 DEF Back, QueueRecord

\* wait() adds its caller to the sleepers and leaves the deque alone.
LEMMA SleepFacts ==
    ASSUME NEW Item, NEW Thread, NEW q \in QueueRecord(Item, Thread),
           NEW t \in Thread
    PROVE  /\ Sleep(q, t) \in QueueRecord(Item, Thread)
           /\ Sleep(q, t).d_queue = q.d_queue
           /\ Sleep(q, t).d_condition = q.d_condition \cup {t}
BY DEF Sleep, QueueRecord

\* A wake-up removes one sleeper and leaves the deque alone.
LEMMA WakeUpFacts ==
    ASSUME NEW Item, NEW Thread, NEW q \in QueueRecord(Item, Thread), NEW t
    PROVE  /\ WakeUp(q, t) \in QueueRecord(Item, Thread)
           /\ WakeUp(q, t).d_queue = q.d_queue
           /\ WakeUp(q, t).d_condition = q.d_condition \ {t}
BY DEF WakeUp, QueueRecord

\* notify_one() changes nothing when nobody sleeps and wakes one sleeper
\* otherwise.
LEMMA NotifyOneFacts ==
    ASSUME NEW Item, NEW Thread, NEW q \in QueueRecord(Item, Thread),
           NEW r \in NotifyOne(q)
    PROVE  /\ r \in QueueRecord(Item, Thread)
           /\ r.d_queue = q.d_queue
           /\ q.d_condition = {} => r = q
           /\ q.d_condition # {} =>
                \E t \in q.d_condition : r.d_condition = q.d_condition \ {t}
<1>1. CASE q.d_condition = {}
  BY <1>1 DEF NotifyOne
<1>2. CASE q.d_condition # {}
  <2>1. PICK t \in q.d_condition : r = WakeUp(q, t)
    BY <1>2 DEF NotifyOne
  <2>2. QED
    BY <1>2, <2>1, WakeUpFacts
<1>3. QED
  BY <1>1, <1>2
-----------------------------------------------------------------------------
\* A value is at finitely many positions of a deque.
LEMMA PositionsFinite ==
    ASSUME NEW S, NEW s \in Seq(S), NEW x
    PROVE  /\ Positions(s, x) \in SUBSET (1..Len(s))
           /\ IsFiniteSet(Positions(s, x))
           /\ Cardinality(Positions(s, x)) \in Nat
<1>1. Len(s) \in Nat /\ DOMAIN s = 1..Len(s)
  OBVIOUS
<1>2. Positions(s, x) \in SUBSET (1..Len(s))
  BY <1>1 DEF Positions
<1>3. IsFiniteSet(1..Len(s))
  BY <1>1, FS_Interval
<1>4. QED
  BY <1>2, <1>3, FS_Subset, FS_CardinalityType

\* push_front(v) adds one position of v and keeps those of the others.
LEMMA PositionsAppend ==
    ASSUME NEW S, NEW s \in Seq(S), NEW v \in S, NEW x
    PROVE  Cardinality(Positions(Append(s, v), x)) =
             Cardinality(Positions(s, x)) + (IF v = x THEN 1 ELSE 0)
<1> DEFINE n == Len(s) + 1
<1>1. /\ n \in Nat /\ DOMAIN s = 1..Len(s)
      /\ DOMAIN Append(s, v) = 1..n
      /\ \A k \in 1..Len(s) : Append(s, v)[k] = s[k]
      /\ Append(s, v)[n] = v
  BY AppendProperties
<1>2. CASE v = x
  <2>1. Positions(Append(s, v), x) = Positions(s, x) \cup {n}
    BY <1>1, <1>2 DEF Positions
  <2>2. n \notin Positions(s, x)
    BY <1>1 DEF Positions
  <2>3. QED
    BY <1>2, <2>1, <2>2, PositionsFinite, FS_AddElement
<1>3. CASE v # x
  <2>1. Positions(Append(s, v), x) = Positions(s, x)
    BY <1>1, <1>3 DEF Positions
  <2>2. QED
    BY <1>3, <2>1, PositionsFinite
<1>4. QED
  BY <1>2, <1>3

\* pop_back() removes one position of the value it removes.
LEMMA PositionsTail ==
    ASSUME NEW S, NEW s \in Seq(S), s # <<>>, NEW x
    PROVE  Cardinality(Positions(Tail(s), x)) =
             Cardinality(Positions(s, x)) - (IF Head(s) = x THEN 1 ELSE 0)
<1> DEFINE T == Positions(Tail(s), x)
           P == Positions(s, x) \ {1}
           f == [k \in T |-> k + 1]
<1>1. /\ Len(s) \in Nat \ {0} /\ DOMAIN s = 1..Len(s)
      /\ Tail(s) \in Seq(S)
      /\ DOMAIN Tail(s) = 1..(Len(s) - 1)
      /\ \A k \in 1..(Len(s) - 1) : Tail(s)[k] = s[k + 1]
      /\ Head(s) = s[1]
  BY EmptySeq, HeadTailProperties
<1>2. f \in Bijection(T, P)
  <2>1. f \in [T -> P]
    BY <1>1 DEF Positions
  <2>2. \A j, k \in T : f[j] = f[k] => j = k
    BY <1>1 DEF Positions
  <2>3. \A k \in P : k - 1 \in T /\ f[k - 1] = k
    BY <1>1 DEF Positions
  <2>4. \A k \in P : \E j \in T : f[j] = k
    BY <2>3
  <2>5. QED
    BY <2>1, <2>2, <2>4 DEF Bijection, Injection, Surjection, IsInjective
<1>3. Cardinality(P) = Cardinality(T)
  <2>1. IsFiniteSet(T)
    BY <1>1, PositionsFinite
  <2>2. QED
    BY <1>2, <2>1, FS_Bijection DEF ExistsBijection
<1>4. Cardinality(P) =
        Cardinality(Positions(s, x)) - (IF Head(s) = x THEN 1 ELSE 0)
  <2>1. 1 \in Positions(s, x) <=> Head(s) = x
    BY <1>1 DEF Positions
  <2>2. IsFiniteSet(Positions(s, x)) /\ Cardinality(Positions(s, x)) \in Nat
    BY PositionsFinite
  <2>3. Cardinality(P) = IF 1 \in Positions(s, x)
                         THEN Cardinality(Positions(s, x)) - 1
                         ELSE Cardinality(Positions(s, x))
    BY <2>2, FS_RemoveElement
  <2>4. QED
    BY <2>1, <2>2, <2>3
<1>5. QED
  BY <1>3, <1>4
-----------------------------------------------------------------------------
\* A sequence over S for each index in I.
Family(I, S) == [I -> Seq(S)]

\* A value is at finitely many places of a finite family of sequences.
LEMMA SpotsFinite ==
    ASSUME NEW I, IsFiniteSet(I), NEW S, NEW L \in Family(I, S), NEW x
    PROVE  IsFiniteSet(Spots(L, x)) /\ Cardinality(Spots(L, x)) \in Nat
<1> DEFINE at == [i \in I |-> {<<i, k>> : k \in Positions(L[i], x)}]
           T  == {{<<i, k>> : k \in Positions(L[i], x)} : i \in I}
<1>a. DOMAIN L = I /\ \A i \in I : L[i] \in Seq(S)
  BY DEF Family
<1>1. at \in Surjection(I, T)
  <2>1. at \in [I -> T]
    OBVIOUS
  <2>2. \A t \in T : \E i \in I : at[i] = t
    OBVIOUS
  <2>3. QED
    BY <2>1, <2>2 DEF Surjection
<1>2. IsFiniteSet(T)
  BY <1>1, FS_Surjection
<1>3. ASSUME NEW i \in I
      PROVE  IsFiniteSet({<<i, k>> : k \in Positions(L[i], x)})
  <2>1. IsFiniteSet(Positions(L[i], x)) /\ IsFiniteSet({i})
    BY <1>a, PositionsFinite, FS_Singleton
  <2>2. IsFiniteSet({i} \X Positions(L[i], x))
    BY <2>1, FS_Product
  <2>3. {<<i, k>> : k \in Positions(L[i], x)} \subseteq {i} \X Positions(L[i], x)
    OBVIOUS
  <2>4. QED
    BY <2>2, <2>3, FS_Subset
<1>4. IsFiniteSet(UNION T)
  BY <1>2, <1>3, FS_UNION
<1>5. Spots(L, x) = UNION T
  BY <1>a DEF Spots
<1>6. QED
  BY <1>4, <1>5, FS_CardinalityType

\* When one sequence of the family changes, only its own places count.
LEMMA SpotsChange ==
    ASSUME NEW I, IsFiniteSet(I), NEW S, NEW L \in Family(I, S),
           NEW M \in Family(I, S), NEW i \in I,
           \A j \in I \ {i} : M[j] = L[j], NEW x
    PROVE  Cardinality(Spots(M, x)) + Cardinality(Positions(L[i], x))
             = Cardinality(Spots(L, x)) + Cardinality(Positions(M[i], x))
<1> DEFINE At(s) == {<<i, k>> : k \in Positions(s, x)}
           Rest == {p \in Spots(L, x) : p[1] # i}
<1>a. \A N \in Family(I, S) : DOMAIN N = I /\ \A j \in I : N[j] \in Seq(S)
  BY DEF Family
<1>1. ASSUME NEW s \in Seq(S)
      PROVE  /\ IsFiniteSet(At(s)) /\ Cardinality(At(s)) \in Nat
             /\ Cardinality(At(s)) = Cardinality(Positions(s, x))
  <2> DEFINE f == [k \in Positions(s, x) |-> <<i, k>>]
  <2>1. f \in Bijection(Positions(s, x), At(s))
    BY DEF Bijection, Injection, Surjection, IsInjective
  <2>2. IsFiniteSet(Positions(s, x))
    BY PositionsFinite
  <2>3. IsFiniteSet(At(s)) /\ Cardinality(At(s)) = Cardinality(Positions(s, x))
    BY <2>1, <2>2, FS_Bijection DEF ExistsBijection
  <2>4. QED
    BY <2>3, FS_CardinalityType
<1>2. IsFiniteSet(Rest) /\ Cardinality(Rest) \in Nat
  BY SpotsFinite, FS_Subset, FS_CardinalityType
<1>3. ASSUME NEW N \in Family(I, S), \A j \in I \ {i} : N[j] = L[j]
      PROVE  Spots(N, x) = Rest \cup At(N[i])
  <2>1. ASSUME NEW p \in Spots(N, x) PROVE p \in Rest \cup At(N[i])
    <3>0. PICK j \in I : p \in {<<j, k>> : k \in Positions(N[j], x)}
      BY <1>a DEF Spots
    <3>1. PICK k \in Positions(N[j], x) : p = <<j, k>>
      BY <3>0
    <3>2. CASE j = i
      BY <3>1, <3>2
    <3>3. CASE j # i
      <4>1. k \in Positions(L[j], x)
        BY <1>3, <3>1, <3>3
      <4>2. p \in Spots(L, x)
        BY <1>a, <3>1, <4>1 DEF Spots
      <4>3. QED
        BY <3>1, <3>3, <4>2
    <3>4. QED
      BY <3>2, <3>3
  <2>2. ASSUME NEW p \in Rest PROVE p \in Spots(N, x)
    <3>0. PICK j \in I : p \in {<<j, k>> : k \in Positions(L[j], x)}
      BY <1>a DEF Spots
    <3>1. PICK k \in Positions(L[j], x) : p = <<j, k>>
      BY <3>0
    <3>2. j # i
      BY <3>1
    <3>3. k \in Positions(N[j], x)
      BY <1>3, <3>1, <3>2
    <3>4. QED
      BY <1>a, <3>1, <3>3 DEF Spots
  <2>3. At(N[i]) \subseteq Spots(N, x)
    BY <1>a DEF Spots
  <2>4. QED
    BY <2>1, <2>2, <2>3
<1>4. ASSUME NEW s \in Seq(S)
      PROVE  Cardinality(Rest \cup At(s))
               = Cardinality(Rest) + Cardinality(Positions(s, x))
  <2>1. Rest \cap At(s) = {}
    OBVIOUS
  <2>2. IsFiniteSet(At(s)) /\ Cardinality(At(s)) = Cardinality(Positions(s, x))
        /\ Cardinality(At(s)) \in Nat
    BY <1>1
  <2> HIDE DEF Rest, At
  <2>3. Cardinality(Rest \cap At(s)) = 0
    BY <2>1, FS_EmptySet
  <2>4. Cardinality(Rest \cup At(s)) = Cardinality(Rest) + Cardinality(At(s))
                                       - Cardinality(Rest \cap At(s))
    BY <1>2, <2>2, FS_Union
  <2>5. QED
    BY <1>2, <2>2, <2>3, <2>4
<1> HIDE DEF At, Rest
<1>5. Cardinality(Spots(L, x)) = Cardinality(Rest) + Cardinality(Positions(L[i], x))
  BY <1>a, <1>3, <1>4
<1>6. Cardinality(Spots(M, x)) = Cardinality(Rest) + Cardinality(Positions(M[i], x))
  BY <1>a, <1>3, <1>4
<1>7. /\ Cardinality(Positions(L[i], x)) \in Nat
      /\ Cardinality(Positions(M[i], x)) \in Nat
  BY <1>a, PositionsFinite
<1>8. QED
  BY <1>2, <1>5, <1>6, <1>7

\* A value added at the end of one sequence is at one place more.
LEMMA SpotsAppend ==
    ASSUME NEW I, IsFiniteSet(I), NEW S, NEW L \in Family(I, S),
           NEW M \in Family(I, S), NEW i \in I, NEW v \in S,
           \A j \in I \ {i} : M[j] = L[j], M[i] = Append(L[i], v), NEW x
    PROVE  Cardinality(Spots(M, x)) =
             Cardinality(Spots(L, x)) + (IF v = x THEN 1 ELSE 0)
<1>a. L[i] \in Seq(S) /\ M[i] \in Seq(S)
  BY DEF Family
<1>b. /\ IsFiniteSet(I) /\ i \in I /\ \A j \in I \ {i} : M[j] = L[j]
      /\ L \in Family(I, S) /\ M \in Family(I, S)
  OBVIOUS
<1>1. Cardinality(Spots(M, x)) + Cardinality(Positions(L[i], x))
        = Cardinality(Spots(L, x)) + Cardinality(Positions(M[i], x))
  BY ONLY <1>b, SpotsChange
<1>2. Cardinality(Positions(M[i], x)) =
        Cardinality(Positions(L[i], x)) + (IF v = x THEN 1 ELSE 0)
  BY <1>a, PositionsAppend
<1>3. /\ Cardinality(Spots(M, x)) \in Nat /\ Cardinality(Spots(L, x)) \in Nat
      /\ Cardinality(Positions(L[i], x)) \in Nat
  BY <1>a, SpotsFinite, PositionsFinite
<1>4. QED
  BY ONLY <1>1, <1>2, <1>3

\* A value taken from the front of one sequence is at one place less.
LEMMA SpotsTail ==
    ASSUME NEW I, IsFiniteSet(I), NEW S, NEW L \in Family(I, S),
           NEW M \in Family(I, S), NEW i \in I, L[i] # <<>>,
           \A j \in I \ {i} : M[j] = L[j], M[i] = Tail(L[i]), NEW x
    PROVE  Cardinality(Spots(M, x)) =
             Cardinality(Spots(L, x)) - (IF Head(L[i]) = x THEN 1 ELSE 0)
<1>a. L[i] \in Seq(S) /\ M[i] \in Seq(S)
  BY DEF Family
<1>b. /\ IsFiniteSet(I) /\ i \in I /\ \A j \in I \ {i} : M[j] = L[j]
      /\ L \in Family(I, S) /\ M \in Family(I, S)
  OBVIOUS
<1>1. Cardinality(Spots(M, x)) + Cardinality(Positions(L[i], x))
        = Cardinality(Spots(L, x)) + Cardinality(Positions(M[i], x))
  BY ONLY <1>b, SpotsChange
<1>2. Cardinality(Positions(M[i], x)) =
        Cardinality(Positions(L[i], x)) - (IF Head(L[i]) = x THEN 1 ELSE 0)
  BY <1>a, PositionsTail
<1>3. /\ Cardinality(Spots(M, x)) \in Nat /\ Cardinality(Spots(L, x)) \in Nat
      /\ Cardinality(Positions(L[i], x)) \in Nat
  BY <1>a, SpotsFinite, PositionsFinite
<1>4. QED
  BY ONLY <1>1, <1>2, <1>3

\* A value is at some place of the family exactly when a sequence holds it.
LEMMA SpotsPositive ==
    ASSUME NEW I, IsFiniteSet(I), NEW S, NEW L \in Family(I, S), NEW x
    PROVE  Cardinality(Spots(L, x)) > 0
             <=> \E i \in I : \E k \in DOMAIN L[i] : L[i][k] = x
<1>1. Spots(L, x) # {} <=> \E i \in I : \E k \in DOMAIN L[i] : L[i][k] = x
  <2>1. DOMAIN L = I
    BY DEF Family
  <2>2. ASSUME NEW p \in Spots(L, x)
        PROVE  \E i \in I : \E k \in DOMAIN L[i] : L[i][k] = x
    <3>1. PICK i \in I : p \in {<<i, k>> : k \in Positions(L[i], x)}
      BY <2>1 DEF Spots
    <3>2. QED
      BY <3>1 DEF Positions
  <2>3. ASSUME NEW i \in I, NEW k \in DOMAIN L[i], L[i][k] = x
        PROVE  <<i, k>> \in Spots(L, x)
    BY <2>1, <2>3 DEF Spots, Positions
  <2>4. QED
    BY <2>2, <2>3
<1>2. IsFiniteSet(Spots(L, x)) /\ Cardinality(Spots(L, x)) \in Nat
  BY SpotsFinite
<1>3. QED
  BY <1>1, <1>2, FS_EmptySet
-----------------------------------------------------------------------------
\* A set holds a given image once or not at all.
LEMMA Once ==
    ASSUME NEW S, NEW f
    PROVE  Cardinality(S \cap {f}) = IF f \in S THEN 1 ELSE 0
<1>1. S \cap {f} = IF f \in S THEN {f} ELSE {}
  OBVIOUS
<1>2. QED
  BY <1>1, FS_EmptySet, FS_Singleton
=============================================================================
