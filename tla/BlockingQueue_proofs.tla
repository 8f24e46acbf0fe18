------------------------ MODULE BlockingQueue_proofs ------------------------
(***************************************************************************)
(* queue<T> for any number of producers, consumers, values and calls: its  *)
(* type invariant, mutual exclusion, that no wake-up is lost, and that it  *)
(* implements FifoQueue.                                                   *)
(***************************************************************************)
EXTENDS BlockingQueue, QueueState_proofs, FiniteSetTheorems

\* What TypeOK and MutualExclusion need to be inductive: a call of push() under
\* way has its argument, only a consumer inside wait() is asleep, and a consumer
\* about to run pop_back() found a value and nobody has taken it since.
CallsOK ==
    /\ \A p \in Producer : pc[p] \in {"pushLock", "pushFront"} => arg[p] \in Value
    /\ \A c \in Consumer : Asleep(q, c) => pc[c] = "asleep"
    /\ \A c \in Consumer : pc[c] = "popBack" => Nonempty(q)

IInv == TypeOK /\ CallsOK /\ MutualExclusion

\* The queue is idle when the program starts.
LEMMA InitIInv == Init => IInv
<1> SUFFICES ASSUME Init PROVE IInv
  OBVIOUS
<1> USE QueueAssumption
<1>1. q \in QueueRecord(Value, Consumer) /\ q.d_queue = <<>> /\ q.d_condition = {}
  BY NewQueueFacts DEF Init
<1>2. TypeOK
  BY <1>1 DEF Init, TypeOK, Thread, ProducerPC, ConsumerPC
<1>3. CallsOK
  BY <1>1 DEF Init, CallsOK, Asleep, Thread
<1>4. MutualExclusion
  BY DEF Init, MutualExclusion, InCriticalSection
<1>5. QED
  BY <1>2, <1>3, <1>4 DEF IInv

\* Every step of a call keeps the invariant.  Producer and consumer steps are
\* told apart by their labels: a thread is one or the other, never both.
LEMMA StepIInv == IInv /\ [Next]_vars => IInv'
<1> SUFFICES ASSUME IInv, [Next]_vars PROVE IInv'
  OBVIOUS
<1> USE QueueAssumption DEF IInv
<1> USE DEF TypeOK, CallsOK, MutualExclusion, InCriticalSection, Goto, Lock,
            Asleep, Nonempty, Thread, ProducerPC, ConsumerPC
<1>1. ASSUME NEW p \in Producer, NEW v \in Value, CallPush(p, v)
      PROVE  IInv'
  BY <1>1 DEF CallPush
<1>2. ASSUME NEW p \in Producer, PushLock(p)
      PROVE  IInv'
  BY <1>2 DEF PushLock
<1>3. ASSUME NEW p \in Producer, PushValue(p)
      PROVE  IInv'
  <2>1. arg[p] \in Value /\ pc[p] = "pushFront" /\ d_mutex = p
    BY <1>3 DEF PushValue
  <2>2. /\ q' \in QueueRecord(Value, Consumer)
        /\ q'.d_queue = Append(q.d_queue, arg[p])
        /\ q'.d_condition = q.d_condition
    BY <1>3, <2>1, PushFrontFacts DEF PushValue
  <2>3. \A c \in Consumer : pc[c] # "popBack"
    BY <2>1
  <2>4. QED
    BY <1>3, <2>1, <2>2, <2>3 DEF PushValue
<1>4. ASSUME NEW p \in Producer, PushNotify(p)
      PROVE  IInv'
  <2>1. /\ q' \in QueueRecord(Value, Consumer)
        /\ q'.d_queue = q.d_queue
        /\ q'.d_condition \subseteq q.d_condition
    BY <1>4, NotifyOneFacts DEF PushNotify
  <2>2. QED
    BY <1>4, <2>1 DEF PushNotify
<1>5. ASSUME NEW c \in Consumer, CallPop(c)
      PROVE  IInv'
  BY <1>5 DEF CallPop
<1>6. ASSUME NEW c \in Consumer, PopLock(c)
      PROVE  IInv'
  BY <1>6 DEF PopLock
<1>7. ASSUME NEW c \in Consumer, PopWait(c)
      PROVE  IInv'
  <2>1. /\ q' \in QueueRecord(Value, Consumer)
        /\ q'.d_queue = q.d_queue
        /\ q'.d_condition = q.d_condition \cup {c}
    BY <1>7, SleepFacts DEF PopWait
  <2>2. QED
    BY <1>7, <2>1 DEF PopWait
<1>8. ASSUME NEW c \in Consumer, PopRelock(c)
      PROVE  IInv'
  BY <1>8 DEF PopRelock
<1>9. ASSUME NEW c \in Consumer, PopRead(c)
      PROVE  IInv'
  <2>1. Back(q) \in Value
    BY <1>9, PopBackFacts DEF PopRead
  <2>2. QED
    BY <1>9, <2>1 DEF PopRead
<1>10. ASSUME NEW c \in Consumer, PopRemove(c)
       PROVE  IInv'
  <2>1. pc[c] = "popBack" /\ d_mutex = c
    BY <1>10 DEF PopRemove
  <2>2. /\ q' \in QueueRecord(Value, Consumer)
        /\ q'.d_condition = q.d_condition
    BY <1>10, <2>1, PopBackFacts DEF PopRemove
  <2>3. \A d \in Consumer : pc[d] = "popBack" => d = c
    BY <2>1
  <2>4. QED
    BY <1>10, <2>1, <2>2, <2>3 DEF PopRemove
<1>11. ASSUME NEW c \in Consumer, SpuriousWake(c)
       PROVE  IInv'
  <2>1. /\ q' \in QueueRecord(Value, Consumer)
        /\ q'.d_queue = q.d_queue
        /\ q'.d_condition = q.d_condition \ {c}
    BY <1>11, WakeUpFacts DEF SpuriousWake
  <2>2. QED
    BY <1>11, <2>1 DEF SpuriousWake
<1>12. CASE UNCHANGED vars
  BY <1>12 DEF vars
<1>13. QED
  BY <1>1, <1>2, <1>3, <1>4, <1>5, <1>6, <1>7, <1>8, <1>9, <1>10, <1>11,
     <1>12 DEF Next, PushStep, PopStep

\* The strengthened invariant of the queue holds in every state.
THEOREM Invariance == Spec => []IInv
BY InitIInv, StepIInv, PTL DEF Spec

\* The variables of queue<T> and of its callers keep their types.
THEOREM TypeCorrect == Spec => []TypeOK
<1>1. IInv => TypeOK
  BY DEF IInv
<1>2. QED
  BY <1>1, Invariance, PTL

\* Of all the threads inside push() and pop(), only the holder of d_mutex is at
\* a statement that touches d_queue.
THEOREM MutexHeld == Spec => []MutualExclusion
<1>1. IInv => MutualExclusion
  BY DEF IInv
<1>2. QED
  BY <1>1, Invariance, PTL
-----------------------------------------------------------------------------
\* The threads the count of NoLostWakeup ranges over are finitely many.
LEMMA CountsAreNat ==
    /\ IsFiniteSet(Notifying) /\ Cardinality(Notifying) \in Nat
    /\ IsFiniteSet(AwakeInPop) /\ Cardinality(AwakeInPop) \in Nat
<1>1. Notifying \in SUBSET Producer /\ AwakeInPop \in SUBSET Consumer
  BY DEF Notifying, AwakeInPop
<1>2. IsFiniteSet(Notifying) /\ IsFiniteSet(AwakeInPop)
  BY <1>1, QueueAssumption, FS_Subset
<1>3. QED
  BY <1>2, FS_CardinalityType

\* One more, or one less, awake consumer or pending notification.
LEMMA CountSteps ==
    ASSUME NEW S, NEW x, IsFiniteSet(S)
    PROVE  /\ Cardinality(S) \in Nat
           /\ x \notin S => Cardinality(S \cup {x}) = Cardinality(S) + 1
           /\ x \in S => Cardinality(S \ {x}) = Cardinality(S) - 1
BY FS_AddElement, FS_RemoveElement, FS_CardinalityType

\* An empty deque owes its sleepers nothing, so only a push() or the end of a
\* pop() can break the count: the first adds a notify_one() to come with the
\* value, the second takes the value away with the consumer.
LEMMA StepNoLostWakeup ==
    IInv /\ IInv' /\ NoLostWakeup /\ [Next]_vars => NoLostWakeup'
<1> SUFFICES ASSUME IInv, IInv', NoLostWakeup, [Next]_vars,
                    q'.d_condition # {}
             PROVE  Len(q'.d_queue) <=
                      Cardinality(Notifying') + Cardinality(AwakeInPop')
  BY DEF NoLostWakeup
<1> USE QueueAssumption, CountsAreNat DEF IInv
<1> DEFINE N == Notifying
           A == AwakeInPop
<1> USE DEF TypeOK, CallsOK, Goto, Asleep, Thread
<1>a. Len(q.d_queue) \in Nat
  BY DEF QueueRecord
<1>d. Cardinality(N') \in Nat /\ Cardinality(A') \in Nat
  <2>1. N' \in SUBSET Producer /\ A' \in SUBSET Consumer
    BY DEF Notifying, AwakeInPop
  <2>2. IsFiniteSet(N') /\ IsFiniteSet(A')
    BY <2>1, FS_Subset
  <2>3. QED
    BY <2>2, FS_CardinalityType
<1>b. ASSUME q.d_condition # {}
      PROVE  Len(q.d_queue) <= Cardinality(N) + Cardinality(A)
  BY <1>b DEF NoLostWakeup
<1>c. ASSUME N' = N, A' = A, q' = q
      PROVE  Len(q'.d_queue) <= Cardinality(N') + Cardinality(A')
  BY <1>b, <1>c
<1>1. ASSUME NEW p \in Producer, NEW v \in Value, CallPush(p, v)
      PROVE  Len(q'.d_queue) <= Cardinality(N') + Cardinality(A')
  <2>1. N' = N /\ A' = A /\ q' = q
    BY <1>1 DEF CallPush, Notifying, AwakeInPop
  <2>2. QED
    BY <1>c, <2>1
<1>2. ASSUME NEW p \in Producer, PushLock(p)
      PROVE  Len(q'.d_queue) <= Cardinality(N') + Cardinality(A')
  <2>1. N' = N /\ A' = A /\ q' = q
    BY <1>2 DEF PushLock, Notifying, AwakeInPop
  <2>2. QED
    BY <1>c, <2>1
<1>3. ASSUME NEW p \in Producer, PushValue(p)
      PROVE  Len(q'.d_queue) <= Cardinality(N') + Cardinality(A')
  <2>1. arg[p] \in Value
    BY <1>3 DEF PushValue
  <2>2. /\ Len(q'.d_queue) = Len(q.d_queue) + 1
        /\ q'.d_condition = q.d_condition
    BY <1>3, <2>1, PushFrontFacts DEF PushValue
  <2>3. p \notin N /\ N' = N \cup {p}
    BY <1>3 DEF PushValue, Notifying
  <2>4. A' = A
    BY <1>3, <2>2 DEF PushValue, AwakeInPop
  <2>5. Cardinality(N') = Cardinality(N) + 1
    BY <2>3, CountSteps
  <2>6. QED
    BY <1>a, <1>b, <2>2, <2>4, <2>5
<1>4. ASSUME NEW p \in Producer, PushNotify(p)
      PROVE  Len(q'.d_queue) <= Cardinality(N') + Cardinality(A')
  <2>1. /\ q'.d_queue = q.d_queue
        /\ q.d_condition = {} => q' = q
        /\ q.d_condition # {} =>
             \E t \in q.d_condition : q'.d_condition = q.d_condition \ {t}
    BY <1>4, NotifyOneFacts DEF PushNotify
  <2>2. q.d_condition # {}
    BY <2>1
  <2>3. PICK t \in q.d_condition : q'.d_condition = q.d_condition \ {t}
    BY <2>1, <2>2
  <2>4. p \in N /\ N' = N \ {p}
    BY <1>4 DEF PushNotify, Notifying
  <2>5. t \in Consumer
    BY DEF QueueRecord
  <2>6. t \notin A /\ A' = A \cup {t}
    BY <1>4, <2>3, <2>5 DEF PushNotify, AwakeInPop
  <2>7. /\ Cardinality(N') = Cardinality(N) - 1
        /\ Cardinality(A') = Cardinality(A) + 1
    BY <2>4, <2>6, CountSteps
  <2>8. QED
    BY <1>a, <1>b, <2>1, <2>2, <2>7
<1>5. ASSUME NEW c \in Consumer, CallPop(c)
      PROVE  Len(q'.d_queue) <= Cardinality(N') + Cardinality(A')
  <2>1. N' = N /\ q' = q
    BY <1>5 DEF CallPop, Notifying
  <2>2. c \notin A /\ A' = A \cup {c}
    BY <1>5 DEF CallPop, AwakeInPop
  <2>3. Cardinality(A') = Cardinality(A) + 1
    BY <2>2, CountSteps
  <2>4. QED
    BY <1>a, <1>b, <2>1, <2>3
<1>6. ASSUME NEW c \in Consumer, PopLock(c)
      PROVE  Len(q'.d_queue) <= Cardinality(N') + Cardinality(A')
  <2>1. N' = N /\ A' = A /\ q' = q
    BY <1>6 DEF PopLock, Notifying, AwakeInPop
  <2>2. QED
    BY <1>c, <2>1
<1>7. ASSUME NEW c \in Consumer, PopWait(c)
      PROVE  Len(q'.d_queue) <= Cardinality(N') + Cardinality(A')
  <2>1. q'.d_queue = <<>>
    BY <1>7, SleepFacts DEF PopWait, Nonempty
  <2>2. QED
    BY <1>d, <2>1, EmptySeq
<1>8. ASSUME NEW c \in Consumer, PopRelock(c)
      PROVE  Len(q'.d_queue) <= Cardinality(N') + Cardinality(A')
  <2>1. N' = N /\ A' = A /\ q' = q
    BY <1>8 DEF PopRelock, Notifying, AwakeInPop
  <2>2. QED
    BY <1>c, <2>1
<1>9. ASSUME NEW c \in Consumer, PopRead(c)
      PROVE  Len(q'.d_queue) <= Cardinality(N') + Cardinality(A')
  <2>1. N' = N /\ A' = A /\ q' = q
    BY <1>9 DEF PopRead, Notifying, AwakeInPop
  <2>2. QED
    BY <1>c, <2>1
<1>10. ASSUME NEW c \in Consumer, PopRemove(c)
       PROVE  Len(q'.d_queue) <= Cardinality(N') + Cardinality(A')
  <2>1. Nonempty(q)
    BY <1>10 DEF PopRemove
  <2>2. /\ Len(q'.d_queue) = Len(q.d_queue) - 1
        /\ q'.d_condition = q.d_condition
    BY <1>10, <2>1, PopBackFacts DEF PopRemove
  <2>3. N' = N
    BY <1>10 DEF PopRemove, Notifying
  <2>4. c \in A /\ A' = A \ {c}
    BY <1>10, <2>2 DEF PopRemove, AwakeInPop
  <2>5. Cardinality(A') = Cardinality(A) - 1
    BY <2>4, CountSteps
  <2>6. QED
    BY <1>a, <1>b, <2>2, <2>3, <2>5
<1>11. ASSUME NEW c \in Consumer, SpuriousWake(c)
       PROVE  Len(q'.d_queue) <= Cardinality(N') + Cardinality(A')
  <2>1. /\ q'.d_queue = q.d_queue
        /\ q'.d_condition = q.d_condition \ {c}
    BY <1>11, WakeUpFacts DEF SpuriousWake
  <2>2. N' = N
    BY <1>11 DEF SpuriousWake, Notifying
  <2>3. c \notin A /\ A' = A \cup {c}
    BY <1>11, <2>1 DEF SpuriousWake, AwakeInPop
  <2>4. Cardinality(A') = Cardinality(A) + 1
    BY <2>3, CountSteps
  <2>5. QED
    BY <1>a, <1>b, <2>1, <2>2, <2>4
<1>12. CASE UNCHANGED vars
  <2>1. N' = N /\ A' = A /\ q' = q
    BY <1>12 DEF vars, Notifying, AwakeInPop
  <2>2. QED
    BY <1>c, <2>1
<1>13. QED
  BY <1>1, <1>2, <1>3, <1>4, <1>5, <1>6, <1>7, <1>8, <1>9, <1>10, <1>11,
     <1>12 DEF Next, PushStep, PopStep

\* While some consumer sleeps in wait(), every value in the deque is matched by
\* a notify_one() to come or by a consumer that is awake, for any number of
\* threads: notifying after the unlock loses no wake-up.
THEOREM WakeupsAreKept == Spec => []NoLostWakeup
<1>1. Init => NoLostWakeup
  BY NewQueueFacts DEF Init, NoLostWakeup
<1>2. QED
  BY <1>1, StepNoLostWakeup, Invariance, PTL DEF Spec
-----------------------------------------------------------------------------
\* A consumer that has read back() holds the mutex, so it is the only one, and
\* whoever touches the deque meanwhile can only be that consumer.
LEMMA StepFifo ==
    IInv /\ IInv' /\ [Next]_vars => [Fifo!Next]_<<Contents, rc>>
<1> SUFFICES ASSUME IInv, IInv', [Next]_vars
             PROVE  Fifo!Next \/ (Contents' = Contents /\ rc' = rc)
  OBVIOUS
<1> USE QueueAssumption DEF IInv
<1> USE DEF TypeOK, CallsOK, MutualExclusion, InCriticalSection, Goto, Lock,
            Asleep, Nonempty, Thread, ProducerPC, ConsumerPC
<1>a. ASSUME q'.d_queue = q.d_queue, rc' = rc,
             \A c \in Consumer : pc'[c] = "popBack" <=> pc[c] = "popBack"
      PROVE  Contents' = Contents /\ rc' = rc
  BY <1>a DEF Contents
<1>1. ASSUME NEW p \in Producer, NEW v \in Value, CallPush(p, v)
      PROVE  Contents' = Contents /\ rc' = rc
  BY <1>1, <1>a DEF CallPush
<1>2. ASSUME NEW p \in Producer, PushLock(p)
      PROVE  Contents' = Contents /\ rc' = rc
  BY <1>2, <1>a DEF PushLock
<1>3. ASSUME NEW p \in Producer, PushValue(p)
      PROVE  Fifo!Next
  <2>1. arg[p] \in Value /\ pc[p] = "pushFront" /\ d_mutex = p
    BY <1>3 DEF PushValue
  <2>2. q'.d_queue = Append(q.d_queue, arg[p])
    BY <1>3, <2>1, PushFrontFacts DEF PushValue
  <2>3. \A c \in Consumer : pc[c] # "popBack" /\ pc'[c] # "popBack"
    BY <1>3, <2>1 DEF PushValue
  <2>4. Contents' = Append(Contents, arg[p]) /\ rc' = rc
    BY <1>3, <2>2, <2>3 DEF Contents, PushValue
  <2>5. QED
    BY <2>1, <2>4 DEF Fifo!Next, Fifo!Enqueue
<1>4. ASSUME NEW p \in Producer, PushNotify(p)
      PROVE  Contents' = Contents /\ rc' = rc
  <2>1. q'.d_queue = q.d_queue
    BY <1>4, NotifyOneFacts DEF PushNotify
  <2>2. QED
    BY <1>4, <1>a, <2>1 DEF PushNotify
<1>5. ASSUME NEW c \in Consumer, CallPop(c)
      PROVE  Contents' = Contents /\ rc' = rc
  BY <1>5, <1>a DEF CallPop
<1>6. ASSUME NEW c \in Consumer, PopLock(c)
      PROVE  Contents' = Contents /\ rc' = rc
  BY <1>6, <1>a DEF PopLock
<1>7. ASSUME NEW c \in Consumer, PopWait(c)
      PROVE  Contents' = Contents /\ rc' = rc
  <2>1. q'.d_queue = q.d_queue
    BY <1>7, SleepFacts DEF PopWait
  <2>2. QED
    BY <1>7, <1>a, <2>1 DEF PopWait
<1>8. ASSUME NEW c \in Consumer, PopRelock(c)
      PROVE  Contents' = Contents /\ rc' = rc
  BY <1>8, <1>a DEF PopRelock
<1>9. ASSUME NEW c \in Consumer, PopRead(c)
      PROVE  Fifo!Next
  <2>1. pc[c] = "check" /\ d_mutex = c /\ q.d_queue # <<>>
    BY <1>9 DEF PopRead
  <2>2. \A d \in Consumer : pc[d] # "popBack"
    BY <2>1
  <2>3. pc'[c] = "popBack" /\ q' = q
    BY <1>9 DEF PopRead
  <2>4. Contents = q.d_queue /\ Contents' = Tail(q.d_queue)
    BY <2>2, <2>3 DEF Contents
  <2>5. rc' = [rc EXCEPT ![c] = Head(q.d_queue)]
    BY <1>9 DEF PopRead, Back
  <2>6. QED
    BY <2>1, <2>4, <2>5 DEF Fifo!Next, Fifo!Dequeue
<1>10. ASSUME NEW c \in Consumer, PopRemove(c)
       PROVE  Contents' = Contents /\ rc' = rc
  <2>1. pc[c] = "popBack" /\ d_mutex = c
    BY <1>10 DEF PopRemove
  <2>2. \A d \in Consumer : pc'[d] # "popBack"
    BY <1>10, <2>1 DEF PopRemove
  <2>3. q'.d_queue = Tail(q.d_queue)
    BY <1>10, <2>1, PopBackFacts DEF PopRemove
  <2>4. QED
    BY <1>10, <2>1, <2>2, <2>3 DEF Contents, PopRemove
<1>11. ASSUME NEW c \in Consumer, SpuriousWake(c)
       PROVE  Contents' = Contents /\ rc' = rc
  <2>1. q'.d_queue = q.d_queue
    BY <1>11, WakeUpFacts DEF SpuriousWake
  <2>2. QED
    BY <1>11, <1>a, <2>1 DEF SpuriousWake
<1>12. CASE UNCHANGED vars
  BY <1>12, <1>a DEF vars
<1>13. QED
  BY <1>1, <1>2, <1>3, <1>4, <1>5, <1>6, <1>7, <1>8, <1>9, <1>10, <1>11,
     <1>12 DEF Next, PushStep, PopStep

\* queue<T> implements a first-in first-out queue: each value pushed is returned
\* by one pop(), in the order of the pushes, whatever the threads do.
THEOREM Fifoness == Spec => ImplementsFifo
<1>1. Init => Fifo!Init
  BY NewQueueFacts DEF Init, Fifo!Init, Contents, Thread
<1>2. QED
  BY <1>1, StepFifo, Invariance, PTL DEF Spec, ImplementsFifo, Fifo!Spec
=============================================================================
