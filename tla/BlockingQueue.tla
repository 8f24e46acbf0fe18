--------------------------- MODULE BlockingQueue ----------------------------
(***************************************************************************)
(* queue<T> of lib/util.cpp at the granularity of its mutex and condition  *)
(* variable: push() releases d_mutex before it notifies, and pop() sleeps  *)
(* with the mutex released and tests its predicate again when it wakes.    *)
(* Any number of producers and consumers call it, any number of times.     *)
(***************************************************************************)
EXTENDS QueueState

CONSTANTS Producer, Consumer,
          Value,          \* the T of queue<T>
          NoValue,        \* a variable holding no T yet
          Free,           \* d_mutex is not held
          MaxPushes,      \* bound on the calls of push()
          MaxSpurious     \* bound on the spurious wake-ups of wait()

Thread == Producer \cup Consumer

ASSUME QueueAssumption ==
    /\ IsFiniteSet(Producer) /\ IsFiniteSet(Consumer)
    /\ Producer \cap Consumer = {}
    /\ NoValue \notin Value
    /\ Free \notin Thread
    /\ MaxPushes \in Nat /\ MaxSpurious \in Nat

VARIABLES q,          \* d_queue and d_condition
          d_mutex,    \* the thread that holds it, or Free
          pc,         \* where each thread is
          arg,        \* the argument of each producer's push()
          rc,         \* the result of each consumer's pop()
          pushes,     \* calls of push() so far
          spurious    \* spurious wake-ups so far

vars == <<q, d_mutex, pc, arg, rc, pushes, spurious>>

ProducerPC == {"idle", "pushLock", "pushFront", "notify"}
ConsumerPC == {"idle", "popLock", "check", "asleep", "popBack"}

TypeOK ==
    /\ q \in QueueRecord(Value, Consumer)
    /\ d_mutex \in Thread \cup {Free}
    /\ pc \in [Thread -> ProducerPC \cup ConsumerPC]
    /\ \A p \in Producer : pc[p] \in ProducerPC
    /\ \A c \in Consumer : pc[c] \in ConsumerPC
    /\ arg \in [Producer -> Value \cup {NoValue}]
    /\ rc \in [Consumer -> Value \cup {NoValue}]
    /\ pushes \in 0..MaxPushes
    /\ spurious \in 0..MaxSpurious

Init ==
    /\ q = NewQueue
    /\ d_mutex = Free
    /\ pc = [t \in Thread |-> "idle"]
    /\ arg = [p \in Producer |-> NoValue]
    /\ rc = [c \in Consumer |-> NoValue]
    /\ pushes = 0
    /\ spurious = 0
-----------------------------------------------------------------------------
\* Thread t moves from one label to the next.
Goto(t, from, to) ==
    /\ pc[t] = from
    /\ pc' = [pc EXCEPT ![t] = to]

\* Mutated form: the lock is built with std::defer_lock and never taken, as in
\* the assignment operators of queue<T>.
LockDeferred(t) == d_mutex' = t

Lock(t) ==
    /\ d_mutex = Free
    /\ d_mutex' = t

\* Mutated form: the argument is lost on the way in.
CallPushUnset(p, v) ==
    /\ pushes < MaxPushes
    /\ Goto(p, "idle", "pushLock")
    /\ pushes' = pushes + 1
    /\ UNCHANGED <<q, d_mutex, arg, rc, spurious>>

CallPush(p, v) ==
    /\ pushes < MaxPushes
    /\ Goto(p, "idle", "pushLock")
    /\ arg' = [arg EXCEPT ![p] = v]
    /\ pushes' = pushes + 1
    /\ UNCHANGED <<q, d_mutex, rc, spurious>>

PushLock(p) ==
    /\ Goto(p, "pushLock", "pushFront")
    /\ Lock(p)
    /\ UNCHANGED <<q, arg, rc, pushes, spurious>>

\* push_front(value); the end of the block releases the lock.
PushValue(p) ==
    /\ Goto(p, "pushFront", "notify")
    /\ q' = PushFront(q, arg[p])
    /\ d_mutex' = Free
    /\ UNCHANGED <<arg, rc, pushes, spurious>>

\* Mutated form: push() notifies only when the deque was empty before it.
PushNotifyIfFirst(p) ==
    /\ Goto(p, "notify", "idle")
    /\ IF Len(q.d_queue) <= 1 THEN q' \in NotifyOne(q) ELSE UNCHANGED q
    /\ UNCHANGED <<d_mutex, arg, rc, pushes, spurious>>

\* notify_one() runs with the mutex released, and push() returns.
PushNotify(p) ==
    /\ Goto(p, "notify", "idle")
    /\ q' \in NotifyOne(q)
    /\ UNCHANGED <<d_mutex, arg, rc, pushes, spurious>>

CallPop(c) ==
    /\ Goto(c, "idle", "popLock")
    /\ UNCHANGED <<q, d_mutex, arg, rc, pushes, spurious>>

PopLock(c) ==
    /\ Goto(c, "popLock", "check")
    /\ Lock(c)
    /\ UNCHANGED <<q, arg, rc, pushes, spurious>>

\* The predicate is false: wait() releases the mutex and sleeps, in one step.
PopWait(c) ==
    /\ Goto(c, "check", "asleep")
    /\ ~ Nonempty(q)
    /\ q' = Sleep(q, c)
    /\ d_mutex' = Free
    /\ UNCHANGED <<arg, rc, pushes, spurious>>

\* A thread that was woken takes the mutex before wait() tests again.
PopRelock(c) ==
    /\ Goto(c, "asleep", "check")
    /\ ~ Asleep(q, c)
    /\ Lock(c)
    /\ UNCHANGED <<q, arg, rc, pushes, spurious>>

\* The predicate is true: rc = d_queue.back().
PopRead(c) ==
    /\ Goto(c, "check", "popBack")
    /\ Nonempty(q)
    /\ rc' = [rc EXCEPT ![c] = Back(q)]
    /\ UNCHANGED <<q, d_mutex, arg, pushes, spurious>>

\* d_queue.pop_back(); returning releases the lock.
PopRemove(c) ==
    /\ Goto(c, "popBack", "idle")
    /\ q' = PopBack(q)
    /\ d_mutex' = Free
    /\ UNCHANGED <<arg, rc, pushes, spurious>>

\* wait() may wake with no notification.
SpuriousWake(c) ==
    /\ spurious < MaxSpurious
    /\ Asleep(q, c)
    /\ q' = WakeUp(q, c)
    /\ spurious' = spurious + 1
    /\ UNCHANGED <<d_mutex, pc, arg, rc, pushes>>

PushStep(p) == PushLock(p) \/ PushValue(p) \/ PushNotify(p)

PopStep(c) ==
    PopLock(c) \/ PopWait(c) \/ PopRelock(c) \/ PopRead(c) \/ PopRemove(c)

Next ==
    \/ \E p \in Producer : (\E v \in Value : CallPush(p, v)) \/ PushStep(p)
    \/ \E c \in Consumer : CallPop(c) \/ PopStep(c) \/ SpuriousWake(c)

Spec == Init /\ [][Next]_vars

\* A thread inside push() or pop() keeps running; nobody has to call them.
Fairness ==
    /\ \A p \in Producer : WF_vars(PushStep(p))
    /\ \A c \in Consumer : WF_vars(PopStep(c))

FairSpec == Spec /\ Fairness
-----------------------------------------------------------------------------
InCriticalSection(t) == pc[t] \in {"pushFront", "check", "popBack"}

Notifying == {p \in Producer : pc[p] = "notify"}

\* Consumers inside pop() that will test the predicate, or just did.
AwakeInPop ==
    {c \in Consumer : \/ pc[c] \in {"popLock", "check", "popBack"}
                      \/ pc[c] = "asleep" /\ ~ Asleep(q, c)}

(* Only the holder of d_mutex touches d_queue: of all threads at most one  *)
(* is between taking and releasing the lock in push() or pop().            *)
MutualExclusion ==
    \A t \in Thread : InCriticalSection(t) => d_mutex = t

(* No wake-up is lost: while some consumer sleeps in wait(), every value   *)
(* in the deque is matched by a notify_one() still to come or by a         *)
(* consumer already awake.  push() notifies after it has unlocked, so a    *)
(* consumer may steal the value first; this says the sleepers survive it.  *)
NoLostWakeup ==
    q.d_condition # {} =>
        Len(q.d_queue) <= Cardinality(Notifying) + Cardinality(AwakeInPop)

(* queue<T> is a first-in first-out queue that hands each value to one     *)
(* consumer.  A pop() takes effect when it reads back(), before pop_back().*)
Contents ==
    IF \E c \in Consumer : pc[c] = "popBack" THEN Tail(q.d_queue) ELSE q.d_queue

Fifo == INSTANCE FifoQueue WITH contents <- Contents

ImplementsFifo == Fifo!Spec

(* A value in the deque and a consumer asleep do not stay so for ever: the *)
(* deque is emptied or the last sleeper wakes.                             *)
SleepersAreServed ==
    (Nonempty(q) /\ q.d_condition # {}) ~> (~ Nonempty(q) \/ q.d_condition = {})
=============================================================================
