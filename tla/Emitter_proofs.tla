--------------------------- MODULE Emitter_proofs ----------------------------
(***************************************************************************)
(* What a step of Source, and a worker's pop() on task_queue, preserve:    *)
(* shared by the versions of the program that run this emitter.            *)
(***************************************************************************)
EXTENDS Emitter, QueueState_proofs

\* Source reads the folder to its end before it sends an EOS, and counts in
\* nImgs each name it has pushed and announced.
SourceOrder ==
    /\ source = "open" <=> dir = "unopened"
    /\ source \in {"read", "notify"} => dir = "opened"
    /\ source \in {"open", "read", "notify"} => eosSent = 0
    /\ source \in {"eos", "eosNotify", "done"} => unread = {} \/ dir = "missing"
    /\ Cardinality(unread) + nImgs + (IF source = "notify" THEN 1 ELSE 0)
         = Cardinality(File)

EmitterInv == EmitterTypeOK /\ SourceOrder

\* A set of names still to be read can be counted.
LEMMA UnreadCount ==
    ASSUME EmitterTypeOK
    PROVE  /\ IsFiniteSet(unread) /\ Cardinality(unread) \in Nat
           /\ Cardinality(File) \in Nat
           /\ \A f \in unread :
                Cardinality(unread \ {f}) = Cardinality(unread) - 1
<1>1. IsFiniteSet(unread)
  BY EmitterAssumption, FS_Subset DEF EmitterTypeOK
<1>2. QED
  BY <1>1, EmitterAssumption, FS_CardinalityType, FS_RemoveElement

\* The emitter's invariant holds before Source runs.
LEMMA EmitterInitInv == EmitterInit => EmitterInv
<1> SUFFICES ASSUME EmitterInit PROVE EmitterInv
  OBVIOUS
<1>1. task_queue \in QueueRecord(Name, Worker)
  BY NewQueueFacts DEF EmitterInit
<1>2. Cardinality(File) \in Nat
  BY EmitterAssumption, FS_CardinalityType
<1>3. QED
  BY <1>1, <1>2, EmitterAssumption
  DEF EmitterInit, EmitterInv, EmitterTypeOK, SourceOrder

\* Every step of Source keeps it.
LEMMA SourceKeepsInv ==
    ASSUME EmitterInv, Source
    PROVE  EmitterInv'
<1> USE EmitterAssumption, UnreadCount DEF EmitterInv, EmitterTypeOK, SourceOrder
<1>1. CASE SourceOpen
  BY <1>1 DEF SourceOpen
<1>2. CASE SourcePush
  <2>1. PICK f \in unread : /\ unread' = unread \ {f}
                            /\ task_queue' = PushFront(task_queue, f)
    BY <1>2 DEF SourcePush
  <2>2. task_queue' \in QueueRecord(Name, Worker)
    BY <2>1, PushFrontFacts DEF Name
  <2>3. Cardinality(unread') = Cardinality(unread) - 1
    BY <2>1
  <2>4. QED
    BY <1>2, <2>1, <2>2, <2>3 DEF SourcePush
<1>3. CASE SourceNotify
  <2>1. task_queue' \in QueueRecord(Name, Worker)
    BY <1>3, NotifyOneFacts DEF SourceNotify
  <2>2. QED
    BY <1>3, <2>1 DEF SourceNotify
<1>4. CASE SourceEndOfDir
  BY <1>4 DEF SourceEndOfDir
<1>5. CASE SourcePushEos
  <2>1. task_queue' \in QueueRecord(Name, Worker)
    BY <1>5, PushFrontFacts DEF SourcePushEos, Name
  <2>2. QED
    BY <1>5, <2>1 DEF SourcePushEos, EosCount
<1>6. CASE SourceNotifyEos
  <2>1. task_queue' \in QueueRecord(Name, Worker)
    BY <1>6, NotifyOneFacts DEF SourceNotifyEos
  <2>2. QED
    BY <1>6, <2>1 DEF SourceNotifyEos
<1>7. CASE SourceReturn
  BY <1>7 DEF SourceReturn
<1>8. QED
  BY <1>1, <1>2, <1>3, <1>4, <1>5, <1>6, <1>7 DEF Source

\* What the steps of a worker on task_queue do to its deque and its sleepers.
LEMMA TaskFacts ==
    ASSUME task_queue \in QueueRecord(Name, Worker), NEW w \in Worker
    PROVE  /\ TaskWait(w) =>
                /\ task_queue' \in QueueRecord(Name, Worker)
                /\ task_queue.d_queue = <<>>
                /\ task_queue'.d_queue = task_queue.d_queue
                /\ task_queue'.d_condition = task_queue.d_condition \cup {w}
           /\ TaskPop(w) =>
                /\ task_queue' \in QueueRecord(Name, Worker)
                /\ Task \in Name
                /\ task_queue.d_queue # <<>>
                /\ task_queue'.d_queue = Tail(task_queue.d_queue)
                /\ task_queue'.d_condition = task_queue.d_condition
                /\ Len(task_queue'.d_queue) = Len(task_queue.d_queue) - 1
           /\ TaskWake(w) =>
                /\ task_queue' \in QueueRecord(Name, Worker)
                /\ task_queue'.d_queue = task_queue.d_queue
                /\ task_queue'.d_condition = task_queue.d_condition \ {w}
<1>1. ASSUME TaskWait(w)
      PROVE  /\ task_queue' \in QueueRecord(Name, Worker)
             /\ task_queue.d_queue = <<>>
             /\ task_queue'.d_queue = task_queue.d_queue
             /\ task_queue'.d_condition = task_queue.d_condition \cup {w}
  BY <1>1, SleepFacts DEF TaskWait, Nonempty
<1>2. ASSUME TaskPop(w)
      PROVE  /\ task_queue' \in QueueRecord(Name, Worker)
             /\ Task \in Name
             /\ task_queue.d_queue # <<>>
             /\ task_queue'.d_queue = Tail(task_queue.d_queue)
             /\ task_queue'.d_condition = task_queue.d_condition
             /\ Len(task_queue'.d_queue) = Len(task_queue.d_queue) - 1
  <2>1. task_queue.d_queue # <<>>
    BY <1>2 DEF TaskPop, Nonempty
  <2>2. QED
    BY <1>2, <2>1, PopBackFacts DEF TaskPop, Task, Nonempty
<1>3. ASSUME TaskWake(w)
      PROVE  /\ task_queue' \in QueueRecord(Name, Worker)
             /\ task_queue'.d_queue = task_queue.d_queue
             /\ task_queue'.d_condition = task_queue.d_condition \ {w}
  BY <1>3, WakeUpFacts DEF TaskWake
<1>4. QED
  BY <1>1, <1>2, <1>3
-----------------------------------------------------------------------------
\* The EOS names in task_queue can be counted.
LEMMA EosQueuedCount ==
    ASSUME EmitterTypeOK
    PROVE  /\ IsFiniteSet(EosQueued) /\ Cardinality(EosQueued) \in Nat
           /\ task_queue.d_queue \in Seq(Name)
           /\ Len(task_queue.d_queue) \in Nat
           /\ DOMAIN task_queue.d_queue = 1..Len(task_queue.d_queue)
<1>1. task_queue.d_queue \in Seq(Name)
  BY DEF EmitterTypeOK, QueueRecord
<1>2. QED
  BY <1>1, PositionsFinite DEF EosQueued

\* Adding v behind the names already queued leaves the EOS names last, unless a
\* file is put behind an EOS.
LEMMA EosLastAppend ==
    ASSUME EmitterTypeOK, EosLast, NEW v \in Name,
           v = EOS \/ EosQueued = {},
           task_queue'.d_queue = Append(task_queue.d_queue, v)
    PROVE  EosLast'
<1> DEFINE s == task_queue.d_queue
<1>1. /\ s \in Seq(Name) /\ Len(s) \in Nat /\ DOMAIN s = 1..Len(s)
      /\ DOMAIN Append(s, v) = 1..(Len(s) + 1)
      /\ \A k \in 1..Len(s) : Append(s, v)[k] = s[k]
      /\ Append(s, v)[Len(s) + 1] = v
  BY EosQueuedCount, AppendProperties
<1>2. ASSUME NEW j \in 1..(Len(s) + 1), NEW k \in 1..(Len(s) + 1), j < k,
             Append(s, v)[j] = EOS
      PROVE  Append(s, v)[k] = EOS
  <2>1. j \in 1..Len(s) /\ s[j] = EOS
    BY <1>1, <1>2
  <2>2. j \in EosQueued
    BY <1>1, <2>1 DEF EosQueued, Positions
  <2>3. CASE k = Len(s) + 1
    BY <1>1, <2>2, <2>3
  <2>4. CASE k \in 1..Len(s)
    BY <1>1, <1>2, <2>1, <2>4 DEF EosLast
  <2>5. QED
    BY <1>1, <2>3, <2>4
<1>3. QED
  BY <1>1, <1>2 DEF EosLast

\* Source adds an EOS to task_queue exactly when it counts one as sent, and
\* never puts a file behind one.
LEMMA SourceEos ==
    ASSUME EmitterInv, EOS \notin File, Source, EosLast,
           eosSent = 0 => EosQueued = {}
    PROVE  /\ Cardinality(EosQueued') - Cardinality(EosQueued) = eosSent' - eosSent
           /\ EosLast'
<1> USE DEF EmitterInv, EmitterTypeOK
<1>1. eosSent \in Nat /\ Cardinality(EosQueued) \in Nat
  BY EosQueuedCount, EmitterAssumption
<1>2. ASSUME task_queue'.d_queue = task_queue.d_queue, eosSent' = eosSent
      PROVE  /\ Cardinality(EosQueued') - Cardinality(EosQueued) = eosSent' - eosSent
             /\ EosLast'
  BY <1>1, <1>2 DEF EosQueued, EosLast
<1>3. CASE SourceOpen \/ SourceEndOfDir \/ SourceReturn
  BY <1>2, <1>3 DEF SourceOpen, SourceEndOfDir, SourceReturn
<1>4. CASE SourceNotify \/ SourceNotifyEos
  <2>1. task_queue'.d_queue = task_queue.d_queue
    BY <1>4, NotifyOneFacts DEF SourceNotify, SourceNotifyEos
  <2>2. QED
    BY <1>2, <1>4, <2>1 DEF SourceNotify, SourceNotifyEos
<1>5. CASE SourcePush
  <2>1. PICK f \in unread : task_queue' = PushFront(task_queue, f)
    BY <1>5 DEF SourcePush
  <2>2. f \in Name /\ f # EOS
    BY DEF Name
  <2>3. task_queue'.d_queue = Append(task_queue.d_queue, f)
    BY <2>1, <2>2, PushFrontFacts
  <2>4. Cardinality(EosQueued') = Cardinality(EosQueued)
    BY <1>1, <2>2, <2>3, EosQueuedCount, PositionsAppend DEF EosQueued
  <2>5. EosQueued = {} /\ eosSent' = eosSent
    BY <1>5 DEF SourceOrder, SourcePush
  <2>6. QED
    BY <1>1, <2>2, <2>3, <2>4, <2>5, EosLastAppend
<1>6. CASE SourcePushEos
  <2>1. EOS \in Name
    BY DEF Name
  <2>2. task_queue'.d_queue = Append(task_queue.d_queue, EOS)
    BY <1>6, <2>1, PushFrontFacts DEF SourcePushEos
  <2>3. Cardinality(EosQueued') = Cardinality(EosQueued) + 1
    BY <2>1, <2>2, EosQueuedCount, PositionsAppend DEF EosQueued
  <2>4. eosSent' = eosSent + 1
    BY <1>6 DEF SourcePushEos
  <2>5. QED
    BY <1>1, <2>1, <2>2, <2>3, <2>4, EosLastAppend
<1>7. QED
  BY <1>3, <1>4, <1>5, <1>6 DEF Source

\* A worker that pops an EOS takes it out of the count, and what is left behind
\* the first name still has its EOS names last.
LEMMA TaskPopEos ==
    ASSUME EmitterTypeOK, EosLast, task_queue.d_queue # <<>>,
           task_queue'.d_queue = Tail(task_queue.d_queue)
    PROVE  /\ Cardinality(EosQueued') =
                Cardinality(EosQueued) - (IF Task = EOS THEN 1 ELSE 0)
           /\ EosLast'
<1> DEFINE s == task_queue.d_queue
<1>1. Cardinality(EosQueued') =
        Cardinality(EosQueued) - (IF Task = EOS THEN 1 ELSE 0)
  BY EosQueuedCount, PositionsTail DEF EosQueued, Task, Back
<1>2. /\ Len(s) \in Nat \ {0} /\ DOMAIN s = 1..Len(s)
      /\ DOMAIN Tail(s) = 1..(Len(s) - 1)
      /\ \A k \in 1..(Len(s) - 1) : Tail(s)[k] = s[k + 1]
  BY EosQueuedCount, EmptySeq, HeadTailProperties
<1>3. EosLast'
  BY <1>2 DEF EosLast
<1>4. QED
  BY <1>1, <1>3
-----------------------------------------------------------------------------
\* How often image f waits for a worker, in the folder or in task_queue.
Waiting(f) ==
    (IF f \in unread THEN 1 ELSE 0)
    + Cardinality(Positions(task_queue.d_queue, f))

\* Source moves an image from the folder to the queue; it moves nothing else.
LEMMA SourceWaiting ==
    ASSUME EOS \notin File, EmitterTypeOK, Source, NEW f \in File
    PROVE  Waiting(f)' = Waiting(f)
<1>1. /\ task_queue \in QueueRecord(Name, Worker)
      /\ task_queue.d_queue \in Seq(Name)
      /\ Cardinality(Positions(task_queue.d_queue, f)) \in Nat
  BY PositionsFinite DEF EmitterTypeOK, QueueRecord
<1>2. CASE SourceOpen \/ SourceEndOfDir \/ SourceReturn
  BY <1>2 DEF SourceOpen, SourceEndOfDir, SourceReturn, Waiting
<1>3. CASE SourceNotify \/ SourceNotifyEos
  <2>1. task_queue'.d_queue = task_queue.d_queue /\ unread' = unread
    BY <1>1, <1>3, NotifyOneFacts DEF SourceNotify, SourceNotifyEos
  <2>2. QED
    BY <2>1 DEF Waiting
<1>4. CASE SourcePush
  <2>1. PICK g \in unread : /\ unread' = unread \ {g}
                            /\ task_queue' = PushFront(task_queue, g)
    BY <1>4 DEF SourcePush
  <2>2. g \in Name
    BY DEF Name, EmitterTypeOK
  <2>3. task_queue'.d_queue = Append(task_queue.d_queue, g)
    <3>1. PushFront(task_queue, g).d_queue = Append(task_queue.d_queue, g)
      BY <1>1, <2>2, PushFrontFacts
    <3>2. QED
      BY <2>1, <3>1
  <2>4. Cardinality(Positions(task_queue'.d_queue, f)) =
          Cardinality(Positions(task_queue.d_queue, f))
          + (IF g = f THEN 1 ELSE 0)
    BY <1>1, <2>2, <2>3, PositionsAppend
  <2>5. QED
    BY <1>1, <2>1, <2>4 DEF Waiting
<1>5. CASE SourcePushEos
  <2>1. EOS \in Name /\ unread' = unread /\ f # EOS
    BY <1>5 DEF SourcePushEos, Name
  <2>2. task_queue'.d_queue = Append(task_queue.d_queue, EOS)
    <3>1. PushFront(task_queue, EOS).d_queue = Append(task_queue.d_queue, EOS)
      BY <1>1, <2>1, PushFrontFacts
    <3>2. QED
      BY <1>5, <3>1 DEF SourcePushEos
  <2>3. Cardinality(Positions(task_queue'.d_queue, f)) =
          Cardinality(Positions(task_queue.d_queue, f))
    BY <1>1, <2>1, <2>2, PositionsAppend
  <2>4. QED
    BY <2>1, <2>3 DEF Waiting
<1>6. QED
  BY <1>2, <1>3, <1>4, <1>5 DEF Source
-----------------------------------------------------------------------------
\* Nothing but EOS is left in task_queue.
OnlyEos == \A k \in DOMAIN task_queue.d_queue : task_queue.d_queue[k] = EOS

\* Source, once it no longer pushes files, leaves nothing but EOS there.
LEMMA SourceOnlyEos ==
    ASSUME EmitterTypeOK, OnlyEos, Source, ~ SourcePush
    PROVE  OnlyEos'
<1> DEFINE s == task_queue.d_queue
<1>1. /\ s \in Seq(Name) /\ Len(s) \in Nat /\ DOMAIN s = 1..Len(s)
      /\ task_queue \in QueueRecord(Name, Worker)
  BY EosQueuedCount DEF EmitterTypeOK
<1>2. CASE SourceOpen \/ SourceEndOfDir \/ SourceReturn
  BY <1>2 DEF SourceOpen, SourceEndOfDir, SourceReturn, OnlyEos
<1>3. CASE SourceNotify \/ SourceNotifyEos
  <2>1. task_queue'.d_queue = s
    BY <1>1, <1>3, NotifyOneFacts DEF SourceNotify, SourceNotifyEos
  <2>2. QED
    BY <2>1 DEF OnlyEos
<1>4. CASE SourcePushEos
  <2>1. EOS \in Name
    BY DEF Name
  <2>2. task_queue'.d_queue = Append(s, EOS)
    <3>1. PushFront(task_queue, EOS).d_queue = Append(s, EOS)
      BY <1>1, <2>1, PushFrontFacts
    <3>2. QED
      BY <1>4, <3>1 DEF SourcePushEos
  <2>3. /\ DOMAIN Append(s, EOS) = 1..(Len(s) + 1)
        /\ \A k \in 1..Len(s) : Append(s, EOS)[k] = s[k]
        /\ Append(s, EOS)[Len(s) + 1] = EOS
    BY <1>1, <2>1, AppendProperties
  <2>4. QED
    BY <1>1, <2>2, <2>3 DEF OnlyEos
<1>5. QED
  BY <1>2, <1>3, <1>4 DEF Source

\* When a worker takes an EOS, nothing but EOS is left behind it.
LEMMA TaskPopOnlyEos ==
    ASSUME EmitterTypeOK, EosLast, OnlyEos \/ Task = EOS,
           task_queue.d_queue # <<>>,
           task_queue'.d_queue = Tail(task_queue.d_queue)
    PROVE  OnlyEos'
<1> DEFINE s == task_queue.d_queue
<1>1. /\ Len(s) \in Nat \ {0} /\ DOMAIN s = 1..Len(s) /\ Task = s[1]
      /\ DOMAIN Tail(s) = 1..(Len(s) - 1)
      /\ \A k \in 1..(Len(s) - 1) : Tail(s)[k] = s[k + 1]
  BY EosQueuedCount, EmptySeq, HeadTailProperties DEF Task, Back
<1>2. \A k \in 2..Len(s) : s[k] = EOS
  <2>1. CASE OnlyEos
    BY <1>1, <2>1 DEF OnlyEos
  <2>2. CASE Task = EOS
    <3>1. 1 \in DOMAIN s /\ s[1] = EOS
      BY <1>1, <2>2
    <3>2. \A k \in DOMAIN s : 1 < k => s[k] = EOS
      BY <3>1 DEF EosLast
    <3>3. QED
      BY <1>1, <3>2
  <2>3. QED
    BY <2>1, <2>2
<1>3. QED
  BY <1>1, <1>2 DEF OnlyEos
=============================================================================
