------------------------- MODULE FFWatermark_proofs --------------------------
(***************************************************************************)
(* ff_watermark for any number of pipelines, any set of images and any     *)
(* size of the queues between the nodes: its type invariant, that a node   *)
(* leaves only when nothing can reach it, that no image is lost or deleted *)
(* while a node still uses it, and that the program keeps the promise of   *)
(* WatermarkJob.  QueueState_proofs gives the lemmas that count places.    *)
(***************************************************************************)
EXTENDS FFWatermark, QueueState_proofs

\* The load balancer reads the folder to its end before it sends an EOS, counts
\* in nImgs each file it has sent, and stops after an EOS to every worker.
SourceOrder ==
    /\ emitter = "open" <=> dir = "unopened"
    /\ emitter \in {"read", "send", "count"} => dir = "opened"
    /\ emitter = "send" => file_name \in File
    /\ emitter = "eos" => eosSent < ParDeg
    /\ emitter = "done" <=> eosSent = ParDeg
    /\ eosSent > 0 => emitter \in {"eos", "done"}
    /\ emitter \in {"eos", "done"} => unread = {} \/ dir = "missing"
    /\ dir # "opened" => unread = File
    /\ Cardinality(unread) + nImgs
         + (IF emitter \in {"send", "count"} THEN 1 ELSE 0) = Cardinality(File)

\* svc() is called with a file, never with EOS, and stage3 hands nothing on.
NodeOrder ==
    /\ \A s \in Stage, i \in Worker : pc[s][i] = "svc" => task[s][i] \in File
    /\ \A i \in Worker : pc[3][i] # "push"

TypeInv == TypeOK /\ SourceOrder /\ NodeOrder

\* A set of files still to be read can be counted.
LEMMA UnreadCount ==
    ASSUME unread \subseteq File
    PROVE  /\ IsFiniteSet(unread) /\ Cardinality(unread) \in Nat
           /\ Cardinality(File) \in Nat
           /\ \A f \in unread :
                Cardinality(unread \ {f}) = Cardinality(unread) - 1
<1>1. IsFiniteSet(unread)
  BY FFAssumption, FS_Subset
<1>2. QED
  BY <1>1, FFAssumption, FS_CardinalityType, FS_RemoveElement

\* schedule_task() takes the workers in turn.
LEMMA NextWorker == \A w \in Int : (w + 1) % ParDeg \in Worker
<1>1. ASSUME NEW n \in Nat, n > 0, NEW w \in Int
      PROVE  w % n \in 0..(n - 1)
  BY <1>1
<1>2. QED
  BY <1>1, FFAssumption DEF Worker

\* The types and orders hold when main() starts.
LEMMA InitTypeInv == Init => TypeInv
<1> SUFFICES ASSUME Init PROVE TypeInv
  OBVIOUS
<1>1. Cardinality(File) \in Nat
  BY FFAssumption, FS_CardinalityType
<1>2. \A s \in Stage, i \in Worker : queue[s][i] = <<>> /\ Len(<<>>) = 0
  BY DEF Init
<1>3. TypeOK
  BY <1>1, <1>2, FFAssumption
  DEF Init, TypeOK, Task, Object, ThreadCount, Stage
<1>4. QED
  BY <1>1, <1>3, FFAssumption DEF Init, TypeInv, SourceOrder, NodeOrder, Stage

\* A family of deques, one for each stage of each worker.
QueueType == [Stage -> [Worker -> Seq(Task)]]

\* A put makes one queue one pointer longer.
LEMMA EnqueueFacts ==
    ASSUME queue \in QueueType, NEW s \in Stage, NEW i \in Worker,
           NEW t \in Task, Enqueue(s, i, t)
    PROVE  /\ queue' \in QueueType
           /\ queue'[s][i] = Append(queue[s][i], t)
           /\ Len(queue'[s][i]) = Len(queue[s][i]) + 1
           /\ \A r \in Stage, j \in Worker :
                r # s \/ j # i => queue'[r][j] = queue[r][j]
<1>1. queue[s][i] \in Seq(Task) /\ queue[s] \in [Worker -> Seq(Task)]
  BY DEF QueueType
<1>2. /\ Append(queue[s][i], t) \in Seq(Task)
      /\ Len(Append(queue[s][i], t)) = Len(queue[s][i]) + 1
  BY <1>1, AppendProperties
<1>3. queue' = [queue EXCEPT ![s][i] = Append(queue[s][i], t)]
  BY DEF Enqueue
<1> DEFINE v == Append(queue[s][i], t)
<1> HIDE DEF v
<1>4. v \in Seq(Task) /\ queue' = [queue EXCEPT ![s][i] = v]
  BY <1>2, <1>3 DEF v
<1>5. /\ queue' \in QueueType /\ queue'[s][i] = v
      /\ \A r \in Stage, j \in Worker :
           r # s \/ j # i => queue'[r][j] = queue[r][j]
  BY <1>4 DEF QueueType
<1>6. QED
  BY <1>2, <1>5 DEF v

\* A pop of the queue of node (s, i).
Dequeue(s, i) ==
    queue[s][i] # <<>> /\ queue' = [queue EXCEPT ![s][i] = Tail(@)]

\* It yields a pointer and leaves the rest.
LEMMA DequeueFacts ==
    ASSUME queue \in QueueType, NEW s \in Stage, NEW i \in Worker, Dequeue(s, i)
    PROVE  /\ queue' \in QueueType
           /\ Head(queue[s][i]) \in Task
           /\ queue'[s][i] = Tail(queue[s][i])
           /\ Len(queue'[s][i]) = Len(queue[s][i]) - 1
           /\ \A r \in Stage, j \in Worker :
                r # s \/ j # i => queue'[r][j] = queue[r][j]
<1>1. queue[s][i] \in Seq(Task) /\ queue[s] \in [Worker -> Seq(Task)]
  BY DEF QueueType
<1>2. /\ Tail(queue[s][i]) \in Seq(Task) /\ Head(queue[s][i]) \in Task
      /\ Len(Tail(queue[s][i])) = Len(queue[s][i]) - 1
  BY <1>1, HeadTailProperties DEF Dequeue
<1> DEFINE v == Tail(queue[s][i])
<1> HIDE DEF v
<1>3. v \in Seq(Task) /\ queue' = [queue EXCEPT ![s][i] = v]
  BY <1>2 DEF Dequeue, v
<1>4. /\ queue' \in QueueType /\ queue'[s][i] = v
      /\ \A r \in Stage, j \in Worker :
           r # s \/ j # i => queue'[r][j] = queue[r][j]
  BY <1>3 DEF QueueType
<1>5. QED
  BY <1>2, <1>4 DEF v

\* Every step keeps the types and the two orders.
LEMMA StepTypeInv == TypeInv /\ [Next]_vars => TypeInv'
<1> SUFFICES ASSUME TypeInv, [Next]_vars PROVE TypeInv'
  OBVIOUS
<1> USE FFAssumption DEF TypeInv
<1>a. /\ queue \in QueueType
      /\ \A s \in 2..3, i \in Worker : Len(queue[s][i]) <= QueueSize
  BY DEF TypeOK, QueueType
<1>1. CASE Main \/ UNCHANGED vars
  <2>1. UNCHANGED <<emitterVars, queue, nodeVars, outputVars>>
    BY <1>1 DEF Main, MainSpawn, MainJoin, MainReturn, vars
  <2>2. SourceOrder' /\ NodeOrder'
    BY <2>1 DEF SourceOrder, NodeOrder, emitterVars, nodeVars
  <2>3. /\ spawned' \in 0..ThreadCount /\ joined' \in 0..ThreadCount
        /\ process' \in {"running", "finished", "terminated"}
    BY <1>1 DEF TypeOK, Main, MainSpawn, MainJoin, MainReturn, vars, mainVars,
                ThreadCount
  <2>4. TypeOK'
    BY <2>1, <2>3 DEF TypeOK, emitterVars, nodeVars, outputVars, ThreadCount
  <2>5. QED
    BY <2>2, <2>4
<1>2. CASE LoadBalancer
  <2> USE <1>2, UnreadCount DEF LoadBalancer, nodeVars, outputVars, mainVars
  <2>1. NodeOrder'
    BY DEF NodeOrder
  <2>2. ASSUME UNCHANGED queue,
               /\ dir' \in {"unopened", "opened", "missing"}
               /\ unread' \subseteq File /\ nImgs' \in 0..Cardinality(File)
               /\ emitter' \in {"open", "read", "send", "count", "eos", "done"}
               /\ file_name' \in Task
               /\ nextw' \in -1..(ParDeg - 1) /\ eosSent' \in 0..ParDeg
        PROVE  TypeOK'
    BY <2>2 DEF TypeOK, ThreadCount
  <2>3. ASSUME NEW i \in Worker, NEW t \in Task, Enqueue(1, i, t),
               UNCHANGED <<dir, unread, nImgs, file_name>>,
               emitter' \in {"count", "eos", "done"},
               nextw' \in -1..(ParDeg - 1), eosSent' \in 0..ParDeg
        PROVE  TypeOK'
    <3>1. /\ queue' \in QueueType
          /\ \A r \in 2..3, j \in Worker : queue'[r][j] = queue[r][j]
      BY <1>a, <2>3, EnqueueFacts DEF Stage
    <3>2. QED
      BY <2>3, <3>1 DEF TypeOK, QueueType, ThreadCount
  <2>4. CASE SourceOpen
    <3>1. TypeOK'
      BY <2>2, <2>4 DEF SourceOpen, TypeOK
    <3>2. SourceOrder'
      BY <2>4 DEF SourceOpen, SourceOrder, TypeOK
    <3>3. QED
      BY <2>1, <3>1, <3>2
  <2>5. CASE SourceRead
    <3>1. PICK f \in unread : file_name' = f /\ unread' = unread \ {f}
      BY <2>5 DEF SourceRead
    <3>2. TypeOK'
      BY <2>2, <2>5, <3>1 DEF SourceRead, TypeOK, Task
    <3>3. Cardinality(unread') = Cardinality(unread) - 1 /\ f \in File
      BY <3>1 DEF TypeOK
    <3>4. SourceOrder'
      BY <2>5, <3>1, <3>3 DEF SourceRead, SourceOrder, TypeOK
    <3>5. QED
      BY <2>1, <3>2, <3>4
  <2>6. CASE SourceSend
    <3>1. nextw' \in Worker /\ file_name \in Task
      <4>1. nextw \in Int /\ file_name \in Task
        BY DEF TypeOK
      <4>2. QED
        BY <2>6, <4>1, NextWorker DEF SourceSend
    <3>2. TypeOK'
      BY <2>3, <2>6, <3>1 DEF SourceSend, TypeOK, Worker
    <3>3. SourceOrder'
      BY <2>6 DEF SourceSend, SourceOrder, TypeOK
    <3>4. QED
      BY <2>1, <3>2, <3>3
  <2>7. CASE SourceCount
    <3>1. nImgs + 1 \in 0..Cardinality(File)
      BY <2>7 DEF SourceCount, SourceOrder, TypeOK
    <3>2. TypeOK'
      BY <2>2, <2>7, <3>1 DEF SourceCount, TypeOK
    <3>3. SourceOrder'
      <4>1. UNCHANGED <<dir, unread, file_name, eosSent>> /\ emitter' = "read"
        BY <2>7 DEF SourceCount
      <4>2. /\ Cardinality(unread) + nImgs + 1 = Cardinality(File)
            /\ nImgs' = nImgs + 1 /\ nImgs \in Nat
        BY <2>7 DEF SourceCount, SourceOrder, TypeOK
      <4>3. Cardinality(unread') + nImgs' + 0 = Cardinality(File)
        <5>1. Cardinality(unread) \in Nat /\ Cardinality(File) \in Nat
          BY DEF TypeOK
        <5>2. QED
          BY ONLY <4>1, <4>2, <5>1
      <4>4. QED
        BY ONLY <2>7, <4>1, <4>3, SourceOrder DEF SourceCount, SourceOrder
    <3>4. QED
      BY <2>1, <3>2, <3>3
  <2>8. CASE SourceEndOfDir
    <3>1. TypeOK'
      BY <2>2, <2>8 DEF SourceEndOfDir, TypeOK
    <3>2. SourceOrder'
      BY <2>8 DEF SourceEndOfDir, SourceOrder, TypeOK
    <3>3. QED
      BY <2>1, <3>1, <3>2
  <2>9. CASE PushEos
    <3>1. eosSent \in Worker /\ EOS \in Task
      BY <2>9 DEF PushEos, SourceOrder, TypeOK, Worker, Task
    <3>2. TypeOK'
      BY <2>3, <2>9, <3>1 DEF PushEos, TypeOK, Worker
    <3>3. SourceOrder'
      BY <2>9, <3>1 DEF PushEos, SourceOrder, TypeOK, Worker
    <3>4. QED
      BY <2>1, <3>2, <3>3
  <2>10. QED
    BY <2>4, <2>5, <2>6, <2>7, <2>8, <2>9
<1>3. ASSUME NEW s \in Stage, NEW i \in Worker, Node(s, i)
      PROVE  TypeInv'
  <2> USE <1>3 DEF Node, emitterVars, Stage
  <2>1. SourceOrder'
    BY DEF SourceOrder
  <2>2. ASSUME queue' \in QueueType,
               \A r \in 2..3, j \in Worker : Len(queue'[r][j]) <= QueueSize,
               pc' \in [Stage -> [Worker -> {"pop", "svc", "push", "done"}]],
               task' \in [Stage -> [Worker -> Task]],
               image' \in [File -> Object],
               disk' \in [File -> Object \cup {"absent"}], failed' \subseteq File,
               process' \in {"running", "finished", "terminated"}
        PROVE  TypeOK'
    BY <2>2 DEF TypeOK, QueueType, ThreadCount
  <2>3. CASE NodePop(s, i)
    <3> DEFINE t == Head(queue[s][i])
    <3>1. /\ queue' \in QueueType /\ t \in Task
          /\ queue'[s][i] = Tail(queue[s][i])
          /\ Len(queue'[s][i]) = Len(queue[s][i]) - 1
          /\ \A r \in Stage, j \in Worker :
               r # s \/ j # i => queue'[r][j] = queue[r][j]
      <4>1. Dequeue(s, i)
        BY <2>3 DEF NodePop, Dequeue
      <4>2. QED
        BY <1>a, <4>1, DequeueFacts
    <3>2. \A r \in 2..3, j \in Worker : Len(queue'[r][j]) <= QueueSize
      <4>1. s \in 2..3 => Len(queue'[s][i]) <= QueueSize
        <5>1. s \in 2..3 => Len(queue[s][i]) <= QueueSize
          BY <1>a
        <5>2. Len(queue[s][i]) \in Nat
          BY <1>a, LenProperties DEF QueueType
        <5>3. QED
          BY ONLY <1>a, <3>1, <5>1, <5>2, FFAssumption, i \in Worker
      <4>2. ASSUME NEW r \in 2..3, NEW j \in Worker
            PROVE  Len(queue'[r][j]) <= QueueSize
        <5>1. CASE r = s /\ j = i
          BY ONLY <4>1, <5>1, r \in 2..3
        <5>2. CASE r # s \/ j # i
          BY ONLY <1>a, <3>1, <5>2, r \in 2..3, j \in Worker DEF Stage
        <5>3. QED
          BY <5>1, <5>2
      <4>3. QED
        BY ONLY <4>2
    <3> HIDE DEF t
    <3>3. /\ task' = [task EXCEPT ![s][i] = t]
          /\ pc' = [pc EXCEPT ![s][i] = IF t # EOS THEN "svc"
                                        ELSE IF s < 3 THEN "push" ELSE "done"]
          /\ UNCHANGED <<image, outputVars, process>>
      BY <2>3 DEF NodePop, Goto, t
    <3>4. TypeOK'
      BY <2>2, <3>1, <3>2, <3>3 DEF TypeOK, outputVars
    <3>5. NodeOrder'
      BY <3>1, <3>3 DEF NodeOrder, TypeOK, Task
    <3>6. QED
      BY <2>1, <3>4, <3>5
  <2>4. CASE Svc(s, i)
    <3>1. UNCHANGED <<queue, task>>
      BY <2>4 DEF Svc, Load, LoadFails, Stamp, Save, SaveFails, nodeVars
    <3>2. \/ pc' = pc
          \/ /\ pc' = [pc EXCEPT ![s][i] = "push"] /\ s < 3
          \/ /\ pc' = [pc EXCEPT ![s][i] = "pop"]
      BY <2>4 DEF Svc, Load, LoadFails, Stamp, Save, SaveFails, nodeVars, Goto
    <3>3. pc[s][i] = "svc" /\ task[s][i] \in File
      BY <2>4 DEF Svc, Load, LoadFails, Stamp, Save, SaveFails, NodeOrder
    <3>4. /\ image' \in [File -> Object]
          /\ disk' \in [File -> Object \cup {"absent"}] /\ failed' \subseteq File
          /\ process' \in {"running", "finished", "terminated"}
      <4>1. \/ UNCHANGED <<image, outputVars, process>>
            \/ process' = "terminated" /\ UNCHANGED <<image, outputVars>>
            \/ \E f \in File, o \in Object :
                 /\ image' = [image EXCEPT ![f] = o]
                 /\ disk' = disk \/ disk' = [disk EXCEPT ![f] = image[f]]
                 /\ failed' = failed \/ failed' = failed \cup {f}
                 /\ process' = process
        <5>1. CASE s = 1
          BY <2>4, <3>3, <5>1
          DEF Svc, Load, LoadFails, Object, nodeVars, outputVars
        <5>2. CASE s = 2
          BY <2>4, <3>3, <5>2 DEF Svc, Stamp, Object, outputVars
        <5>3. CASE s = 3
          BY <2>4, <3>3, <5>3 DEF Svc, Save, SaveFails, Object
        <5>4. QED
          BY <5>1, <5>2, <5>3 DEF Stage
      <4>2. /\ image \in [File -> Object]
            /\ disk \in [File -> Object \cup {"absent"}] /\ failed \subseteq File
            /\ process \in {"running", "finished", "terminated"}
        BY DEF TypeOK
      <4>3. QED
        BY ONLY <4>1, <4>2 DEF outputVars
    <3>5. pc' \in [Stage -> [Worker -> {"pop", "svc", "push", "done"}]]
      <4>1. pc \in [Stage -> [Worker -> {"pop", "svc", "push", "done"}]]
        BY DEF TypeOK
      <4>2. QED
        BY ONLY <3>2, <4>1, s \in Stage, i \in Worker
    <3>6. TypeOK'
      BY <1>a, <2>2, <3>1, <3>4, <3>5 DEF TypeOK
    <3>7. NodeOrder'
      BY <3>1, <3>2, SMTT(30) DEF NodeOrder, TypeOK
    <3>8. QED
      BY <2>1, <3>6, <3>7
  <2>5. CASE NodePush(s, i)
    <3>1. s + 1 \in Stage /\ task[s][i] \in Task
      BY <2>5 DEF NodePush, TypeOK
    <3>2. /\ queue' \in QueueType
          /\ Len(queue'[s + 1][i]) = Len(queue[s + 1][i]) + 1
          /\ \A r \in Stage, j \in Worker :
               r # s + 1 \/ j # i => queue'[r][j] = queue[r][j]
      BY <1>a, <2>5, <3>1, EnqueueFacts DEF NodePush
    <3>3. \A r \in 2..3, j \in Worker : Len(queue'[r][j]) <= QueueSize
      <4>1. Len(queue[s + 1][i]) < QueueSize /\ queue[s + 1][i] \in Seq(Task)
        BY <1>a, <2>5, <3>1 DEF NodePush, QueueType
      <4>2. Len(queue[s + 1][i]) \in Nat
        BY <4>1, LenProperties
      <4>3. QED
        BY <1>a, <3>2, <4>1, <4>2, SMTT(30)
    <3>4. /\ pc' = [pc EXCEPT ![s][i] = IF task[s][i] = EOS THEN "done" ELSE "pop"]
          /\ UNCHANGED <<task, image, outputVars, process>>
      BY <2>5 DEF NodePush, Goto
    <3>5. TypeOK'
      BY <2>2, <3>2, <3>3, <3>4 DEF TypeOK, outputVars
    <3>6. NodeOrder'
      BY <3>4 DEF NodeOrder, TypeOK
    <3>7. QED
      BY <2>1, <3>5, <3>6
  <2>6. QED
    BY <2>3, <2>4, <2>5
<1>4. QED
  BY <1>1, <1>2, <1>3 DEF Next, Step, Exit

\* They hold in every state.
THEOREM TypeInvariance == Spec => []TypeInv
BY InitTypeInv, StepTypeInv, PTL DEF Spec

\* Every variable keeps its type, and no queue between two nodes holds more
\* than its QueueSize entries (buffer.hpp: push() of a full queue fails).
THEOREM TypeCorrect == Spec => []TypeOK
<1>1. TypeInv => TypeOK
  BY DEF TypeInv
<1>2. QED
  BY <1>1, TypeInvariance, PTL
-----------------------------------------------------------------------------
\* Whoever feeds a node has sent its last pointer: node 1 is fed by the load
\* balancer, every other node by the node before it.
Closed(s, i) == IF s = 0 THEN eosSent > i ELSE pc[s][i] = "done"

\* The node has popped the EOS, and has at most the push of it left to do.
Ending(s, i) == pc[s][i] = "done" \/ (pc[s][i] = "push" /\ task[s][i] = EOS)

\* An EOS is the last pointer of its queue, and whoever put it there has left;
\* a node that has popped it finds its queue empty for good.
EosIsLast(s, i) ==
    /\ \A k \in DOMAIN queue[s][i] :
         queue[s][i][k] = EOS => k = Len(queue[s][i]) /\ Closed(s - 1, i)
    /\ Ending(s, i) => Closed(s - 1, i) /\ queue[s][i] = <<>>

NodesEnd == \A s \in Stage, i \in Worker : EosIsLast(s, i)

\* A node of which the queue stays as it is.
LEMMA EosIsLastKept ==
    ASSUME NEW s \in Stage, NEW i \in Worker, EosIsLast(s, i),
           queue'[s][i] = queue[s][i],
           Closed(s - 1, i) => Closed(s - 1, i)', Ending(s, i)' => Ending(s, i)
    PROVE  EosIsLast(s, i)'
<1> DEFINE before == Closed(s - 1, i)
           after == Closed(s - 1, i)'
           ending == Ending(s, i)
           endingNext == Ending(s, i)'
<1>1. /\ \A k \in DOMAIN queue[s][i] :
           queue[s][i][k] = EOS => k = Len(queue[s][i]) /\ before
      /\ ending => before /\ queue[s][i] = <<>>
  BY DEF EosIsLast
<1>2. (before => after) /\ (endingNext => ending)
  OBVIOUS
<1> HIDE DEF before, after, ending, endingNext
<1>3. /\ \A k \in DOMAIN queue'[s][i] :
           queue'[s][i][k] = EOS => k = Len(queue'[s][i]) /\ after
      /\ endingNext => after /\ queue'[s][i] = <<>>
  BY <1>1, <1>2
<1>4. QED
  BY <1>3 DEF EosIsLast, after, endingNext

\* A pointer put on the queue of a node that its feeder still feeds.
LEMMA EosIsLastAppend ==
    ASSUME NEW s \in Stage, NEW i \in Worker, EosIsLast(s, i),
           NEW t \in Task, queue[s][i] \in Seq(Task),
           queue'[s][i] = Append(queue[s][i], t),
           ~Closed(s - 1, i), t = EOS => Closed(s - 1, i)',
           Ending(s, i)' => Ending(s, i)
    PROVE  EosIsLast(s, i)'
<1> DEFINE q == queue[s][i]
           n == Len(q) + 1
           after == Closed(s - 1, i)'
<1>1. q \in Seq(Task) /\ queue'[s][i] = Append(q, t)
  OBVIOUS
<1>2. (\A k \in DOMAIN q : q[k] # EOS) /\ ~Ending(s, i)'
  BY DEF EosIsLast
<1>3. t = EOS => after
  OBVIOUS
<1> HIDE DEF q, after
<1>4. /\ DOMAIN q = 1..Len(q) /\ Len(q) \in Nat
      /\ DOMAIN Append(q, t) = 1..n /\ Len(Append(q, t)) = n
      /\ \A k \in 1..Len(q) : Append(q, t)[k] = q[k]
      /\ Append(q, t)[n] = t
  BY <1>1, AppendProperties, LenProperties
<1>5. \A k \in DOMAIN Append(q, t) : Append(q, t)[k] = EOS => k = n /\ after
  BY <1>2, <1>3, <1>4
<1>6. QED
  BY <1>1, <1>2, <1>4, <1>5 DEF EosIsLast, after

\* A thread that has sent its last pointer never sends another.
LEMMA StaysClosed ==
    ASSUME TypeInv, [Next]_vars, NEW s \in 0..3, NEW i \in Worker, Closed(s, i)
    PROVE  Closed(s, i)'
<1>1. CASE UNCHANGED <<eosSent, pc>>
  BY <1>1 DEF Closed
<1>2. CASE LoadBalancer
  <2>1. pc' = pc /\ eosSent' \in Int /\ eosSent' >= eosSent
    BY <1>2 DEF LoadBalancer, SourceOpen, SourceRead, SourceSend, SourceCount,
                SourceEndOfDir, PushEos, nodeVars, TypeInv, TypeOK
  <2>2. eosSent \in Int /\ i \in Int
    BY DEF TypeInv, TypeOK, Worker
  <2>3. QED
    BY <2>1, <2>2 DEF Closed
<1>3. ASSUME NEW r \in Stage, NEW j \in Worker, Node(r, j)
      PROVE  Closed(s, i)'
  <2>1. pc \in [Stage -> [Worker -> {"pop", "svc", "push", "done"}]]
    BY DEF TypeInv, TypeOK
  <2>2. \/ pc' = pc
        \/ pc[r][j] # "done" /\ \E l : pc' = [pc EXCEPT ![r][j] = l]
    BY <1>3 DEF Node, NodePop, Svc, Load, LoadFails, Stamp, Save, SaveFails,
                NodePush, Goto, nodeVars, Stage
  <2>3. eosSent' = eosSent
    BY <1>3 DEF Node, emitterVars
  <2>4. s # 0 => pc'[s][i] = "done"
    BY <2>1, <2>2 DEF Closed, Stage
  <2>5. QED
    BY <2>3, <2>4 DEF Closed
<1>4. QED
  BY <1>1, <1>2, <1>3
  DEF Next, Step, Exit, Main, MainSpawn, MainJoin, MainReturn, vars,
      emitterVars, nodeVars

\* Every step keeps the order in which the nodes end.
LEMMA StepNodesEnd == TypeInv /\ NodesEnd /\ [Next]_vars => NodesEnd'
<1> SUFFICES ASSUME TypeInv, NodesEnd, [Next]_vars,
                    NEW s \in Stage, NEW i \in Worker
             PROVE  EosIsLast(s, i)'
  BY DEF NodesEnd
<1>a. EosIsLast(s, i)
  BY DEF NodesEnd
<1>b. Closed(s - 1, i) => Closed(s - 1, i)'
  <2>1. s - 1 \in 0..3
    BY DEF Stage
  <2>2. QED
    BY <2>1, StaysClosed
<1>c. queue \in QueueType /\ queue[s][i] \in Seq(Task)
  BY DEF TypeInv, TypeOK, QueueType
<1>d. pc \in [Stage -> [Worker -> {"pop", "svc", "push", "done"}]]
      /\ task \in [Stage -> [Worker -> Task]]
  BY DEF TypeInv, TypeOK
<1>1. CASE UNCHANGED <<queue, pc, task>>
  BY <1>1, <1>a, <1>b, EosIsLastKept DEF Ending
<1>2. CASE LoadBalancer
  <2>1. UNCHANGED <<pc, task>> /\ (Ending(s, i)' <=> Ending(s, i))
    BY <1>2 DEF LoadBalancer, nodeVars, Ending
  <2>2. CASE UNCHANGED queue
    BY <2>1, <2>2, <1>a, <1>b, EosIsLastKept
  <2>3. ASSUME NEW w \in Worker, NEW t \in Task, Enqueue(1, w, t),
               eosSent <= w, t = EOS => eosSent' > w
        PROVE  EosIsLast(s, i)'
    <3>1. CASE s = 1 /\ i = w
      <4>1. queue'[s][i] = Append(queue[s][i], t)
        BY <1>c, <2>3, <3>1, EnqueueFacts
      <4>2. ~Closed(s - 1, i) /\ (t = EOS => Closed(s - 1, i)')
        BY <2>3, <3>1 DEF Closed, TypeInv, TypeOK, Worker
      <4>3. QED
        BY <1>a, <1>c, <2>1, <4>1, <4>2, EosIsLastAppend
    <3>2. CASE s # 1 \/ i # w
      <4>1. queue'[s][i] = queue[s][i]
        BY <1>c, <2>3, <3>2, EnqueueFacts DEF Stage
      <4>2. QED
        BY <2>1, <4>1, <1>a, <1>b, EosIsLastKept
    <3>3. QED
      BY <3>1, <3>2
  <2>4. CASE SourceSend
    <3>1. nextw' \in Worker
      BY <2>4, NextWorker DEF SourceSend, TypeInv, TypeOK
    <3>2. file_name \in Task /\ file_name # EOS /\ eosSent = 0
      BY <2>4, FFAssumption DEF SourceSend, TypeInv, TypeOK, SourceOrder
    <3>3. Enqueue(1, nextw', file_name) /\ eosSent <= nextw'
      BY <2>4, <3>1, <3>2 DEF SourceSend, Worker
    <3>4. QED
      BY <2>3, <3>1, <3>2, <3>3
  <2>5. CASE PushEos
    <3>1. eosSent \in Worker /\ EOS \in Task
      <4>1. eosSent \in Nat /\ eosSent < ParDeg
        BY <2>5 DEF PushEos, TypeInv, SourceOrder, TypeOK
      <4>2. QED
        BY <4>1, FFAssumption DEF Worker, Task
    <3>2. Enqueue(1, eosSent, EOS) /\ eosSent' > eosSent /\ eosSent <= eosSent
      BY <2>5, <3>1 DEF PushEos, Worker
    <3>3. QED
      BY <2>3, <3>1, <3>2
  <2>6. QED
    BY <1>2, <2>2, <2>4, <2>5
    DEF LoadBalancer, SourceOpen, SourceRead, SourceCount, SourceEndOfDir
<1>3. ASSUME NEW r \in Stage, NEW j \in Worker, Node(r, j)
      PROVE  EosIsLast(s, i)'
  <2>1. CASE NodePop(r, j)
    <3> DEFINE t == Head(queue[r][j])
    <3>1. /\ queue'[r][j] = Tail(queue[r][j])
          /\ s # r \/ i # j => queue'[s][i] = queue[s][i]
      <4>1. Dequeue(r, j)
        BY <2>1 DEF NodePop, Dequeue
      <4>2. QED
        BY <1>c, <4>1, DequeueFacts
    <3>2. /\ task' = [task EXCEPT ![r][j] = t]
          /\ pc' = [pc EXCEPT ![r][j] = IF t # EOS THEN "svc"
                                        ELSE IF r < 3 THEN "push" ELSE "done"]
      BY <2>1 DEF NodePop, Goto
    <3> HIDE DEF t
    <3>3. CASE s # r \/ i # j
      <4>1. pc'[s][i] = pc[s][i] /\ task'[s][i] = task[s][i]
        BY <1>d, <3>2, <3>3
      <4>2. QED
        BY <1>a, <1>b, <3>1, <3>3, <4>1, EosIsLastKept DEF Ending
    <3>4. CASE s = r /\ i = j
      <4> DEFINE q == queue[s][i]
      <4>1. q \in Seq(Task) /\ q # <<>> /\ t = q[1] /\ queue'[s][i] = Tail(q)
        BY <1>c, <2>1, <3>1, <3>4, HeadTailProperties DEF NodePop, t
      <4>2. /\ Len(q) \in Nat \ {0} /\ DOMAIN q = 1..Len(q)
            /\ Tail(q) \in Seq(Task) /\ Len(Tail(q)) = Len(q) - 1
            /\ DOMAIN Tail(q) = 1..(Len(q) - 1)
            /\ \A k \in 1..(Len(q) - 1) : Tail(q)[k] = q[k + 1]
        BY <4>1, HeadTailProperties, LenProperties, EmptySeq
      <4>3. \A k \in DOMAIN q : q[k] = EOS => k = Len(q) /\ Closed(s - 1, i)
        BY <1>a DEF EosIsLast
      <4>4. Ending(s, i)' => t = EOS
        BY <1>d, <3>2, <3>4 DEF Ending
      <4> HIDE DEF q
      <4>5. t = EOS => Closed(s - 1, i) /\ Tail(q) = <<>>
        <5>1. 1 \in DOMAIN q
          BY <4>2
        <5>2. t = EOS => Closed(s - 1, i) /\ Len(q) = 1
          BY <4>1, <4>3, <5>1
        <5>3. Len(Tail(q)) = 0 => Tail(q) = <<>>
          BY <4>2, EmptySeq
        <5>4. QED
          BY <4>2, <5>2, <5>3
      <4>6. \A k \in DOMAIN Tail(q) :
               Tail(q)[k] = EOS => k = Len(Tail(q)) /\ Closed(s - 1, i)
        BY <4>2, <4>3
      <4>7. QED
        BY <1>b, <4>1, <4>4, <4>5, <4>6 DEF EosIsLast
    <3>5. QED
      BY <3>3, <3>4
  <2>2. CASE Svc(r, j)
    <3>1. /\ UNCHANGED <<queue, task>> /\ task[r][j] # EOS
          /\ pc[r][j] = "svc"
          /\ \/ pc' = pc
             \/ \E l \in {"push", "pop"} : pc' = [pc EXCEPT ![r][j] = l]
      BY <2>2, FFAssumption
      DEF Svc, Load, LoadFails, Stamp, Save, SaveFails, nodeVars, Goto,
          TypeInv, NodeOrder
    <3>2. Ending(s, i)' => Ending(s, i)
      <4>1. pc'[s][i] = pc[s][i]
              \/ (s = r /\ i = j /\ pc'[s][i] \in {"push", "pop"})
        BY <1>d, <3>1
      <4>2. QED
        BY <3>1, <4>1 DEF Ending
    <3>3. QED
      BY <1>a, <1>b, <3>1, <3>2, EosIsLastKept
  <2>3. CASE NodePush(r, j)
    <3>1. /\ r + 1 \in Stage /\ task[r][j] \in Task /\ task' = task
          /\ pc' = [pc EXCEPT ![r][j] =
                      IF task[r][j] = EOS THEN "done" ELSE "pop"]
          /\ pc[r][j] = "push" /\ Enqueue(r + 1, j, task[r][j])
      BY <1>d, <2>3 DEF NodePush, Goto, Stage
    <3>2. Ending(s, i)' => Ending(s, i)
      BY <1>d, <3>1 DEF Ending
    <3>3. CASE s = r + 1 /\ i = j
      <4>1. queue'[s][i] = Append(queue[s][i], task[r][j])
        BY <1>c, <3>1, <3>3, EnqueueFacts
      <4>2. s - 1 = r /\ r # 0 /\ r \in Int
        BY <3>3 DEF Stage
      <4>3. ~Closed(s - 1, i) /\ (task[r][j] = EOS => Closed(s - 1, i)')
        BY <1>d, <3>1, <3>3, <4>2 DEF Closed
      <4>4. QED
        BY <1>a, <1>c, <3>1, <3>2, <4>1, <4>3, EosIsLastAppend
    <3>4. CASE s # r + 1 \/ i # j
      <4>1. queue'[s][i] = queue[s][i]
        BY <1>c, <3>1, <3>4, EnqueueFacts
      <4>2. QED
        BY <1>a, <1>b, <3>2, <4>1, EosIsLastKept
    <3>5. QED
      BY <3>3, <3>4
  <2>4. QED
    BY <1>3, <2>1, <2>2, <2>3 DEF Node
<1>4. QED
  BY <1>1, <1>2, <1>3
  DEF Next, Step, Exit, Main, MainSpawn, MainJoin, MainReturn, vars, nodeVars

\* The nodes end in order in every state.
THEOREM NodesEndInOrder == Spec => []NodesEnd
<1>1. Init => NodesEnd
  BY FFAssumption DEF Init, NodesEnd, EosIsLast, Closed, Ending, Stage, Worker
<1>2. QED
  BY <1>1, StepNodesEnd, TypeInvariance, PTL DEF Spec

\* A node returns from its loop only when no thread can reach it any more, so
\* that the joins of node.hpp leave no image behind in a queue.
THEOREM NodesDrain == Spec => []DrainBeforeReturn
<1>1. NodesEnd => DrainBeforeReturn
  BY DEF NodesEnd, EosIsLast, DrainBeforeReturn, Ending, Closed, Stage
<1>2. QED
  BY <1>1, NodesEndInOrder, PTL
-----------------------------------------------------------------------------
\* The queues from stage a on.
Home(a) == (a..3) \X Worker

\* The node (s, i) has the pointer of f, and may look at the image behind it.
Holding(s, i, f) == Holds(s, i) /\ task[s][i] = f
Using(s, i, f) == Holding(s, i, f) /\ (s = 1 => pc[s][i] = "push")

\* There are finitely many threads and queues to count.
LEMMA HomeFinite == \A a \in 1..2 : IsFiniteSet(Home(a))
<1>1. IsFiniteSet(Worker)
  BY FFAssumption, FS_Interval DEF Worker
<1>2. \A a \in 1..2 : IsFiniteSet(a..3)
  BY FS_Interval
<1>3. QED
  BY <1>1, <1>2, FS_Product DEF Home

\* The places of an image, and the users of it, are counted by a number.
LEMMA CountsFinite ==
    ASSUME queue \in QueueType, NEW f
    PROVE  /\ Cardinality(Holders(f)) \in Nat /\ IsFiniteSet(Holders(f))
           /\ Cardinality(Users(f)) \in Nat /\ IsFiniteSet(Users(f))
           /\ \A a \in 1..2 : /\ Queues(a) \in Family(Home(a), Task)
                             /\ Cardinality(Spots(Queues(a), f)) \in Nat
                             /\ IsFiniteSet(Spots(Queues(a), f))
           /\ Pointers(f) \in Nat /\ Reachable(f) \in Nat
<1>1. IsFiniteSet(Home(1))
  BY HomeFinite
<1>2. Users(f) \subseteq Holders(f) /\ Holders(f) \subseteq Home(1)
  BY DEF Users, Holders, Home, Stage
<1>3. IsFiniteSet(Holders(f)) /\ IsFiniteSet(Users(f))
  BY <1>1, <1>2, FS_Subset
<1>4. Cardinality(Holders(f)) \in Nat /\ Cardinality(Users(f)) \in Nat
  BY <1>3, FS_CardinalityType
<1>5. ASSUME NEW a \in 1..2
      PROVE  /\ Queues(a) \in Family(Home(a), Task)
             /\ Cardinality(Spots(Queues(a), f)) \in Nat
             /\ IsFiniteSet(Spots(Queues(a), f))
  <2>1. Queues(a) \in Family(Home(a), Task)
    BY DEF QueueType, Queues, Family, Home, Stage
  <2>2. IsFiniteSet(Home(a))
    BY HomeFinite
  <2>3. QED
    BY <2>1, <2>2, SpotsFinite
<1>6. Pointers(f) \in Nat /\ Reachable(f) \in Nat
  BY <1>4, <1>5 DEF Pointers, Reachable
<1>7. QED
  BY <1>3, <1>4, <1>5, <1>6

\* A put makes one place more in the queues from its stage on.
LEMMA QueuesEnqueue ==
    ASSUME queue \in QueueType, NEW s \in Stage, NEW i \in Worker, NEW t \in Task,
           Enqueue(s, i, t), NEW a \in 1..2, NEW f
    PROVE  Cardinality(Spots(Queues(a), f)') =
             Cardinality(Spots(Queues(a), f)) + (IF s >= a /\ t = f THEN 1 ELSE 0)
<1>1. /\ queue' \in QueueType /\ queue'[s][i] = Append(queue[s][i], t)
      /\ \A r \in Stage, j \in Worker :
           r # s \/ j # i => queue'[r][j] = queue[r][j]
  BY EnqueueFacts
<1> DEFINE L == Queues(a)
           M == Queues(a)'
           p == <<s, i>>
<1>2. /\ L = [q \in Home(a) |-> queue[q[1]][q[2]]]
      /\ M = [q \in Home(a) |-> queue'[q[1]][q[2]]]
  BY DEF Queues, Home
<1>a. L \in Family(Home(a), Task) /\ M \in Family(Home(a), Task)
  <2>1. \A q \in Home(a) : q[1] \in Stage /\ q[2] \in Worker
    BY DEF Home, Stage
  <2> HIDE DEF L, M
  <2>2. QED
    BY <1>1, <1>2, <2>1 DEF QueueType, Family
<1>3. IsFiniteSet(Home(a)) /\ Cardinality(Spots(L, f)) \in Nat
  BY HomeFinite, CountsFinite
<1>4. CASE s >= a
  <2>1. p \in Home(a)
    BY <1>4 DEF Home, Stage
  <2>2. M[p] = Append(L[p], t)
    BY <1>1, <1>2, <2>1
  <2>3. \A q \in Home(a) \ {p} : M[q] = L[q]
    BY <1>1, <1>2 DEF Home, Stage
  <2> HIDE DEF L, M, p
  <2>4. Cardinality(Spots(M, f)) = Cardinality(Spots(L, f)) + (IF t = f THEN 1 ELSE 0)
    BY ONLY <1>a, <1>3, <2>1, <2>2, <2>3, t \in Task, SpotsAppend
  <2>5. QED
    BY <1>4, <2>4 DEF L, M
<1>5. CASE ~(s >= a)
  <2>1. M = L
    BY <1>1, <1>2, <1>5 DEF Home, Stage
  <2>2. QED
    BY <1>3, <1>5, <2>1
<1>6. QED
  BY <1>4, <1>5

\* A pop makes one place less.
LEMMA QueuesDequeue ==
    ASSUME queue \in QueueType, NEW s \in Stage, NEW i \in Worker,
           Dequeue(s, i), NEW a \in 1..2, NEW f
    PROVE  Cardinality(Spots(Queues(a), f)') =
             Cardinality(Spots(Queues(a), f))
               - (IF s >= a /\ Head(queue[s][i]) = f THEN 1 ELSE 0)
<1>1. /\ queue' \in QueueType /\ queue'[s][i] = Tail(queue[s][i])
      /\ queue[s][i] # <<>>
      /\ \A r \in Stage, j \in Worker :
           r # s \/ j # i => queue'[r][j] = queue[r][j]
  BY DequeueFacts DEF Dequeue
<1> DEFINE L == Queues(a)
           M == Queues(a)'
           p == <<s, i>>
<1>2. /\ L = [q \in Home(a) |-> queue[q[1]][q[2]]]
      /\ M = [q \in Home(a) |-> queue'[q[1]][q[2]]]
  BY DEF Queues, Home
<1>a. L \in Family(Home(a), Task) /\ M \in Family(Home(a), Task)
  <2>1. \A q \in Home(a) : q[1] \in Stage /\ q[2] \in Worker
    BY DEF Home, Stage
  <2> HIDE DEF L, M
  <2>2. QED
    BY <1>1, <1>2, <2>1 DEF QueueType, Family
<1>3. IsFiniteSet(Home(a)) /\ Cardinality(Spots(L, f)) \in Nat
  BY HomeFinite, CountsFinite
<1>4. CASE s >= a
  <2>1. p \in Home(a)
    BY <1>4 DEF Home, Stage
  <2>2. M[p] = Tail(L[p]) /\ L[p] # <<>> /\ L[p] = queue[s][i]
    BY <1>1, <1>2, <2>1
  <2>3. \A q \in Home(a) \ {p} : M[q] = L[q]
    BY <1>1, <1>2 DEF Home, Stage
  <2> HIDE DEF L, M, p
  <2>4. Cardinality(Spots(M, f)) =
          Cardinality(Spots(L, f)) - (IF Head(L[p]) = f THEN 1 ELSE 0)
    BY ONLY <1>a, <1>3, <2>1, <2>2, <2>3, SpotsTail
  <2>5. QED
    BY <1>4, <2>2, <2>4 DEF L, M
<1>5. CASE ~(s >= a)
  <2>1. M = L
    BY <1>1, <1>2, <1>5 DEF Home, Stage
  <2>2. QED
    BY <1>3, <1>5, <2>1
<1>6. QED
  BY <1>4, <1>5

\* Two finite sets that differ at most in p.
LEMMA SetChange ==
    ASSUME NEW A, NEW B, IsFiniteSet(A), IsFiniteSet(B), NEW p,
           A \ {p} = B \ {p}
    PROVE  Cardinality(B) = Cardinality(A) + (IF p \in B THEN 1 ELSE 0)
                                           - (IF p \in A THEN 1 ELSE 0)
<1>1. Cardinality(A) \in Nat /\ Cardinality(B) \in Nat
  BY FS_CardinalityType
<1>2. /\ Cardinality(A \ {p}) =
           IF p \in A THEN Cardinality(A) - 1 ELSE Cardinality(A)
      /\ Cardinality(B \ {p}) =
           IF p \in B THEN Cardinality(B) - 1 ELSE Cardinality(B)
  BY FS_RemoveElement
<1>3. QED
  BY <1>1, <1>2

\* Every thread but node (s, i) stays where it is.
OthersStay(s, i) ==
    \A r \in Stage, j \in Worker :
        r # s \/ j # i => pc'[r][j] = pc[r][j] /\ task'[r][j] = task[r][j]

\* One node moves: the others hold what they held.
LEMMA ThreadChange ==
    ASSUME queue \in QueueType, NEW s \in Stage, NEW i \in Worker,
           OthersStay(s, i), NEW f
    PROVE  /\ Cardinality(Holders(f)') = Cardinality(Holders(f))
                + (IF Holding(s, i, f)' THEN 1 ELSE 0)
                - (IF Holding(s, i, f) THEN 1 ELSE 0)
           /\ Cardinality(Users(f)') = Cardinality(Users(f))
                + (IF Using(s, i, f)' THEN 1 ELSE 0)
                - (IF Using(s, i, f) THEN 1 ELSE 0)
<1> DEFINE H == Holders(f)
           G == Holders(f)'
           U == Users(f)
           V == Users(f)'
           p == <<s, i>>
<1>1. IsFiniteSet(H) /\ IsFiniteSet(U)
  BY CountsFinite
<1>2. IsFiniteSet(G) /\ IsFiniteSet(V)
  <2>1. V \subseteq G /\ G \subseteq Home(1)
    BY DEF Users, Holders, Home, Stage
  <2>2. IsFiniteSet(Home(1))
    BY HomeFinite
  <2>3. QED
    BY <2>1, <2>2, FS_Subset
<1>3. /\ p \in H <=> Holding(s, i, f)
      /\ p \in G <=> Holding(s, i, f)'
      /\ p \in U <=> Using(s, i, f)
      /\ p \in V <=> Using(s, i, f)'
  BY DEF Users, Holders, Holding, Using
<1>4. H \ {p} = G \ {p}
  BY DEF OthersStay, Holders, Holds
<1>5. U \ {p} = V \ {p}
  <2>1. ASSUME NEW q \in Stage \X Worker, q # p
        PROVE  q \in U <=> q \in V
    <3>1. q[1] \in Stage /\ q[2] \in Worker /\ (q[1] # s \/ q[2] # i)
      BY <2>1
    <3>2. pc'[q[1]][q[2]] = pc[q[1]][q[2]] /\ task'[q[1]][q[2]] = task[q[1]][q[2]]
      BY <3>1 DEF OthersStay
    <3>3. QED
      BY <3>2 DEF Users, Holders, Holds
  <2>2. U \subseteq Stage \X Worker /\ V \subseteq Stage \X Worker
    BY DEF Users, Holders
  <2>3. QED
    BY <2>1, <2>2
<1> HIDE DEF H, G, U, V, p
<1>6. /\ Cardinality(G) = Cardinality(H) + (IF p \in G THEN 1 ELSE 0)
                                         - (IF p \in H THEN 1 ELSE 0)
      /\ Cardinality(V) = Cardinality(U) + (IF p \in V THEN 1 ELSE 0)
                                         - (IF p \in U THEN 1 ELSE 0)
  BY <1>1, <1>2, <1>4, <1>5, SetChange
<1>7. QED
  BY <1>3, <1>6 DEF H, G, U, V
-----------------------------------------------------------------------------
\* The variables the counts are made of have their types.
LEMMA NodeTypes ==
    ASSUME TypeInv
    PROVE  /\ queue \in QueueType
           /\ pc \in [Stage -> [Worker -> {"pop", "svc", "push", "done"}]]
           /\ task \in [Stage -> [Worker -> Task]]
BY DEF TypeInv, TypeOK, QueueType

\* A put by the load balancer brings a pointer into the pipelines, and no image.
LEMMA BalancerPointers ==
    ASSUME TypeInv, NEW i \in Worker, NEW t \in Task, Enqueue(1, i, t),
           UNCHANGED <<pc, task>>, NEW f \in File
    PROVE  /\ Pointers(f)' = Pointers(f) + (IF t = f THEN 1 ELSE 0)
           /\ Reachable(f)' = Reachable(f)
<1>1. queue \in QueueType /\ 1 \in Stage
  BY NodeTypes DEF Stage
<1>2. /\ Cardinality(Spots(Queues(1), f)') =
           Cardinality(Spots(Queues(1), f)) + (IF t = f THEN 1 ELSE 0)
      /\ Cardinality(Spots(Queues(2), f)') = Cardinality(Spots(Queues(2), f))
  <2>1. \A a \in 1..2 :
          Cardinality(Spots(Queues(a), f)') = Cardinality(Spots(Queues(a), f))
            + (IF 1 >= a /\ t = f THEN 1 ELSE 0)
    BY <1>1, QueuesEnqueue
  <2>2. /\ Cardinality(Spots(Queues(1), f)) \in Nat
        /\ Cardinality(Spots(Queues(2), f)) \in Nat
    BY <1>1, CountsFinite
  <2>3. QED
    BY ONLY <2>1, <2>2
<1>3. Holders(f)' = Holders(f) /\ Users(f)' = Users(f)
  BY DEF Holders, Users, Holds
<1>4. Cardinality(Holders(f)) \in Nat /\ Cardinality(Spots(Queues(1), f)) \in Nat
  BY <1>1, CountsFinite
<1>5. QED
  BY <1>2, <1>3, <1>4 DEF Pointers, Reachable

\* A pop moves the pointer from the queue to the node.
LEMMA PopPointers ==
    ASSUME TypeInv, NEW s \in Stage, NEW i \in Worker, NodePop(s, i), NEW f \in File
    PROVE  Pointers(f)' = Pointers(f) /\ Reachable(f)' = Reachable(f)
<1> DEFINE t == Head(queue[s][i])
           g == IF t = f THEN 1 ELSE 0
           h == IF t = f /\ s # 1 THEN 1 ELSE 0
<1>1. /\ queue \in QueueType /\ Dequeue(s, i)
      /\ pc \in [Stage -> [Worker -> {"pop", "svc", "push", "done"}]]
      /\ task \in [Stage -> [Worker -> Task]]
  BY NodeTypes DEF NodePop, Dequeue
<1>2. /\ pc[s][i] = "pop"
      /\ task' = [task EXCEPT ![s][i] = t]
      /\ pc' = [pc EXCEPT ![s][i] = IF t # EOS THEN "svc"
                                    ELSE IF s < 3 THEN "push" ELSE "done"]
  BY DEF NodePop, Goto
<1>3. f # EOS
  BY FFAssumption
<1>4. /\ Cardinality(Spots(Queues(1), f)') = Cardinality(Spots(Queues(1), f)) - g
      /\ Cardinality(Spots(Queues(2), f)') = Cardinality(Spots(Queues(2), f)) - h
  <2>1. \A a \in 1..2 :
          Cardinality(Spots(Queues(a), f)') = Cardinality(Spots(Queues(a), f))
            - (IF s >= a /\ t = f THEN 1 ELSE 0)
    BY <1>1, QueuesDequeue
  <2>2. /\ Cardinality(Spots(Queues(1), f)) \in Nat
        /\ Cardinality(Spots(Queues(2), f)) \in Nat
    BY <1>1, CountsFinite
  <2>3. s >= 1 /\ (s >= 2 <=> s # 1)
    BY DEF Stage
  <2> HIDE DEF t
  <2>4. QED
    BY ONLY <2>1, <2>2, <2>3
<1> HIDE DEF t
<1>5. OthersStay(s, i)
  BY <1>1, <1>2 DEF OthersStay
<1>6. /\ ~Holding(s, i, f) /\ (Holding(s, i, f)' <=> t = f)
      /\ ~Using(s, i, f) /\ (Using(s, i, f)' <=> t = f /\ s # 1)
  <2>1. /\ task'[s][i] = t
        /\ pc'[s][i] = IF t # EOS THEN "svc" ELSE IF s < 3 THEN "push" ELSE "done"
    BY <1>1, <1>2
  <2>2. QED
    BY <1>2, <1>3, <2>1 DEF Holding, Using, Holds
<1>7. /\ Cardinality(Holders(f)') = Cardinality(Holders(f)) + g
      /\ Cardinality(Users(f)') = Cardinality(Users(f)) + h
  <2>1. /\ Cardinality(Holders(f)') = Cardinality(Holders(f))
             + (IF Holding(s, i, f)' THEN 1 ELSE 0)
             - (IF Holding(s, i, f) THEN 1 ELSE 0)
        /\ Cardinality(Users(f)') = Cardinality(Users(f))
             + (IF Using(s, i, f)' THEN 1 ELSE 0)
             - (IF Using(s, i, f) THEN 1 ELSE 0)
    BY <1>1, <1>5, ThreadChange
  <2>2. Cardinality(Holders(f)) \in Nat /\ Cardinality(Users(f)) \in Nat
    BY <1>1, CountsFinite
  <2>3. QED
    BY ONLY <1>6, <2>1, <2>2
<1>8. QED
  <2>1. /\ Cardinality(Holders(f)) \in Nat /\ Cardinality(Users(f)) \in Nat
        /\ Cardinality(Spots(Queues(1), f)) \in Nat
        /\ Cardinality(Spots(Queues(2), f)) \in Nat
    BY <1>1, CountsFinite
  <2>2. QED
    BY ONLY <1>4, <1>7, <2>1 DEF Pointers, Reachable

\* A push moves it from the node to the next queue.
LEMMA PushPointers ==
    ASSUME TypeInv, NEW s \in Stage, NEW i \in Worker, NodePush(s, i), NEW f \in File
    PROVE  Pointers(f)' = Pointers(f) /\ Reachable(f)' = Reachable(f)
<1> DEFINE t == task[s][i]
           g == IF t = f THEN 1 ELSE 0
<1>1. /\ queue \in QueueType
      /\ pc \in [Stage -> [Worker -> {"pop", "svc", "push", "done"}]]
      /\ task \in [Stage -> [Worker -> Task]]
  BY NodeTypes
<1>2. /\ pc[s][i] = "push" /\ s < 3 /\ task' = task
      /\ pc' = [pc EXCEPT ![s][i] = IF t = EOS THEN "done" ELSE "pop"]
      /\ Enqueue(s + 1, i, t) /\ s + 1 \in Stage /\ t \in Task
  BY <1>1 DEF NodePush, Goto, Stage
<1>3. f # EOS
  BY FFAssumption
<1>4. /\ Cardinality(Spots(Queues(1), f)') = Cardinality(Spots(Queues(1), f)) + g
      /\ Cardinality(Spots(Queues(2), f)') = Cardinality(Spots(Queues(2), f)) + g
  <2>1. \A a \in 1..2 :
          Cardinality(Spots(Queues(a), f)') = Cardinality(Spots(Queues(a), f))
            + (IF s + 1 >= a /\ t = f THEN 1 ELSE 0)
    BY <1>1, <1>2, QueuesEnqueue
  <2>2. s + 1 >= 1 /\ s + 1 >= 2
    BY DEF Stage
  <2> HIDE DEF t
  <2>3. QED
    BY ONLY <2>1, <2>2
<1> HIDE DEF t
<1>5. OthersStay(s, i)
  BY <1>1, <1>2 DEF OthersStay
<1>6. /\ ~Holding(s, i, f)' /\ (Holding(s, i, f) <=> t = f)
      /\ ~Using(s, i, f)' /\ (Using(s, i, f) <=> t = f)
  <2>1. pc'[s][i] = IF t = EOS THEN "done" ELSE "pop"
    BY <1>1, <1>2
  <2>2. QED
    BY <1>2, <1>3, <2>1 DEF Holding, Using, Holds, t
<1>7. /\ Cardinality(Holders(f)') = Cardinality(Holders(f)) - g
      /\ Cardinality(Users(f)') = Cardinality(Users(f)) - g
  <2>1. /\ Cardinality(Holders(f)') = Cardinality(Holders(f))
             + (IF Holding(s, i, f)' THEN 1 ELSE 0)
             - (IF Holding(s, i, f) THEN 1 ELSE 0)
        /\ Cardinality(Users(f)') = Cardinality(Users(f))
             + (IF Using(s, i, f)' THEN 1 ELSE 0)
             - (IF Using(s, i, f) THEN 1 ELSE 0)
    BY <1>1, <1>5, ThreadChange
  <2>2. Cardinality(Holders(f)) \in Nat /\ Cardinality(Users(f)) \in Nat
    BY <1>1, CountsFinite
  <2>3. QED
    BY ONLY <1>6, <2>1, <2>2
<1>8. QED
  <2>1. /\ Cardinality(Holders(f)) \in Nat /\ Cardinality(Users(f)) \in Nat
        /\ Cardinality(Spots(Queues(1), f)) \in Nat
        /\ Cardinality(Spots(Queues(2), f)) \in Nat
    BY <1>1, CountsFinite
  <2>2. QED
    BY ONLY <1>4, <1>7, <2>1 DEF Pointers, Reachable

\* svc() of stage1 makes an image reachable, that of stage3 lets go of one.
LEMMA SvcPointers ==
    ASSUME TypeInv, NEW s \in Stage, NEW i \in Worker, Svc(s, i), NEW f \in File
    PROVE  /\ Pointers(f)' = Pointers(f) - (IF s = 3 /\ task[s][i] = f THEN 1 ELSE 0)
           /\ Reachable(f)' = Reachable(f)
                + (IF Load(i) /\ s = 1 /\ task[1][i] = f THEN 1 ELSE 0)
                - (IF s = 3 /\ task[s][i] = f THEN 1 ELSE 0)
<1> DEFINE t == task[s][i]
           loads == pc' # pc /\ s = 1
<1>1. /\ queue \in QueueType
      /\ pc \in [Stage -> [Worker -> {"pop", "svc", "push", "done"}]]
      /\ task \in [Stage -> [Worker -> Task]]
  BY NodeTypes
<1>2. /\ UNCHANGED <<queue, task>> /\ pc[s][i] = "svc"
      /\ \/ pc' = pc /\ s = 1
         \/ pc' = [pc EXCEPT ![s][i] = "push"] /\ s < 3
         \/ pc' = [pc EXCEPT ![s][i] = "pop"] /\ s = 3
  BY DEF Svc, Load, LoadFails, Stamp, Save, SaveFails, Goto, nodeVars
<1>3. f # EOS
  BY FFAssumption
<1>4. loads <=> Load(i) /\ s = 1
  <2>1. Load(i) /\ s = 1 => pc'[s][i] # pc[s][i]
    BY <1>1 DEF Load, Goto
  <2>2. pc' # pc /\ s = 1 => Load(i)
    BY DEF Svc, LoadFails, nodeVars
  <2>3. QED
    BY <2>1, <2>2
<1>5. OthersStay(s, i)
  BY <1>1, <1>2 DEF OthersStay
<1>6. /\ Holding(s, i, f) <=> t = f
      /\ Holding(s, i, f)' <=> t = f /\ s # 3
      /\ Using(s, i, f) <=> t = f /\ s # 1
      /\ Using(s, i, f)' <=> t = f /\ s # 3 /\ (s = 1 => loads)
  <2>1. task'[s][i] = t
    BY <1>2
  <2>2. /\ s = 3 => pc'[s][i] = "pop"
        /\ s = 2 => pc'[s][i] = "push"
        /\ s = 1 => pc'[s][i] = IF loads THEN "push" ELSE "svc"
    BY <1>1, <1>2
  <2> HIDE DEF loads
  <2>3. QED
    BY <1>2, <1>3, <2>1, <2>2 DEF Holding, Using, Holds, Stage
<1> HIDE DEF loads, t
<1>7. /\ Cardinality(Holders(f)') = Cardinality(Holders(f))
           - (IF s = 3 /\ t = f THEN 1 ELSE 0)
      /\ Cardinality(Users(f)') = Cardinality(Users(f))
           + (IF loads /\ s = 1 /\ t = f THEN 1 ELSE 0)
           - (IF s = 3 /\ t = f THEN 1 ELSE 0)
  <2>1. /\ Cardinality(Holders(f)') = Cardinality(Holders(f))
             + (IF Holding(s, i, f)' THEN 1 ELSE 0)
             - (IF Holding(s, i, f) THEN 1 ELSE 0)
        /\ Cardinality(Users(f)') = Cardinality(Users(f))
             + (IF Using(s, i, f)' THEN 1 ELSE 0)
             - (IF Using(s, i, f) THEN 1 ELSE 0)
    BY <1>1, <1>5, ThreadChange
  <2>2. Cardinality(Holders(f)) \in Nat /\ Cardinality(Users(f)) \in Nat
    BY <1>1, CountsFinite
  <2>3. QED
    BY ONLY <1>6, <2>1, <2>2
<1>8. QED
  <2>1. /\ Cardinality(Holders(f)) \in Nat /\ Cardinality(Users(f)) \in Nat
        /\ Cardinality(Spots(Queues(1), f)) \in Nat
        /\ Cardinality(Spots(Queues(2), f)) \in Nat
    BY <1>1, CountsFinite
  <2>2. /\ Spots(Queues(1), f)' = Spots(Queues(1), f)
        /\ Spots(Queues(2), f)' = Spots(Queues(2), f)
    BY <1>2 DEF Queues
  <2>3. /\ Pointers(f)' = Pointers(f) - (IF s = 3 /\ t = f THEN 1 ELSE 0)
        /\ Reachable(f)' = Reachable(f)
             + (IF loads /\ s = 1 /\ t = f THEN 1 ELSE 0)
             - (IF s = 3 /\ t = f THEN 1 ELSE 0)
    BY ONLY <1>7, <2>1, <2>2 DEF Pointers, Reachable
  <2>4. QED
    BY <1>4, <2>3 DEF t
-----------------------------------------------------------------------------
\* In how many places an image is.
Places(f) ==
    Cardinality(unread \cap {f})
    + (IF emitter = "send" /\ file_name = f THEN 1 ELSE 0)
    + Pointers(f)
    + (IF disk[f] # "absent" THEN 1 ELSE 0)
    + Cardinality(failed \cap {f})

\* Conservation says so of each, before and after a step.
LEMMA OnePlace ==
    /\ Conservation <=> \A f \in File : Places(f) = 1
    /\ Conservation' <=> \A f \in File : Places(f)' = 1
BY DEF Conservation, Places

\* A thread that holds a pointer is the only place the image is in.
LEMMA OnlyHolder ==
    ASSUME TypeInv, Conservation, NEW s \in Stage, NEW i \in Worker,
           NEW f \in File, Holding(s, i, f)
    PROVE  /\ Holders(f) = {<<s, i>>} /\ Spots(Queues(1), f) = {}
           /\ f \notin unread /\ ~(emitter = "send" /\ file_name = f)
           /\ disk[f] = "absent" /\ f \notin failed /\ Pointers(f) = 1
<1>1. Places(f) = 1
  BY OnePlace
<1>2. /\ Cardinality(Holders(f)) \in Nat /\ IsFiniteSet(Holders(f))
      /\ Cardinality(Spots(Queues(1), f)) \in Nat
      /\ IsFiniteSet(Spots(Queues(1), f))
  BY NodeTypes, CountsFinite
<1>3. <<s, i>> \in Holders(f)
  BY DEF Holders, Holding
<1>4. Cardinality(Holders(f)) >= 1
  BY <1>2, <1>3, FS_EmptySet
<1>5. /\ Cardinality(unread \cap {f}) = IF f \in unread THEN 1 ELSE 0
      /\ Cardinality(failed \cap {f}) = IF f \in failed THEN 1 ELSE 0
  BY Once
<1>6. /\ f \notin unread /\ ~(emitter = "send" /\ file_name = f)
      /\ disk[f] = "absent" /\ f \notin failed
      /\ Cardinality(Holders(f)) = 1 /\ Cardinality(Spots(Queues(1), f)) = 0
      /\ Pointers(f) = 1
  BY ONLY <1>1, <1>2, <1>4, <1>5 DEF Places, Pointers
<1>7. Holders(f) = {<<s, i>>}
  BY <1>2, <1>3, <1>6, FS_Singleton
<1>8. Spots(Queues(1), f) = {}
  BY <1>2, <1>6, FS_EmptySet
<1>9. QED
  BY <1>6, <1>7, <1>8

\* stage3 lets go of an image as it settles it: saved, or reported.
LEMMA SettleFacts ==
    ASSUME TypeInv, NEW i \in Worker, Svc(3, i)
    PROVE  LET f == task[3][i] IN
           /\ pc[3][i] = "svc" /\ f \in File /\ Holding(3, i, f)
           /\ \/ disk' = [disk EXCEPT ![f] = image[f]] /\ failed' = failed
              \/ disk' = disk /\ failed' = failed \cup {f}
           /\ image' = [image EXCEPT ![f] = "deleted"]
<1> DEFINE f == task[3][i]
<1>1. pc[3][i] = "svc"
  BY DEF Svc, Save, SaveFails
<1>2. f \in File
  BY <1>1 DEF TypeInv, NodeOrder, Stage
<1>3. /\ \/ disk' = [disk EXCEPT ![f] = image[f]] /\ failed' = failed
         \/ disk' = disk /\ failed' = failed \cup {f}
      /\ image' = [image EXCEPT ![f] = "deleted"]
  BY DEF Svc, Save, SaveFails
<1>4. QED
  BY <1>1, <1>2, <1>3, FFAssumption DEF Holding, Holds

\* No step of a node loses an image or makes a second pointer to it.
LEMMA NodeConservation ==
    ASSUME TypeInv, Conservation, NEW s \in Stage, NEW i \in Worker, Node(s, i)
    PROVE  Conservation'
<1> SUFFICES ASSUME NEW f \in File PROVE Places(f)' = 1
  BY OnePlace
<1>a. Places(f) = 1 /\ UNCHANGED emitterVars
  BY OnePlace DEF Node
<1>1. ASSUME Pointers(f)' = Pointers(f), UNCHANGED outputVars
      PROVE  Places(f)' = 1
  BY <1>a, <1>1 DEF Places, emitterVars, outputVars
<1>2. CASE NodePop(s, i)
  BY <1>1, <1>2, PopPointers DEF NodePop
<1>3. CASE NodePush(s, i)
  BY <1>1, <1>3, PushPointers DEF NodePush
<1>4. CASE Svc(s, i) /\ s # 3
  <2>1. Pointers(f)' = Pointers(f)
    BY <1>4, NodeTypes, CountsFinite, SvcPointers
  <2>2. UNCHANGED outputVars
    BY <1>4 DEF Svc, Load, LoadFails, Stamp
  <2>3. QED
    BY <1>1, <2>1, <2>2
<1>5. CASE Svc(s, i) /\ s = 3
  <2> DEFINE g == task[3][i]
  <2>1. Pointers(f) \in Nat
    BY NodeTypes, CountsFinite
  <2>2. Pointers(f)' = Pointers(f) - (IF g = f THEN 1 ELSE 0)
    BY <1>5, SvcPointers
  <2>3. /\ g \in File /\ Holding(3, i, g) /\ 3 \in Stage
        /\ \/ disk' = [disk EXCEPT ![g] = image[g]] /\ failed' = failed
           \/ disk' = disk /\ failed' = failed \cup {g}
    BY <1>5, SettleFacts
  <2>4. image[g] # "absent" /\ disk \in [File -> Object \cup {"absent"}]
    BY <2>3 DEF TypeInv, TypeOK, Object
  <2> HIDE DEF g
  <2>5. CASE g # f
    <3>1. disk'[f] = disk[f]
      BY <2>3, <2>4, <2>5
    <3>2. f \in failed' <=> f \in failed
      BY <2>3, <2>5
    <3>3. Cardinality(failed' \cap {f}) = Cardinality(failed \cap {f})
      BY <3>2, Once
    <3>4. Pointers(f)' = Pointers(f)
      BY <2>1, <2>2, <2>5
    <3>5. QED
      BY ONLY <1>a, <3>1, <3>3, <3>4 DEF Places, emitterVars
  <2>6. CASE g = f
    <3>1. /\ Pointers(f) = 1 /\ f \notin unread /\ disk[f] = "absent"
          /\ ~(emitter = "send" /\ file_name = f) /\ f \notin failed
      BY <2>3, <2>6, OnlyHolder
    <3>2. Pointers(f)' = 0
      BY <2>2, <2>6, <3>1
    <3>3. /\ Cardinality(unread' \cap {f}) = 0
          /\ ~(emitter' = "send" /\ file_name' = f)
      BY <1>a, <3>1, Once DEF emitterVars
    <3>4. (IF disk'[f] # "absent" THEN 1 ELSE 0) + Cardinality(failed' \cap {f}) = 1
      <4>1. disk'[f] # "absent" <=> f \notin failed'
        BY <2>3, <2>4, <2>6, <3>1
      <4>2. Cardinality(failed' \cap {f}) = IF f \in failed' THEN 1 ELSE 0
        BY Once
      <4>3. QED
        BY <4>1, <4>2
    <3>5. QED
      BY ONLY <3>2, <3>3, <3>4 DEF Places
  <2>7. QED
    BY <2>5, <2>6
<1>6. QED
  BY <1>2, <1>3, <1>4, <1>5 DEF Node

\* Nor does the load balancer.
LEMMA BalancerConservation ==
    ASSUME TypeInv, Conservation, LoadBalancer
    PROVE  Conservation'
<1> SUFFICES ASSUME NEW f \in File PROVE Places(f)' = 1
  BY OnePlace
<1>a. Places(f) = 1 /\ UNCHANGED <<pc, task, disk, failed>>
  BY OnePlace DEF LoadBalancer, nodeVars, outputVars
<1>b. Pointers(f) \in Nat /\ f # EOS
  BY NodeTypes, CountsFinite, FFAssumption
<1>1. ASSUME UNCHANGED queue PROVE Pointers(f)' = Pointers(f)
  BY <1>a, <1>1 DEF Pointers, Holders, Holds, Queues
<1>2. CASE SourceOpen \/ SourceCount \/ SourceEndOfDir
  <2>1. /\ UNCHANGED <<unread, queue>>
        /\ emitter # "send" /\ emitter' # "send"
    BY <1>2 DEF SourceOpen, SourceCount, SourceEndOfDir
  <2>2. QED
    BY <1>a, <1>1, <2>1 DEF Places
<1>3. CASE SourceRead
  <2>1. PICK g \in unread : file_name' = g /\ unread' = unread \ {g}
    BY <1>3 DEF SourceRead
  <2>2. emitter = "read" /\ emitter' = "send" /\ queue' = queue
    BY <1>3 DEF SourceRead
  <2>3. /\ Cardinality(unread \cap {f}) = IF f \in unread THEN 1 ELSE 0
        /\ Cardinality(unread' \cap {f}) = IF f \in unread' THEN 1 ELSE 0
    BY Once
  <2>4. Cardinality(unread' \cap {f}) + (IF file_name' = f THEN 1 ELSE 0)
          = Cardinality(unread \cap {f})
    BY <2>1, <2>3
  <2>5. Pointers(f)' = Pointers(f)
    BY <1>1, <2>2
  <2>6. Cardinality(unread \cap {f}) \in Nat /\ Cardinality(unread' \cap {f}) \in Nat
    BY <2>3
  <2>7. QED
    BY <1>a, <1>b, <2>2, <2>4, <2>5, <2>6 DEF Places
<1>4. CASE SourceSend
  <2>1. /\ nextw' \in Worker /\ file_name \in Task
        /\ Enqueue(1, nextw', file_name)
    BY <1>4, NextWorker DEF SourceSend, TypeInv, TypeOK
  <2>2. Pointers(f)' = Pointers(f) + (IF file_name = f THEN 1 ELSE 0)
    BY <1>a, <2>1, BalancerPointers
  <2>3. emitter = "send" /\ emitter' = "count" /\ unread' = unread
    BY <1>4 DEF SourceSend
  <2>4. /\ Cardinality(unread \cap {f}) \in Nat
        /\ Cardinality(failed \cap {f}) \in Nat
    BY Once
  <2>5. QED
    BY ONLY <1>a, <1>b, <2>2, <2>3, <2>4 DEF Places
<1>5. CASE PushEos
  <2>1. eosSent \in Worker /\ EOS \in Task /\ Enqueue(1, eosSent, EOS)
    <3>1. eosSent \in Nat /\ eosSent < ParDeg /\ Enqueue(1, eosSent, EOS)
      BY <1>5 DEF PushEos, TypeInv, SourceOrder, TypeOK
    <3>2. QED
      BY <3>1, FFAssumption DEF Worker, Task
  <2>2. Pointers(f)' = Pointers(f) + (IF EOS = f THEN 1 ELSE 0)
    BY <1>a, <2>1, BalancerPointers
  <2>3. emitter # "send" /\ emitter' # "send" /\ unread' = unread
    BY <1>5 DEF PushEos
  <2>4. QED
    BY <1>a, <1>b, <2>2, <2>3 DEF Places
<1>6. QED
  BY <1>2, <1>3, <1>4, <1>5 DEF LoadBalancer

\* Every step keeps each image in one place.
LEMMA StepConservation == TypeInv /\ Conservation /\ [Next]_vars => Conservation'
<1> SUFFICES ASSUME TypeInv, Conservation, [Next]_vars PROVE Conservation'
  OBVIOUS
<1>1. CASE Main \/ UNCHANGED vars
  <2>1. UNCHANGED <<emitterVars, queue, nodeVars, outputVars>>
    BY <1>1 DEF Main, MainSpawn, MainJoin, MainReturn, vars
  <2>2. Queues(1)' = Queues(1)
    BY <2>1 DEF Queues
  <2>3. ASSUME NEW f \in File PROVE Places(f)' = Places(f)
    <3>1. Holders(f)' = Holders(f)
      BY <2>1 DEF Holders, Holds, nodeVars
    <3>2. Pointers(f)' = Pointers(f)
      BY <2>2, <3>1 DEF Pointers
    <3>3. QED
      BY <2>1, <3>2 DEF Places, emitterVars, outputVars
  <2>4. QED
    BY <2>3, OnePlace
<1>2. QED
  BY <1>1, BalancerConservation, NodeConservation DEF Next, Step, Exit

\* It holds when every image is still in the folder.
LEMMA InitConservation == Init => Conservation
<1> SUFFICES ASSUME Init, NEW f \in File PROVE Places(f) = 1
  BY OnePlace
<1>1. Holders(f) = {} /\ Spots(Queues(1), f) = {}
  <2>1. \A p \in Stage \X Worker : pc[p[1]][p[2]] = "pop" /\ queue[p[1]][p[2]] = <<>>
    BY DEF Init
  <2>2. Holders(f) = {}
    BY <2>1 DEF Holders, Holds
  <2>3. \A p \in DOMAIN Queues(1) : Positions(Queues(1)[p], f) = {}
    BY <2>1 DEF Queues, Positions, Stage
  <2>4. Spots(Queues(1), f) = {}
    BY <2>3 DEF Spots
  <2>5. QED
    BY <2>2, <2>4
<1>2. Pointers(f) = 0
  BY <1>1, FS_EmptySet DEF Pointers
<1>3. Cardinality(unread \cap {f}) = 1 /\ Cardinality(failed \cap {f}) = 0
  BY Once DEF Init
<1>4. disk[f] = "absent" /\ emitter # "send"
  BY DEF Init
<1>5. QED
  BY ONLY <1>2, <1>3, <1>4 DEF Places

\* No image is lost, doubled or handled by two pipelines, however long a node
\* waits at a full or an empty queue.
THEOREM NoImageLost == Spec => []Conservation
BY InitConservation, StepConservation, TypeInvariance, PTL DEF Spec
-----------------------------------------------------------------------------
\* The image is on the heap.
Live(f) == image[f] \in {"raw", "stamped", "overstamped"}

\* Threads that only hold the name of the file are no users of its image.
LEMMA ReachableBound ==
    ASSUME TypeInv, NEW f \in File, NEW X \in SUBSET (Holders(f) \ Users(f))
    PROVE  Reachable(f) + Cardinality(X) <= Pointers(f)
<1> DEFINE H == Holders(f)
           U == Users(f)
           S == Spots(Queues(1), f)
           T == Spots(Queues(2), f)
<1>1. /\ IsFiniteSet(H) /\ IsFiniteSet(U) /\ IsFiniteSet(S) /\ IsFiniteSet(T)
      /\ Cardinality(H) \in Nat /\ Cardinality(U) \in Nat
      /\ Cardinality(S) \in Nat /\ Cardinality(T) \in Nat
  BY NodeTypes, CountsFinite
<1>2. U \cup X \subseteq H /\ U \cap X = {}
  BY DEF Users
<1>3. T \subseteq S
  <2>1. ASSUME NEW q \in T PROVE q \in S
    <3>1. PICK p \in DOMAIN Queues(2) :
            q \in {<<p, k>> : k \in Positions(Queues(2)[p], f)}
      BY DEF Spots
    <3>2. p \in DOMAIN Queues(1) /\ Queues(1)[p] = Queues(2)[p]
      BY <3>1 DEF Queues
    <3>3. QED
      BY <3>1, <3>2 DEF Spots
  <2>2. QED
    BY <2>1
<1> HIDE DEF H, U, S, T
<1>4. IsFiniteSet(X) /\ Cardinality(X) \in Nat
  BY <1>1, <1>2, FS_Subset, FS_CardinalityType
<1>5. Cardinality(U) + Cardinality(X) <= Cardinality(H)
  <2>1. Cardinality(U \cup X) = Cardinality(U) + Cardinality(X)
    <3>1. Cardinality(U \cap X) = 0
      BY <1>2, FS_EmptySet
    <3>2. Cardinality(U \cup X)
            = Cardinality(U) + Cardinality(X) - Cardinality(U \cap X)
      BY <1>1, <1>4, FS_Union
    <3>3. QED
      BY <1>1, <1>4, <3>1, <3>2
  <2>2. Cardinality(U \cup X) <= Cardinality(H)
    BY <1>1, <1>2, FS_Subset
  <2>3. QED
    BY <2>1, <2>2
<1>6. Cardinality(T) <= Cardinality(S)
  BY <1>1, <1>3, FS_Subset
<1>7. QED
  BY <1>1, <1>4, <1>5, <1>6 DEF Pointers, Reachable, H, U, S, T

\* An image that is in one place is with at most one user.
LEMMA ReachableOnce ==
    ASSUME TypeInv, Conservation, NEW f \in File
    PROVE  /\ Reachable(f) \in 0..1
           /\ \A s \in Stage, i \in Worker : Using(s, i, f) => Reachable(f) = 1
           /\ \A s \in Stage, i \in Worker :
                Holding(s, i, f) /\ ~Using(s, i, f) => Reachable(f) = 0
<1>1. /\ Pointers(f) \in Nat /\ Reachable(f) \in Nat
      /\ Cardinality(Users(f)) \in Nat /\ IsFiniteSet(Users(f))
      /\ Cardinality(Spots(Queues(2), f)) \in Nat
  BY NodeTypes, CountsFinite
<1>2. Pointers(f) <= 1
  <2>1. Places(f) = 1
    BY OnePlace
  <2>2. Cardinality(unread \cap {f}) \in Nat /\ Cardinality(failed \cap {f}) \in Nat
    BY Once
  <2>3. QED
    BY ONLY <1>1, <2>1, <2>2 DEF Places
<1>3. Reachable(f) <= Pointers(f)
  <2>1. {} \in SUBSET (Holders(f) \ Users(f)) /\ Cardinality({}) = 0
    BY FS_EmptySet
  <2>2. Reachable(f) + 0 <= Pointers(f)
    BY <2>1, ReachableBound
  <2>3. QED
    BY <1>1, <2>2
<1>4. ASSUME NEW s \in Stage, NEW i \in Worker, Using(s, i, f)
      PROVE  Reachable(f) = 1
  <2>1. <<s, i>> \in Users(f)
    BY <1>4 DEF Users, Holders, Using, Holding
  <2>2. Cardinality(Users(f)) >= 1
    BY <1>1, <2>1, FS_EmptySet
  <2>3. QED
    BY <1>1, <1>2, <1>3, <2>2 DEF Reachable
<1>5. ASSUME NEW s \in Stage, NEW i \in Worker, Holding(s, i, f), ~Using(s, i, f)
      PROVE  Reachable(f) = 0
  <2>1. {<<s, i>>} \in SUBSET (Holders(f) \ Users(f))
    BY <1>5 DEF Users, Holders, Using, Holding
  <2>2. Reachable(f) + 1 <= Pointers(f)
    BY <2>1, ReachableBound, FS_Singleton
  <2>3. QED
    BY <1>1, <1>2, <2>2
<1>6. QED
  BY <1>1, <1>2, <1>3, <1>4, <1>5

\* svc() of a node is called with a file it holds; it is a user of the image
\* from stage2 on.
LEMMA SvcHolds ==
    ASSUME TypeInv, NEW s \in Stage, NEW i \in Worker, Svc(s, i)
    PROVE  /\ task[s][i] \in File /\ pc[s][i] = "svc"
           /\ Holding(s, i, task[s][i]) /\ (Using(s, i, task[s][i]) <=> s # 1)
<1>1. pc[s][i] = "svc"
  BY DEF Svc, Load, LoadFails, Stamp, Save, SaveFails
<1>2. task[s][i] \in File /\ task[s][i] # EOS
  BY <1>1, FFAssumption DEF TypeInv, NodeOrder
<1>3. QED
  BY <1>1, <1>2 DEF Holding, Using, Holds

\* Every step keeps the image of a file on the heap as long as it has a user.
LEMMA StepImageOwned ==
    ASSUME TypeInv, Conservation, ImageOwned, [Next]_vars
    PROVE  ImageOwned'
<1> SUFFICES ASSUME NEW f \in File
             PROVE  Live(f)' <=> Reachable(f)' = 1
  BY DEF ImageOwned, Live
<1>a. /\ Live(f) <=> Reachable(f) = 1
      /\ Reachable(f) \in 0..1 /\ image \in [File -> Object]
  BY ReachableOnce DEF ImageOwned, Live, TypeInv, TypeOK
<1>1. ASSUME image' = image, Reachable(f)' = Reachable(f)
      PROVE  Live(f)' <=> Reachable(f)' = 1
  BY <1>a, <1>1 DEF Live
<1>2. CASE UNCHANGED <<queue, pc, task, image>>
  <2>1. Reachable(f)' = Reachable(f)
    BY <1>2 DEF Reachable, Users, Holders, Holds, Queues
  <2>2. QED
    BY <1>1, <1>2, <2>1
<1>3. CASE LoadBalancer
  <2>1. UNCHANGED <<pc, task, image>>
    BY <1>3 DEF LoadBalancer, nodeVars
  <2>2. CASE SourceSend
    <3>1. /\ nextw' \in Worker /\ file_name \in Task
          /\ Enqueue(1, nextw', file_name)
      BY <2>2, NextWorker DEF SourceSend, TypeInv, TypeOK
    <3>2. QED
      BY <1>1, <2>1, <3>1, BalancerPointers
  <2>3. CASE PushEos
    <3>1. eosSent \in Nat /\ eosSent < ParDeg /\ Enqueue(1, eosSent, EOS)
      BY <2>3 DEF PushEos, TypeInv, SourceOrder, TypeOK
    <3>2. eosSent \in Worker /\ EOS \in Task
      BY <3>1, FFAssumption DEF Worker, Task
    <3>3. QED
      BY <1>1, <2>1, <3>1, <3>2, BalancerPointers
  <2>4. CASE SourceOpen \/ SourceRead \/ SourceCount \/ SourceEndOfDir
    BY <1>2, <2>1, <2>4 DEF SourceOpen, SourceRead, SourceCount, SourceEndOfDir
  <2>5. QED
    BY <1>3, <2>2, <2>3, <2>4 DEF LoadBalancer
<1>4. ASSUME NEW s \in Stage, NEW i \in Worker, NodePop(s, i) \/ NodePush(s, i)
      PROVE  Live(f)' <=> Reachable(f)' = 1
  <2>1. image' = image
    BY <1>4 DEF NodePop, NodePush
  <2>2. QED
    BY <1>1, <1>4, <2>1, PopPointers, PushPointers
<1>5. ASSUME NEW s \in Stage, NEW i \in Worker, Svc(s, i)
      PROVE  Live(f)' <=> Reachable(f)' = 1
  <2> DEFINE g == task[s][i]
             made == Load(i) /\ s = 1 /\ g = f
  <2>1. Reachable(f)' = Reachable(f) + (IF made THEN 1 ELSE 0)
                          - (IF s = 3 /\ g = f THEN 1 ELSE 0)
    <3>1. Reachable(f)' = Reachable(f)
            + (IF Load(i) /\ s = 1 /\ task[1][i] = f THEN 1 ELSE 0)
            - (IF s = 3 /\ g = f THEN 1 ELSE 0)
      BY <1>5, SvcPointers
    <3>2. (Load(i) /\ s = 1 /\ task[1][i] = f) <=> made
      OBVIOUS
    <3>3. QED
      BY <3>1, <3>2
  <2>2. g \in File /\ Holding(s, i, g) /\ (Using(s, i, g) <=> s # 1)
    BY <1>5, SvcHolds
  <2>3. \/ image' = image /\ s = 1 /\ ~made
        \/ /\ \E o \in {"raw", "stamped", "overstamped"} :
                image' = [image EXCEPT ![g] = o]
           /\ (s = 1 /\ Load(i)) \/ s = 2
        \/ image' = [image EXCEPT ![g] = "deleted"] /\ s = 3
    <3>1. CASE s = 1 /\ Load(i)
      BY <3>1 DEF Load
    <3>2. CASE s = 1 /\ ~Load(i)
      BY <1>5, <3>2 DEF Svc, LoadFails, nodeVars
    <3>3. CASE s = 2
      BY <1>5, <3>3 DEF Svc, Stamp
    <3>4. CASE s = 3
      BY <1>5, <3>4 DEF Svc, Save, SaveFails
    <3>5. QED
      BY <3>1, <3>2, <3>3, <3>4 DEF Stage
  <2>4. g = f => Reachable(f) = IF s = 1 THEN 0 ELSE 1
    BY <2>2, ReachableOnce
  <2>5. CASE g # f
    <3>1. image'[f] = image[f]
      BY <1>a, <2>2, <2>3, <2>5
    <3>2. Reachable(f)' = Reachable(f)
      BY <1>a, <2>1, <2>5
    <3>3. QED
      BY <1>a, <3>1, <3>2 DEF Live
  <2>6. CASE g = f
    <3> HIDE DEF g
    <3>1. CASE s = 1 /\ ~Load(i)
      BY <1>a, <2>1, <2>3, <2>4, <3>1 DEF Live
    <3>2. CASE (s = 1 /\ Load(i)) \/ s = 2
      <4>1. image'[f] \in {"raw", "stamped", "overstamped"}
        BY <1>a, <2>3, <2>6, <3>2
      <4>2. Reachable(f)' = 1
        BY <2>1, <2>4, <2>6, <3>2
      <4>3. QED
        BY <4>1, <4>2 DEF Live
    <3>3. CASE s = 3
      <4>1. image'[f] = "deleted"
        BY <1>a, <2>3, <2>6, <3>3
      <4>2. Reachable(f)' = 0
        BY <2>1, <2>4, <2>6, <3>3
      <4>3. QED
        BY <4>1, <4>2 DEF Live
    <3>4. QED
      BY <3>1, <3>2, <3>3 DEF Stage
  <2>7. QED
    BY <2>5, <2>6
<1>6. QED
  BY <1>2, <1>3, <1>4, <1>5
  DEF Next, Step, Exit, Main, MainSpawn, MainJoin, MainReturn, vars, nodeVars, Node

\* No image is on the heap at the start.
LEMMA InitImageOwned == Init => ImageOwned
<1> SUFFICES ASSUME Init, NEW f \in File PROVE ~Live(f) /\ Reachable(f) # 1
  BY DEF ImageOwned, Live
<1>1. TypeInv /\ Conservation
  BY InitTypeInv, InitConservation
<1>2. Pointers(f) = 0
  <2>1. f \in unread /\ Places(f) = 1 /\ Pointers(f) \in Nat
    BY <1>1, OnePlace, NodeTypes, CountsFinite DEF Init
  <2>2. Cardinality(unread \cap {f}) = 1 /\ Cardinality(failed \cap {f}) \in Nat
    BY <2>1, Once
  <2>3. QED
    BY ONLY <2>1, <2>2 DEF Places
<1>3. Reachable(f) + 0 <= Pointers(f) /\ Reachable(f) \in Nat
  <2>1. {} \in SUBSET (Holders(f) \ Users(f)) /\ Cardinality({}) = 0
    BY FS_EmptySet
  <2>2. QED
    BY <1>1, <2>1, ReachableBound, NodeTypes, CountsFinite
<1>4. QED
  BY <1>2, <1>3 DEF Init, Live

\* An image is on the heap exactly while one thread or queue leads to it: no
\* stage uses it after stage3 has deleted it, and it is deleted even when the
\* save fails.
THEOREM ImagesAreOwned == Spec => []ImageOwned
<1>1. TypeInv /\ Conservation /\ ImageOwned /\ [Next]_vars => ImageOwned'
  BY StepImageOwned
<1>2. QED
  BY <1>1, InitImageOwned, TypeInvariance, NoImageLost, PTL DEF Spec
-----------------------------------------------------------------------------
\* The stamps on an image on its way to stage s.
Before(s) == IF s = 2 THEN "raw" ELSE "stamped"

\* The images that node (s, i) and its queue point to are stamped as far as
\* their way has brought them; stage1 has no images yet, only names.
QueueShows(s, i) ==
    \A k \in DOMAIN queue[s][i] :
        queue[s][i][k] # EOS => image[queue[s][i][k]] = Before(s)

NodeShows(s, i) ==
    /\ s # 1 /\ pc[s][i] = "svc" => image[task[s][i]] = Before(s)
    /\ pc[s][i] = "push" /\ task[s][i] # EOS => image[task[s][i]] = Before(s + 1)

Shows(s, i) == (s # 1 => QueueShows(s, i)) /\ NodeShows(s, i)

StampInv ==
    /\ \A s \in Stage, i \in Worker : Shows(s, i)
    /\ \A f \in File : disk[f] \in {"absent", "stamped"}

\* The pointer of f is with node (s, i) or in its queue.
At(s, i, f) ==
    Holding(s, i, f) \/ \E k \in DOMAIN queue[s][i] : queue[s][i][k] = f

\* A pointer that a thread holds is nowhere else.
LEMMA NotElsewhere ==
    ASSUME TypeInv, Conservation, NEW s \in Stage, NEW i \in Worker,
           NEW f \in File, Holding(s, i, f),
           NEW r \in Stage, NEW j \in Worker
    PROVE  /\ \A k \in DOMAIN queue[r][j] : queue[r][j][k] # f
           /\ r # s \/ j # i => ~Holding(r, j, f)
<1>1. Holders(f) = {<<s, i>>} /\ Spots(Queues(1), f) = {}
  BY OnlyHolder
<1>2. r # s \/ j # i => ~Holding(r, j, f)
  <2>1. Holding(r, j, f) => <<r, j>> \in Holders(f)
    BY DEF Holding, Holders
  <2>2. QED
    BY <1>1, <2>1
<1>3. ASSUME NEW k \in DOMAIN queue[r][j], queue[r][j][k] = f
      PROVE  FALSE
  <2> DEFINE p == <<r, j>>
  <2>1. p \in DOMAIN Queues(1) /\ Queues(1)[p] = queue[r][j]
    BY DEF Queues, Stage
  <2> HIDE DEF p
  <2>2. k \in Positions(Queues(1)[p], f)
    BY <1>3, <2>1 DEF Positions
  <2>3. <<p, k>> \in Spots(Queues(1), f)
    BY <2>1, <2>2 DEF Spots
  <2>4. QED
    BY <1>1, <2>3
<1>4. QED
  BY <1>2, <1>3

\* What a node and its queue point to stays as it is.
LEMMA QueueShowsKept ==
    ASSUME TypeInv, NEW s \in Stage, NEW i \in Worker, QueueShows(s, i),
           queue'[s][i] = queue[s][i], NEW g,
           \A f \in File \ {g} : image'[f] = image[f],
           image' = image \/ ~At(s, i, g)
    PROVE  QueueShows(s, i)'
<1>1. queue[s][i] \in Seq(Task)
  BY NodeTypes DEF QueueType
<1>2. ASSUME NEW k \in DOMAIN queue[s][i], queue[s][i][k] # EOS
      PROVE  image'[queue[s][i][k]] = Before(s)
  <2>1. queue[s][i][k] \in File
    BY <1>1, <1>2, ElementOfSeq DEF Task
  <2>2. image[queue[s][i][k]] = Before(s)
    BY <1>2 DEF QueueShows
  <2>3. image' = image \/ queue[s][i][k] # g
    BY DEF At
  <2>4. QED
    BY <2>1, <2>2, <2>3
<1>3. QED
  BY <1>2 DEF QueueShows, Before

\* So does what the thread itself holds.
LEMMA NodeShowsKept ==
    ASSUME TypeInv, NEW s \in Stage, NEW i \in Worker, NodeShows(s, i),
           pc'[s][i] = pc[s][i], task'[s][i] = task[s][i], NEW g,
           \A f \in File \ {g} : image'[f] = image[f],
           image' = image \/ ~At(s, i, g)
    PROVE  NodeShows(s, i)'
<1>1. CASE pc[s][i] \in {"svc", "push"} /\ task[s][i] # EOS
  <2>1. task[s][i] \in File
    BY <1>1, NodeTypes DEF Task
  <2>2. image' = image \/ task[s][i] # g
    BY <1>1 DEF At, Holding, Holds
  <2>3. image'[task[s][i]] = image[task[s][i]]
    BY <2>1, <2>2
  <2>4. QED
    BY <2>3 DEF NodeShows, Before
<1>2. CASE pc[s][i] \notin {"svc", "push"}
  BY <1>2 DEF NodeShows
<1>3. CASE task[s][i] = EOS
  <2>1. pc[s][i] # "svc"
    BY <1>3, FFAssumption DEF TypeInv, NodeOrder
  <2>2. QED
    BY <1>3, <2>1 DEF NodeShows
<1>4. QED
  BY <1>1, <1>2, <1>3

\* A step of node (s, i) that changes at most the image behind its pointer g
\* leaves what the other nodes show.
LEMMA OthersShow ==
    ASSUME TypeInv, StampInv, NEW s \in Stage, NEW i \in Worker,
           OthersStay(s, i), NEW g, \A f \in File \ {g} : image'[f] = image[f],
           NEW r \in Stage, NEW j \in Worker, image' = image \/ ~At(r, j, g)
    PROVE  /\ r # s \/ j # i => NodeShows(r, j)'
           /\ r # 1 /\ queue'[r][j] = queue[r][j] => QueueShows(r, j)'
<1>1. NodeShows(r, j) /\ (r # 1 => QueueShows(r, j))
  BY DEF StampInv, Shows
<1>2. ASSUME r # s \/ j # i PROVE NodeShows(r, j)'
  <2>1. pc'[r][j] = pc[r][j] /\ task'[r][j] = task[r][j]
    BY <1>2 DEF OthersStay
  <2>2. QED
    BY <1>1, <2>1, NodeShowsKept
<1>3. ASSUME r # 1, queue'[r][j] = queue[r][j] PROVE QueueShows(r, j)'
  BY <1>1, <1>3, QueueShowsKept
<1>4. QED
  BY <1>2, <1>3

\* After a pop the node shows what the queue showed.
LEMMA PopStamps ==
    ASSUME TypeInv, StampInv, NEW s \in Stage, NEW i \in Worker, NodePop(s, i),
           NEW r \in Stage, NEW j \in Worker
    PROVE  Shows(r, j)'
<1> DEFINE t == Head(queue[s][i])
           q == queue[s][i]
<1>1. /\ queue \in QueueType /\ Dequeue(s, i) /\ image' = image
      /\ pc \in [Stage -> [Worker -> {"pop", "svc", "push", "done"}]]
      /\ task \in [Stage -> [Worker -> Task]]
  BY NodeTypes DEF NodePop, Dequeue
<1>2. /\ task' = [task EXCEPT ![s][i] = t]
      /\ pc' = [pc EXCEPT ![s][i] = IF t # EOS THEN "svc"
                                    ELSE IF s < 3 THEN "push" ELSE "done"]
  BY DEF NodePop, Goto
<1>3. OthersStay(s, i)
  <2> HIDE DEF t
  <2>1. QED
    BY <1>1, <1>2 DEF OthersStay
<1>4. /\ queue'[s][i] = Tail(q) /\ q # <<>>
      /\ r # s \/ j # i => queue'[r][j] = queue[r][j]
  <2>1. q # <<>>
    BY <1>1 DEF Dequeue
  <2>2. QED
    BY <1>1, <2>1, DequeueFacts
<1>5. CASE r # s \/ j # i
  <2>1. \A f \in File \ {EOS} : image'[f] = image[f]
    BY <1>1
  <2>2. NodeShows(r, j)' /\ (r # 1 => QueueShows(r, j)')
    BY <1>1, <1>3, <1>4, <1>5, <2>1, OthersShow
  <2>3. QED
    BY <2>2 DEF Shows
<1>6. CASE r = s /\ j = i
  <2>1. q \in Seq(Task)
    BY <1>1 DEF QueueType
  <2>2. /\ Len(q) \in Nat \ {0} /\ DOMAIN q = 1..Len(q) /\ t = q[1]
        /\ DOMAIN Tail(q) = 1..(Len(q) - 1)
        /\ \A k \in 1..(Len(q) - 1) : Tail(q)[k] = q[k + 1]
    <3> HIDE DEF q
    <3>1. Len(q) \in Nat \ {0} /\ DOMAIN q = 1..Len(q) /\ Head(q) = q[1]
      BY <1>4, <2>1, LenProperties, EmptySeq, HeadTailProperties
    <3>2. /\ Tail(q) \in Seq(Task) /\ Len(Tail(q)) = Len(q) - 1
          /\ \A k \in 1..(Len(q) - 1) : Tail(q)[k] = q[k + 1]
      BY <1>4, <2>1, HeadTailProperties
    <3>3. QED
      BY <3>1, <3>2, LenProperties DEF q
  <2>3. s # 1 => \A k \in DOMAIN q : q[k] # EOS => image[q[k]] = Before(s)
    BY DEF StampInv, Shows, QueueShows
  <2>4. s # 1 /\ t # EOS => image[t] = Before(s)
    <3> HIDE DEF q
    <3>1. QED
      BY <2>2, <2>3
  <2>5. s # 1 => \A k \in DOMAIN Tail(q) : Tail(q)[k] # EOS
                                         => image[Tail(q)[k]] = Before(s)
    <3> HIDE DEF q
    <3>1. QED
      BY <2>2, <2>3
  <2>6. s # 1 => QueueShows(s, i)'
    BY <1>1, <1>4, <2>5 DEF QueueShows, Before
  <2>7. /\ task'[s][i] = t
        /\ pc'[s][i] = "svc" => t # EOS
        /\ pc'[s][i] = "push" => t = EOS
    <3> HIDE DEF t
    <3>1. QED
      BY <1>1, <1>2
  <2>8. NodeShows(s, i)'
    <3> HIDE DEF t
    <3>1. QED
      BY <1>1, <2>4, <2>7 DEF NodeShows, Before
  <2>9. QED
    BY <1>6, <2>6, <2>8 DEF Shows
<1>7. QED
  BY <1>5, <1>6

\* After a push the next queue shows what the node showed.
LEMMA PushStamps ==
    ASSUME TypeInv, StampInv, NEW s \in Stage, NEW i \in Worker, NodePush(s, i),
           NEW r \in Stage, NEW j \in Worker
    PROVE  Shows(r, j)'
<1> DEFINE t == task[s][i]
           q == queue[s + 1][i]
           n == Len(q) + 1
<1>1. /\ queue \in QueueType
      /\ pc \in [Stage -> [Worker -> {"pop", "svc", "push", "done"}]]
      /\ task \in [Stage -> [Worker -> Task]]
  BY NodeTypes
<1>2. /\ pc[s][i] = "push" /\ s < 3 /\ task' = task /\ image' = image
      /\ pc' = [pc EXCEPT ![s][i] = IF t = EOS THEN "done" ELSE "pop"]
      /\ Enqueue(s + 1, i, t) /\ s + 1 \in Stage /\ t \in Task
  BY <1>1 DEF NodePush, Goto, Stage
<1>3. OthersStay(s, i)
  <2> HIDE DEF t
  <2>1. QED
    BY <1>1, <1>2 DEF OthersStay
<1>4. /\ queue'[s + 1][i] = Append(q, t) /\ q \in Seq(Task)
      /\ r # s + 1 \/ j # i => queue'[r][j] = queue[r][j]
  <2>1. q \in Seq(Task)
    BY <1>1, <1>2 DEF QueueType
  <2>2. QED
    BY <1>1, <1>2, <2>1, EnqueueFacts
<1>5. \A f \in File \ {EOS} : image'[f] = image[f]
  BY <1>2
<1>6. NodeShows(r, j)'
  <2>1. CASE r # s \/ j # i
    BY <1>2, <1>3, <1>5, <2>1, OthersShow
  <2>2. CASE r = s /\ j = i
    <3>1. pc'[s][i] \notin {"svc", "push"}
      BY <1>1, <1>2
    <3>2. QED
      BY <2>2, <3>1 DEF NodeShows
  <2>3. QED
    BY <2>1, <2>2
<1>7. r # 1 => QueueShows(r, j)'
  <2>1. CASE r # s + 1 \/ j # i
    BY <1>2, <1>3, <1>4, <1>5, <2>1, OthersShow
  <2>2. CASE r = s + 1 /\ j = i
    <3>1. /\ DOMAIN q = 1..Len(q) /\ Len(q) \in Nat
          /\ DOMAIN Append(q, t) = 1..n
          /\ \A k \in 1..Len(q) : Append(q, t)[k] = q[k]
          /\ Append(q, t)[n] = t
      <4>1. q \in Seq(Task) /\ t \in Task
        BY <1>2, <1>4
      <4> HIDE DEF q, t
      <4>2. QED
        BY <4>1, AppendProperties, LenProperties
    <3>2. s + 1 # 1
      BY DEF Stage
    <3>3. \A k \in DOMAIN q : q[k] # EOS => image[q[k]] = Before(s + 1)
      BY <1>2, <3>2 DEF StampInv, Shows, QueueShows
    <3>4. t # EOS => image[t] = Before(s + 1)
      BY <1>2 DEF StampInv, Shows, NodeShows
    <3>5. \A k \in DOMAIN Append(q, t) :
             Append(q, t)[k] # EOS => image[Append(q, t)[k]] = Before(s + 1)
      <4> HIDE DEF q, t
      <4>1. QED
        BY <3>1, <3>3, <3>4
    <3>6. QED
      BY <1>2, <1>4, <2>2, <3>5 DEF QueueShows, Before
  <2>3. QED
    BY <2>1, <2>2
<1>8. QED
  BY <1>6, <1>7 DEF Shows

\* svc() works on the one image its node holds: stage1 makes it, stage2 finds
\* it raw and stamps it, stage3 finds it stamped, writes and deletes it.
LEMMA SvcStamps ==
    ASSUME TypeInv, Conservation, StampInv, NEW s \in Stage, NEW i \in Worker,
           Svc(s, i)
    PROVE  StampInv'
<1> DEFINE g == task[s][i]
<1>1. /\ queue \in QueueType
      /\ pc \in [Stage -> [Worker -> {"pop", "svc", "push", "done"}]]
      /\ image \in [File -> Object] /\ disk \in [File -> Object \cup {"absent"}]
  BY NodeTypes DEF TypeInv, TypeOK
<1>2. g \in File /\ pc[s][i] = "svc" /\ Holding(s, i, g)
  BY SvcHolds
<1>3. /\ UNCHANGED <<queue, task>>
      /\ \/ pc' = pc /\ image' = image /\ s = 1
         \/ pc' = [pc EXCEPT ![s][i] = "push"] /\ s < 3
              /\ image' = [image EXCEPT ![g] =
                    IF s = 1 THEN "raw"
                    ELSE IF image[g] = "raw" THEN "stamped" ELSE "overstamped"]
         \/ pc' = [pc EXCEPT ![s][i] = "pop"] /\ s = 3
              /\ image' = [image EXCEPT ![g] = "deleted"]
      /\ disk' = disk \/ (s = 3 /\ disk' = [disk EXCEPT ![g] = image[g]])
  <2>1. CASE s = 1
    BY <2>1 DEF Svc, Load, LoadFails, Goto, nodeVars, outputVars
  <2>2. CASE s = 2
    BY <2>2 DEF Svc, Stamp, Goto, outputVars
  <2>3. CASE s = 3
    BY <2>3 DEF Svc, Save, SaveFails, Goto
  <2>4. QED
    BY <2>1, <2>2, <2>3 DEF Stage
<1>4. s # 1 => image[g] = Before(s)
  BY <1>2 DEF StampInv, Shows, NodeShows
<1>5. OthersStay(s, i) /\ \A f \in File \ {g} : image'[f] = image[f]
  <2> HIDE DEF g
  <2>1. QED
    BY <1>1, <1>3 DEF OthersStay
<1>6. ASSUME NEW r \in Stage, NEW j \in Worker
      PROVE  Shows(r, j)'
  <2>1. r # 1 => QueueShows(r, j)'
    <3>1. \A k \in DOMAIN queue[r][j] : queue[r][j][k] # g
      BY <1>2, NotElsewhere
    <3>2. queue'[r][j] = queue[r][j] /\ (r # 1 => QueueShows(r, j))
      BY <1>3 DEF StampInv, Shows
    <3>3. queue[r][j] \in Seq(Task)
      BY <1>1 DEF QueueType
    <3> HIDE DEF g
    <3>4. ASSUME r # 1, NEW k \in DOMAIN queue[r][j], queue[r][j][k] # EOS
          PROVE  image'[queue[r][j][k]] = Before(r)
      <4>1. queue[r][j][k] \in File \ {g}
        BY <3>1, <3>3, <3>4, ElementOfSeq DEF Task
      <4>2. QED
        BY <1>5, <3>2, <3>4, <4>1 DEF QueueShows
    <3>5. QED
      BY <3>2, <3>4 DEF QueueShows, Before
  <2>2. CASE r # s \/ j # i
    <3>1. ~At(r, j, g)
      BY <1>2, <2>2, NotElsewhere DEF At
    <3>2. NodeShows(r, j)'
      BY <1>5, <2>2, <3>1, OthersShow
    <3>3. QED
      BY <2>1, <3>2 DEF Shows
  <2>3. CASE r = s /\ j = i
    <3>1. NodeShows(s, i)'
      <4>1. CASE pc' = pc /\ image' = image /\ s = 1
        BY <1>3, <4>1 DEF StampInv, Shows, NodeShows, Before
      <4>2. CASE pc'[s][i] = "push" /\ s < 3 /\ image'[g] =
                    IF s = 1 THEN "raw"
                    ELSE IF image[g] = "raw" THEN "stamped" ELSE "overstamped"
        <5>1. image'[g] = Before(s + 1)
          BY <1>4, <4>2 DEF Before, Stage
        <5>2. QED
          BY <1>3, <4>2, <5>1 DEF NodeShows, Before
      <4>3. CASE pc'[s][i] = "pop"
        BY <4>3 DEF NodeShows
      <4>4. QED
        BY <1>1, <1>2, <1>3, <4>1, <4>2, <4>3
    <3>2. QED
      BY <2>1, <2>3, <3>1 DEF Shows
  <2>4. QED
    BY <2>2, <2>3
<1>7. ASSUME NEW f \in File PROVE disk'[f] \in {"absent", "stamped"}
  <2>1. disk[f] \in {"absent", "stamped"}
    BY DEF StampInv
  <2>2. s = 3 => image[g] = "stamped"
    BY <1>4 DEF Before
  <2> HIDE DEF g
  <2>3. QED
    BY <1>1, <1>2, <1>3, <2>1, <2>2
<1>8. QED
  BY <1>6, <1>7 DEF StampInv

\* Every step keeps the images stamped as far as they have come.
LEMMA StepStampInv ==
    ASSUME TypeInv, Conservation, StampInv, [Next]_vars
    PROVE  StampInv'
<1>1. ASSUME UNCHANGED <<pc, task, image, disk>>,
             \A r \in 2..3, j \in Worker : queue'[r][j] = queue[r][j]
      PROVE  StampInv'
  <2>1. \A r \in Stage, j \in Worker : r # 1 => queue'[r][j] = queue[r][j]
    BY <1>1 DEF Stage
  <2>2. QED
    BY <1>1, <2>1 DEF StampInv, Shows, QueueShows, NodeShows, Before
<1>2. CASE UNCHANGED <<queue, pc, task, image, disk>>
  BY <1>1, <1>2
<1>3. CASE LoadBalancer
  <2>1. UNCHANGED <<pc, task, image, disk>>
    BY <1>3 DEF LoadBalancer, nodeVars, outputVars
  <2>2. \A r \in 2..3, j \in Worker : queue'[r][j] = queue[r][j]
    <3>1. CASE UNCHANGED queue
      BY <3>1
    <3>2. ASSUME NEW w, NEW t, Enqueue(1, w, t)
          PROVE  \A r \in 2..3, j \in Worker : queue'[r][j] = queue[r][j]
      BY <3>2, NodeTypes DEF Enqueue, QueueType, Stage
    <3>3. QED
      BY <1>3, <3>1, <3>2 DEF LoadBalancer, SourceOpen, SourceRead, SourceSend,
                              SourceCount, SourceEndOfDir, PushEos
  <2>3. QED
    BY <1>1, <2>1, <2>2
<1>4. ASSUME NEW s \in Stage, NEW i \in Worker, NodePop(s, i) \/ NodePush(s, i)
      PROVE  StampInv'
  <2>1. disk' = disk
    BY <1>4 DEF NodePop, NodePush, outputVars
  <2>2. \A r \in Stage, j \in Worker : Shows(r, j)'
    BY <1>4, PopStamps, PushStamps
  <2>3. QED
    BY <2>1, <2>2 DEF StampInv
<1>5. QED
  BY <1>2, <1>3, <1>4, SvcStamps
  DEF Next, Step, Exit, Main, MainSpawn, MainJoin, MainReturn, vars, nodeVars,
      outputVars, Node

\* There is nothing to show when main() starts.
LEMMA InitStampInv == Init => StampInv
BY DEF Init, StampInv, Shows, QueueShows, NodeShows, Stage
-----------------------------------------------------------------------------
\* The threads joined have returned.
JoinedExited == \A k \in 0..(joined - 1) : Exited(k)

\* The thread of every node of every pipeline has its place among the joins.
LEMMA ThreadIndex ==
    /\ \A k \in 0..(3 * ParDeg - 1) : k \div 3 \in Worker /\ (k % 3) + 1 \in Stage
    /\ \A i \in Worker : (3 * i + 2) \div 3 = i /\ (3 * i + 2) % 3 = 2
BY FFAssumption DEF Worker, Stage

\* A thread that has returned stays so; main() joins it only then.
LEMMA StepJoinedExited ==
    ASSUME TypeInv, JoinedExited, [Next]_vars
    PROVE  JoinedExited'
<1>a. joined \in 0..ThreadCount /\ ThreadCount = 3 * ParDeg + 1 /\ ParDeg \in Nat
  BY FFAssumption DEF TypeInv, TypeOK, ThreadCount
<1>1. ASSUME NEW k \in 0..(3 * ParDeg), Exited(k)
      PROVE  Exited(k)'
  <2>1. CASE k = 3 * ParDeg
    <3>1. emitter = "done"
      BY <1>1, <2>1 DEF Exited
    <3>2. emitter' = "done"
      BY <3>1 DEF Next, Step, Exit, Main, MainSpawn, MainJoin, MainReturn, vars,
         emitterVars, LoadBalancer, SourceOpen, SourceRead, SourceSend,
         SourceCount, SourceEndOfDir, PushEos, Node
    <3>3. QED
      BY <2>1, <3>2 DEF Exited
  <2>2. CASE k # 3 * ParDeg
    <3>1. k \in 0..(3 * ParDeg - 1)
      BY <1>a, <2>2
    <3>2. k \div 3 \in Worker /\ (k % 3) + 1 \in 1..3
      BY <3>1, ThreadIndex DEF Stage
    <3>3. Closed((k % 3) + 1, k \div 3)
      BY <1>1, <2>2, <3>2 DEF Exited, Closed
    <3>4. Closed((k % 3) + 1, k \div 3)'
      BY <3>2, <3>3, StaysClosed
    <3>5. QED
      BY <2>2, <3>2, <3>4 DEF Exited, Closed
  <2>3. QED
    BY <2>1, <2>2
<1>2. CASE joined' = joined
  BY <1>a, <1>1, <1>2 DEF JoinedExited
<1>3. CASE MainJoin
  <2>1. joined' = joined + 1 /\ Exited(joined) /\ joined < ThreadCount
    BY <1>3 DEF MainJoin
  <2>2. \A k \in 0..joined : Exited(k)
    BY <1>a, <2>1 DEF JoinedExited
  <2>3. \A k \in 0..joined : Exited(k)'
    BY <1>a, <1>1, <2>1, <2>2
  <2>4. QED
    BY <1>a, <2>1, <2>3 DEF JoinedExited
<1>4. QED
  BY <1>2, <1>3 DEF Next, Step, Exit, Main, MainSpawn, MainReturn, vars,
                    mainVars, LoadBalancer, Node

JobInv == TypeInv /\ NodesEnd /\ Conservation /\ StampInv /\ JoinedExited

\* They hold together.
LEMMA JobInvariance == Spec => []JobInv
<1>1. Init => JoinedExited /\ NodesEnd
  BY FFAssumption DEF Init, JoinedExited, NodesEnd, EosIsLast, Closed, Ending,
                      Stage, Worker
<1>2. Init => JobInv
  BY <1>1, InitTypeInv, InitConservation, InitStampInv DEF JobInv
<1>3. JobInv /\ [Next]_vars => JobInv'
  BY StepTypeInv, StepNodesEnd, StepConservation, StepStampInv, StepJoinedExited
  DEF JobInv
<1>4. QED
  BY <1>2, <1>3, PTL DEF Spec
-----------------------------------------------------------------------------
\* An image in the folder, or in the hands of a thread, is still pending.
LEMMA PendingFacts ==
    ASSUME TypeInv, Conservation, NEW f \in File
    PROVE  /\ f \in unread => disk[f] = "absent" /\ f \notin failed
           /\ Pointers(f) = 0 /\ f \notin unread /\ emitter # "send"
                => disk[f] # "absent" \/ f \in failed
<1>1. Places(f) = 1 /\ Pointers(f) \in Nat
  BY OnePlace, NodeTypes, CountsFinite
<1>2. /\ Cardinality(unread \cap {f}) = IF f \in unread THEN 1 ELSE 0
      /\ Cardinality(failed \cap {f}) = IF f \in failed THEN 1 ELSE 0
  BY Once
<1>3. QED
  BY ONLY <1>1, <1>2 DEF Places

\* When every thread has been joined no image is on its way: the pipelines
\* hold none, and the folder was read to its end if it was opened.
LEMMA DrainedAtReturn ==
    ASSUME JobInv, joined = ThreadCount
    PROVE  /\ dir \in {"opened", "missing"}
           /\ dir = "opened" => /\ \A f \in File : disk[f] # "absent" \/ f \in failed
                                /\ nImgs = Cardinality(File)
           /\ dir = "missing" => /\ \A f \in File : disk[f] = "absent"
                                 /\ failed = {} /\ nImgs = 0
<1>a. TypeInv /\ SourceOrder /\ Conservation /\ NodesEnd /\ ParDeg \in Nat
  BY FFAssumption DEF JobInv, TypeInv
<1>1. emitter = "done" /\ \A i \in Worker : pc[3][i] = "done"
  <2>1. /\ joined = 3 * ParDeg + 1 /\ 3 * ParDeg \in 0..(joined - 1)
        /\ \A i \in Worker : 3 * i + 2 \in 0..(joined - 1) /\ 3 * i + 2 # 3 * ParDeg
    BY <1>a DEF ThreadCount, Worker
  <2>2. Exited(3 * ParDeg) /\ \A i \in Worker : Exited(3 * i + 2)
    BY <2>1 DEF JobInv, JoinedExited
  <2>3. emitter = "done"
    BY <2>2 DEF Exited
  <2>4. ASSUME NEW i \in Worker PROVE pc[3][i] = "done"
    <3>1. (3 * i + 2) \div 3 = i /\ (3 * i + 2) % 3 = 2 /\ 3 * i + 2 # 3 * ParDeg
      BY <2>1, ThreadIndex
    <3>2. pc[((3 * i + 2) % 3) + 1][(3 * i + 2) \div 3] = "done"
      BY <2>2, <3>1 DEF Exited
    <3>3. QED
      BY <3>1, <3>2
  <2>5. QED
    BY <2>3, <2>4
<1>2. dir \in {"opened", "missing"}
  BY <1>a, <1>1 DEF SourceOrder, TypeInv, TypeOK
<1>3. \A s \in Stage, i \in Worker : pc[s][i] = "done" /\ queue[s][i] = <<>>
  <2>1. ASSUME NEW s \in Stage, NEW i \in Worker, pc[s][i] = "done"
        PROVE  queue[s][i] = <<>> /\ (s # 1 => pc[s - 1][i] = "done")
    BY <1>a, <2>1 DEF NodesEnd, EosIsLast, Ending, Closed, Stage
  <2>2. ASSUME NEW i \in Worker
        PROVE  pc[3][i] = "done" /\ pc[2][i] = "done" /\ pc[1][i] = "done"
    <3>1. pc[3][i] = "done"
      BY <1>1
    <3>2. pc[3 - 1][i] = "done"
      BY <2>1, <3>1 DEF Stage
    <3>3. pc[2 - 1][i] = "done"
      BY <2>1, <3>2 DEF Stage
    <3>4. QED
      BY <3>1, <3>2, <3>3
  <2>3. QED
    BY <2>1, <2>2 DEF Stage
<1>4. ASSUME NEW f \in File PROVE Pointers(f) = 0
  <2>1. \A p \in Stage \X Worker : pc[p[1]][p[2]] = "done" /\ queue[p[1]][p[2]] = <<>>
    BY <1>3
  <2>2. Holders(f) = {}
    BY <2>1 DEF Holders, Holds
  <2>3. \A p \in DOMAIN Queues(1) : Positions(Queues(1)[p], f) = {}
    BY <2>1 DEF Queues, Positions, Stage
  <2>4. Spots(Queues(1), f) = {}
    BY <2>3 DEF Spots
  <2>5. QED
    BY <2>2, <2>4, FS_EmptySet DEF Pointers
<1>5. /\ Cardinality(unread) \in Nat /\ Cardinality(File) \in Nat /\ nImgs \in Nat
      /\ Cardinality(unread) + nImgs = Cardinality(File)
  BY <1>a, <1>1, UnreadCount DEF TypeInv, TypeOK, SourceOrder
<1>6. ASSUME dir = "opened"
      PROVE  /\ \A f \in File : disk[f] # "absent" \/ f \in failed
             /\ nImgs = Cardinality(File)
  <2>1. unread = {}
    BY <1>a, <1>1, <1>6 DEF SourceOrder
  <2>2. \A f \in File : disk[f] # "absent" \/ f \in failed
    BY <1>a, <1>1, <1>4, <2>1, PendingFacts
  <2>3. QED
    BY <1>5, <2>1, <2>2, FS_EmptySet
<1>7. ASSUME dir = "missing"
      PROVE  /\ \A f \in File : disk[f] = "absent"
             /\ failed = {} /\ nImgs = 0
  <2>1. unread = File
    BY <1>a, <1>7 DEF SourceOrder
  <2>2. \A f \in File : disk[f] = "absent" /\ f \notin failed
    BY <1>a, <2>1, PendingFacts
  <2>3. QED
    BY <1>a, <1>5, <2>1, <2>2 DEF TypeInv, TypeOK
<1>8. QED
  BY <1>2, <1>6, <1>7

\* WatermarkJob counts with the Cardinality of FiniteSets.
LEMMA JobCardinality == \A S : Job!Cardinality(S) = Cardinality(S)
BY DEF Job!Cardinality, Cardinality

\* The outcome of an image that stage3 saves, or reports.
LEMMA SaveSettles ==
    ASSUME JobInv, NEW i \in Worker, Node(3, i), process = "running", Svc(3, i)
    PROVE  Job!Next
<1> DEFINE f == task[3][i]
<1>1. TypeInv /\ StampInv /\ Conservation /\ 3 \in Stage
  BY DEF JobInv, Stage
<1>2. /\ f \in File /\ Holding(3, i, f) /\ pc[3][i] = "svc"
      /\ \/ disk' = [disk EXCEPT ![f] = image[f]] /\ failed' = failed
         \/ disk' = disk /\ failed' = failed \cup {f}
  BY <1>1, SettleFacts
<1>3. disk[f] = "absent" /\ f \notin failed /\ f \notin unread
  BY <1>1, <1>2, OnlyHolder
<1>4. dir = "opened"
  BY <1>1, <1>2, <1>3 DEF TypeInv, SourceOrder
<1>5. image[f] = "stamped" /\ disk \in [File -> Object \cup {"absent"}]
  <2>1. NodeShows(3, i)
    BY <1>1 DEF StampInv, Shows
  <2>2. image[f] = "stamped"
    BY <1>2, <2>1 DEF NodeShows, Before
  <2>3. QED
    BY <1>1, <2>2 DEF TypeInv, TypeOK
<1>6. UNCHANGED <<dir, process, nImgs>>
  BY DEF Node, Svc, Save, SaveFails, emitterVars
<1> HIDE DEF f
<1>7. Outcome[f] = "pending"
  BY <1>2, <1>3 DEF Outcome
<1>8. CASE disk' = [disk EXCEPT ![f] = image[f]] /\ failed' = failed
  <2>1. Outcome' = [Outcome EXCEPT ![f] = "written"]
    BY <1>2, <1>5, <1>8 DEF Outcome
  <2>2. Job!Settle(f, "written")
    BY <1>4, <1>6, <1>7, <2>1 DEF Job!Settle
  <2>3. QED
    BY <1>2, <2>2 DEF Job!Next
<1>9. CASE disk' = disk /\ failed' = failed \cup {f}
  <2>1. Outcome' = [Outcome EXCEPT ![f] = "skipped"]
    BY <1>2, <1>3, <1>9 DEF Outcome
  <2>2. Job!Settle(f, "skipped")
    BY <1>4, <1>6, <1>7, <2>1 DEF Job!Settle
  <2>3. QED
    BY <1>2, <2>2 DEF Job!Next
<1>10. QED
  BY <1>2, <1>8, <1>9

\* Every step is a step of WatermarkJob, or none that it sees.
LEMMA StepJob == JobInv /\ [Next]_vars => [Job!Next]_(Job!vars)
<1> SUFFICES ASSUME JobInv, [Next]_vars PROVE [Job!Next]_(Job!vars)
  OBVIOUS
<1>a. ASSUME UNCHANGED <<dir, disk, failed, process>>,
             process = "running" \/ nImgs' = nImgs
      PROVE  UNCHANGED Job!vars
  BY <1>a DEF Job!vars, Outcome
<1>b. TypeInv /\ TypeOK /\ SourceOrder
  BY DEF JobInv, TypeInv
<1>1. CASE UNCHANGED vars \/ Exit
  BY <1>1, <1>a DEF Exit, vars, emitterVars, outputVars, mainVars
<1>2. ASSUME process = "running", MainSpawn \/ MainJoin
      PROVE  UNCHANGED Job!vars
  BY <1>2, <1>a DEF MainSpawn, MainJoin, emitterVars, outputVars
<1>3. ASSUME process = "running", MainReturn
      PROVE  Job!Next
  <2>1. /\ dir \in {"opened", "missing"}
        /\ dir = "opened" => /\ \A f \in File : disk[f] # "absent" \/ f \in failed
                             /\ nImgs = Cardinality(File)
        /\ dir = "missing" => /\ \A f \in File : disk[f] = "absent"
                              /\ failed = {} /\ nImgs = 0
    BY <1>3, DrainedAtReturn DEF MainReturn
  <2>2. /\ UNCHANGED <<dir, disk, failed, nImgs>> /\ process' = "finished"
        /\ Outcome' = Outcome
    BY <1>3 DEF MainReturn, emitterVars, outputVars, Outcome
  <2>3. /\ dir = "opened" => {f \in File : Outcome[f] # "pending"} = File
        /\ dir = "missing" => {f \in File : Outcome[f] # "pending"} = {}
    BY <2>1 DEF Outcome
  <2>4. nImgs = Cardinality(Job!Settled)
    BY <2>1, <2>3, FS_EmptySet DEF Job!Settled
  <2>5. Job!Return
    BY <1>3, <2>1, <2>2, <2>3, <2>4, JobCardinality
    DEF Job!Return, Job!Settled
  <2>6. QED
    BY <2>5 DEF Job!Next
<1>4. ASSUME process = "running", LoadBalancer
      PROVE  [Job!Next]_(Job!vars)
  <2>1. UNCHANGED <<disk, failed, process>>
    BY <1>4 DEF LoadBalancer, outputVars, mainVars
  <2>2. CASE SourceOpen
    <3>1. dir = "unopened" /\ dir' \in {"opened", "missing"}
      BY <1>b, <2>2 DEF SourceOpen, SourceOrder
    <3>2. Job!Open
      BY <1>4, <2>1, <3>1 DEF Job!Open, Outcome
    <3>3. QED
      BY <3>2 DEF Job!Next
  <2>3. CASE ~ SourceOpen
    <3>1. dir' = dir
      BY <1>4, <2>3 DEF LoadBalancer, SourceRead, SourceSend, SourceCount,
                        SourceEndOfDir, PushEos
    <3>2. QED
      BY <1>4, <1>a, <2>1, <3>1
  <2>4. QED
    BY <2>2, <2>3
<1>5. ASSUME process = "running", NEW s \in Stage, NEW i \in Worker, Node(s, i)
      PROVE  [Job!Next]_(Job!vars)
  <2>1. UNCHANGED <<dir, nImgs>>
    BY <1>5 DEF Node, emitterVars
  <2>2. CASE Svc(s, i) /\ s = 3
    BY <1>5, <2>2, SaveSettles
  <2>3. CASE s = 1 /\ LoadFails(i)
    <3>1. Job!Die
      BY <1>5, <2>1, <2>3 DEF LoadFails, Job!Die, Outcome, outputVars
    <3>2. QED
      BY <3>1 DEF Job!Next
  <2>4. CASE \/ NodePop(s, i) \/ NodePush(s, i)
             \/ (s = 1 /\ Load(i)) \/ (s = 2 /\ Stamp(i))
    <3>1. UNCHANGED <<disk, failed, process>>
      BY <2>4 DEF NodePop, NodePush, Load, Stamp, outputVars
    <3>2. QED
      BY <1>a, <2>1, <3>1
  <2>5. QED
    BY <1>5, <2>2, <2>3, <2>4 DEF Node, Svc
<1>6. QED
  BY <1>1, <1>2, <1>3, <1>4, <1>5 DEF Next, Step, Main

\* ff_watermark keeps the promise of WatermarkJob: each image comes out stamped
\* once or is reported, from an open folder only, and main() returns with none
\* left over and the right count printed.
THEOREM KeepsPromise == Spec => ImplementsJob
<1>1. Init => Job!Init
  BY DEF Init, Job!Init, Outcome
<1>2. JobInv /\ [Next]_vars => [Job!Next]_(Job!vars)
  BY StepJob
<1>3. QED
  BY <1>1, <1>2, JobInvariance, PTL DEF Spec, ImplementsJob, Job!Spec
=============================================================================
