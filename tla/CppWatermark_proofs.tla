------------------------- MODULE CppWatermark_proofs -------------------------
(***************************************************************************)
(* cpp_watermark for any number of pipelines and any set of images: its    *)
(* type invariant, that no wake-up is lost on any queue, that each EOS     *)
(* stops one pipeline, that a pipeline drains before it returns and keeps  *)
(* its tasks in order, that no image is lost, and that the program keeps   *)
(* the promise of WatermarkJob.                                            *)
(***************************************************************************)
EXTENDS CppWatermark, Emitter_proofs

\* The types of all variables, and the order in which Source works.
TypeInv == TypeOK /\ SourceOrder

\* The queues of pairs are well formed when the threads start.
LEMMA InitTypeInv == Init => TypeInv
<1> SUFFICES ASSUME Init PROVE TypeInv
  OBVIOUS
<1>1. EmitterTypeOK /\ SourceOrder
  BY EmitterInitInv DEF Init, EmitterInv
<1>2. NewQueue \in QueueRecord(Pair, Worker)
  BY NewQueueFacts
<1>3. EosPair \in Pair
  BY DEF EosPair, Pair, Name, Image
<1>4. QED
  BY <1>1, <1>2, <1>3, EmitterAssumption
  DEF Init, TypeInv, TypeOK, PusherPC, Name, Image

\* What a step on the queue of pairs of pipeline i leaves there.
LEMMA StageQueueFacts ==
    ASSUME NEW qs \in [Worker -> QueueRecord(Pair, Worker)], NEW i \in Worker
    PROVE  /\ qs[i] \in QueueRecord(Pair, Worker)
           /\ \A p \in Pair : PushFront(qs[i], p) \in QueueRecord(Pair, Worker)
           /\ \A r \in NotifyOne(qs[i]) : r \in QueueRecord(Pair, Worker)
           /\ Sleep(qs[i], i) \in QueueRecord(Pair, Worker)
           /\ WakeUp(qs[i], i) \in QueueRecord(Pair, Worker)
           /\ Nonempty(qs[i]) => /\ Back(qs[i]) \in Pair
                                 /\ PopBack(qs[i]) \in QueueRecord(Pair, Worker)
<1>1. qs[i] \in QueueRecord(Pair, Worker)
  OBVIOUS
<1>2. QED
  BY <1>1, PushFrontFacts, NotifyOneFacts, SleepFacts, WakeUpFacts, PopBackFacts

\* Every step keeps the types and the order of Source.
LEMMA StepTypeInv == TypeInv /\ [Next]_vars => TypeInv'
<1> SUFFICES ASSUME TypeInv, [Next]_vars PROVE TypeInv'
  OBVIOUS
<1> USE EmitterAssumption, CppAssumption, StageQueueFacts
    DEF TypeInv, TypeOK, PusherPC, Goto
<1>a. ASSUME UNCHANGED emitterVars
      PROVE  EmitterTypeOK' /\ SourceOrder'
  BY <1>a DEF emitterVars, EmitterTypeOK, SourceOrder
<1>b. ASSUME UNCHANGED <<dir, unread, source, eosSent, nImgs>>,
             task_queue' \in QueueRecord(Name, Worker)
      PROVE  EmitterTypeOK' /\ SourceOrder'
  BY <1>b DEF EmitterTypeOK, SourceOrder
<1>c. task_queue \in QueueRecord(Name, Worker)
  BY DEF EmitterTypeOK
<1>1. CASE Main
  BY <1>1, <1>a DEF Main, MainSpawn, MainJoin, MainReturn, stageVars,
                    outputVars, ThreadCount
<1>2. CASE RunSource
  <2>1. EmitterTypeOK' /\ SourceOrder'
    BY <1>2, SourceKeepsInv DEF RunSource, EmitterInv
  <2>2. QED
    BY <1>2, <2>1 DEF RunSource, stageVars, outputVars
<1>3. ASSUME NEW i \in Worker, stage1(i)
      PROVE  TypeInv'
  <2> USE <1>3 DEF stage1, stageVars, outputVars
  <2>1. CASE Stage1Wait(i)
    <3>1. EmitterTypeOK' /\ SourceOrder'
      BY <1>b, <1>c, <2>1, TaskFacts DEF Stage1Wait
    <3>2. QED
      BY <2>1, <3>1 DEF Stage1Wait
  <2>2. CASE Stage1Pop(i)
    <3>1. Task \in Name /\ EmitterTypeOK' /\ SourceOrder'
      BY <1>b, <1>c, <2>2, TaskFacts DEF Stage1Pop
    <3>2. QED
      BY <2>2, <3>1 DEF Stage1Pop
  <2>3. CASE Stage1Push(i)
    <3>1. Loaded(file_name[i]) \in Pair
      BY DEF Loaded, EosPair, Pair, Name, Image
    <3>2. PushFront(stage2task_queue[i], Loaded(file_name[i]))
            \in QueueRecord(Pair, Worker)
      BY <3>1
    <3>3. stage2task_queue' \in [Worker -> QueueRecord(Pair, Worker)]
      BY <2>3, <3>2 DEF Stage1Push
    <3>4. QED
      BY <1>a, <2>3, <3>3 DEF Stage1Push
  <2>4. CASE Stage1LoadFails(i)
    BY <1>a, <2>4 DEF Stage1LoadFails
  <2>5. CASE Stage1Notify(i)
    <3>1. stage2task_queue' \in [Worker -> QueueRecord(Pair, Worker)]
      BY <2>5 DEF Stage1Notify
    <3>2. QED
      BY <1>a, <2>5, <3>1 DEF Stage1Notify, Name
  <2>6. QED
    BY <2>1, <2>2, <2>3, <2>4, <2>5
<1>4. ASSUME NEW i \in Worker, stage2(i)
      PROVE  TypeInv'
  <2> USE <1>4 DEF stage2, outputVars
  <2>1. CASE Stage2Wait(i)
    BY <1>a, <2>1 DEF Stage2Wait
  <2>2. CASE Stage2Pop(i)
    BY <1>a, <2>2 DEF Stage2Pop
  <2>3. CASE Stage2Push(i)
    <3>1. Processed(pair2[i]) \in Pair
      BY DEF Processed, Stamp, Pair, Image
    <3>2. stage3task_queue' \in [Worker -> QueueRecord(Pair, Worker)]
      BY <2>3, <3>1 DEF Stage2Push
    <3>3. QED
      BY <1>a, <2>3, <3>2 DEF Stage2Push
  <2>4. CASE Stage2Notify(i)
    <3>1. stage3task_queue' \in [Worker -> QueueRecord(Pair, Worker)]
      BY <2>4 DEF Stage2Notify
    <3>2. EosPair \in Pair
      BY DEF EosPair, Pair, Name, Image
    <3>3. QED
      BY <1>a, <2>4, <3>1, <3>2 DEF Stage2Notify
  <2>5. QED
    BY <2>1, <2>2, <2>3, <2>4
<1>5. ASSUME NEW i \in Worker, stage3(i)
      PROVE  TypeInv'
  <2> USE <1>5 DEF stage3, outputVars
  <2>1. EosPair \in Pair /\ pair3[i] \in Pair /\ pair3[i].second \in Image
    BY DEF EosPair, Pair, Name, Image
  <2>2. CASE Stage3Wait(i)
    BY <1>a, <2>2 DEF Stage3Wait
  <2>3. CASE Stage3Pop(i)
    BY <1>a, <2>3 DEF Stage3Pop
  <2>4. CASE Stage3Save(i)
    BY <1>a, <2>1, <2>4 DEF Stage3Save
  <2>5. CASE Stage3SaveFails(i)
    BY <1>a, <2>1, <2>5 DEF Stage3SaveFails
  <2>6. QED
    BY <2>2, <2>3, <2>4, <2>5
<1>6. ASSUME NEW i \in Worker, SpuriousWake(i)
      PROVE  TypeInv'
  <2>1. task_queue' \in QueueRecord(Name, Worker)
    BY <1>c, <1>6, TaskFacts DEF SpuriousWake
  <2>2. EmitterTypeOK' /\ SourceOrder'
    BY <1>b, <1>6, <2>1 DEF SpuriousWake
  <2>3. QED
    BY <1>6, <2>2, SMTT(30) DEF SpuriousWake, outputVars
<1>7. CASE UNCHANGED vars
  BY <1>7, <1>a DEF vars, stageVars, outputVars
<1>8. QED
  BY <1>1, <1>2, <1>3, <1>4, <1>5, <1>6, <1>7 DEF Next, Step, Exit

\* The types and the order in which Source works hold in every state.
THEOREM TypeInvariance == Spec => []TypeInv
BY InitTypeInv, StepTypeInv, PTL DEF Spec

\* Every variable of cpp_watermark keeps its type; in particular nImgs never
\* exceeds the number of files, and Source sends par_deg + 1 EOS at the most.
THEOREM TypeCorrect == Spec => []TypeOK
<1>1. TypeInv => TypeOK
  BY DEF TypeInv
<1>2. QED
  BY <1>1, TypeInvariance, PTL
-----------------------------------------------------------------------------
\* A notify_one() of Source that is still to come on task_queue.
NotifyPending == IF source \in {"notify", "eosNotify"} THEN 1 ELSE 0

\* The sleepers on task_queue are at pop(), and no name in it is left to them.
TaskWakeups ==
    /\ \A t \in task_queue.d_condition : pc1[t] = "pop"
    /\ task_queue.d_condition # {} =>
         Len(task_queue.d_queue) <= Cardinality(AwakeWorkers) + NotifyPending

\* Only the next stage sleeps on a stage's queue, and not on a pair whose push
\* has notified.
StageWakeups(i) ==
    /\ stage2task_queue[i].d_condition \subseteq {i}
    /\ stage3task_queue[i].d_condition \subseteq {i}
    /\ Asleep(stage2task_queue[i], i) /\ Nonempty(stage2task_queue[i])
         => pc1[i] = "notify"
    /\ Asleep(stage3task_queue[i], i) /\ Nonempty(stage3task_queue[i])
         => pc2[i] = "notify"

WakeInv == TaskWakeups /\ \A i \in Worker : StageWakeups(i)

\* The stage1 awake at pop() can be counted.
LEMMA AwakeCount ==
    ASSUME TypeInv
    PROVE  /\ IsFiniteSet(AwakeWorkers) /\ Cardinality(AwakeWorkers) \in Nat
           /\ Len(task_queue.d_queue) \in Nat
           /\ task_queue \in QueueRecord(Name, Worker)
           /\ task_queue.d_condition \subseteq Worker
<1>1. IsFiniteSet(Worker)
  BY EmitterAssumption, FS_Interval DEF Worker
<1>2. IsFiniteSet(AwakeWorkers)
  BY <1>1, FS_Subset DEF AwakeWorkers
<1>3. /\ task_queue \in QueueRecord(Name, Worker)
      /\ task_queue.d_queue \in Seq(Name)
      /\ task_queue.d_condition \subseteq Worker
  BY DEF TypeInv, TypeOK, EmitterTypeOK, QueueRecord
<1>4. QED
  BY <1>2, <1>3, FS_CardinalityType

\* Source announces every name it adds; a notification wakes a stage1 that is
\* at pop().
LEMMA SourceTaskWakeups ==
    ASSUME TypeInv, TaskWakeups, Source, pc1' = pc1
    PROVE  TaskWakeups'
<1> USE AwakeCount
<1>1. CASE SourceOpen \/ SourceEndOfDir \/ SourceReturn
  BY <1>1 DEF SourceOpen, SourceEndOfDir, SourceReturn, TaskWakeups,
              NotifyPending, AwakeWorkers, Asleep
<1>2. CASE SourcePush \/ SourcePushEos
  <2>1. PICK v \in Name : task_queue' = PushFront(task_queue, v)
    BY <1>2 DEF SourcePush, SourcePushEos, Name, TypeInv, TypeOK, EmitterTypeOK
  <2>2. /\ Len(task_queue'.d_queue) = Len(task_queue.d_queue) + 1
        /\ task_queue'.d_condition = task_queue.d_condition
    BY <2>1, PushFrontFacts
  <2>3. NotifyPending = 0 /\ NotifyPending' = 1
    BY <1>2 DEF NotifyPending, SourcePush, SourcePushEos
  <2>4. AwakeWorkers' = AwakeWorkers
    BY <2>2 DEF AwakeWorkers, Asleep
  <2>5. QED
    BY <2>2, <2>3, <2>4 DEF TaskWakeups
<1>3. CASE SourceNotify \/ SourceNotifyEos
  <2>1. task_queue' \in NotifyOne(task_queue)
    BY <1>3 DEF SourceNotify, SourceNotifyEos
  <2>2. NotifyPending = 1 /\ NotifyPending' = 0
    BY <1>3 DEF NotifyPending, SourceNotify, SourceNotifyEos
  <2>3. CASE task_queue.d_condition = {}
    BY <2>1, <2>3, NotifyOneFacts DEF TaskWakeups
  <2>4. CASE task_queue.d_condition # {}
    <3>1. PICK t \in task_queue.d_condition :
            task_queue'.d_condition = task_queue.d_condition \ {t}
      BY <2>1, <2>4, NotifyOneFacts
    <3>2. task_queue'.d_queue = task_queue.d_queue
      BY <2>1, NotifyOneFacts
    <3>3. t \in Worker /\ pc1[t] = "pop" /\ t \notin AwakeWorkers
      BY DEF TaskWakeups, AwakeWorkers, Asleep
    <3>4. AwakeWorkers' = AwakeWorkers \cup {t}
      BY <3>1, <3>3 DEF AwakeWorkers, Asleep
    <3>5. Cardinality(AwakeWorkers \cup {t}) = Cardinality(AwakeWorkers) + 1
      BY <3>3, FS_AddElement
    <3>6. QED
      BY <2>2, <2>4, <3>1, <3>2, <3>4, <3>5 DEF TaskWakeups
  <2>5. QED
    BY <2>3, <2>4
<1>4. QED
  BY <1>1, <1>2, <1>3 DEF Source

\* A stage1 that pops a name is one of those awake, and one that comes back for
\* another is awake.
LEMMA Stage1TaskWakeups ==
    ASSUME TypeInv, TaskWakeups, NEW i \in Worker, stage1(i)
    PROVE  TaskWakeups'
<1> USE AwakeCount DEF stage1, TypeInv, TypeOK, PusherPC
<1>1. CASE Stage1Wait(i)
  <2>1. /\ Len(task_queue'.d_queue) = 0
        /\ task_queue'.d_condition = task_queue.d_condition \cup {i}
        /\ pc1' = pc1 /\ pc1[i] = "pop"
    BY <1>1, TaskFacts DEF Stage1Wait, stageVars
  <2>2. NotifyPending' \in Nat /\ Cardinality(AwakeWorkers') \in Nat
    <3>1. IsFiniteSet(Worker) /\ AwakeWorkers' \subseteq Worker
      BY EmitterAssumption, FS_Interval DEF Worker, AwakeWorkers
    <3>2. QED
      BY <3>1, FS_Subset, FS_CardinalityType DEF NotifyPending
  <2>3. QED
    BY <2>1, <2>2 DEF TaskWakeups
<1>2. CASE Stage1Pop(i)
  <2>1. /\ Len(task_queue'.d_queue) = Len(task_queue.d_queue) - 1
        /\ task_queue'.d_condition = task_queue.d_condition
        /\ i \notin task_queue.d_condition
        /\ pc1[i] = "pop" /\ pc1' = [pc1 EXCEPT ![i] = "push"]
        /\ source' = source
    BY <1>2, TaskFacts DEF Stage1Pop, TaskPop, Asleep, Goto
  <2>2. i \in AwakeWorkers /\ AwakeWorkers' = AwakeWorkers \ {i}
    BY <2>1 DEF AwakeWorkers, Asleep
  <2>3. Cardinality(AwakeWorkers \ {i}) = Cardinality(AwakeWorkers) - 1
    BY <2>2, FS_RemoveElement
  <2>4. NotifyPending' = NotifyPending /\ NotifyPending \in Nat
    BY <2>1 DEF NotifyPending
  <2>5. QED
    BY <2>1, <2>2, <2>3, <2>4, SMTT(30) DEF TaskWakeups
<1>3. CASE Stage1Push(i) \/ Stage1LoadFails(i) \/ Stage1Notify(i)
  <2>1. /\ task_queue' = task_queue /\ NotifyPending' = NotifyPending
        /\ NotifyPending \in Nat
    BY <1>3 DEF Stage1Push, Stage1LoadFails, Stage1Notify, emitterVars,
                NotifyPending
  <2>2. /\ pc1[i] # "pop"
        /\ \A j \in Worker \ {i} : pc1'[j] = pc1[j]
    BY <1>3 DEF Stage1Push, Stage1LoadFails, Stage1Notify, stageVars, Goto
  <2>3. AwakeWorkers \subseteq AwakeWorkers'
    BY <2>1, <2>2 DEF AwakeWorkers, Asleep
  <2>4. /\ Cardinality(AwakeWorkers') \in Nat
        /\ Cardinality(AwakeWorkers) <= Cardinality(AwakeWorkers')
    <3>1. IsFiniteSet(Worker) /\ AwakeWorkers' \subseteq Worker
      BY EmitterAssumption, FS_Interval DEF Worker, AwakeWorkers
    <3>2. IsFiniteSet(AwakeWorkers')
      BY <3>1, FS_Subset
    <3>3. QED
      BY <2>3, <3>2, FS_Subset, FS_CardinalityType
  <2>5. QED
    BY <2>1, <2>2, <2>4 DEF TaskWakeups
<1>4. QED
  BY <1>1, <1>2, <1>3

\* What StageWakeups(i) reads.
StageWakeState(i) ==
    <<stage2task_queue[i], stage3task_queue[i], pc1[i], pc2[i]>>

\* A step of another pipeline does not disturb it.
LEMMA SameStageWakeups ==
    ASSUME NEW i \in Worker, StageWakeups(i),
           StageWakeState(i)' = StageWakeState(i)
    PROVE  StageWakeups(i)'
BY DEF StageWakeups, StageWakeState, Asleep, Nonempty

\* A notification on a stage's queue wakes the next stage if it sleeps.
LEMMA NotifyWakesStage ==
    ASSUME NEW i \in Worker, NEW q \in QueueRecord(Pair, Worker),
           q.d_condition \subseteq {i}, NEW r \in NotifyOne(q)
    PROVE  r.d_condition = {}
BY NotifyOneFacts

\* The steps of pipeline i keep it.
LEMMA StepStageWakeups ==
    ASSUME TypeInv, NEW i \in Worker, StageWakeups(i),
           stage1(i) \/ stage2(i) \/ stage3(i) \/ SpuriousWake(i)
    PROVE  StageWakeups(i)'
<1> USE DEF TypeInv, TypeOK, PusherPC, StageWakeups, Asleep, Nonempty, Goto
<1>a. /\ stage2task_queue[i] \in QueueRecord(Pair, Worker)
      /\ stage3task_queue[i] \in QueueRecord(Pair, Worker)
  OBVIOUS
<1>1. CASE stage1(i)
  <2> USE <1>1 DEF stage1
  <2>1. CASE Stage1Wait(i) \/ Stage1Pop(i) \/ Stage1LoadFails(i)
    BY <2>1 DEF Stage1Wait, Stage1Pop, Stage1LoadFails, stageVars
  <2>2. CASE Stage1Push(i)
    <3>1. Loaded(file_name[i]) \in Pair
      BY DEF Loaded, EosPair, Pair, Name, Image
    <3>2. stage2task_queue'[i] =
            PushFront(stage2task_queue[i], Loaded(file_name[i]))
      BY <2>2 DEF Stage1Push
    <3>3. stage2task_queue'[i].d_condition = stage2task_queue[i].d_condition
      BY <1>a, <3>1, <3>2, PushFrontFacts
    <3>4. QED
      BY <2>2, <3>3 DEF Stage1Push
  <2>3. CASE Stage1Notify(i)
    <3>1. stage2task_queue'[i].d_condition = {}
      BY <1>a, <2>3, NotifyWakesStage DEF Stage1Notify
    <3>2. QED
      BY <2>3, <3>1 DEF Stage1Notify
  <2>4. QED
    BY <2>1, <2>2, <2>3
<1>2. CASE stage2(i)
  <2> USE <1>2 DEF stage2
  <2>1. CASE Stage2Wait(i)
    <3>1. /\ stage2task_queue'[i].d_queue = <<>>
          /\ stage2task_queue'[i].d_condition \subseteq {i}
      BY <1>a, <2>1, SleepFacts DEF Stage2Wait
    <3>2. QED
      BY <2>1, <3>1 DEF Stage2Wait
  <2>2. CASE Stage2Pop(i)
    <3>1. stage2task_queue'[i].d_condition = {}
      BY <1>a, <2>2, PopBackFacts DEF Stage2Pop
    <3>2. QED
      BY <2>2, <3>1 DEF Stage2Pop
  <2>3. CASE Stage2Push(i)
    <3>1. Processed(pair2[i]) \in Pair
      BY DEF Processed, Stamp, Pair, Image
    <3>2. stage3task_queue'[i] =
            PushFront(stage3task_queue[i], Processed(pair2[i]))
      BY <2>3 DEF Stage2Push
    <3>3. stage3task_queue'[i].d_condition = stage3task_queue[i].d_condition
      BY <1>a, <3>1, <3>2, PushFrontFacts
    <3>4. QED
      BY <2>3, <3>3 DEF Stage2Push
  <2>4. CASE Stage2Notify(i)
    <3>1. stage3task_queue'[i].d_condition = {}
      BY <1>a, <2>4, NotifyWakesStage DEF Stage2Notify
    <3>2. QED
      BY <2>4, <3>1 DEF Stage2Notify
  <2>5. QED
    BY <2>1, <2>2, <2>3, <2>4
<1>3. CASE stage3(i)
  <2> USE <1>3 DEF stage3
  <2>1. CASE Stage3Wait(i)
    <3>1. /\ stage3task_queue'[i].d_queue = <<>>
          /\ stage3task_queue'[i].d_condition \subseteq {i}
      BY <1>a, <2>1, SleepFacts DEF Stage3Wait
    <3>2. QED
      BY <2>1, <3>1 DEF Stage3Wait
  <2>2. CASE Stage3Pop(i)
    <3>1. stage3task_queue'[i].d_condition = {}
      BY <1>a, <2>2, PopBackFacts DEF Stage3Pop
    <3>2. QED
      BY <2>2, <3>1 DEF Stage3Pop
  <2>3. CASE Stage3Save(i) \/ Stage3SaveFails(i)
    BY <2>3 DEF Stage3Save, Stage3SaveFails
  <2>4. QED
    BY <2>1, <2>2, <2>3
<1>4. CASE SpuriousWake(i)
  <2>1. /\ WakeUp(stage2task_queue[i], i).d_condition =
             stage2task_queue[i].d_condition \ {i}
        /\ WakeUp(stage3task_queue[i], i).d_condition =
             stage3task_queue[i].d_condition \ {i}
    BY <1>a, WakeUpFacts
  <2>2. QED
    BY <1>4, <2>1 DEF SpuriousWake
<1>5. QED
  BY <1>1, <1>2, <1>3, <1>4

\* Every step of every thread keeps both.
LEMMA StepWakeInv == TypeInv /\ WakeInv /\ [Next]_vars => WakeInv'
<1> SUFFICES ASSUME TypeInv, WakeInv, [Next]_vars
             PROVE  WakeInv'
  OBVIOUS
<1> USE DEF WakeInv
<1>a. ASSUME task_queue' = task_queue, source' = source, pc1' = pc1
      PROVE  TaskWakeups'
  BY <1>a DEF TaskWakeups, NotifyPending, AwakeWorkers, Asleep
<1>b. ASSUME NEW i \in Worker,
             stage1(i) \/ stage2(i) \/ stage3(i) \/ SpuriousWake(i)
      PROVE  \A j \in Worker : StageWakeups(j)'
  <2>1. ASSUME NEW j \in Worker, j # i
        PROVE  StageWakeState(j)' = StageWakeState(j)
    BY <1>b, <2>1
    DEF stage1, Stage1Wait, Stage1Pop, Stage1Push, Stage1LoadFails,
        Stage1Notify,
        stage2, Stage2Wait, Stage2Pop, Stage2Push, Stage2Notify,
        stage3, Stage3Wait, Stage3Pop, Stage3Save, Stage3SaveFails,
        SpuriousWake, StageWakeState, Goto, stageVars, TypeInv, TypeOK
  <2>2. QED
    BY <1>b, <2>1, SameStageWakeups, StepStageWakeups
<1>c. ASSUME stageVars' = stageVars
      PROVE  \A j \in Worker : StageWakeups(j)'
  BY <1>c, SameStageWakeups DEF stageVars, StageWakeState
<1>1. CASE Main \/ UNCHANGED vars
  BY <1>1, <1>a, <1>c DEF Main, MainSpawn, MainJoin, MainReturn, vars,
                          emitterVars, stageVars
<1>2. CASE RunSource
  BY <1>2, <1>c, SourceTaskWakeups DEF RunSource, stageVars
<1>3. ASSUME NEW i \in Worker, stage1(i)
      PROVE  WakeInv'
  BY <1>3, <1>b, Stage1TaskWakeups
<1>4. ASSUME NEW i \in Worker, stage2(i) \/ stage3(i)
      PROVE  WakeInv'
  BY <1>4, <1>a, <1>b DEF stage2, Stage2Wait, Stage2Pop, Stage2Push,
                          Stage2Notify, stage3, emitterVars
<1>5. ASSUME NEW i \in Worker, SpuriousWake(i)
      PROVE  WakeInv'
  <2>1. pc1' = pc1 /\ source' = source
    BY <1>5 DEF SpuriousWake
  <2>2. CASE TaskWake(i)
    <3>1. /\ task_queue'.d_queue = task_queue.d_queue
          /\ task_queue'.d_condition = task_queue.d_condition \ {i}
          /\ i \in task_queue.d_condition
      BY <2>2, AwakeCount, TaskFacts DEF TaskWake, Asleep
    <3>2. i \notin AwakeWorkers /\ AwakeWorkers' = AwakeWorkers \cup {i}
      BY <2>1, <3>1 DEF AwakeWorkers, Asleep, TaskWakeups
    <3>3. Cardinality(AwakeWorkers \cup {i}) = Cardinality(AwakeWorkers) + 1
      BY <3>2, AwakeCount, FS_AddElement
    <3>4. NotifyPending' = NotifyPending /\ NotifyPending \in Nat
      BY <2>1 DEF NotifyPending
    <3>5. TaskWakeups'
      BY <2>1, <3>1, <3>2, <3>3, <3>4, AwakeCount DEF TaskWakeups
    <3>6. QED
      BY <1>5, <1>b, <3>5
  <2>3. CASE UNCHANGED task_queue
    BY <1>5, <1>a, <1>b, <2>1, <2>3
  <2>4. QED
    BY <1>5, <2>2, <2>3 DEF SpuriousWake
<1>6. QED
  BY <1>1, <1>2, <1>3, <1>4, <1>5 DEF Next, Step, Exit

\* No thread of cpp_watermark sleeps on a queue while a value in it is promised
\* to nobody, although push() notifies after it has unlocked.
THEOREM WakeupsAreKept == Spec => []NoLostWakeup
<1>1. Init => WakeInv
  BY DEF Init, EmitterInit, NewQueue, WakeInv, TaskWakeups, StageWakeups, Asleep
<1>2. TypeInv /\ WakeInv => NoLostWakeup
  BY DEF WakeInv, TaskWakeups, StageWakeups, NoLostWakeup, NotifyPending
<1>3. QED
  BY <1>1, <1>2, StepWakeInv, TypeInvariance, PTL DEF Spec
-----------------------------------------------------------------------------
\* Stage 1, stage 2 of pipeline i has handed its EOS on.
Closed1(i) == pc1[i] \in {"notify", "done"} /\ file_name[i] = EOS
Closed2(i) == pc2[i] \in {"notify", "done"} /\ pair2[i].first = EOS

\* In the deque s of a stage the EOS is the last pair, and is there only after
\* the stage before has closed.
EosEnds(s, closed) ==
    \A k \in DOMAIN s : s[k].first = EOS => k = Len(s) /\ closed

\* EOS is the end of what flows through pipeline i.
EosIsLast(i) ==
    /\ pc1[i] = "done" => file_name[i] = EOS
    /\ EosEnds(stage2task_queue[i].d_queue, Closed1(i))
    /\ pc2[i] # "pop" /\ pair2[i].first = EOS =>
         Closed1(i) /\ stage2task_queue[i].d_queue = <<>>
    /\ pc2[i] = "done" => pair2[i].first = EOS
    /\ EosEnds(stage3task_queue[i].d_queue, Closed2(i))
    /\ pc3[i] = "done" => Closed2(i) /\ stage3task_queue[i].d_queue = <<>>

PipelinesEnd == \A i \in Worker : EosIsLast(i)

\* What EosIsLast(i) says of a pipeline depends on the deques and the locals of
\* its stages only, not on who sleeps.
PipelineState(i) ==
    <<stage2task_queue[i].d_queue, stage3task_queue[i].d_queue,
      pc1[i], pc2[i], pc3[i], file_name[i], pair2[i]>>

\* A step of another pipeline does not disturb it.
LEMMA SameState ==
    ASSUME NEW i \in Worker, EosIsLast(i), PipelineState(i)' = PipelineState(i)
    PROVE  EosIsLast(i)'
BY DEF EosIsLast, EosEnds, Closed1, Closed2, PipelineState

\* A pair v put behind a deque whose EOS is last keeps it so, if the deque has
\* no EOS before and the stage has closed when v is one.
LEMMA EosEndsAppend ==
    ASSUME NEW s \in Seq(Pair), NEW v \in Pair, EosEnds(s, FALSE),
           NEW closed \in BOOLEAN, v.first = EOS => closed
    PROVE  EosEnds(Append(s, v), closed)
<1>1. /\ Len(s) \in Nat /\ DOMAIN s = 1..Len(s)
      /\ DOMAIN Append(s, v) = 1..(Len(s) + 1)
      /\ \A k \in 1..Len(s) : Append(s, v)[k] = s[k]
      /\ Append(s, v)[Len(s) + 1] = v
      /\ Len(Append(s, v)) = Len(s) + 1
  BY AppendProperties
<1>2. QED
  BY <1>1 DEF EosEnds

\* Popping keeps the EOS last, and an EOS that is popped leaves nothing behind.
LEMMA EosEndsTail ==
    ASSUME NEW s \in Seq(Pair), s # <<>>, NEW closed \in BOOLEAN,
           EosEnds(s, closed)
    PROVE  /\ EosEnds(Tail(s), closed)
           /\ Head(s).first = EOS => closed /\ Tail(s) = <<>>
<1>1. /\ Len(s) \in Nat \ {0} /\ DOMAIN s = 1..Len(s)
      /\ Tail(s) \in Seq(Pair)
      /\ Len(Tail(s)) = Len(s) - 1
      /\ DOMAIN Tail(s) = 1..(Len(s) - 1)
      /\ \A k \in 1..(Len(s) - 1) : Tail(s)[k] = s[k + 1]
      /\ Head(s) = s[1]
  BY EmptySeq, HeadTailProperties
<1>2. EosEnds(Tail(s), closed)
  BY <1>1 DEF EosEnds
<1>3. ASSUME Head(s).first = EOS PROVE closed /\ Tail(s) = <<>>
  BY <1>1, <1>3, EmptySeq DEF EosEnds
<1>4. QED
  BY <1>2, <1>3

\* No step brings a pair behind an EOS of its pipeline.
LEMMA StepPipelinesEnd ==
    TypeInv /\ PipelinesEnd /\ [Next]_vars => PipelinesEnd'
<1> SUFFICES ASSUME TypeInv, PipelinesEnd, [Next]_vars
             PROVE  PipelinesEnd'
  OBVIOUS
<1> USE DEF TypeInv, TypeOK, PusherPC
<1>a. ASSUME \A j \in Worker : PipelineState(j)' = PipelineState(j)
      PROVE  PipelinesEnd'
  BY <1>a, SameState DEF PipelinesEnd
<1>b. ASSUME NEW i \in Worker, EosIsLast(i)',
             \A j \in Worker \ {i} : PipelineState(j)' = PipelineState(j)
      PROVE  PipelinesEnd'
  BY <1>b, SameState DEF PipelinesEnd
<1>c. ASSUME NEW i \in Worker
      PROVE  /\ EosIsLast(i)
             /\ stage2task_queue[i] \in QueueRecord(Pair, Worker)
             /\ stage3task_queue[i] \in QueueRecord(Pair, Worker)
             /\ stage2task_queue[i].d_queue \in Seq(Pair)
             /\ stage3task_queue[i].d_queue \in Seq(Pair)
             /\ file_name[i] \in Name /\ pair2[i] \in Pair
             /\ Closed1(i) \in BOOLEAN /\ Closed2(i) \in BOOLEAN
  BY DEF PipelinesEnd, QueueRecord, Closed1, Closed2
<1>1. CASE Main \/ RunSource \/ UNCHANGED vars
  BY <1>1, <1>a DEF Main, MainSpawn, MainJoin, MainReturn, RunSource, vars,
                    stageVars, PipelineState
<1>2. ASSUME NEW i \in Worker, SpuriousWake(i)
      PROVE  PipelinesEnd'
  <2>1. /\ WakeUp(stage2task_queue[i], i).d_queue = stage2task_queue[i].d_queue
        /\ WakeUp(stage3task_queue[i], i).d_queue = stage3task_queue[i].d_queue
    BY <1>2, <1>c, WakeUpFacts
  <2>2. \A j \in Worker :
          /\ stage2task_queue'[j].d_queue = stage2task_queue[j].d_queue
          /\ stage3task_queue'[j].d_queue = stage3task_queue[j].d_queue
    BY <1>2, <2>1 DEF SpuriousWake
  <2>3. QED
    BY <1>2, <1>a, <2>2 DEF SpuriousWake, PipelineState
<1>3. ASSUME NEW i \in Worker, stage3(i)
      PROVE  PipelinesEnd'
  <2> USE <1>3, <1>c DEF stage3
  <2>1. CASE Stage3Wait(i)
    BY <1>a, <2>1, SleepFacts DEF Stage3Wait, PipelineState
  <2>2. CASE Stage3Pop(i)
    <3> DEFINE q == stage3task_queue[i]
    <3>1. Nonempty(q) /\ q.d_queue # <<>>
      BY <2>2 DEF Stage3Pop, Nonempty
    <3>2. stage3task_queue'[i].d_queue = Tail(q.d_queue)
      BY <2>2, <3>1, PopBackFacts DEF Stage3Pop
    <3>3. /\ EosEnds(Tail(q.d_queue), Closed2(i))
          /\ Head(q.d_queue).first = EOS => Closed2(i) /\ Tail(q.d_queue) = <<>>
      BY <3>1, EosEndsTail DEF EosIsLast
    <3>4. EosIsLast(i)'
      BY <2>2, <3>2, <3>3
      DEF Stage3Pop, EosIsLast, Closed1, Closed2, Back, Goto
    <3>5. \A j \in Worker \ {i} : PipelineState(j)' = PipelineState(j)
      BY <2>2 DEF Stage3Pop, PipelineState, Goto
    <3>6. QED
      BY <1>b, <3>4, <3>5
  <2>3. CASE Stage3Save(i) \/ Stage3SaveFails(i)
    <3>1. EosIsLast(i)'
      BY <2>3 DEF Stage3Save, Stage3SaveFails, EosIsLast, Closed1, Closed2, Goto
    <3>2. \A j \in Worker \ {i} : PipelineState(j)' = PipelineState(j)
      BY <2>3 DEF Stage3Save, Stage3SaveFails, PipelineState, Goto
    <3>3. QED
      BY <1>b, <3>1, <3>2
  <2>4. QED
    BY <2>1, <2>2, <2>3
<1>4. ASSUME NEW i \in Worker, stage2(i)
      PROVE  PipelinesEnd'
  <2> USE <1>4, <1>c DEF stage2
  <2>1. CASE Stage2Wait(i)
    BY <1>a, <2>1, SleepFacts DEF Stage2Wait, PipelineState
  <2>2. CASE Stage2Pop(i)
    <3> DEFINE q == stage2task_queue[i]
    <3>1. Nonempty(q) /\ q.d_queue # <<>>
      BY <2>2 DEF Stage2Pop, Nonempty
    <3>2. stage2task_queue'[i].d_queue = Tail(q.d_queue)
      BY <2>2, <3>1, PopBackFacts DEF Stage2Pop
    <3>3. /\ EosEnds(Tail(q.d_queue), Closed1(i))
          /\ Head(q.d_queue).first = EOS => Closed1(i) /\ Tail(q.d_queue) = <<>>
      BY <3>1, EosEndsTail DEF EosIsLast
    <3>4. ~ Closed2(i)
      BY <2>2 DEF Stage2Pop, Closed2
    <3>5. EosIsLast(i)'
      BY <2>2, <3>2, <3>3, <3>4
      DEF Stage2Pop, EosIsLast, EosEnds, Closed1, Closed2, Back, Goto
    <3>6. \A j \in Worker \ {i} : PipelineState(j)' = PipelineState(j)
      BY <2>2 DEF Stage2Pop, PipelineState, Goto
    <3>7. QED
      BY <1>b, <3>5, <3>6
  <2>3. CASE Stage2Push(i)
    <3> DEFINE s == stage3task_queue[i].d_queue
               v == Processed(pair2[i])
    <3>1. v \in Pair /\ (v.first = EOS <=> pair2[i].first = EOS)
      BY DEF Processed, Stamp, Pair, Image
    <3>2. stage3task_queue'[i].d_queue = Append(s, v)
      <4>1. stage3task_queue'[i] = PushFront(stage3task_queue[i], v)
        BY <2>3 DEF Stage2Push
      <4>2. QED
        BY <3>1, <4>1, PushFrontFacts
    <3>3. ~ Closed2(i) /\ pc3[i] # "done" /\ EosEnds(s, FALSE)
      BY <2>3 DEF Stage2Push, Closed2, EosIsLast, EosEnds
    <3>4. pc2'[i] = "notify" /\ pair2' = pair2
      BY <2>3 DEF Stage2Push, Goto
    <3>5. Closed2(i)' \in BOOLEAN /\ (v.first = EOS => Closed2(i)')
      BY <3>1, <3>4 DEF Closed2
    <3>6. EosEnds(Append(s, v), Closed2(i)')
      BY <3>1, <3>3, <3>5, EosEndsAppend
    <3>7. EosIsLast(i)'
      BY <2>3, <3>2, <3>3, <3>4, <3>6 DEF Stage2Push, EosIsLast, Closed1
    <3>8. \A j \in Worker \ {i} : PipelineState(j)' = PipelineState(j)
      BY <2>3 DEF Stage2Push, PipelineState, Goto
    <3>9. QED
      BY <1>b, <3>7, <3>8
  <2>4. CASE Stage2Notify(i)
    <3>1. \A r \in NotifyOne(stage3task_queue[i]) :
             r.d_queue = stage3task_queue[i].d_queue
      BY NotifyOneFacts
    <3>2. \A j \in Worker :
             stage3task_queue'[j].d_queue = stage3task_queue[j].d_queue
      BY <2>4, <3>1 DEF Stage2Notify
    <3>3. EosIsLast(i)'
      BY <2>4, <3>2 DEF Stage2Notify, EosIsLast, EosEnds, Closed1, Closed2,
                        Goto, EosPair
    <3>4. \A j \in Worker \ {i} : PipelineState(j)' = PipelineState(j)
      BY <2>4, <3>2 DEF Stage2Notify, PipelineState, Goto
    <3>5. QED
      BY <1>b, <3>3, <3>4
  <2>5. QED
    BY <2>1, <2>2, <2>3, <2>4
<1>5. ASSUME NEW i \in Worker, stage1(i)
      PROVE  PipelinesEnd'
  <2> USE <1>5, <1>c DEF stage1
  <2>1. CASE Stage1Wait(i) \/ Stage1LoadFails(i)
    BY <1>a, <2>1 DEF Stage1Wait, Stage1LoadFails, stageVars, PipelineState
  <2>2. CASE Stage1Pop(i)
    <3>1. ~ Closed1(i)
      BY <2>2 DEF Stage1Pop, Closed1
    <3>2. EosIsLast(i)'
      BY <2>2, <3>1 DEF Stage1Pop, EosIsLast, EosEnds, Closed1, Closed2, Goto
    <3>3. \A j \in Worker \ {i} : PipelineState(j)' = PipelineState(j)
      BY <2>2 DEF Stage1Pop, PipelineState, Goto
    <3>4. QED
      BY <1>b, <3>2, <3>3
  <2>3. CASE Stage1Push(i)
    <3> DEFINE s == stage2task_queue[i].d_queue
               v == Loaded(file_name[i])
    <3>1. v \in Pair /\ (v.first = EOS <=> file_name[i] = EOS)
      BY DEF Loaded, EosPair, Pair, Name, Image
    <3>2. stage2task_queue'[i].d_queue = Append(s, v)
      <4>1. stage2task_queue'[i] = PushFront(stage2task_queue[i], v)
        BY <2>3 DEF Stage1Push
      <4>2. QED
        BY <3>1, <4>1, PushFrontFacts
    <3>3. ~ Closed1(i) /\ EosEnds(s, FALSE)
      BY <2>3 DEF Stage1Push, Closed1, EosIsLast, EosEnds
    <3>4. pc1'[i] = "notify" /\ file_name' = file_name
      BY <2>3 DEF Stage1Push, Goto
    <3>5. Closed1(i)' \in BOOLEAN /\ (v.first = EOS => Closed1(i)')
      BY <3>1, <3>4 DEF Closed1
    <3>6. EosEnds(Append(s, v), Closed1(i)')
      BY <3>1, <3>3, <3>5, EosEndsAppend
    <3>7. EosIsLast(i)'
      BY <2>3, <3>2, <3>3, <3>4, <3>6 DEF Stage1Push, EosIsLast, Closed2
    <3>8. \A j \in Worker \ {i} : PipelineState(j)' = PipelineState(j)
      BY <2>3 DEF Stage1Push, PipelineState, Goto
    <3>9. QED
      BY <1>b, <3>7, <3>8
  <2>4. CASE Stage1Notify(i)
    <3>1. \A r \in NotifyOne(stage2task_queue[i]) :
             r.d_queue = stage2task_queue[i].d_queue
      BY NotifyOneFacts
    <3>2. \A j \in Worker :
             stage2task_queue'[j].d_queue = stage2task_queue[j].d_queue
      BY <2>4, <3>1 DEF Stage1Notify
    <3>3. EosIsLast(i)'
      BY <2>4, <3>2 DEF Stage1Notify, EosIsLast, EosEnds, Closed1, Closed2, Goto
    <3>4. \A j \in Worker \ {i} : PipelineState(j)' = PipelineState(j)
      BY <2>4, <3>2 DEF Stage1Notify, PipelineState, Goto
    <3>5. QED
      BY <1>b, <3>3, <3>4
  <2>5. QED
    BY <2>1, <2>2, <2>3, <2>4
<1>6. QED
  BY <1>1, <1>2, <1>3, <1>4, <1>5 DEF Next, Step, Exit

\* It holds of empty pipelines.
LEMMA InitPipelinesEnd == Init => PipelinesEnd
BY DEF Init, PipelinesEnd, EosIsLast, EosEnds, NewQueue

\* A pipeline whose stage3 has returned is empty.
LEMMA EmptyLine ==
    ASSUME NEW i \in Worker, pc3[i] # "save", pc2[i] # "push", pc1[i] # "push",
           stage2task_queue[i].d_queue = <<>>,
           stage3task_queue[i].d_queue = <<>>
    PROVE  Line(i) = <<>>
<1>1. Firsts(<<>>) = <<>>
  BY DEF Firsts
<1>2. QED
  BY <1>1 DEF Line, If

\* The stage1 that hold an EOS can be counted.
LEMMA StoppedCount ==
    ASSUME TypeInv
    PROVE  /\ IsFiniteSet(Stopped) /\ Cardinality(Stopped) \in Nat
           /\ \A i \in Worker : i \in Stopped => Cardinality(Stopped) > 0
<1>1. IsFiniteSet(Worker)
  BY EmitterAssumption, FS_Interval DEF Worker
<1>2. IsFiniteSet(Stopped)
  BY <1>1, FS_Subset DEF Stopped
<1>3. QED
  BY <1>2, FS_CardinalityType, FS_EmptySet

\* An EOS sent is in task_queue until a stage1 takes it and stops; no other step
\* moves one.  A file called EOS would be taken for one that Source sent.
LEMMA StepEosAccounting ==
    ASSUME EOS \notin File, TypeInv, PipelinesEnd, EosAccounting, [Next]_vars
    PROVE  EosAccounting'
<1> USE DEF TypeInv, TypeOK, PusherPC
<1>1. /\ EmitterTypeOK /\ eosSent \in Nat
      /\ Cardinality(EosQueued) \in Nat /\ Cardinality(Stopped) \in Nat
      /\ eosSent = 0 => EosQueued = {}
  BY EosQueuedCount, StoppedCount, FS_EmptySet, EmitterAssumption
  DEF EosAccounting, EmitterTypeOK
<1>2. ASSUME task_queue'.d_queue = task_queue.d_queue, eosSent' = eosSent,
             Stopped' = Stopped
      PROVE  EosAccounting'
  BY <1>2 DEF EosAccounting, EosLast, EosQueued
<1>3. CASE Main \/ UNCHANGED vars
  BY <1>2, <1>3 DEF Main, MainSpawn, MainJoin, MainReturn, emitterVars, vars,
                    stageVars, Stopped
<1>4. CASE RunSource
  <2>1. /\ Cardinality(EosQueued') - Cardinality(EosQueued) = eosSent' - eosSent
        /\ EosLast'
    BY <1>1, <1>4, SourceEos DEF RunSource, EmitterInv, EosAccounting
  <2>2. Stopped' = Stopped
    BY <1>4 DEF RunSource, stageVars, Stopped
  <2>3. eosSent' \in Nat /\ Cardinality(EosQueued') \in Nat
    <3>1. EmitterTypeOK'
      BY <1>4, StepTypeInv, SourceKeepsInv DEF RunSource, EmitterInv
    <3>2. IsFiniteSet(EosQueued') /\ Cardinality(EosQueued') \in Nat
      BY <3>1, PositionsFinite DEF EosQueued, EmitterTypeOK, QueueRecord
    <3>3. QED
      BY <3>1, <3>2, EmitterAssumption DEF EmitterTypeOK
  <2>4. QED
    BY <1>1, <2>1, <2>2, <2>3 DEF EosAccounting
<1>5. ASSUME NEW i \in Worker, stage1(i)
      PROVE  EosAccounting'
  <2> USE <1>5 DEF stage1
  <2>1. CASE Stage1Wait(i)
    BY <1>1, <1>2, <2>1, TaskFacts
    DEF Stage1Wait, EmitterTypeOK, stageVars, Stopped
  <2>2. CASE Stage1Pop(i)
    <3>1. /\ Cardinality(EosQueued') =
               Cardinality(EosQueued) - (IF Task = EOS THEN 1 ELSE 0)
          /\ EosLast'
      BY <1>1, <2>2, TaskFacts, TaskPopEos
      DEF Stage1Pop, EmitterTypeOK, EosAccounting
    <3>2. i \notin Stopped /\ pc1'[i] = "push" /\ file_name'[i] = Task
      BY <2>2 DEF Stage1Pop, Stopped, Goto
    <3>3. \A j \in Worker \ {i} :
            pc1'[j] = pc1[j] /\ file_name'[j] = file_name[j]
      BY <2>2 DEF Stage1Pop, Goto
    <3>4. Stopped' = IF Task = EOS THEN Stopped \cup {i} ELSE Stopped
      BY <3>2, <3>3 DEF Stopped
    <3>5. Cardinality(Stopped') =
            Cardinality(Stopped) + (IF Task = EOS THEN 1 ELSE 0)
      <4>1. Cardinality(Stopped \cup {i}) = Cardinality(Stopped) + 1
        BY <3>2, StoppedCount, FS_AddElement
      <4>2. QED
        BY <1>1, <3>4, <4>1
    <3>6. eosSent' = eosSent
      BY <2>2 DEF Stage1Pop
    <3>7. QED
      BY <1>1, <3>1, <3>5, <3>6 DEF EosAccounting
  <2>3. CASE Stage1Push(i)
    <3>1. Stopped' = Stopped
      BY <2>3 DEF Stage1Push, Stopped, Goto
    <3>2. QED
      BY <1>2, <2>3, <3>1 DEF Stage1Push, emitterVars
  <2>4. CASE Stage1LoadFails(i)
    BY <1>2, <2>4 DEF Stage1LoadFails, emitterVars, stageVars, Stopped
  <2>5. CASE Stage1Notify(i)
    <3>1. Stopped' = Stopped
      BY <2>5 DEF Stage1Notify, Stopped, Goto
    <3>2. QED
      BY <1>2, <2>5, <3>1 DEF Stage1Notify, emitterVars
  <2>6. QED
    BY <2>1, <2>2, <2>3, <2>4, <2>5
<1>6. ASSUME NEW i \in Worker, stage2(i) \/ stage3(i)
      PROVE  EosAccounting'
  BY <1>2, <1>6 DEF stage2, Stage2Wait, Stage2Pop, Stage2Push, Stage2Notify,
                    stage3, emitterVars, Stopped
<1>7. ASSUME NEW i \in Worker, SpuriousWake(i)
      PROVE  EosAccounting'
  <2>1. task_queue'.d_queue = task_queue.d_queue
    BY <1>1, <1>7, TaskFacts DEF SpuriousWake, EmitterTypeOK
  <2>2. QED
    BY <1>2, <1>7, <2>1 DEF SpuriousWake, Stopped
<1>8. QED
  BY <1>3, <1>4, <1>5, <1>6, <1>7 DEF Next, Step, Exit

\* No EOS is sent when the threads start.
LEMMA InitEosAccounting == Init => EosAccounting
<1> SUFFICES ASSUME Init PROVE EosAccounting
  OBVIOUS
<1>1. task_queue.d_queue = <<>> /\ eosSent = 0 /\ Stopped = {}
  BY DEF Init, EmitterInit, NewQueue, Stopped
<1>2. EosQueued = {} /\ EosLast
  BY <1>1 DEF EosQueued, Positions, EosLast
<1>3. QED
  BY <1>1, <1>2, FS_EmptySet DEF EosAccounting

\* The three invariants of the shutdown hold together.
THEOREM EosInvariance ==
    ASSUME EOS \notin File
    PROVE  Spec => [](TypeInv /\ PipelinesEnd /\ EosAccounting)
<1>1. Init => TypeInv /\ PipelinesEnd /\ EosAccounting
  BY InitTypeInv, InitPipelinesEnd, InitEosAccounting
<1>2. TypeInv /\ PipelinesEnd /\ EosAccounting /\ [Next]_vars
        => (TypeInv /\ PipelinesEnd /\ EosAccounting)'
  BY StepTypeInv, StepPipelinesEnd, StepEosAccounting
<1>3. QED
  BY <1>1, <1>2, PTL DEF Spec

\* If no file is called EOS, each EOS that Source sends stops one stage1 and no
\* more than one, and no file is queued behind it.
THEOREM EachEosStopsOne ==
    ASSUME EOS \notin File
    PROVE  Spec => []EosAccounting
BY EosInvariance, PTL

\* The invariants of the shutdown say when a stage has returned.
LEMMA StagesDrain ==
    ASSUME TypeInv, PipelinesEnd, EosAccounting
    PROVE  DrainBeforeReturn
<1> SUFFICES ASSUME NEW i \in Worker
             PROVE  /\ pc1[i] = "done" => unread = {} \/ dir = "missing"
                    /\ pc2[i] = "done" => /\ i \in Stopped /\ pc1[i] # "push"
                                          /\ ~ Nonempty(stage2task_queue[i])
                    /\ pc3[i] = "done" => /\ pc2[i] \in {"notify", "done"}
                                          /\ Line(i) = <<>>
  BY DEF DrainBeforeReturn
<1>1. EosIsLast(i)
  BY DEF PipelinesEnd
<1>2. ASSUME pc1[i] = "done" PROVE unread = {} \/ dir = "missing"
  <2>1. i \in Stopped
    BY <1>1, <1>2 DEF EosIsLast, Stopped
  <2>2. eosSent # 0
    BY <2>1, StoppedCount, EosQueuedCount DEF EosAccounting, TypeInv, TypeOK
  <2>3. QED
    BY <2>2 DEF TypeInv, SourceOrder, TypeOK, EmitterTypeOK
<1>3. ASSUME pc2[i] = "done"
      PROVE  /\ i \in Stopped /\ pc1[i] # "push"
             /\ ~ Nonempty(stage2task_queue[i])
  BY <1>1, <1>3 DEF EosIsLast, Closed1, Stopped, Nonempty
<1>4. ASSUME pc3[i] = "done"
      PROVE  pc2[i] \in {"notify", "done"} /\ Line(i) = <<>>
  <2>1. Closed2(i) /\ stage3task_queue[i].d_queue = <<>>
    BY <1>1, <1>4 DEF EosIsLast
  <2>2. Closed1(i) /\ stage2task_queue[i].d_queue = <<>>
    BY <1>1, <2>1 DEF EosIsLast, Closed2
  <2>3. QED
    BY <1>4, <2>1, <2>2, EmptyLine DEF Closed1, Closed2
<1>5. QED
  BY <1>2, <1>3, <1>4

\* If no file is called EOS, a stage of a pipeline returns only when the folder
\* has been read, the stage before it has pushed its last pair, and no image is
\* left on the way.
THEOREM ShutdownInOrder ==
    ASSUME EOS \notin File
    PROVE  Spec => []DrainBeforeReturn
BY StagesDrain, EosInvariance, PTL
-----------------------------------------------------------------------------
\* The names of a deque of pairs follow the deque.
LEMMA FirstsFacts ==
    ASSUME NEW s \in Seq(Pair)
    PROVE  /\ Firsts(s) \in Seq(Name)
           /\ \A p \in Pair : Firsts(Append(s, p)) = Append(Firsts(s), p.first)
           /\ s # <<>> => Firsts(s) = <<Head(s).first>> \o Firsts(Tail(s))
<1> DEFINE n == Len(s)
<1>1. n \in Nat /\ DOMAIN s = 1..n /\ \A k \in 1..n : s[k].first \in Name
  <2>1. \A p \in Pair : p.first \in Name
    BY DEF Pair
  <2>2. n \in Nat /\ DOMAIN s = 1..n /\ \A k \in 1..n : s[k] \in Pair
    BY LenProperties, ElementOfSeq
  <2>3. QED
    BY <2>1, <2>2
<1>2. ASSUME NEW t \in Seq(Pair)
      PROVE  /\ Firsts(t) \in Seq(Name) /\ Len(Firsts(t)) = Len(t)
             /\ \A k \in 1..Len(t) : Firsts(t)[k] = t[k].first
  <2>1. \A p \in Pair : p.first \in Name
    BY DEF Pair
  <2>2. Len(t) \in Nat /\ DOMAIN t = 1..Len(t) /\ \A k \in 1..Len(t) : t[k] \in Pair
    BY LenProperties, ElementOfSeq
  <2>3. Firsts(t) = [k \in 1..Len(t) |-> t[k].first]
    BY <2>2 DEF Firsts
  <2>4. Firsts(t) \in [1..Len(t) -> Name]
    BY <2>1, <2>2, <2>3
  <2>5. Firsts(t) \in Seq(Name)
    BY <2>2, <2>4, SeqDef
  <2>6. Len(Firsts(t)) = Len(t)
    BY <2>2, <2>3, <2>5, LenProperties
  <2>7. QED
    BY <2>3, <2>5, <2>6
<1>3. ASSUME NEW p \in Pair
      PROVE  Firsts(Append(s, p)) = Append(Firsts(s), p.first)
  <2>1. /\ Append(s, p) \in Seq(Pair) /\ Len(Append(s, p)) = n + 1
        /\ \A k \in 1..n : Append(s, p)[k] = s[k]
        /\ Append(s, p)[n + 1] = p
    BY AppendProperties
  <2>2. p.first \in Name
    BY DEF Pair
  <2>3. /\ Append(Firsts(s), p.first) \in Seq(Name)
        /\ Len(Append(Firsts(s), p.first)) = n + 1
        /\ \A k \in 1..n : Append(Firsts(s), p.first)[k] = Firsts(s)[k]
        /\ Append(Firsts(s), p.first)[n + 1] = p.first
    BY <1>2, <2>2, AppendProperties
  <2>4. /\ Firsts(Append(s, p)) \in Seq(Name)
        /\ Len(Firsts(Append(s, p))) = n + 1
        /\ \A k \in 1..(n + 1) : Firsts(Append(s, p))[k] = Append(s, p)[k].first
    BY <1>2, <2>1
  <2>5. \A k \in 1..(n + 1) :
          Firsts(Append(s, p))[k] = Append(Firsts(s), p.first)[k]
    <3>1. ASSUME NEW k \in 1..n
          PROVE  Firsts(Append(s, p))[k] = Append(Firsts(s), p.first)[k]
      BY <1>1, <1>2, <2>1, <2>3, <2>4
    <3>2. QED
      BY <1>1, <2>1, <2>3, <2>4, <3>1
  <2>6. QED
    BY <2>3, <2>4, <2>5, SeqEqual
<1>4. ASSUME s # <<>>
      PROVE  Firsts(s) = <<Head(s).first>> \o Firsts(Tail(s))
  <2>1. /\ n \in Nat \ {0} /\ Head(s) = s[1]
        /\ Tail(s) \in Seq(Pair) /\ Len(Tail(s)) = n - 1
        /\ \A k \in 1..(n - 1) : Tail(s)[k] = s[k + 1]
    BY <1>4, EmptySeq, HeadTailProperties
  <2>2. /\ Firsts(Tail(s)) \in Seq(Name) /\ Len(Firsts(Tail(s))) = n - 1
        /\ \A k \in 1..(n - 1) : Firsts(Tail(s))[k] = s[k + 1].first
    <3> DEFINE t == Tail(s)
    <3>1. t \in Seq(Pair) /\ Len(t) = n - 1
      BY <2>1
    <3> HIDE DEF t
    <3>2. /\ Firsts(t) \in Seq(Name) /\ Len(Firsts(t)) = Len(t)
          /\ \A k \in 1..Len(t) : Firsts(t)[k] = t[k].first
      BY ONLY <1>2, <3>1
    <3>3. \A k \in 1..(n - 1) : t[k] = s[k + 1]
      BY <2>1 DEF t
    <3>4. QED
      BY <3>1, <3>2, <3>3 DEF t
  <2>3. /\ <<Head(s).first>> \in Seq(Name) /\ Len(<<Head(s).first>>) = 1
        /\ <<Head(s).first>>[1] = s[1].first
    BY <1>1, <2>1
  <2> DEFINE h == <<Head(s).first>>
             t == Firsts(Tail(s))
             c == h \o t
  <2>4. /\ c \in Seq(Name) /\ Len(c) = n
        /\ \A k \in 1..n : c[k] = IF k <= 1 THEN h[k] ELSE t[k - 1]
    <3>1. h \in Seq(Name) /\ t \in Seq(Name) /\ Len(h) = 1 /\ Len(t) = n - 1
      BY <2>2, <2>3
    <3> HIDE DEF h, t
    <3>2. /\ c \in Seq(Name) /\ Len(c) = Len(h) + Len(t)
          /\ \A k \in 1..(Len(h) + Len(t)) :
               c[k] = IF k <= Len(h) THEN h[k] ELSE t[k - Len(h)]
      BY <3>1, ConcatProperties
    <3>3. QED
      BY <2>1, <3>1, <3>2
  <2>5. \A k \in 1..n : Firsts(s)[k] = c[k]
    <3>1. ASSUME NEW k \in 1..n PROVE c[k] = s[k].first
      <4>1. CASE k = 1
        BY <2>3, <2>4, <4>1
      <4>2. CASE k # 1
        <5>1. k - 1 \in 1..(n - 1) /\ (k - 1) + 1 = k
          BY <2>1, <4>2
        <5>2. c[k] = t[k - 1]
          BY <2>1, <2>4, <4>2
        <5>3. QED
          BY <2>2, <5>1, <5>2
      <4>3. QED
        BY <4>1, <4>2
    <3>2. QED
      BY <1>2, <3>1
  <2>6. Firsts(s) \in Seq(Name) /\ Len(Firsts(s)) = n
    BY <1>2
  <2> HIDE DEF c, n
  <2>7. Firsts(s) = c
    BY <2>4, <2>5, <2>6, SeqEqual
  <2>8. QED
    BY <2>7 DEF c
<1>5. QED
  BY <1>2, <1>3, <1>4

\* The names in a pipeline, from what its stages hold and what waits between.
LineOf(saving, stamped, stamping, loaded, loading) ==
    saving \o stamped \o stamping \o loaded \o loading

\* How the parts of a line are put together does not matter.
LEMMA NamesAssociative ==
    ASSUME NEW s \in Seq(Name), NEW t \in Seq(Name), NEW u \in Seq(Name)
    PROVE  (s \o t) \o u = s \o (t \o u)
BY ConcatAssociative

\* What the concatenation of names gives.
LEMMA NamesConcat ==
    /\ <<>> \in Seq(Name) /\ \A n \in Name : <<n>> \in Seq(Name)
    /\ \A s, t \in Seq(Name) : s \o t \in Seq(Name)
    /\ \A s, t, u \in Seq(Name) : (s \o t) \o u = s \o (t \o u)
    /\ \A s \in Seq(Name) : s \o <<>> = s /\ <<>> \o s = s
    /\ \A s \in Seq(Name), n \in Name : Append(s, n) = s \o <<n>>
<1>1. <<>> \in Seq(Name) /\ \A n \in Name : <<n>> \in Seq(Name)
  OBVIOUS
<1>2. \A s, t \in Seq(Name) : s \o t \in Seq(Name)
  BY ConcatProperties
<1>3. \A s, t, u \in Seq(Name) : (s \o t) \o u = s \o (t \o u)
  BY NamesAssociative
<1>4. \A s \in Seq(Name) : s \o <<>> = s /\ <<>> \o s = s
  BY ConcatEmptySeq
<1>5. \A s \in Seq(Name), n \in Name : Append(s, n) = s \o <<n>>
  BY AppendIsConcat
<1>6. QED
  BY <1>1, <1>2, <1>3, <1>4, <1>5

\* A line is a sequence of names.
LEMMA LineType ==
    ASSUME NEW a \in Seq(Name), NEW b \in Seq(Name), NEW c \in Seq(Name),
           NEW d \in Seq(Name), NEW e \in Seq(Name)
    PROVE  LineOf(a, b, c, d, e) \in Seq(Name)
BY NamesConcat DEF LineOf

\* A name that stage1 pops is the last of the line.
LEMMA LineAdd ==
    ASSUME NEW a \in Seq(Name), NEW b \in Seq(Name), NEW c \in Seq(Name),
           NEW d \in Seq(Name), NEW n \in Name
    PROVE  LineOf(a, b, c, d, <<n>>) = Append(LineOf(a, b, c, d, <<>>), n)
<1>1. ((a \o b) \o c) \o d \in Seq(Name)
  BY NamesConcat
<1>2. QED
  BY <1>1, NamesConcat DEF LineOf

\* A name that stage1 or stage2 pushes keeps its place in the line.
LEMMA LinePush ==
    ASSUME NEW a \in Seq(Name), NEW b \in Seq(Name), NEW c \in Seq(Name),
           NEW d \in Seq(Name), NEW e \in Seq(Name), NEW n \in Name
    PROVE  /\ LineOf(a, b, c, Append(d, n), <<>>) = LineOf(a, b, c, d, <<n>>)
           /\ LineOf(a, Append(b, n), <<>>, d, e) = LineOf(a, b, <<n>>, d, e)
<1>a. <<n>> \in Seq(Name)
  BY NamesConcat
<1>1. LineOf(a, b, c, Append(d, n), <<>>) = LineOf(a, b, c, d, <<n>>)
  <2>1. ((a \o b) \o c) \in Seq(Name)
    BY NamesConcat
  <2>2. ((a \o b) \o c) \o (d \o <<n>>) = (((a \o b) \o c) \o d) \o <<n>>
    BY <1>a, <2>1, NamesConcat, SMTT(30)
  <2>3. (((a \o b) \o c) \o d) \o <<n>> \in Seq(Name)
    BY <1>a, <2>1, NamesConcat
  <2>4. ((((a \o b) \o c) \o d) \o <<n>>) \o <<>>
          = (((a \o b) \o c) \o d) \o <<n>>
    BY <2>3, NamesConcat
  <2>5. Append(d, n) = d \o <<n>>
    BY NamesConcat
  <2>6. QED
    BY <2>2, <2>4, <2>5 DEF LineOf
<1>2. LineOf(a, Append(b, n), <<>>, d, e) = LineOf(a, b, <<n>>, d, e)
  <2>1. a \o (b \o <<n>>) = (a \o b) \o <<n>>
    BY <1>a, NamesConcat
  <2>2. (a \o (b \o <<n>>)) \o <<>> = a \o (b \o <<n>>)
    BY <1>a, NamesConcat
  <2>3. QED
    BY <2>1, <2>2, NamesConcat DEF LineOf
<1>3. QED
  BY <1>1, <1>2

\* A name that stage2 or stage3 pops keeps its place in the line.
LEMMA LinePop ==
    ASSUME NEW a \in Seq(Name), NEW b \in Seq(Name), NEW c \in Seq(Name),
           NEW d \in Seq(Name), NEW e \in Seq(Name), NEW n \in Name
    PROVE  /\ LineOf(a, b, <<>>, <<n>> \o d, e) = LineOf(a, b, <<n>>, d, e)
           /\ LineOf(<<>>, <<n>> \o b, c, d, e) = LineOf(<<n>>, b, c, d, e)
<1>a. <<n>> \in Seq(Name)
  BY NamesConcat
<1>1. LineOf(a, b, <<>>, <<n>> \o d, e) = LineOf(a, b, <<n>>, d, e)
  <2>1. a \o b \in Seq(Name)
    BY NamesConcat
  <2>2. ((a \o b) \o <<n>>) \o d = (a \o b) \o (<<n>> \o d)
    BY <1>a, <2>1, NamesConcat
  <2>3. (a \o b) \o <<>> = a \o b
    BY <2>1, NamesConcat
  <2>4. QED
    BY <2>2, <2>3 DEF LineOf
<1>2. LineOf(<<>>, <<n>> \o b, c, d, e) = LineOf(<<n>>, b, c, d, e)
  <2>1. <<>> \o (<<n>> \o b) = <<n>> \o b
    BY <1>a, NamesConcat
  <2>2. QED
    BY <2>1 DEF LineOf
<1>3. QED
  BY <1>1, <1>2

\* A name put before others is the head of the sequence, and they are its tail.
LEMMA HeadTailOfConcat ==
    ASSUME NEW n \in Name, NEW s \in Seq(Name)
    PROVE  /\ <<n>> \o s # <<>> /\ Head(<<n>> \o s) = n
           /\ Tail(<<n>> \o s) = s
<1> DEFINE t == <<n>> \o s
<1>1. /\ t \in Seq(Name) /\ Len(t) = 1 + Len(s) /\ Len(s) \in Nat
      /\ \A k \in 1..(1 + Len(s)) :
           t[k] = IF k <= 1 THEN <<n>>[k] ELSE s[k - 1]
  BY NamesConcat, ConcatProperties
<1> HIDE DEF t
<1>2. t # <<>>
  BY <1>1, EmptySeq
<1>3. /\ Tail(t) \in Seq(Name) /\ Len(Tail(t)) = Len(s)
      /\ \A k \in 1..Len(s) : Tail(t)[k] = t[k + 1]
      /\ Head(t) = t[1]
  BY <1>1, <1>2, HeadTailProperties
<1>4. \A k \in 1..Len(s) : Tail(t)[k] = s[k]
  BY <1>1, <1>3
<1>5. Tail(t) = s
  BY <1>3, <1>4, SeqEqual
<1>6. QED
  BY <1>1, <1>2, <1>3, <1>5 DEF t

\* A name put before others.
Before(n, s) == <<n>> \o s

\* What stage3 holds comes before the rest of the line.
LEMMA LineTake ==
    ASSUME NEW b \in Seq(Name), NEW c \in Seq(Name), NEW d \in Seq(Name),
           NEW e \in Seq(Name), NEW n \in Name
    PROVE  LineOf(<<n>>, b, c, d, e) = Before(n, LineOf(<<>>, b, c, d, e))
<1> DEFINE r == ((b \o c) \o d) \o e
<1>1. <<n>> \in Seq(Name) /\ b \o c \in Seq(Name) /\ (b \o c) \o d \in Seq(Name)
  BY NamesConcat
<1>2. LineOf(<<>>, b, c, d, e) = r
  BY <1>1, NamesConcat DEF LineOf
<1>3. (<<n>> \o b) \o c = <<n>> \o (b \o c)
  BY <1>1, NamesConcat
<1>4. (<<n>> \o (b \o c)) \o d = <<n>> \o ((b \o c) \o d)
  BY <1>1, NamesConcat, SMTT(30)
<1>5. (<<n>> \o ((b \o c) \o d)) \o e = <<n>> \o r
  BY <1>1, NamesConcat
<1>6. QED
  BY <1>2, <1>3, <1>4, <1>5 DEF LineOf, Before

\* What the stages of pipeline i hold.
Saving(i) == If(pc3[i] = "save", pair3[i].first)
Stamping(i) == If(pc2[i] = "push", pair2[i].first)
Loading(i) == If(pc1[i] = "push", file_name[i])

\* What Line(i) is made of.
LineParts(i) ==
    <<Saving(i), stage3task_queue[i].d_queue, Stamping(i),
      stage2task_queue[i].d_queue, Loading(i)>>

\* Line(i) puts its parts together, now and after a step.
LEMMA LineFacts ==
    ASSUME TypeInv, NEW i \in Worker
    PROVE  /\ Line(i) = LineOf(Saving(i), Firsts(stage3task_queue[i].d_queue),
                Stamping(i), Firsts(stage2task_queue[i].d_queue), Loading(i))
           /\ Line(i)' = LineOf(Saving(i)', Firsts(stage3task_queue'[i].d_queue),
                Stamping(i)', Firsts(stage2task_queue'[i].d_queue), Loading(i)')
           /\ Saving(i) \in Seq(Name) /\ Stamping(i) \in Seq(Name)
           /\ Loading(i) \in Seq(Name)
           /\ stage2task_queue[i].d_queue \in Seq(Pair)
           /\ stage3task_queue[i].d_queue \in Seq(Pair)
           /\ Firsts(stage2task_queue[i].d_queue) \in Seq(Name)
           /\ Firsts(stage3task_queue[i].d_queue) \in Seq(Name)
           /\ Line(i) \in Seq(Name)
<1>1. /\ Line(i) = LineOf(Saving(i), Firsts(stage3task_queue[i].d_queue),
             Stamping(i), Firsts(stage2task_queue[i].d_queue), Loading(i))
      /\ Line(i)' = LineOf(Saving(i)', Firsts(stage3task_queue'[i].d_queue),
             Stamping(i)', Firsts(stage2task_queue'[i].d_queue), Loading(i)')
  BY DEF Line, LineOf, Saving, Stamping, Loading
<1>2. /\ stage2task_queue[i].d_queue \in Seq(Pair)
      /\ stage3task_queue[i].d_queue \in Seq(Pair)
  BY DEF TypeInv, TypeOK, QueueRecord
<1>3. /\ Saving(i) \in Seq(Name) /\ Stamping(i) \in Seq(Name)
      /\ Loading(i) \in Seq(Name)
  <2>1. pair3[i].first \in Name /\ pair2[i].first \in Name /\ file_name[i] \in Name
    BY DEF TypeInv, TypeOK, Pair
  <2>2. QED
    BY <2>1 DEF Saving, Stamping, Loading, If
<1>4. /\ Firsts(stage2task_queue[i].d_queue) \in Seq(Name)
      /\ Firsts(stage3task_queue[i].d_queue) \in Seq(Name)
  BY <1>2, FirstsFacts
<1>5. Line(i) \in Seq(Name)
  BY <1>1, <1>3, <1>4, LineType
<1>6. QED
  BY <1>1, <1>2, <1>3, <1>4, <1>5

\* A line whose parts stay is the same line.
LEMMA SameLine ==
    ASSUME NEW i \in Worker, LineParts(i)' = LineParts(i)
    PROVE  Line(i)' = Line(i)
BY DEF LineParts, Line, Saving, Stamping, Loading, Firsts

\* stage1 adds the task it pops behind the line, and hands it on in its place.
LEMMA Stage1Line ==
    ASSUME TypeInv, NEW i \in Worker, stage1(i)
    PROVE  /\ \A j \in Worker \ {i} : Line(j)' = Line(j)
           /\ Stage1Pop(i) => Task \in Name /\ Line(i)' = Append(Line(i), Task)
           /\ ~ Stage1Pop(i) => Line(i)' = Line(i)
<1> USE DEF TypeInv, TypeOK, PusherPC, stage1
<1>a. /\ stage2task_queue[i] \in QueueRecord(Pair, Worker)
      /\ \A r \in NotifyOne(stage2task_queue[i]) :
           r.d_queue = stage2task_queue[i].d_queue
  BY NotifyOneFacts
<1>1. \A j \in Worker \ {i} : LineParts(j)' = LineParts(j)
  BY DEF LineParts, Saving, Stamping, Loading, Stage1Wait, Stage1Pop,
         Stage1Push, Stage1LoadFails, Stage1Notify, Goto, stageVars
<1>2. CASE Stage1Wait(i) \/ Stage1LoadFails(i)
  <2>1. LineParts(i)' = LineParts(i) /\ ~ Stage1Pop(i)
    <3>1. LineParts(i)' = LineParts(i)
      BY <1>2 DEF LineParts, Saving, Stamping, Loading, Stage1Wait,
                  Stage1LoadFails, stageVars
    <3>2. ~ Stage1Pop(i)
      BY <1>2 DEF Stage1Wait, Stage1LoadFails, Stage1Pop, Goto, stageVars
    <3>3. QED
      BY <3>1, <3>2
  <2>2. QED
    BY <1>1, <2>1, SameLine
<1>3. CASE Stage1Pop(i)
  <2>1. Task \in Name
    BY <1>3, TaskFacts DEF Stage1Pop, EmitterTypeOK
  <2>2. /\ Saving(i)' = Saving(i) /\ Stamping(i)' = Stamping(i)
        /\ stage2task_queue' = stage2task_queue
        /\ stage3task_queue' = stage3task_queue
        /\ Loading(i) = <<>> /\ Loading(i)' = <<Task>>
    BY <1>3 DEF Stage1Pop, Saving, Stamping, Loading, If, Goto
  <2>3. Line(i)' = LineOf(Saving(i), Firsts(stage3task_queue[i].d_queue),
                 Stamping(i), Firsts(stage2task_queue[i].d_queue), <<Task>>)
    BY <2>2, LineFacts
  <2>4. Line(i) = LineOf(Saving(i), Firsts(stage3task_queue[i].d_queue),
                 Stamping(i), Firsts(stage2task_queue[i].d_queue), <<>>)
    BY <2>2, LineFacts
  <2>5. /\ Saving(i) \in Seq(Name) /\ Stamping(i) \in Seq(Name)
        /\ Firsts(stage2task_queue[i].d_queue) \in Seq(Name)
        /\ Firsts(stage3task_queue[i].d_queue) \in Seq(Name)
    BY LineFacts
  <2>6. LineOf(Saving(i), Firsts(stage3task_queue[i].d_queue),
               Stamping(i), Firsts(stage2task_queue[i].d_queue), <<Task>>)
          = Append(LineOf(Saving(i), Firsts(stage3task_queue[i].d_queue),
               Stamping(i), Firsts(stage2task_queue[i].d_queue), <<>>), Task)
    BY <2>1, <2>5, LineAdd, ZenonT(30)
  <2>7. Line(i)' = Append(Line(i), Task)
    BY ONLY <2>3, <2>4, <2>6
  <2>8. QED
    BY <1>1, <1>3, <2>1, <2>7, SameLine
<1>4. CASE Stage1Push(i)
  <2> DEFINE q == stage2task_queue[i]
             n == file_name[i]
  <2>1. /\ Loaded(n) \in Pair /\ Loaded(n).first = n /\ n \in Name
    BY DEF Loaded, EosPair, Pair, Name, Image
  <2>2. stage2task_queue'[i].d_queue = Append(q.d_queue, Loaded(n))
    BY <1>4, <1>a, <2>1, PushFrontFacts, SMTT(30) DEF Stage1Push
  <2>3. Firsts(stage2task_queue'[i].d_queue) = Append(Firsts(q.d_queue), n)
    BY <2>1, <2>2, LineFacts, FirstsFacts
  <2>4. /\ Saving(i)' = Saving(i) /\ Stamping(i)' = Stamping(i)
        /\ stage3task_queue' = stage3task_queue
        /\ Loading(i) = <<n>> /\ Loading(i)' = <<>>
    BY <1>4 DEF Stage1Push, Saving, Stamping, Loading, If, Goto
  <2>5. Line(i)' = LineOf(Saving(i), Firsts(stage3task_queue[i].d_queue),
                 Stamping(i), Append(Firsts(q.d_queue), n), <<>>)
    BY <2>3, <2>4, LineFacts
  <2>6. Line(i)' = Line(i)
    BY <2>1, <2>4, <2>5, LineFacts, LinePush, SMTT(30)
  <2>7. ~ Stage1Pop(i)
    BY <1>4 DEF Stage1Push, Stage1Pop
  <2>8. QED
    BY <1>1, <2>6, <2>7, SameLine
<1>5. CASE Stage1Notify(i)
  <2>1. stage2task_queue'[i].d_queue = stage2task_queue[i].d_queue
    BY <1>5, <1>a DEF Stage1Notify
  <2>2. Loading(i) = <<>> /\ Loading(i)' = <<>>
    BY <1>5 DEF Stage1Notify, Loading, If, Goto
  <2>3. LineParts(i)' = LineParts(i)
    BY <1>5, <2>1, <2>2 DEF Stage1Notify, LineParts, Saving, Stamping
  <2>4. ~ Stage1Pop(i)
    BY <1>5 DEF Stage1Notify, Stage1Pop
  <2>5. QED
    BY <1>1, <2>3, <2>4, SameLine
<1>6. QED
  BY <1>2, <1>3, <1>4, <1>5

\* stage2 hands on what it pops, stamped, in its place.
LEMMA Stage2Line ==
    ASSUME TypeInv, NEW i \in Worker, stage2(i)
    PROVE  \A j \in Worker : Line(j)' = Line(j)
<1> SUFFICES Line(i)' = Line(i)
  <2>1. \A j \in Worker \ {i} : LineParts(j)' = LineParts(j)
    BY DEF TypeInv, TypeOK, PusherPC, stage2, LineParts, Saving, Stamping,
           Loading, Stage2Wait, Stage2Pop, Stage2Push, Stage2Notify, Goto
  <2>2. QED
    BY <2>1, SameLine
<1> USE DEF TypeInv, TypeOK, PusherPC, stage2
<1>a. /\ stage2task_queue[i] \in QueueRecord(Pair, Worker)
      /\ stage3task_queue[i] \in QueueRecord(Pair, Worker)
      /\ pair2[i] \in Pair
  OBVIOUS
<1>b. /\ Saving(i) \in Seq(Name) /\ Loading(i) \in Seq(Name)
      /\ Firsts(stage2task_queue[i].d_queue) \in Seq(Name)
      /\ Firsts(stage3task_queue[i].d_queue) \in Seq(Name)
  BY LineFacts
<1>1. CASE Stage2Wait(i)
  <2>1. stage2task_queue'[i].d_queue = stage2task_queue[i].d_queue
    BY <1>1, <1>a, SleepFacts DEF Stage2Wait
  <2>2. LineParts(i)' = LineParts(i)
    BY <1>1, <2>1 DEF Stage2Wait, LineParts, Saving, Stamping, Loading
  <2>3. QED
    BY <2>2, SameLine
<1>2. CASE Stage2Pop(i)
  <2> DEFINE q == stage2task_queue[i]
             n == Back(q).first
             s == Firsts(stage3task_queue[i].d_queue)
             t == Firsts(Tail(q.d_queue))
  <2>1. /\ q.d_queue \in Seq(Pair) /\ q.d_queue # <<>>
        /\ Back(q) = Head(q.d_queue) /\ Back(q) \in Pair
        /\ stage2task_queue'[i].d_queue = Tail(q.d_queue)
        /\ Tail(q.d_queue) \in Seq(Pair)
    BY <1>2, <1>a, LineFacts, PopBackFacts, HeadTailProperties
    DEF Stage2Pop, Nonempty, Back
  <2>2. /\ n \in Name /\ t \in Seq(Name)
        /\ Firsts(q.d_queue) = <<n>> \o t
    BY <2>1, FirstsFacts DEF Pair
  <2>3. /\ Saving(i)' = Saving(i) /\ Loading(i)' = Loading(i)
        /\ stage3task_queue' = stage3task_queue
        /\ Stamping(i) = <<>> /\ Stamping(i)' = <<n>>
    BY <1>2 DEF Stage2Pop, Saving, Stamping, Loading, If, Goto
  <2>4. Line(i) = LineOf(Saving(i), s, <<>>, <<n>> \o t, Loading(i))
    BY <2>2, <2>3, LineFacts
  <2>5. Line(i)' = LineOf(Saving(i), s, <<n>>, t, Loading(i))
    BY <2>1, <2>3, LineFacts
  <2>6. LineOf(Saving(i), s, <<>>, <<n>> \o t, Loading(i))
          = LineOf(Saving(i), s, <<n>>, t, Loading(i))
    <3>1. s \in Seq(Name) /\ t \in Seq(Name) /\ n \in Name
      BY <1>b, <2>2
    <3> HIDE DEF n, s, t
    <3>2. QED
      BY ONLY <1>b, <3>1, LinePop
  <2> HIDE DEF n, s, t
  <2>7. QED
    BY ONLY <2>4, <2>5, <2>6
<1>3. CASE Stage2Push(i)
  <2> DEFINE q == stage3task_queue[i]
             n == pair2[i].first
             s == Firsts(q.d_queue)
             t == Firsts(stage2task_queue[i].d_queue)
  <2>1. /\ Processed(pair2[i]) \in Pair /\ Processed(pair2[i]).first = n
        /\ n \in Name
    BY <1>a DEF Processed, Stamp, Pair, Image
  <2>2. stage3task_queue'[i].d_queue = Append(q.d_queue, Processed(pair2[i]))
    BY <1>3, <1>a, <2>1, PushFrontFacts, SMTT(30) DEF Stage2Push
  <2>3. Firsts(stage3task_queue'[i].d_queue) = Append(s, n)
    BY <2>1, <2>2, LineFacts, FirstsFacts
  <2>4. /\ Saving(i)' = Saving(i) /\ Loading(i)' = Loading(i)
        /\ stage2task_queue' = stage2task_queue
        /\ Stamping(i) = <<n>> /\ Stamping(i)' = <<>>
    BY <1>3 DEF Stage2Push, Saving, Stamping, Loading, If, Goto
  <2>5. Line(i) = LineOf(Saving(i), s, <<n>>, t, Loading(i))
    BY <2>4, LineFacts
  <2>6. Line(i)' = LineOf(Saving(i), Append(s, n), <<>>, t, Loading(i))
    BY <2>3, <2>4, LineFacts
  <2>7. LineOf(Saving(i), Append(s, n), <<>>, t, Loading(i))
          = LineOf(Saving(i), s, <<n>>, t, Loading(i))
    <3>1. s \in Seq(Name) /\ t \in Seq(Name) /\ n \in Name
      BY <1>b, <2>1
    <3> HIDE DEF n, s, t
    <3>2. QED
      BY ONLY <1>b, <3>1, LinePush
  <2>8. QED
    BY ONLY <2>5, <2>6, <2>7
<1>4. CASE Stage2Notify(i)
  <2>1. stage3task_queue'[i].d_queue = stage3task_queue[i].d_queue
    BY <1>4, <1>a, NotifyOneFacts DEF Stage2Notify
  <2>2. Stamping(i) = <<>> /\ Stamping(i)' = <<>>
    BY <1>4 DEF Stage2Notify, Stamping, If, Goto
  <2>3. LineParts(i)' = LineParts(i)
    BY <1>4, <2>1, <2>2 DEF Stage2Notify, LineParts, Saving, Loading
  <2>4. QED
    BY <2>3, SameLine
<1>5. QED
  BY <1>1, <1>2, <1>3, <1>4

\* stage3 takes the first name of the line away, when it pops the EOS or has
\* saved the image.
LEMMA Stage3Line ==
    ASSUME TypeInv, NEW i \in Worker, stage3(i)
    PROVE  /\ \A j \in Worker \ {i} : Line(j)' = Line(j)
           /\ pc3'[i] # "done" /\ ~ (Stage3Save(i) \/ Stage3SaveFails(i))
                => Line(i)' = Line(i)
           /\ Stage3Pop(i) /\ pc3'[i] = "done"
                => /\ Line(i) # <<>> /\ Head(Line(i)) = EOS
                   /\ Line(i)' = Tail(Line(i))
           /\ Stage3Save(i) \/ Stage3SaveFails(i)
                => /\ Line(i) # <<>> /\ Head(Line(i)) = pair3[i].first
                   /\ Line(i)' = Tail(Line(i))
<1> USE DEF TypeInv, TypeOK, stage3
<1>a. /\ stage3task_queue[i] \in QueueRecord(Pair, Worker)
      /\ pair3[i] \in Pair
  OBVIOUS
<1>b. /\ Stamping(i) \in Seq(Name) /\ Loading(i) \in Seq(Name)
      /\ Firsts(stage2task_queue[i].d_queue) \in Seq(Name)
      /\ Firsts(stage3task_queue[i].d_queue) \in Seq(Name)
  BY LineFacts
<1>1. \A j \in Worker \ {i} : Line(j)' = Line(j)
  <2>1. \A j \in Worker \ {i} : LineParts(j)' = LineParts(j)
    BY DEF LineParts, Saving, Stamping, Loading, Stage3Wait, Stage3Pop,
           Stage3Save, Stage3SaveFails, Goto
  <2>2. QED
    BY <2>1, SameLine
<1>2. CASE Stage3Wait(i)
  <2>1. stage3task_queue'[i].d_queue = stage3task_queue[i].d_queue
    BY <1>2, <1>a, SleepFacts DEF Stage3Wait
  <2>2. LineParts(i)' = LineParts(i)
    BY <1>2, <2>1 DEF Stage3Wait, LineParts, Saving, Stamping, Loading
  <2>3. Line(i)' = Line(i)
    BY <2>2, SameLine
  <2>4. pc3'[i] # "done" /\ ~ (Stage3Save(i) \/ Stage3SaveFails(i))
        /\ ~ (Stage3Pop(i) /\ pc3'[i] = "done")
    BY <1>2 DEF Stage3Wait, Stage3Save, Stage3SaveFails
  <2>5. QED
    BY <1>1, <2>3, <2>4
<1>3. CASE Stage3Pop(i)
  <2> DEFINE q == stage3task_queue[i]
             n == Back(q).first
             s == Firsts(Tail(q.d_queue))
             t == Firsts(stage2task_queue[i].d_queue)
  <2>1. /\ q.d_queue \in Seq(Pair) /\ q.d_queue # <<>>
        /\ Back(q) = Head(q.d_queue) /\ Back(q) \in Pair
        /\ stage3task_queue'[i].d_queue = Tail(q.d_queue)
        /\ Tail(q.d_queue) \in Seq(Pair)
    BY <1>3, <1>a, LineFacts, PopBackFacts, HeadTailProperties
    DEF Stage3Pop, Nonempty, Back
  <2>2. /\ n \in Name /\ s \in Seq(Name)
        /\ Firsts(q.d_queue) = <<n>> \o s
    BY <2>1, FirstsFacts DEF Pair
  <2>3. /\ Stamping(i)' = Stamping(i) /\ Loading(i)' = Loading(i)
        /\ stage2task_queue' = stage2task_queue
        /\ Saving(i) = <<>>
        /\ n = EOS => Saving(i)' = <<>> /\ pc3'[i] = "done"
        /\ n # EOS => Saving(i)' = <<n>> /\ pc3'[i] = "save"
    BY <1>3 DEF Stage3Pop, Saving, Stamping, Loading, If, Goto
  <2>4. Line(i) = LineOf(<<>>, <<n>> \o s, Stamping(i), t, Loading(i))
    BY <2>2, <2>3, LineFacts
  <2>5. Line(i)' = LineOf(Saving(i)', s, Stamping(i), t, Loading(i))
    BY <2>1, <2>3, LineFacts
  <2>6. LineOf(<<>>, <<n>> \o s, Stamping(i), t, Loading(i))
          = LineOf(<<n>>, s, Stamping(i), t, Loading(i))
    <3>1. s \in Seq(Name) /\ t \in Seq(Name) /\ n \in Name
      BY <1>b, <2>2
    <3> HIDE DEF n, s, t
    <3>2. QED
      BY ONLY <1>b, <3>1, LinePop
  <2>7. /\ LineOf(<<n>>, s, Stamping(i), t, Loading(i)) # <<>>
        /\ Head(LineOf(<<n>>, s, Stamping(i), t, Loading(i))) = n
        /\ Tail(LineOf(<<n>>, s, Stamping(i), t, Loading(i)))
             = LineOf(<<>>, s, Stamping(i), t, Loading(i))
    <3>1. s \in Seq(Name) /\ t \in Seq(Name) /\ n \in Name
      BY <1>b, <2>2
    <3> HIDE DEF n, s, t
    <3>2. LineOf(<<n>>, s, Stamping(i), t, Loading(i))
            = Before(n, LineOf(<<>>, s, Stamping(i), t, Loading(i)))
      BY ONLY <1>b, <3>1, LineTake
    <3>3. LineOf(<<>>, s, Stamping(i), t, Loading(i)) \in Seq(Name)
      BY <1>b, <3>1, LineType, NamesConcat, Zenon
    <3>4. QED
      BY ONLY <3>1, <3>2, <3>3, HeadTailOfConcat DEF Before
  <2>8. ~ (Stage3Save(i) \/ Stage3SaveFails(i))
    BY <1>3 DEF Stage3Pop, Stage3Save, Stage3SaveFails
  <2> HIDE DEF n, s, t
  <2>9. CASE n = EOS
    <3>1. /\ Line(i) # <<>> /\ Head(Line(i)) = EOS
          /\ Line(i)' = Tail(Line(i)) /\ pc3'[i] = "done"
      BY ONLY <2>3, <2>4, <2>5, <2>6, <2>7, <2>9
    <3>2. QED
      BY ONLY <1>1, <2>8, <3>1
  <2>10. CASE n # EOS
    <3>1. Line(i)' = Line(i) /\ pc3'[i] = "save"
      BY ONLY <2>3, <2>4, <2>5, <2>6, <2>10
    <3>2. QED
      BY ONLY <1>1, <2>8, <3>1
  <2>11. QED
    BY <2>9, <2>10
<1>4. CASE Stage3Save(i) \/ Stage3SaveFails(i)
  <2> DEFINE n == pair3[i].first
             s == Firsts(stage3task_queue[i].d_queue)
             t == Firsts(stage2task_queue[i].d_queue)
  <2>1. /\ Stamping(i)' = Stamping(i) /\ Loading(i)' = Loading(i)
        /\ UNCHANGED <<stage2task_queue, stage3task_queue>>
        /\ n \in Name /\ Saving(i) = <<n>> /\ Saving(i)' = <<>>
        /\ pc3[i] = "save" /\ pc3'[i] = "pop"
    BY <1>4, <1>a DEF Stage3Save, Stage3SaveFails, Saving, Stamping, Loading, If,
                      Goto, Pair
  <2>2. Line(i) = LineOf(<<n>>, s, Stamping(i), t, Loading(i))
    BY <2>1, LineFacts
  <2>3. Line(i)' = LineOf(<<>>, s, Stamping(i), t, Loading(i))
    BY <2>1, LineFacts
  <2>4. /\ LineOf(<<n>>, s, Stamping(i), t, Loading(i)) # <<>>
        /\ Head(LineOf(<<n>>, s, Stamping(i), t, Loading(i))) = n
        /\ Tail(LineOf(<<n>>, s, Stamping(i), t, Loading(i)))
             = LineOf(<<>>, s, Stamping(i), t, Loading(i))
    <3>1. s \in Seq(Name) /\ t \in Seq(Name) /\ n \in Name
      BY <1>b, <2>1
    <3> HIDE DEF n, s, t
    <3>2. LineOf(<<n>>, s, Stamping(i), t, Loading(i))
            = Before(n, LineOf(<<>>, s, Stamping(i), t, Loading(i)))
      BY ONLY <1>b, <3>1, LineTake
    <3>3. LineOf(<<>>, s, Stamping(i), t, Loading(i)) \in Seq(Name)
      BY <1>b, <3>1, LineType, NamesConcat, Zenon
    <3>4. QED
      BY ONLY <3>1, <3>2, <3>3, HeadTailOfConcat DEF Before
  <2>5. ~ Stage3Pop(i)
    BY <2>1 DEF Stage3Pop
  <2> HIDE DEF n, s, t
  <2>6. /\ Line(i) # <<>> /\ Head(Line(i)) = n
        /\ Line(i)' = Tail(Line(i))
    BY ONLY <2>2, <2>3, <2>4
  <2>7. QED
    BY ONLY <1>1, <1>4, <2>5, <2>6 DEF n
<1>5. QED
  BY <1>2, <1>3, <1>4

\* The steps of main(), of Source and of no thread leave the pipelines alone.
LEMMA IdleLine ==
    ASSUME TypeInv, [Next]_vars,
           ~ \E i \in Worker : stage1(i) \/ stage2(i) \/ stage3(i)
    PROVE  \A i \in Worker : Line(i)' = Line(i)
<1> SUFFICES ASSUME NEW i \in Worker PROVE LineParts(i)' = LineParts(i)
  BY SameLine
<1>1. CASE Main \/ RunSource \/ UNCHANGED vars
  BY <1>1 DEF Main, MainSpawn, MainJoin, MainReturn, RunSource, vars, stageVars,
              LineParts, Saving, Stamping, Loading
<1>2. ASSUME NEW j \in Worker, SpuriousWake(j)
      PROVE  LineParts(i)' = LineParts(i)
  <2>1. /\ stage2task_queue[j] \in QueueRecord(Pair, Worker)
        /\ stage3task_queue[j] \in QueueRecord(Pair, Worker)
        /\ stage2task_queue \in [Worker -> QueueRecord(Pair, Worker)]
        /\ stage3task_queue \in [Worker -> QueueRecord(Pair, Worker)]
    BY <1>2 DEF TypeInv, TypeOK
  <2>2. /\ stage2task_queue'[i].d_queue = stage2task_queue[i].d_queue
        /\ stage3task_queue'[i].d_queue = stage3task_queue[i].d_queue
    BY <1>2, <2>1, WakeUpFacts DEF SpuriousWake
  <2>3. QED
    BY <1>2, <2>2 DEF SpuriousWake, LineParts, Saving, Stamping, Loading
<1>3. QED
  BY <1>1, <1>2 DEF Next, Step, Exit

\* What a step can do to the line of a pipeline.
LEMMA StepLine ==
    ASSUME TypeInv, [Next]_vars, NEW i \in Worker
    PROVE  \/ Line(i)' = Line(i)
           \/ \E n \in Name : Line(i)' = Append(Line(i), n)
           \/ Line(i) # <<>> /\ Line(i)' = Tail(Line(i))
<1>1. CASE ~ \E j \in Worker : stage1(j) \/ stage2(j) \/ stage3(j)
  BY <1>1, IdleLine
<1>2. ASSUME NEW j \in Worker, stage1(j)
      PROVE  Line(i)' = Line(i) \/ \E n \in Name : Line(i)' = Append(Line(i), n)
  BY <1>2, Stage1Line
<1>3. ASSUME NEW j \in Worker, stage2(j)
      PROVE  Line(i)' = Line(i)
  BY <1>3, Stage2Line
<1>4. ASSUME NEW j \in Worker, stage3(j)
      PROVE  Line(i)' = Line(i) \/ (Line(i) # <<>> /\ Line(i)' = Tail(Line(i)))
  <2>1. pc3'[j] = "done" /\ ~ (Stage3Save(j) \/ Stage3SaveFails(j))
          => Stage3Pop(j) \/ Line(j)' = Line(j)
    <3>1. CASE Stage3Wait(j)
      <4>1. pc3'[j] # "done" \/ pc3[j] = "done"
        BY <3>1 DEF Stage3Wait
      <4>2. QED
        BY <3>1, <4>1 DEF Stage3Wait
    <3>2. QED
      BY <1>4, <3>1 DEF stage3
  <2>2. QED
    BY <1>4, <2>1, Stage3Line
<1>5. QED
  BY <1>1, <1>2, <1>3, <1>4

\* A pipeline takes its tasks in order and loses none on the way (pipeline.cpp:
\* each stage pops, works and pushes to the next): a step adds a name behind the
\* names in the pipeline, takes the first one out, or leaves them as they are.
THEOREM NamesStayInOrder == Spec => PipelineInOrder
<1> DEFINE InOrder ==
             \A i \in Worker :
                LET before == Line(i)
                    after  == Line(i)'
                IN  \/ after = before
                    \/ \E n \in Name : after = Append(before, n)
                    \/ before # <<>> /\ after = Tail(before)
<1>1. TypeInv /\ [Next]_vars => [InOrder]_vars
  BY StepLine
<1>2. QED
  BY <1>1, TypeInvariance, PTL DEF Spec, PipelineInOrder
-----------------------------------------------------------------------------
\* The pair p, unless it is an EOS, and every such pair of the deque s, carries
\* the image img.
Shows(p, img) == p.first # EOS => p.second = img
Carry(s, img) == \A k \in DOMAIN s : Shows(s[k], img)

\* What a pipeline does to an image: stage2 gets it raw, stage3 gets it stamped
\* and is given no EOS to save.
StampedOnce(i) ==
    /\ Carry(stage2task_queue[i].d_queue, "raw")
    /\ pc2[i] = "push" => Shows(pair2[i], "raw")
    /\ Carry(stage3task_queue[i].d_queue, "stamped")
    /\ pc3[i] = "save" => pair3[i].first # EOS /\ pair3[i].second = "stamped"

\* No image is saved without its stamp, or with two.
StampInv ==
    /\ \A i \in Worker : StampedOnce(i)
    /\ \A f \in File : disk[f] \in {"absent", "stamped"}

\* A step that leaves the pairs of pipeline i alone leaves their images alone.
StampState(i) ==
    <<stage2task_queue[i].d_queue, stage3task_queue[i].d_queue, pc2[i], pc3[i],
      pair2[i], pair3[i]>>

LEMMA SameStamps ==
    ASSUME NEW i \in Worker, StampedOnce(i), StampState(i)' = StampState(i)
    PROVE  StampedOnce(i)'
BY DEF StampedOnce, StampState, Carry, Shows

\* The images a deque carries after push() and pop().
LEMMA CarryAppend ==
    ASSUME NEW s \in Seq(Pair), NEW v \in Pair, NEW img, Carry(s, img),
           Shows(v, img)
    PROVE  Carry(Append(s, v), img)
<1>1. /\ Len(s) \in Nat /\ DOMAIN s = 1..Len(s)
      /\ DOMAIN Append(s, v) = 1..(Len(s) + 1)
      /\ \A k \in 1..Len(s) : Append(s, v)[k] = s[k]
      /\ Append(s, v)[Len(s) + 1] = v
  BY AppendProperties
<1>2. QED
  BY <1>1 DEF Carry

LEMMA CarryTail ==
    ASSUME NEW s \in Seq(Pair), s # <<>>, NEW img, Carry(s, img)
    PROVE  Carry(Tail(s), img) /\ Shows(Head(s), img)
<1>1. /\ Len(s) \in Nat \ {0} /\ DOMAIN s = 1..Len(s) /\ Head(s) = s[1]
      /\ DOMAIN Tail(s) = 1..(Len(s) - 1)
      /\ \A k \in 1..(Len(s) - 1) : Tail(s)[k] = s[k + 1]
  BY EmptySeq, HeadTailProperties
<1>2. QED
  BY <1>1 DEF Carry

\* push() on the queue of a stage.
LEMMA StagePush ==
    ASSUME NEW qs \in [Worker -> QueueRecord(Pair, Worker)], NEW i \in Worker,
           NEW p \in Pair
    PROVE  PushFront(qs[i], p).d_queue = Append(qs[i].d_queue, p)
<1>1. qs[i] \in QueueRecord(Pair, Worker)
  OBVIOUS
<1>2. QED
  BY <1>1, PushFrontFacts

\* Every step of a pipeline keeps its images in order.
LEMMA StepStamps ==
    ASSUME TypeInv, NEW i \in Worker, StampedOnce(i),
           stage1(i) \/ stage2(i) \/ stage3(i)
    PROVE  StampedOnce(i)'
<1> USE DEF TypeInv, TypeOK, PusherPC
<1>a. /\ stage2task_queue[i] \in QueueRecord(Pair, Worker)
      /\ stage3task_queue[i] \in QueueRecord(Pair, Worker)
      /\ stage2task_queue[i].d_queue \in Seq(Pair)
      /\ stage3task_queue[i].d_queue \in Seq(Pair)
      /\ pair2[i] \in Pair /\ file_name[i] \in Name
  BY DEF QueueRecord
<1>1. CASE stage1(i)
  <2>1. CASE Stage1Push(i)
    <3>1. Loaded(file_name[i]) \in Pair /\ Shows(Loaded(file_name[i]), "raw")
      BY <1>a DEF Loaded, EosPair, Pair, Name, Image, Shows
    <3>2. stage2task_queue'[i].d_queue =
            Append(stage2task_queue[i].d_queue, Loaded(file_name[i]))
      BY <3>1, <2>1, StagePush DEF Stage1Push
    <3>3. Carry(stage2task_queue'[i].d_queue, "raw")
      BY <1>a, <3>1, <3>2, CarryAppend DEF StampedOnce
    <3>4. QED
      BY <1>1, <2>1, <3>3 DEF stage1, Stage1Push, StampedOnce
  <2>2. CASE ~ Stage1Push(i)
    <3>1. stage2task_queue'[i].d_queue = stage2task_queue[i].d_queue
      BY <1>1, <1>a, <2>2, NotifyOneFacts
      DEF stage1, Stage1Wait, Stage1Pop, Stage1LoadFails, Stage1Notify, stageVars
    <3>2. StampState(i)' = StampState(i)
      BY <1>1, <2>2, <3>1 DEF stage1, Stage1Wait, Stage1Pop, Stage1LoadFails,
                              Stage1Notify, stageVars, StampState
    <3>3. QED
      BY <3>2, SameStamps
  <2>3. QED
    BY <2>1, <2>2
<1>2. CASE stage2(i)
  <2> USE <1>2 DEF stage2
  <2>1. CASE Stage2Wait(i)
    <3>1. stage2task_queue'[i].d_queue = stage2task_queue[i].d_queue
      BY <1>a, <2>1, SleepFacts DEF Stage2Wait
    <3>2. QED
      BY <2>1, <3>1, SameStamps DEF Stage2Wait, StampState
  <2>2. CASE Stage2Pop(i)
    <3> DEFINE s == stage2task_queue[i].d_queue
    <3>1. s # <<>> /\ Back(stage2task_queue[i]) = Head(s)
      BY <2>2 DEF Stage2Pop, Nonempty, Back
    <3>2. stage2task_queue'[i].d_queue = Tail(s)
      BY <1>a, <2>2, PopBackFacts DEF Stage2Pop, Nonempty
    <3>3. Carry(Tail(s), "raw") /\ Shows(Head(s), "raw")
      BY <1>a, <3>1, CarryTail DEF StampedOnce
    <3>4. QED
      BY <2>2, <3>1, <3>2, <3>3 DEF Stage2Pop, Goto, StampedOnce
  <2>3. CASE Stage2Push(i)
    <3>1. /\ Processed(pair2[i]) \in Pair
          /\ Shows(Processed(pair2[i]), "stamped")
      BY <1>a, <2>3 DEF Stage2Push, StampedOnce, Processed, Stamp, Shows, Pair,
                        Image
    <3>2. stage3task_queue'[i].d_queue =
            Append(stage3task_queue[i].d_queue, Processed(pair2[i]))
      BY <3>1, <2>3, StagePush DEF Stage2Push
    <3>3. Carry(stage3task_queue'[i].d_queue, "stamped")
      BY <1>a, <3>1, <3>2, CarryAppend DEF StampedOnce
    <3>4. QED
      BY <2>3, <3>3 DEF Stage2Push, Goto, StampedOnce
  <2>4. CASE Stage2Notify(i)
    <3>1. stage3task_queue'[i].d_queue = stage3task_queue[i].d_queue
      BY <1>a, <2>4, NotifyOneFacts DEF Stage2Notify
    <3>2. pc2'[i] # "push"
      BY <2>4 DEF Stage2Notify, Goto
    <3>3. QED
      BY <2>4, <3>1, <3>2 DEF Stage2Notify, StampedOnce
  <2>5. QED
    BY <2>1, <2>2, <2>3, <2>4
<1>3. CASE stage3(i)
  <2> USE <1>3 DEF stage3
  <2>1. CASE Stage3Wait(i)
    <3>1. stage3task_queue'[i].d_queue = stage3task_queue[i].d_queue
      BY <1>a, <2>1, SleepFacts DEF Stage3Wait
    <3>2. QED
      BY <2>1, <3>1, SameStamps DEF Stage3Wait, StampState
  <2>2. CASE Stage3Pop(i)
    <3> DEFINE s == stage3task_queue[i].d_queue
    <3>1. s # <<>> /\ Back(stage3task_queue[i]) = Head(s)
      BY <2>2 DEF Stage3Pop, Nonempty, Back
    <3>2. stage3task_queue'[i].d_queue = Tail(s)
      BY <1>a, <2>2, PopBackFacts DEF Stage3Pop, Nonempty
    <3>3. Carry(Tail(s), "stamped") /\ Shows(Head(s), "stamped")
      BY <1>a, <3>1, CarryTail DEF StampedOnce
    <3>4. pc3'[i] = "save" => pair3'[i].first # EOS /\ pair3'[i].second = "stamped"
      BY <2>2, <3>1, <3>3 DEF Stage3Pop, Goto, Shows
    <3>5. QED
      BY <2>2, <3>2, <3>3, <3>4 DEF Stage3Pop, StampedOnce
  <2>3. CASE Stage3Save(i) \/ Stage3SaveFails(i)
    BY <2>3 DEF Stage3Save, Stage3SaveFails, Goto, StampedOnce
  <2>4. QED
    BY <2>1, <2>2, <2>3
<1>4. QED
  BY <1>1, <1>2, <1>3

\* What the step of no thread of a pipeline leaves alone.
LEMMA IdlePipelines ==
    ASSUME TypeInv, [Next]_vars,
           ~ \E i \in Worker : stage1(i) \/ stage2(i) \/ stage3(i)
    PROVE  /\ \A i \in Worker : StampState(i)' = StampState(i)
           /\ UNCHANGED outputVars
<1>1. CASE Main \/ RunSource \/ UNCHANGED vars
  BY <1>1 DEF Main, MainSpawn, MainJoin, MainReturn, RunSource, vars, stageVars,
              StampState
<1>2. ASSUME NEW j \in Worker, SpuriousWake(j)
      PROVE  /\ \A i \in Worker : StampState(i)' = StampState(i)
             /\ UNCHANGED outputVars
  <2>1. /\ stage2task_queue[j] \in QueueRecord(Pair, Worker)
        /\ stage3task_queue[j] \in QueueRecord(Pair, Worker)
        /\ stage2task_queue \in [Worker -> QueueRecord(Pair, Worker)]
        /\ stage3task_queue \in [Worker -> QueueRecord(Pair, Worker)]
    BY <1>2 DEF TypeInv, TypeOK
  <2>2. ASSUME NEW i \in Worker
        PROVE  /\ stage2task_queue'[i].d_queue = stage2task_queue[i].d_queue
               /\ stage3task_queue'[i].d_queue = stage3task_queue[i].d_queue
    BY <1>2, <2>1, WakeUpFacts DEF SpuriousWake
  <2>3. QED
    BY <1>2, <2>2 DEF SpuriousWake, StampState
<1>3. QED
  BY <1>1, <1>2 DEF Next, Step, Exit

\* A step of pipeline i leaves the other pipelines alone.
LEMMA OtherPipelines ==
    ASSUME TypeInv, NEW i \in Worker, stage1(i) \/ stage2(i) \/ stage3(i),
           NEW j \in Worker \ {i}
    PROVE  StampState(j)' = StampState(j)
<1> USE DEF TypeInv, TypeOK, PusherPC, StampState, Goto
<1>1. CASE stage1(i)
  BY <1>1 DEF stage1, Stage1Wait, Stage1Pop, Stage1Push, Stage1LoadFails,
              Stage1Notify, stageVars
<1>2. CASE stage2(i)
  BY <1>2 DEF stage2, Stage2Wait, Stage2Pop, Stage2Push, Stage2Notify
<1>3. CASE stage3(i)
  BY <1>3 DEF stage3, Stage3Wait, Stage3Pop, Stage3Save, Stage3SaveFails
<1>4. QED
  BY <1>1, <1>2, <1>3

\* Only stage3 writes to the result folder, and what it writes is stamped.
LEMMA StepDisk ==
    ASSUME TypeInv, NEW i \in Worker, StampedOnce(i),
           stage1(i) \/ stage2(i) \/ stage3(i)
    PROVE  \/ UNCHANGED outputVars /\ ~ Stage3Save(i) /\ ~ Stage3SaveFails(i)
           \/ /\ Stage3Save(i) /\ pair3[i].first \in File /\ failed' = failed
              /\ disk' = [disk EXCEPT ![pair3[i].first] = "stamped"]
           \/ /\ Stage3SaveFails(i) /\ pair3[i].first \in File /\ disk' = disk
              /\ failed' = failed \cup {pair3[i].first}
<1> USE DEF TypeInv, TypeOK, outputVars
<1>1. pair3[i] \in Pair
  OBVIOUS
<1>2. CASE stage1(i) \/ stage2(i)
  <2>1. UNCHANGED <<disk, failed, pc3>>
    BY <1>2 DEF stage1, Stage1Wait, Stage1Pop, Stage1Push, Stage1LoadFails,
                Stage1Notify, stageVars, stage2, Stage2Wait, Stage2Pop,
                Stage2Push, Stage2Notify
  <2>2. QED
    BY <2>1 DEF Stage3Save, Stage3SaveFails, Goto
<1>3. CASE Stage3Wait(i) \/ Stage3Pop(i)
  BY <1>3 DEF Stage3Wait, Stage3Pop, Stage3Save, Stage3SaveFails
<1>4. CASE Stage3Save(i) \/ Stage3SaveFails(i)
  <2>1. pair3[i].first \in File /\ pair3[i].second = "stamped"
    BY <1>1, <1>4 DEF Stage3Save, Stage3SaveFails, StampedOnce, Pair, Name
  <2>2. QED
    BY <1>4, <2>1 DEF Stage3Save, Stage3SaveFails
<1>5. QED
  BY <1>2, <1>3, <1>4 DEF stage3

\* No step saves an image without its stamp, or stamps one twice.
LEMMA StepStampInv ==
    ASSUME TypeInv, StampInv, [Next]_vars
    PROVE  StampInv'
<1>1. CASE ~ \E i \in Worker : stage1(i) \/ stage2(i) \/ stage3(i)
  BY <1>1, IdlePipelines, SameStamps DEF StampInv, outputVars
<1>2. ASSUME NEW i \in Worker, stage1(i) \/ stage2(i) \/ stage3(i)
      PROVE  StampInv'
  <2>1. StampedOnce(i)
    BY DEF StampInv
  <2>2. ASSUME NEW j \in Worker PROVE StampedOnce(j)'
    BY <1>2, <2>1, StepStamps, OtherPipelines, SameStamps DEF StampInv
  <2>3. ASSUME NEW f \in File PROVE disk'[f] \in {"absent", "stamped"}
    BY <1>2, <2>1, StepDisk DEF StampInv, outputVars, TypeInv, TypeOK
  <2>4. QED
    BY <2>2, <2>3 DEF StampInv
<1>3. QED
  BY <1>1, <1>2

LEMMA InitStampInv == Init => StampInv
BY DEF Init, NewQueue, StampInv, StampedOnce, Carry
-----------------------------------------------------------------------------
\* The pipelines are a finite family of sequences of names.
LEMMA LinesType ==
    ASSUME TypeInv
    PROVE  /\ IsFiniteSet(Worker) /\ Lines \in Family(Worker, Name)
           /\ \A f : Cardinality(Spots(Lines, f)) \in Nat
<1>1. IsFiniteSet(Worker)
  BY EmitterAssumption, FS_Interval DEF Worker
<1>2. \A i \in Worker : Line(i) \in Seq(Name)
  BY LineFacts
<1>3. Lines \in Family(Worker, Name)
  BY <1>2 DEF Lines, Family
<1>4. QED
  BY <1>1, <1>3, SpotsFinite

\* The places of image f, counted one by one.
Places(f) ==
    Waiting(f) + Cardinality(Spots(Lines, f))
    + (IF disk[f] # "absent" THEN 1 ELSE 0) + (IF f \in failed THEN 1 ELSE 0)

\* Conservation says that there is one, now and after a step.
LEMMA OnePlace ==
    /\ Conservation <=> \A f \in File : Places(f) = 1
    /\ Conservation' <=> \A f \in File : Places(f)' = 1
<1>1. ASSUME NEW f
      PROVE  Copies(f) = Places(f) /\ Copies(f)' = Places(f)'
  <2>1. /\ Cardinality(unread \cap {f}) = IF f \in unread THEN 1 ELSE 0
        /\ Cardinality(failed \cap {f}) = IF f \in failed THEN 1 ELSE 0
    BY Once
  <2>2. /\ Cardinality(unread' \cap {f}) = IF f \in unread' THEN 1 ELSE 0
        /\ Cardinality(failed' \cap {f}) = IF f \in failed' THEN 1 ELSE 0
    BY Once
  <2>3. Copies(f) = Places(f)
    BY <2>1 DEF Copies, Places, Waiting
  <2>4. Copies(f)' = Places(f)'
    BY <2>2 DEF Copies, Places, Waiting
  <2>5. QED
    BY <2>3, <2>4
<1>2. QED
  BY <1>1 DEF Conservation

\* What can be counted of an image.
LEMMA PlacesCount ==
    ASSUME TypeInv, NEW f
    PROVE  /\ Cardinality(Spots(Lines, f)) \in Nat
           /\ Cardinality(Positions(task_queue.d_queue, f)) \in Nat
           /\ Waiting(f) \in Nat
           /\ task_queue \in QueueRecord(Name, Worker)
           /\ task_queue.d_queue \in Seq(Name)
<1>1. task_queue \in QueueRecord(Name, Worker) /\ task_queue.d_queue \in Seq(Name)
  BY DEF TypeInv, TypeOK, EmitterTypeOK, QueueRecord
<1>2. Cardinality(Positions(task_queue.d_queue, f)) \in Nat
  BY <1>1, PositionsFinite
<1>3. QED
  BY <1>1, <1>2, LinesType DEF Waiting

\* The lines after a step are sequences of names again.
LEMMA NextLines ==
    ASSUME TypeInv, [Next]_vars
    PROVE  Lines' \in Family(Worker, Name)
<1>1. ASSUME NEW i \in Worker PROVE Line(i)' \in Seq(Name)
  <2>1. Line(i) \in Seq(Name)
    BY LineFacts
  <2>2. Line(i) # <<>> => Tail(Line(i)) \in Seq(Name)
    BY <2>1, HeadTailProperties
  <2>3. \A n \in Name : Append(Line(i), n) \in Seq(Name)
    BY <2>1, AppendProperties
  <2>4. QED
    BY <2>1, <2>2, <2>3, StepLine
<1>2. QED
  BY <1>1 DEF Lines, Family

\* A step that leaves every line alone moves no image between the pipelines.
LEMMA SameLines ==
    ASSUME \A i \in Worker : Line(i)' = Line(i)
    PROVE  Lines' = Lines
BY DEF Lines

\* An image that a stage1 takes is in its pipeline from then on.
LEMMA PopPlaces ==
    ASSUME TypeInv, [Next]_vars, NEW i \in Worker, stage1(i), Stage1Pop(i),
           NEW f \in File
    PROVE  Places(f)' = Places(f)
<1>1. /\ task_queue.d_queue # <<>>
      /\ task_queue'.d_queue = Tail(task_queue.d_queue)
      /\ UNCHANGED <<unread, disk, failed>>
  BY PlacesCount, TaskFacts DEF Stage1Pop, outputVars
<1>2. Cardinality(Positions(task_queue'.d_queue, f)) =
        Cardinality(Positions(task_queue.d_queue, f))
        - (IF Task = f THEN 1 ELSE 0)
  BY <1>1, PlacesCount, PositionsTail DEF Task, Back
<1>3. /\ Task \in Name /\ Lines'[i] = Append(Lines[i], Task)
      /\ \A j \in Worker \ {i} : Lines'[j] = Lines[j]
  BY Stage1Line DEF Lines
<1>4. /\ IsFiniteSet(Worker) /\ Lines \in Family(Worker, Name)
      /\ Lines' \in Family(Worker, Name)
  BY LinesType, NextLines
<1>5. Cardinality(Spots(Lines', f)) =
        Cardinality(Spots(Lines, f)) + (IF Task = f THEN 1 ELSE 0)
  BY ONLY <1>3, <1>4, i \in Worker, SpotsAppend
<1>6. /\ Cardinality(Spots(Lines, f)) \in Nat
      /\ Cardinality(Positions(task_queue.d_queue, f)) \in Nat
  BY PlacesCount
<1>7. QED
  BY ONLY <1>1, <1>2, <1>5, <1>6 DEF Places, Waiting

\* When stage3 has saved an image, or reported it, that is its only place.
LEMMA SavePlaces ==
    ASSUME TypeInv, StampInv, Conservation, [Next]_vars, NEW i \in Worker,
           stage3(i), Stage3Save(i) \/ Stage3SaveFails(i), NEW f \in File
    PROVE  Places(f)' = Places(f)
<1> DEFINE g == pair3[i].first
<1>1. /\ Lines[i] # <<>> /\ Head(Lines[i]) = g
      /\ Lines'[i] = Tail(Lines[i])
      /\ \A j \in Worker \ {i} : Lines'[j] = Lines[j]
  BY Stage3Line DEF Lines
<1>2. /\ IsFiniteSet(Worker) /\ Lines \in Family(Worker, Name)
      /\ Lines' \in Family(Worker, Name)
  BY LinesType, NextLines
<1>3. /\ g \in File
      /\ \/ disk' = [disk EXCEPT ![g] = "stamped"] /\ failed' = failed
         \/ disk' = disk /\ failed' = failed \cup {g}
      /\ disk \in [File -> Image \cup {"absent"}]
  BY StepDisk DEF StampInv, TypeInv, TypeOK, outputVars
<1>4. Waiting(f)' = Waiting(f)
  BY DEF stage3, emitterVars, Waiting
<1> HIDE DEF g
<1>5. Cardinality(Spots(Lines', f)) =
        Cardinality(Spots(Lines, f)) - (IF g = f THEN 1 ELSE 0)
  BY ONLY <1>1, <1>2, i \in Worker, SpotsTail
<1>6. Cardinality(Spots(Lines, f)) \in Nat /\ Waiting(f) \in Nat
  BY PlacesCount
<1>7. CASE g = f
  <2>1. Cardinality(Spots(Lines, f)) > 0
    <3>1. Lines[i] \in Seq(Name)
      BY LineFacts DEF Lines
    <3>2. 1 \in DOMAIN Lines[i] /\ Lines[i][1] = f
      BY <1>1, <1>7, <3>1, EmptySeq, HeadTailProperties, LenProperties
    <3>3. QED
      BY ONLY <1>2, <3>2, i \in Worker, SpotsPositive
  <2>2. Places(f) = 1
    BY OnePlace
  <2>3. disk[f] = "absent" /\ f \notin failed
    BY <1>6, <2>1, <2>2 DEF Places
  <2>4. \/ disk'[f] # "absent" /\ f \notin failed'
        \/ disk'[f] = "absent" /\ f \in failed'
    BY <1>3, <1>7, <2>3
  <2>5. QED
    BY ONLY <1>4, <1>5, <1>6, <1>7, <2>3, <2>4 DEF Places
<1>8. CASE g # f
  <2>1. disk'[f] = disk[f] /\ (f \in failed' <=> f \in failed)
    BY <1>3, <1>8
  <2>2. QED
    BY ONLY <1>4, <1>5, <1>6, <1>8, <2>1 DEF Places
<1>9. QED
  BY <1>7, <1>8

\* Every step keeps the number of places of every image.
LEMMA StepConservation ==
    ASSUME EOS \notin File, TypeInv, StampInv, Conservation, [Next]_vars
    PROVE  Conservation'
<1> SUFFICES ASSUME NEW f \in File PROVE Places(f)' = Places(f)
  BY OnePlace
<1>a. ASSUME Lines' = Lines, Waiting(f)' = Waiting(f), UNCHANGED outputVars
      PROVE  Places(f)' = Places(f)
  BY <1>a DEF Places, outputVars
<1>b. ASSUME task_queue'.d_queue = task_queue.d_queue, unread' = unread
      PROVE  Waiting(f)' = Waiting(f)
  BY <1>b DEF Waiting
<1>c. task_queue \in QueueRecord(Name, Worker)
  BY PlacesCount
<1>1. CASE ~ \E i \in Worker : stage1(i) \/ stage2(i) \/ stage3(i)
  <2>1. Lines' = Lines /\ UNCHANGED outputVars
    BY <1>1, IdleLine, IdlePipelines, SameLines
  <2>2. CASE RunSource
    <3>1. Waiting(f)' = Waiting(f)
      BY <2>2, SourceWaiting DEF RunSource, TypeInv, TypeOK
    <3>2. QED
      BY <1>a, <2>1, <3>1
  <2>3. CASE ~ RunSource
    <3>1. task_queue'.d_queue = task_queue.d_queue /\ unread' = unread
      BY <1>1, <1>c, <2>3, TaskFacts
      DEF Next, Step, Exit, vars, emitterVars, Main, MainSpawn, MainJoin,
          MainReturn, SpuriousWake
    <3>2. QED
      BY <1>a, <1>b, <2>1, <3>1
  <2>4. QED
    BY <2>2, <2>3
<1>2. ASSUME NEW i \in Worker, stage1(i)
      PROVE  Places(f)' = Places(f)
  <2>1. CASE Stage1Pop(i)
    BY <1>2, <2>1, PopPlaces
  <2>2. CASE ~ Stage1Pop(i)
    <3>1. Lines' = Lines
      BY <1>2, <2>2, Stage1Line, SameLines
    <3>2. /\ task_queue'.d_queue = task_queue.d_queue /\ unread' = unread
          /\ UNCHANGED outputVars
      BY <1>2, <1>c, <2>2, TaskFacts
      DEF stage1, Stage1Wait, Stage1Push, Stage1LoadFails, Stage1Notify,
          emitterVars
    <3>3. QED
      BY <1>a, <1>b, <3>1, <3>2
  <2>3. QED
    BY <2>1, <2>2
<1>3. ASSUME NEW i \in Worker, stage2(i)
      PROVE  Places(f)' = Places(f)
  <2>1. Lines' = Lines
    BY <1>3, Stage2Line, SameLines
  <2>2. /\ task_queue' = task_queue /\ unread' = unread
        /\ UNCHANGED outputVars
    BY <1>3 DEF stage2, Stage2Wait, Stage2Pop, Stage2Push, Stage2Notify,
                emitterVars
  <2>3. QED
    BY <1>a, <1>b, <2>1, <2>2
<1>4. ASSUME NEW i \in Worker, stage3(i)
      PROVE  Places(f)' = Places(f)
  <2>1. CASE Stage3Save(i) \/ Stage3SaveFails(i)
    BY <1>4, <2>1, SavePlaces
  <2>2. CASE ~ (Stage3Save(i) \/ Stage3SaveFails(i))
    <3>1. UNCHANGED <<emitterVars, outputVars>>
      BY <1>4, <2>2 DEF stage3, Stage3Wait, Stage3Pop
    <3>2. Waiting(f)' = Waiting(f)
      BY <1>b, <3>1 DEF emitterVars
    <3>3. CASE Stage3Pop(i) /\ pc3'[i] = "done"
      <4>1. /\ Lines[i] # <<>> /\ Head(Lines[i]) = EOS
            /\ Lines'[i] = Tail(Lines[i])
            /\ \A j \in Worker \ {i} : Lines'[j] = Lines[j]
        BY <1>4, <3>3, Stage3Line DEF Lines
      <4>2. /\ IsFiniteSet(Worker) /\ Lines \in Family(Worker, Name)
            /\ Lines' \in Family(Worker, Name)
        BY LinesType, NextLines
      <4>3. Cardinality(Spots(Lines', f)) =
              Cardinality(Spots(Lines, f)) - (IF EOS = f THEN 1 ELSE 0)
        BY ONLY <4>1, <4>2, i \in Worker, SpotsTail
      <4>4. Cardinality(Spots(Lines, f)) \in Nat /\ f # EOS
        BY PlacesCount
      <4>5. Cardinality(Spots(Lines', f)) = Cardinality(Spots(Lines, f))
        BY <4>3, <4>4
      <4>6. QED
        BY <3>1, <3>2, <4>5 DEF Places, outputVars
    <3>4. CASE ~ (Stage3Pop(i) /\ pc3'[i] = "done")
      <4>1. pc3'[i] # "done"
        <5>1. CASE Stage3Wait(i)
          BY <5>1 DEF Stage3Wait
        <5>2. QED
          BY <1>4, <2>2, <3>4, <5>1 DEF stage3
      <4>2. Lines' = Lines
        BY <1>4, <2>2, <4>1, Stage3Line, SameLines
      <4>3. QED
        BY <1>a, <3>1, <3>2, <4>2
    <3>5. QED
      BY <3>3, <3>4
  <2>3. QED
    BY <2>1, <2>2
<1>5. QED
  BY <1>1, <1>2, <1>3, <1>4

\* Every image is in the folder, and nowhere else, when main() starts.
LEMMA InitConservation == Init => Conservation
<1> SUFFICES ASSUME Init, NEW f \in File PROVE Places(f) = 1
  BY OnePlace
<1>1. Positions(task_queue.d_queue, f) = {}
  BY DEF Init, EmitterInit, NewQueue, Positions
<1>2. ASSUME NEW i \in Worker PROVE Line(i) = <<>>
  BY EmptyLine DEF Init, NewQueue
<1>3. Spots(Lines, f) = {}
  BY <1>2 DEF Spots, Lines, Positions
<1>4. QED
  BY <1>1, <1>3, FS_EmptySet DEF Init, EmitterInit, Places, Waiting

\* Both hold together.
LEMMA ImagesInvariance ==
    ASSUME EOS \notin File
    PROVE  Spec => [](StampInv /\ Conservation)
<1>1. Init => StampInv /\ Conservation
  BY InitStampInv, InitConservation
<1>2. TypeInv /\ StampInv /\ Conservation /\ [Next]_vars
        => (StampInv /\ Conservation)'
  BY StepStampInv, StepConservation
<1>3. QED
  BY <1>1, <1>2, TypeInvariance, PTL DEF Spec

\* If no file is called EOS, no image is lost between the folder and the three
\* stages, none is in two pipelines or settled twice, however the threads
\* interleave (util.cpp: push() and pop(); pipeline.cpp: stage1, stage2, stage3).
THEOREM NoImageLost ==
    ASSUME EOS \notin File
    PROVE  Spec => []Conservation
BY ImagesInvariance, PTL
-----------------------------------------------------------------------------
\* The threads joined have returned.
JoinedExited == \A k \in 0..(joined - 1) : Exited(k)

\* Once a stage1 has taken an EOS, only EOS names are left in the queue.
OnlyEosLeft == Stopped # {} => OnlyEos

\* Names are read only from a folder that was opened.
ReadWhenOpened == dir # "opened" => unread = File

DrainInv == JoinedExited /\ OnlyEosLeft /\ ReadWhenOpened

\* The thread of every stage of every pipeline has its place in tids.
LEMMA ThreadIndex ==
    /\ \A k \in 0..(3 * ParDeg - 1) : k \div 3 \in Worker
    /\ \A i \in Worker :
         /\ (3 * i) \div 3 = i /\ (3 * i) % 3 = 0
         /\ (3 * i + 1) \div 3 = i /\ (3 * i + 1) % 3 = 1
         /\ (3 * i + 2) \div 3 = i /\ (3 * i + 2) % 3 = 2
BY EmitterAssumption DEF Worker

\* A thread that has returned stays so; main() joins it only then.
LEMMA StepJoinedExited ==
    ASSUME TypeInv, JoinedExited, [Next]_vars
    PROVE  JoinedExited'
<1> USE EmitterAssumption DEF TypeInv, TypeOK, EmitterTypeOK, JoinedExited
<1>1. ASSUME source = "done" => source' = "done",
             \A i \in Worker : /\ pc1[i] = "done" => pc1'[i] = "done"
                               /\ pc2[i] = "done" => pc2'[i] = "done"
                               /\ pc3[i] = "done" => pc3'[i] = "done",
             joined' = joined
      PROVE  JoinedExited'
  <2>1. ASSUME NEW k \in 0..(joined - 1) PROVE Exited(k)'
    <3>1. k = 3 * ParDeg \/ k \div 3 \in Worker
      BY ThreadIndex DEF ThreadCount
    <3>2. Exited(k)
      OBVIOUS
    <3>3. QED
      BY <1>1, <3>1, <3>2 DEF Exited
  <2>2. QED
    BY <1>1, <2>1
<1>2. CASE MainSpawn \/ MainReturn \/ UNCHANGED vars
  BY <1>1, <1>2 DEF MainSpawn, MainReturn, vars, emitterVars, stageVars
<1>3. CASE MainJoin
  <2>1. ASSUME NEW k \in 0..joined PROVE Exited(k)'
    <3>1. Exited(k)
      BY <1>3 DEF MainJoin
    <3>2. QED
      BY <1>3, <3>1 DEF MainJoin, Exited, emitterVars, stageVars
  <2>2. QED
    BY <1>3, <2>1 DEF MainJoin
<1>4. CASE RunSource
  BY <1>1, <1>4 DEF RunSource, Source, stageVars, SourceOpen, SourcePush,
     SourceNotify, SourceEndOfDir, SourcePushEos, SourceNotifyEos, SourceReturn
<1>5. ASSUME NEW j \in Worker, stage1(j)
      PROVE  JoinedExited'
  BY <1>1, <1>5 DEF stage1, Stage1Wait, Stage1Pop, Stage1Push, Stage1LoadFails,
                    Stage1Notify, Goto, PusherPC, emitterVars, stageVars
<1>6. ASSUME NEW j \in Worker, stage2(j)
      PROVE  JoinedExited'
  BY <1>1, <1>6 DEF stage2, Stage2Wait, Stage2Pop, Stage2Push, Stage2Notify,
                    Goto, PusherPC, emitterVars
<1>7. ASSUME NEW j \in Worker, stage3(j)
      PROVE  JoinedExited'
  BY <1>1, <1>7 DEF stage3, Stage3Wait, Stage3Pop, Stage3Save, Stage3SaveFails,
                    Goto, emitterVars
<1>8. ASSUME NEW j \in Worker, SpuriousWake(j)
      PROVE  JoinedExited'
  BY <1>1, <1>8 DEF SpuriousWake
<1>9. QED
  BY <1>2, <1>3, <1>4, <1>5, <1>6, <1>7, <1>8 DEF Next, Step, Exit, Main

\* A stage1 stops at an EOS, which has no file behind it, and after the first
\* EOS Source pushes nothing else.
LEMMA StepOnlyEosLeft ==
    ASSUME TypeInv, EosAccounting, OnlyEosLeft, [Next]_vars
    PROVE  OnlyEosLeft'
<1> USE DEF TypeInv, TypeOK, PusherPC
<1>a. EmitterTypeOK /\ task_queue \in QueueRecord(Name, Worker)
  BY DEF EmitterTypeOK
<1>1. ASSUME task_queue'.d_queue = task_queue.d_queue, Stopped' \subseteq Stopped
      PROVE  OnlyEosLeft'
  BY <1>1 DEF OnlyEosLeft, OnlyEos
<1>2. CASE Main \/ UNCHANGED vars
  BY <1>1, <1>2 DEF Main, MainSpawn, MainJoin, MainReturn, vars, emitterVars,
                    stageVars, Stopped
<1>3. CASE RunSource
  <2>1. Stopped' = Stopped /\ Source
    BY <1>3 DEF RunSource, stageVars, Stopped
  <2>2. CASE SourcePush
    <3>1. Cardinality(EosQueued) + Cardinality(Stopped) = 0
      BY <2>2 DEF SourcePush, SourceOrder, EosAccounting
    <3>2. /\ Cardinality(EosQueued) \in Nat /\ Cardinality(Stopped) \in Nat
          /\ \A i \in Stopped : Cardinality(Stopped) > 0
      BY <1>a, EosQueuedCount, StoppedCount DEF Stopped
    <3>3. Stopped = {}
      BY <3>1, <3>2
    <3>4. QED
      BY <2>1, <3>3 DEF OnlyEosLeft
  <2>3. CASE ~ SourcePush
    BY <1>a, <2>1, <2>3, SourceOnlyEos DEF OnlyEosLeft
  <2>4. QED
    BY <2>2, <2>3
<1>4. ASSUME NEW i \in Worker, stage1(i)
      PROVE  OnlyEosLeft'
  <2> USE <1>4 DEF stage1
  <2>1. CASE Stage1Wait(i)
    BY <1>1, <1>a, <2>1, TaskFacts DEF Stage1Wait, stageVars, Stopped
  <2>2. CASE Stage1Pop(i)
    <3>1. /\ task_queue.d_queue # <<>>
          /\ task_queue'.d_queue = Tail(task_queue.d_queue)
      BY <1>a, <2>2, TaskFacts DEF Stage1Pop
    <3>2. OnlyEos \/ Task = EOS => OnlyEos'
      BY <1>a, <3>1, TaskPopOnlyEos DEF EosAccounting
    <3>3. Task # EOS => Stopped' \subseteq Stopped
      BY <2>2 DEF Stage1Pop, Goto, Stopped
    <3>4. QED
      BY <3>2, <3>3 DEF OnlyEosLeft
  <2>3. CASE Stage1Push(i) \/ Stage1LoadFails(i) \/ Stage1Notify(i)
    <3>1. Stopped' \subseteq Stopped
      BY <2>3 DEF Stage1Push, Stage1LoadFails, Stage1Notify, Goto, stageVars,
                  Stopped
    <3>2. task_queue' = task_queue
      BY <2>3 DEF Stage1Push, Stage1LoadFails, Stage1Notify, emitterVars
    <3>3. QED
      BY <1>1, <3>1, <3>2
  <2>4. QED
    BY <2>1, <2>2, <2>3
<1>5. ASSUME NEW i \in Worker, stage2(i) \/ stage3(i)
      PROVE  OnlyEosLeft'
  BY <1>1, <1>5 DEF stage2, Stage2Wait, Stage2Pop, Stage2Push, Stage2Notify,
                    stage3, emitterVars, Stopped
<1>6. ASSUME NEW i \in Worker, SpuriousWake(i)
      PROVE  OnlyEosLeft'
  BY <1>1, <1>6, <1>a, TaskFacts DEF SpuriousWake, Stopped
<1>7. QED
  BY <1>2, <1>3, <1>4, <1>5, <1>6 DEF Next, Step, Exit

\* Every step keeps the three.
LEMMA StepDrainInv ==
    ASSUME TypeInv, EosAccounting, DrainInv, [Next]_vars
    PROVE  DrainInv'
<1>1. ReadWhenOpened'
  <2>1. CASE RunSource
    BY <2>1 DEF TypeInv, TypeOK, SourceOrder, DrainInv, ReadWhenOpened,
       RunSource, Source, SourceOpen, SourcePush, SourceNotify, SourceEndOfDir,
       SourcePushEos, SourceNotifyEos, SourceReturn
  <2>2. CASE ~ RunSource
    <3>1. UNCHANGED <<dir, unread>>
      BY <2>2 DEF Next, Step, Exit, Main, MainSpawn, MainJoin, MainReturn,
         stage1, Stage1Wait, Stage1Pop, Stage1Push, Stage1LoadFails,
         Stage1Notify, stage2, Stage2Wait, Stage2Pop, Stage2Push, Stage2Notify,
         stage3, SpuriousWake, emitterVars, vars
    <3>2. QED
      BY <3>1 DEF DrainInv, ReadWhenOpened
  <2>3. QED
    BY <2>1, <2>2
<1>2. QED
  BY <1>1, StepJoinedExited, StepOnlyEosLeft DEF DrainInv

JobInv ==
    /\ TypeInv /\ PipelinesEnd /\ EosAccounting
    /\ StampInv /\ Conservation /\ DrainInv

\* They hold together.
LEMMA JobInvariance ==
    ASSUME EOS \notin File
    PROVE  Spec => []JobInv
<1>1. Init => DrainInv
  BY EmitterAssumption DEF Init, EmitterInit, DrainInv, JoinedExited,
     OnlyEosLeft, ReadWhenOpened, Stopped
<1>2. Init => JobInv
  BY <1>1, InitTypeInv, InitPipelinesEnd, InitEosAccounting, InitStampInv,
     InitConservation DEF JobInv
<1>3. JobInv /\ [Next]_vars => JobInv'
  BY StepTypeInv, StepPipelinesEnd, StepEosAccounting, StepStampInv,
     StepConservation, StepDrainInv DEF JobInv
<1>4. QED
  BY <1>2, <1>3, PTL DEF Spec
-----------------------------------------------------------------------------
\* An image in the folder, or in a pipeline, is still pending.
LEMMA PendingFacts ==
    ASSUME TypeInv, Conservation, NEW f \in File,
           f \in unread \/ Cardinality(Spots(Lines, f)) > 0
    PROVE  /\ disk[f] = "absent" /\ f \notin failed
           /\ Cardinality(Spots(Lines, f)) > 0 => f \notin unread
<1>1. Places(f) = 1
  BY OnePlace
<1>2. QED
  BY <1>1, PlacesCount DEF Places, Waiting

\* When every thread has been joined, no image is on its way: task_queue and
\* the pipelines hold none, and the folder was read to its end if it was opened.
LEMMA DrainedAtReturn ==
    ASSUME EOS \notin File, ParDeg > 0, JobInv, joined = ThreadCount
    PROVE  /\ dir \in {"opened", "missing"}
           /\ dir = "opened" => /\ \A f \in File : disk[f] # "absent" \/ f \in failed
                                /\ nImgs = Cardinality(File)
           /\ dir = "missing" => /\ \A f \in File : disk[f] = "absent"
                                 /\ failed = {} /\ nImgs = 0
<1> USE EmitterAssumption DEF JobInv, TypeInv
<1>1. source = "done" /\ \A i \in Worker : pc3[i] = "done"
  <2>1. /\ joined = 3 * ParDeg + 1 /\ 3 * ParDeg \in 0..(joined - 1)
        /\ \A i \in Worker : 3 * i + 2 \in 0..(joined - 1) /\ 3 * i + 2 # 3 * ParDeg
    BY DEF ThreadCount, Worker
  <2>2. Exited(3 * ParDeg) /\ \A i \in Worker : Exited(3 * i + 2)
    BY <2>1 DEF DrainInv, JoinedExited
  <2>3. source = "done"
    BY <2>2 DEF Exited
  <2>4. ASSUME NEW i \in Worker PROVE pc3[i] = "done"
    <3>1. /\ (3 * i + 2) \div 3 = i /\ (3 * i + 2) % 3 = 2
          /\ 3 * i + 2 # 3 * ParDeg
      BY <2>1, ThreadIndex
    <3>2. Exited(3 * i + 2)
      BY <2>2
    <3>3. QED
      BY <3>1, <3>2 DEF Exited
  <2>5. QED
    BY <2>3, <2>4
<1>2. dir \in {"opened", "missing"}
  BY <1>1 DEF SourceOrder, TypeOK, EmitterTypeOK
<1>3. \A i \in Worker : Line(i) = <<>>
  BY <1>1, StagesDrain DEF DrainBeforeReturn
<1>4. OnlyEos
  <2>1. 0 \in Worker
    BY DEF Worker
  <2>2. 0 \in Stopped
    BY <1>1, <2>1 DEF PipelinesEnd, EosIsLast, Closed1, Closed2, Stopped
  <2>3. QED
    BY <2>2 DEF DrainInv, OnlyEosLeft
<1>5. ASSUME NEW f \in File
      PROVE  Positions(task_queue.d_queue, f) = {} /\ Spots(Lines, f) = {}
  <2>1. Positions(task_queue.d_queue, f) = {}
    BY <1>4 DEF OnlyEos, Positions
  <2>2. Spots(Lines, f) = {}
    BY <1>3 DEF Spots, Lines, Positions
  <2>3. QED
    BY <2>1, <2>2
<1>6. Cardinality(unread) \in Nat /\ Cardinality(File) \in Nat /\ nImgs \in Nat
  BY UnreadCount DEF TypeOK, EmitterTypeOK
<1>7. Cardinality(unread) + nImgs = Cardinality(File)
  BY <1>1, <1>6 DEF SourceOrder
<1>8. ASSUME dir = "opened"
      PROVE  /\ \A f \in File : disk[f] # "absent" \/ f \in failed
             /\ nImgs = Cardinality(File)
  <2>1. unread = {}
    BY <1>1, <1>8 DEF SourceOrder
  <2>2. ASSUME NEW f \in File PROVE disk[f] # "absent" \/ f \in failed
    <3>1. Places(f) = 1
      BY OnePlace
    <3>2. QED
      BY <1>5, <2>1, <3>1, FS_EmptySet DEF Places, Waiting
  <2>3. QED
    BY <1>6, <1>7, <2>1, <2>2, FS_EmptySet
<1>9. ASSUME dir = "missing"
      PROVE  /\ \A f \in File : disk[f] = "absent"
             /\ failed = {} /\ nImgs = 0
  <2>1. unread = File
    BY <1>9 DEF DrainInv, ReadWhenOpened
  <2>2. \A f \in File : disk[f] = "absent" /\ f \notin failed
    BY <2>1, PendingFacts
  <2>3. QED
    BY <1>6, <1>7, <2>1, <2>2 DEF TypeOK
<1>10. QED
  BY <1>2, <1>8, <1>9

\* WatermarkJob counts with the Cardinality of FiniteSets.
LEMMA JobCardinality == \A S : Job!Cardinality(S) = Cardinality(S)
BY DEF Job!Cardinality, Cardinality

\* The outcome of an image that stage3 saves, or reports.
LEMMA SaveSettles ==
    ASSUME JobInv, NEW i \in Worker, stage3(i), process = "running",
           Stage3Save(i) \/ Stage3SaveFails(i)
    PROVE  Job!Next
<1> DEFINE f == pair3[i].first
<1>1. TypeInv /\ StampInv /\ Conservation
  BY DEF JobInv
<1>2. /\ f \in File /\ disk \in [File -> Image \cup {"absent"}]
      /\ \/ disk' = [disk EXCEPT ![f] = "stamped"] /\ failed' = failed
         \/ disk' = disk /\ failed' = failed \cup {f}
  BY <1>1, StepDisk DEF StampInv, TypeInv, TypeOK, outputVars
<1>3. Cardinality(Spots(Lines, f)) > 0
  <2>1. Line(i) # <<>> /\ Head(Line(i)) = f /\ Line(i) \in Seq(Name)
    BY <1>1, Stage3Line, LineFacts
  <2>2. 1 \in DOMAIN Lines[i] /\ Lines[i][1] = f
    BY <2>1, EmptySeq, HeadTailProperties, LenProperties DEF Lines
  <2>3. QED
    BY <1>1, <2>2, LinesType, SpotsPositive
<1>4. disk[f] = "absent" /\ f \notin failed
  BY <1>1, <1>2, <1>3, PendingFacts
<1>5. f \notin unread
  BY <1>1, <1>2, <1>3, PendingFacts
<1>6. dir = "opened"
  BY <1>2, <1>5 DEF JobInv, DrainInv, ReadWhenOpened
<1>7. UNCHANGED <<dir, process, nImgs>>
  BY DEF stage3, emitterVars
<1> HIDE DEF f
<1>8. Outcome[f] = "pending"
  BY <1>2, <1>4 DEF Outcome
<1>9. CASE disk' = [disk EXCEPT ![f] = "stamped"] /\ failed' = failed
  <2>1. Outcome' = [Outcome EXCEPT ![f] = "written"]
    BY <1>2, <1>9 DEF Outcome
  <2>2. Job!Settle(f, "written")
    BY <1>6, <1>7, <1>8, <2>1 DEF Job!Settle
  <2>3. QED
    BY <1>2, <2>2 DEF Job!Next
<1>10. CASE disk' = disk /\ failed' = failed \cup {f}
  <2>1. Outcome' = [Outcome EXCEPT ![f] = "skipped"]
    BY <1>2, <1>4, <1>10 DEF Outcome
  <2>2. Job!Settle(f, "skipped")
    BY <1>6, <1>7, <1>8, <2>1 DEF Job!Settle
  <2>3. QED
    BY <1>2, <2>2 DEF Job!Next
<1>11. QED
  BY <1>2, <1>9, <1>10

\* Every step is a step of WatermarkJob, or none that it sees.
LEMMA StepJob ==
    ASSUME EOS \notin File, ParDeg > 0, JobInv, [Next]_vars
    PROVE  [Job!Next]_(Job!vars)
<1>a. ASSUME UNCHANGED <<dir, disk, failed, process>>,
             process = "running" \/ nImgs' = nImgs
      PROVE  UNCHANGED Job!vars
  BY <1>a DEF Job!vars, Outcome
<1>b. TypeInv /\ TypeOK /\ SourceOrder
  BY DEF JobInv, TypeInv
<1>1. CASE UNCHANGED vars
  BY <1>1, <1>a DEF vars, emitterVars, outputVars
<1>2. CASE Exit
  BY <1>2, <1>a DEF Exit, vars, emitterVars, outputVars
<1>3. ASSUME process = "running", MainSpawn \/ MainJoin
      PROVE  UNCHANGED Job!vars
  BY <1>3, <1>a DEF MainSpawn, MainJoin, emitterVars, outputVars
<1>4. ASSUME process = "running", MainReturn
      PROVE  Job!Next
  <2>1. /\ dir \in {"opened", "missing"}
        /\ dir = "opened" => /\ \A f \in File : disk[f] # "absent" \/ f \in failed
                             /\ nImgs = Cardinality(File)
        /\ dir = "missing" => /\ \A f \in File : disk[f] = "absent"
                              /\ failed = {} /\ nImgs = 0
    BY <1>4, DrainedAtReturn DEF MainReturn
  <2>2. /\ UNCHANGED <<dir, disk, failed, nImgs>> /\ process' = "finished"
        /\ Outcome' = Outcome
    BY <1>4 DEF MainReturn, emitterVars, outputVars, Outcome
  <2>3. /\ dir = "opened" => {f \in File : Outcome[f] # "pending"} = File
        /\ dir = "missing" => {f \in File : Outcome[f] # "pending"} = {}
    BY <2>1 DEF Outcome
  <2>4. nImgs = Cardinality(Job!Settled)
    BY <2>1, <2>3, FS_EmptySet DEF Job!Settled
  <2>5. Job!Return
    BY <1>4, <2>1, <2>2, <2>3, <2>4, JobCardinality
    DEF Job!Return, Job!Settled
  <2>6. QED
    BY <2>5 DEF Job!Next
<1>5. ASSUME process = "running", RunSource
      PROVE  [Job!Next]_(Job!vars)
  <2>1. UNCHANGED <<disk, failed, process>> /\ Source
    BY <1>5 DEF RunSource, outputVars
  <2>2. CASE SourceOpen
    <3>1. dir = "unopened" /\ dir' \in {"opened", "missing"}
      BY <1>b, <2>2 DEF SourceOpen, SourceOrder
    <3>2. Job!Open
      BY <1>5, <2>1, <3>1 DEF Job!Open, Outcome
    <3>3. QED
      BY <3>2 DEF Job!Next
  <2>3. CASE ~ SourceOpen
    <3>1. dir' = dir
      BY <2>1, <2>3 DEF Source, SourcePush, SourceNotify, SourceEndOfDir,
                        SourcePushEos, SourceNotifyEos, SourceReturn
    <3>2. QED
      BY <1>5, <1>a, <2>1, <3>1
  <2>4. QED
    BY <2>2, <2>3
<1>6. ASSUME process = "running", NEW i \in Worker, stage1(i)
      PROVE  [Job!Next]_(Job!vars)
  <2>1. UNCHANGED <<dir, nImgs, disk, failed>>
    BY <1>6 DEF stage1, Stage1Wait, Stage1Pop, Stage1Push, Stage1LoadFails,
                Stage1Notify, emitterVars, outputVars
  <2>2. CASE Stage1LoadFails(i)
    <3>1. Job!Die
      BY <1>6, <2>1, <2>2 DEF Stage1LoadFails, Job!Die, Outcome
    <3>2. QED
      BY <3>1 DEF Job!Next
  <2>3. CASE ~ Stage1LoadFails(i)
    <3>1. process' = process
      BY <1>6, <2>3 DEF stage1, Stage1Wait, Stage1Pop, Stage1Push, Stage1Notify
    <3>2. QED
      BY <1>6, <1>a, <2>1, <3>1
  <2>4. QED
    BY <2>2, <2>3
<1>7. ASSUME process = "running", NEW i \in Worker, stage2(i)
      PROVE  UNCHANGED Job!vars
  BY <1>7, <1>a DEF stage2, Stage2Wait, Stage2Pop, Stage2Push, Stage2Notify,
                    emitterVars, outputVars
<1>8. ASSUME process = "running", NEW i \in Worker, stage3(i)
      PROVE  [Job!Next]_(Job!vars)
  <2>1. CASE Stage3Save(i) \/ Stage3SaveFails(i)
    BY <1>8, <2>1, SaveSettles
  <2>2. CASE Stage3Wait(i) \/ Stage3Pop(i)
    BY <1>8, <1>a, <2>2 DEF stage3, Stage3Wait, Stage3Pop, emitterVars, outputVars
  <2>3. QED
    BY <1>8, <2>1, <2>2 DEF stage3
<1>9. ASSUME process = "running", NEW i \in Worker, SpuriousWake(i)
      PROVE  UNCHANGED Job!vars
  BY <1>9, <1>a DEF SpuriousWake, outputVars
<1>10. QED
  BY <1>1, <1>2, <1>3, <1>4, <1>5, <1>6, <1>7, <1>8, <1>9 DEF Next, Step, Main

\* With at least one pipeline and no file called EOS, cpp_watermark keeps the
\* promise of WatermarkJob: each image comes out stamped once or is reported,
\* from an open folder only, and main() returns with none left over and the
\* right count printed.
THEOREM KeepsPromise ==
    ASSUME EOS \notin File, ParDeg > 0
    PROVE  Spec => ImplementsJob
<1>1. Init => Job!Init
  BY DEF Init, EmitterInit, Job!Init, Outcome
<1>2. JobInv /\ [Next]_vars => [Job!Next]_(Job!vars)
  BY StepJob
<1>3. QED
  BY <1>1, <1>2, JobInvariance, PTL DEF Spec, ImplementsJob, Job!Spec
=============================================================================
