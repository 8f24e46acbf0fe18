------------------------- MODULE MasterWorker_proofs -------------------------
(***************************************************************************)
(* The master-worker version for any number of workers and any set of      *)
(* images: its types, that no wake-up is lost, that each EOS stops one     *)
(* worker, and that no image is lost or handled twice.                     *)
(***************************************************************************)
EXTENDS MasterWorker, Emitter_proofs

\* A worker that loads and saves does it for a name of the folder: what it
\* writes into disk or failed is one.
WorksOnFile == \A w \in Working : file_name[w] \in File

\* The types of all variables, and the order in which Source works.
TypeInv == TypeOK /\ SourceOrder /\ WorksOnFile

\* They hold when main() starts.
LEMMA InitTypeInv == Init => TypeInv
<1> SUFFICES ASSUME Init PROVE TypeInv
  OBVIOUS
<1>1. EmitterTypeOK /\ SourceOrder
  BY EmitterInitInv DEF Init, EmitterInv
<1>2. QED
  BY <1>1, EmitterAssumption DEF Init, TypeInv, TypeOK, Name, WorksOnFile, Working

\* Every step keeps the types and the order of Source.
LEMMA StepTypeInv == TypeInv /\ [Next]_vars => TypeInv'
<1> SUFFICES ASSUME TypeInv, [Next]_vars PROVE TypeInv'
  OBVIOUS
<1> USE EmitterAssumption, MasterWorkerAssumption
    DEF TypeInv, TypeOK, workerVars, WorksOnFile, Working, Name
<1>a. ASSUME UNCHANGED emitterVars
      PROVE  EmitterTypeOK' /\ SourceOrder'
  BY <1>a DEF emitterVars, EmitterTypeOK, SourceOrder
<1>b. ASSUME UNCHANGED <<dir, unread, source, eosSent, nImgs>>,
             task_queue' \in QueueRecord(Name, Worker)
      PROVE  EmitterTypeOK' /\ SourceOrder'
  BY <1>b DEF EmitterTypeOK, SourceOrder
<1>c. task_queue \in QueueRecord(Name, Worker)
  BY DEF EmitterTypeOK
<1>d. EOS \in Name
  BY DEF Name
<1>1. CASE Main
  BY <1>1, <1>a DEF Main, MainSpawn, MainJoin, MainReturn
<1>2. CASE RunSource
  <2>1. EmitterTypeOK' /\ SourceOrder'
    BY <1>2, SourceKeepsInv DEF RunSource, EmitterInv
  <2>2. QED
    BY <1>2, <2>1 DEF RunSource
<1>3. ASSUME NEW w \in Worker, stage123(w)
      PROVE  TypeInv'
  <2> USE <1>3 DEF stage123
  <2>1. CASE Wait(w)
    <3>1. EmitterTypeOK' /\ SourceOrder'
      BY <1>b, <1>c, <2>1, TaskFacts DEF Wait
    <3>2. QED
      BY <2>1, <3>1 DEF Wait
  <2>2. CASE Pop(w)
    <3>1. Task \in Name /\ EmitterTypeOK' /\ SourceOrder'
      BY <1>b, <1>c, <2>2, TaskFacts DEF Pop
    <3>2. QED
      BY <2>2, <3>1 DEF Pop
  <2>3. CASE LoadFails(w)
    BY <1>a, <2>3 DEF LoadFails, emitterVars
  <2>4. CASE SaveFails(w)
    <3>1. EmitterTypeOK' /\ SourceOrder'
      BY <1>a, <2>4 DEF SaveFails, NextTurn, emitterVars
    <3>2. QED
      BY <1>d, <2>4, <3>1 DEF SaveFails, NextTurn
  <2>5. CASE Save(w)
    <3>1. EmitterTypeOK' /\ SourceOrder'
      BY <1>a, <2>5 DEF Save, NextTurn, emitterVars
    <3>2. QED
      BY <1>d, <2>5, <3>1 DEF Save, NextTurn
  <2>6. QED
    BY <2>1, <2>2, <2>3, <2>4, <2>5
<1>4. ASSUME NEW w \in Worker, SpuriousWake(w)
      PROVE  TypeInv'
  <2>1. EmitterTypeOK' /\ SourceOrder'
    BY <1>b, <1>c, <1>4, TaskFacts DEF SpuriousWake
  <2>2. QED
    BY <1>4, <2>1 DEF SpuriousWake
<1>5. CASE UNCHANGED vars
  BY <1>5, <1>a DEF vars
<1>6. QED
  BY <1>1, <1>2, <1>3, <1>4, <1>5 DEF Next, Step, Exit

\* The types and the order in which Source works hold in every state.
THEOREM TypeInvariance == Spec => []TypeInv
BY InitTypeInv, StepTypeInv, PTL DEF Spec

\* Every variable of the master-worker version keeps its type; in particular
\* Source sends par_deg + 1 EOS at the most and counts no image twice.
THEOREM TypeCorrect == Spec => []TypeOK
<1>1. TypeInv => TypeOK
  BY DEF TypeInv
<1>2. QED
  BY <1>1, TypeInvariance, PTL
-----------------------------------------------------------------------------
\* A notify_one() of Source that is still to come.
NotifyPending == IF source \in {"notify", "eosNotify"} THEN 1 ELSE 0

\* Whoever sleeps is at pop(), and no name in the queue is left to the sleepers.
WakeInv ==
    /\ \A t \in task_queue.d_condition : pc[t] = "pop"
    /\ NoLostWakeup

\* The workers awake at pop() can be counted, now and after a step.
LEMMA AwakeCount ==
    ASSUME TypeInv
    PROVE  /\ IsFiniteSet(Awake) /\ Cardinality(Awake) \in Nat
           /\ IsFiniteSet(Awake') /\ Cardinality(Awake') \in Nat
           /\ Len(task_queue.d_queue) \in Nat
           /\ NotifyPending \in Nat
           /\ task_queue \in QueueRecord(Name, Worker)
           /\ task_queue.d_condition \subseteq Worker
<1>1. IsFiniteSet(Worker)
  BY EmitterAssumption, FS_Interval DEF Worker
<1>2. IsFiniteSet(Awake) /\ IsFiniteSet(Awake')
  BY <1>1, FS_Subset DEF Awake
<1>3. /\ task_queue \in QueueRecord(Name, Worker)
      /\ task_queue.d_queue \in Seq(Name)
      /\ task_queue.d_condition \subseteq Worker
  BY DEF TypeInv, TypeOK, EmitterTypeOK, QueueRecord
<1>4. QED
  BY <1>2, <1>3, FS_CardinalityType DEF NotifyPending

\* What a step that leaves the queue and Source alone needs to keep it: no
\* worker at pop() leaves it.
LEMMA SameQueueWakeInv ==
    ASSUME TypeInv, WakeInv, UNCHANGED <<task_queue, source>>,
           \A w \in Worker : pc[w] = "pop" => pc'[w] = "pop"
    PROVE  WakeInv'
<1> USE AwakeCount
<1>1. Awake \subseteq Awake' /\ NotifyPending' = NotifyPending
  BY DEF Awake, Asleep, NotifyPending
<1>2. Cardinality(Awake) <= Cardinality(Awake')
  BY <1>1, FS_Subset
<1>3. QED
  BY <1>1, <1>2 DEF WakeInv, NoLostWakeup, NotifyPending

\* Source announces every name it adds; a notification wakes a worker that is
\* at pop().
LEMMA SourceWakeInv ==
    ASSUME TypeInv, WakeInv, Source, pc' = pc
    PROVE  WakeInv'
<1> USE AwakeCount DEF WakeInv
<1>1. CASE SourceOpen \/ SourceEndOfDir \/ SourceReturn
  BY <1>1 DEF SourceOpen, SourceEndOfDir, SourceReturn, NoLostWakeup, Awake,
              Asleep
<1>2. CASE SourcePush \/ SourcePushEos
  <2>1. PICK v \in Name : task_queue' = PushFront(task_queue, v)
    BY <1>2 DEF SourcePush, SourcePushEos, Name, TypeInv, TypeOK, EmitterTypeOK
  <2>2. /\ Len(task_queue'.d_queue) = Len(task_queue.d_queue) + 1
        /\ task_queue'.d_condition = task_queue.d_condition
    BY <2>1, PushFrontFacts
  <2>3. NotifyPending = 0 /\ NotifyPending' = 1
    BY <1>2 DEF NotifyPending, SourcePush, SourcePushEos
  <2>4. Awake' = Awake
    BY <2>2 DEF Awake, Asleep
  <2>5. QED
    BY <2>2, <2>3, <2>4 DEF NoLostWakeup, NotifyPending
<1>3. CASE SourceNotify \/ SourceNotifyEos
  <2>1. task_queue' \in NotifyOne(task_queue)
    BY <1>3 DEF SourceNotify, SourceNotifyEos
  <2>2. NotifyPending = 1 /\ NotifyPending' = 0
    BY <1>3 DEF NotifyPending, SourceNotify, SourceNotifyEos
  <2>3. CASE task_queue.d_condition = {}
    BY <2>1, <2>3, NotifyOneFacts DEF NoLostWakeup
  <2>4. CASE task_queue.d_condition # {}
    <3>1. PICK t \in task_queue.d_condition :
            task_queue'.d_condition = task_queue.d_condition \ {t}
      BY <2>1, <2>4, NotifyOneFacts
    <3>2. task_queue'.d_queue = task_queue.d_queue
      BY <2>1, NotifyOneFacts
    <3>3. t \in Worker /\ pc[t] = "pop" /\ t \notin Awake
      BY DEF Awake, Asleep
    <3>4. Awake' = Awake \cup {t}
      BY <3>1, <3>3 DEF Awake, Asleep
    <3>5. Cardinality(Awake \cup {t}) = Cardinality(Awake) + 1
      BY <3>3, FS_AddElement
    <3>6. QED
      BY <2>2, <2>4, <3>1, <3>2, <3>4, <3>5 DEF NoLostWakeup, NotifyPending
  <2>5. QED
    BY <2>3, <2>4
<1>4. QED
  BY <1>1, <1>2, <1>3 DEF Source

\* A worker that pops a name is one of those awake.
LEMMA WorkerWakeInv ==
    ASSUME TypeInv, WakeInv, NEW w \in Worker, stage123(w)
    PROVE  WakeInv'
<1> USE AwakeCount DEF stage123, TypeInv, TypeOK, WakeInv
<1>1. CASE Wait(w)
  <2>1. /\ Len(task_queue'.d_queue) = 0
        /\ task_queue'.d_condition = task_queue.d_condition \cup {w}
        /\ pc' = pc /\ pc[w] = "pop"
    BY <1>1, TaskFacts DEF Wait, workerVars
  <2>2. QED
    BY <2>1 DEF NoLostWakeup
<1>2. CASE Pop(w)
  <2>1. /\ Len(task_queue'.d_queue) = Len(task_queue.d_queue) - 1
        /\ task_queue'.d_condition = task_queue.d_condition
        /\ w \notin task_queue.d_condition
        /\ pc[w] = "pop" /\ pc'[w] # "pop"
        /\ \A v \in Worker \ {w} : pc'[v] = pc[v]
        /\ source' = source
    BY <1>2, TaskFacts DEF Pop, TaskPop, Asleep
  <2>2. w \in Awake /\ Awake' = Awake \ {w}
    BY <2>1 DEF Awake, Asleep
  <2>3. Cardinality(Awake \ {w}) = Cardinality(Awake) - 1
    BY <2>2, FS_RemoveElement
  <2>4. QED
    BY <2>1, <2>2, <2>3 DEF NoLostWakeup, NotifyPending
<1>3. CASE Save(w) \/ SaveFails(w) \/ LoadFails(w)
  <2>1. /\ UNCHANGED <<task_queue, source>>
        /\ \A v \in Worker : pc[v] = "pop" => pc'[v] = "pop"
    BY <1>3 DEF Save, SaveFails, LoadFails, NextTurn, workerVars
  <2>2. QED
    BY <2>1, SameQueueWakeInv
<1>4. QED
  BY <1>1, <1>2, <1>3

\* Every step keeps it; a spurious wake-up only adds a worker awake.
LEMMA StepWakeInv == TypeInv /\ WakeInv /\ [Next]_vars => WakeInv'
<1> SUFFICES ASSUME TypeInv, WakeInv, [Next]_vars PROVE WakeInv'
  OBVIOUS
<1>1. CASE Main \/ UNCHANGED vars
  BY <1>1, SameQueueWakeInv
  DEF Main, MainSpawn, MainJoin, MainReturn, vars, emitterVars, workerVars
<1>2. CASE RunSource
  BY <1>2, SourceWakeInv DEF RunSource, workerVars
<1>3. ASSUME NEW w \in Worker, stage123(w)
      PROVE  WakeInv'
  BY <1>3, WorkerWakeInv
<1>4. ASSUME NEW w \in Worker, SpuriousWake(w)
      PROVE  WakeInv'
  <2> USE AwakeCount DEF WakeInv
  <2>1. /\ task_queue'.d_queue = task_queue.d_queue
        /\ task_queue'.d_condition = task_queue.d_condition \ {w}
        /\ pc' = pc /\ source' = source
    BY <1>4, TaskFacts DEF SpuriousWake, workerVars
  <2>2. Awake \subseteq Awake' /\ NotifyPending' = NotifyPending
    BY <2>1 DEF Awake, Asleep, NotifyPending
  <2>3. Cardinality(Awake) <= Cardinality(Awake')
    BY <2>2, FS_Subset
  <2>4. QED
    BY <2>1, <2>2, <2>3 DEF NoLostWakeup, NotifyPending
<1>5. QED
  BY <1>1, <1>2, <1>3, <1>4 DEF Next, Step, Exit

\* However many workers share task_queue and however often they wake with no
\* notification, no name waits beside sleepers with nobody on the way to it.
THEOREM NoLostWakeupHolds == Spec => []NoLostWakeup
<1>1. Init => WakeInv
  <2> SUFFICES ASSUME Init PROVE WakeInv
    OBVIOUS
  <2>1. task_queue.d_condition = {}
    BY NewQueueFacts DEF Init, EmitterInit
  <2>2. QED
    BY <2>1 DEF WakeInv, NoLostWakeup
<1>2. WakeInv => NoLostWakeup
  BY DEF WakeInv
<1>3. QED
  BY <1>1, <1>2, TypeInvariance, StepWakeInv, PTL DEF Spec
-----------------------------------------------------------------------------
\* The workers that have returned; each popped an EOS.
Done == {w \in Worker : pc[w] = "done"}

\* They can be counted, and so can the EOS names in the queue.
LEMMA DoneCount ==
    ASSUME TypeInv
    PROVE  /\ IsFiniteSet(Done) /\ Cardinality(Done) \in Nat
           /\ Done # {} => Cardinality(Done) > 0
           /\ Cardinality(EosQueued) \in Nat
           /\ EosQueued # {} => Cardinality(EosQueued) > 0
           /\ eosSent \in Nat
<1>1. IsFiniteSet(Worker)
  BY EmitterAssumption, FS_Interval DEF Worker
<1>2. IsFiniteSet(Done)
  BY <1>1, FS_Subset DEF Done
<1>3. EmitterTypeOK /\ eosSent \in Nat
  BY EmitterAssumption DEF TypeInv, TypeOK, EmitterTypeOK
<1>4. QED
  BY <1>2, <1>3, EosQueuedCount, FS_CardinalityType, FS_EmptySet

\* An EOS sent is in task_queue until a worker takes it and returns; no other
\* step moves one.  A file called EOS would be taken for one that Source sent.
LEMMA StepEosAccounting ==
    ASSUME EOS \notin File, TypeInv, EosAccounting, [Next]_vars
    PROVE  EosAccounting'
<1> USE DoneCount DEF TypeInv, TypeOK
<1>a. EosAccounting <=>
        EosLast /\ Cardinality(EosQueued) + Cardinality(Done) = eosSent
  BY DEF EosAccounting, Done
<1>b. EosAccounting' <=>
        EosLast' /\ Cardinality(EosQueued') + Cardinality(Done') = eosSent'
  BY DEF EosAccounting, Done
<1>c. ASSUME task_queue'.d_queue = task_queue.d_queue, eosSent' = eosSent,
             Done' = Done
      PROVE  EosAccounting'
  BY <1>a, <1>b, <1>c DEF EosLast, EosQueued
<1>1. CASE Main \/ UNCHANGED vars
  BY <1>c, <1>1 DEF Main, MainSpawn, MainJoin, MainReturn, emitterVars, vars,
                    workerVars, Done
<1>2. CASE RunSource
  <2>1. /\ Cardinality(EosQueued') - Cardinality(EosQueued) = eosSent' - eosSent
        /\ EosLast'
    BY <1>a, <1>2, SourceEos DEF RunSource, EmitterInv
  <2>2. Done' = Done
    BY <1>2 DEF RunSource, workerVars, Done
  <2>3. eosSent' \in Nat /\ Cardinality(EosQueued') \in Nat
    <3>1. EmitterTypeOK'
      BY <1>2, SourceKeepsInv DEF RunSource, EmitterInv
    <3>2. IsFiniteSet(EosQueued') /\ Cardinality(EosQueued') \in Nat
      BY <3>1, PositionsFinite DEF EosQueued, EmitterTypeOK, QueueRecord
    <3>3. QED
      BY <3>1, <3>2, EmitterAssumption DEF EmitterTypeOK
  <2>4. QED
    BY <1>a, <1>b, <2>1, <2>2, <2>3
<1>3. ASSUME NEW w \in Worker, stage123(w)
      PROVE  EosAccounting'
  <2> USE <1>3 DEF stage123
  <2>1. CASE Wait(w)
    BY <1>c, <2>1, TaskFacts DEF Wait, EmitterTypeOK, workerVars, Done
  <2>2. CASE Pop(w)
    <3>1. /\ Cardinality(EosQueued') =
               Cardinality(EosQueued) - (IF Task = EOS THEN 1 ELSE 0)
          /\ EosLast'
      BY <1>a, <2>2, TaskFacts, TaskPopEos DEF Pop, EmitterTypeOK
    <3>2. w \notin Done /\ Done' = IF Task = EOS THEN Done \cup {w} ELSE Done
      BY <2>2 DEF Pop, Done
    <3>3. Cardinality(Done') =
            Cardinality(Done) + (IF Task = EOS THEN 1 ELSE 0)
      <4>1. Cardinality(Done \cup {w}) = Cardinality(Done) + 1
        BY <3>2, FS_AddElement
      <4>2. QED
        BY <3>2, <4>1
    <3>4. QED
      BY <1>a, <1>b, <3>1, <3>3
  <2>3. CASE Save(w) \/ SaveFails(w) \/ LoadFails(w)
    <3>1. UNCHANGED <<task_queue, eosSent>> /\ Done' = Done
      BY <2>3 DEF Save, SaveFails, LoadFails, NextTurn, workerVars, Done
    <3>2. QED
      BY <1>c, <3>1
  <2>4. QED
    BY <2>1, <2>2, <2>3
<1>4. ASSUME NEW w \in Worker, SpuriousWake(w)
      PROVE  EosAccounting'
  BY <1>c, <1>4, TaskFacts DEF SpuriousWake, EmitterTypeOK, workerVars, Done
<1>5. QED
  BY <1>1, <1>2, <1>3, <1>4 DEF Next, Step, Exit

\* No EOS is sent when main() starts.
LEMMA InitEosAccounting == Init => EosAccounting
<1> SUFFICES ASSUME Init PROVE EosAccounting
  OBVIOUS
<1>1. task_queue.d_queue = <<>> /\ eosSent = 0
  BY DEF Init, EmitterInit, NewQueue
<1>2. EosQueued = {} /\ EosLast /\ {w \in Worker : pc[w] = "done"} = {}
  BY <1>1 DEF Init, EosQueued, Positions, EosLast
<1>3. QED
  BY <1>1, <1>2, FS_EmptySet DEF EosAccounting

\* If no file is called EOS, each EOS that Source sends stops one worker and no
\* more than one, and no file is queued behind it.
THEOREM EachEosStopsOne ==
    ASSUME EOS \notin File
    PROVE  Spec => []EosAccounting
<1>1. TypeInv /\ EosAccounting /\ [Next]_vars => EosAccounting'
  BY StepEosAccounting
<1>2. QED
  BY <1>1, InitEosAccounting, TypeInvariance, PTL DEF Spec
-----------------------------------------------------------------------------
\* The workers that load and save image f.
Holders(f) == {w \in Working : file_name[w] = f}

\* The parts of the count in Conservation.
LEMMA PlacesCount ==
    ASSUME TypeInv, NEW f
    PROVE  /\ IsFiniteSet(Holders(f)) /\ Cardinality(Holders(f)) \in Nat
           /\ \A w \in Holders(f) : Cardinality(Holders(f)) > 0
           /\ Cardinality(Positions(task_queue.d_queue, f)) \in Nat
           /\ task_queue \in QueueRecord(Name, Worker)
           /\ task_queue.d_queue \in Seq(Name)
<1>1. IsFiniteSet(Worker)
  BY EmitterAssumption, FS_Interval DEF Worker
<1>2. IsFiniteSet(Holders(f))
  BY <1>1, FS_Subset DEF Holders, Working
<1>3. task_queue \in QueueRecord(Name, Worker) /\ task_queue.d_queue \in Seq(Name)
  BY DEF TypeInv, TypeOK, EmitterTypeOK, QueueRecord
<1>4. QED
  BY <1>2, <1>3, PositionsFinite, FS_CardinalityType, FS_EmptySet

\* The places of image f, counted one by one.
Places(f) ==
    Waiting(f) + Cardinality(Holders(f))
    + (IF f \in disk THEN 1 ELSE 0) + (IF f \in failed THEN 1 ELSE 0)

\* Conservation says that there is one, now and after a step.
LEMMA OnePlace ==
    /\ Conservation <=> \A f \in File : Places(f) = 1
    /\ Conservation' <=> \A f \in File : Places(f)' = 1
<1> DEFINE Counted(f) ==
      Cardinality(unread \cap {f})
      + Cardinality(Positions(task_queue.d_queue, f))
      + Cardinality({w \in Working : file_name[w] = f})
      + Cardinality(disk \cap {f}) + Cardinality(failed \cap {f})
<1>1. ASSUME NEW f
      PROVE  Counted(f) = Places(f) /\ Counted(f)' = Places(f)'
  <2>1. /\ Cardinality(unread \cap {f}) = IF f \in unread THEN 1 ELSE 0
        /\ Cardinality(disk \cap {f}) = IF f \in disk THEN 1 ELSE 0
        /\ Cardinality(failed \cap {f}) = IF f \in failed THEN 1 ELSE 0
    BY Once
  <2>2. /\ Cardinality(unread' \cap {f}) = IF f \in unread' THEN 1 ELSE 0
        /\ Cardinality(disk' \cap {f}) = IF f \in disk' THEN 1 ELSE 0
        /\ Cardinality(failed' \cap {f}) = IF f \in failed' THEN 1 ELSE 0
    BY Once
  <2>3. QED
    BY <2>1, <2>2 DEF Places, Waiting, Holders
<1>2. Conservation <=> \A f \in File : Counted(f) = 1
  BY DEF Conservation
<1>3. Conservation' <=> \A f \in File : Counted(f)' = 1
  BY DEF Conservation
<1> HIDE DEF Counted
<1>4. QED
  BY <1>1, <1>2, <1>3

\* Source moves an image from the folder to the queue; it moves nothing else.
LEMMA SourcePlaces ==
    ASSUME EOS \notin File, TypeInv, Source, NEW f \in File,
           UNCHANGED workerVars
    PROVE  Places(f)' = Places(f)
<1>1. /\ Holders(f)' = Holders(f) /\ disk' = disk /\ failed' = failed
      /\ Cardinality(Holders(f)) \in Nat
  BY PlacesCount DEF Holders, Working, workerVars
<1>2. Waiting(f)' = Waiting(f)
  BY SourceWaiting DEF TypeInv, TypeOK
<1>3. QED
  BY <1>1, <1>2 DEF Places

\* At the end of a turn of worker w one place of its image is its outcome.
LEMMA TurnPlaces ==
    ASSUME TypeInv, Conservation, NEW w \in Worker, Save(w) \/ SaveFails(w),
           unread' = unread, NEW f \in File
    PROVE  Places(f)' = Places(f)
<1> USE PlacesCount DEF TypeInv, TypeOK
<1>1. /\ w \in Working /\ pc'[w] = "pop" /\ task_queue' = task_queue
      /\ \A v \in Worker \ {w} :
           pc'[v] = pc[v] /\ file_name'[v] = file_name[v]
  BY DEF Save, SaveFails, NextTurn, Working
<1>2. Holders(f)' = Holders(f) \ {w}
  BY <1>1 DEF Holders, Working
<1>3. CASE file_name[w] = f
  <2>1. w \in Holders(f) /\ Places(f) = 1
    BY <1>1, <1>3, OnePlace DEF Holders
  <2>2. Cardinality(Holders(f)') = Cardinality(Holders(f)) - 1
    BY <1>2, <2>1, FS_RemoveElement
  <2>3. f \notin disk /\ f \notin failed
    BY <2>1 DEF Places, Waiting
  <2>4. \/ f \in disk' /\ failed' = failed
        \/ f \in failed' /\ disk' = disk
    BY <1>3 DEF Save, SaveFails
  <2>5. /\ Cardinality(Holders(f)) \in Nat
        /\ Cardinality(Positions(task_queue.d_queue, f)) \in Nat
        /\ UNCHANGED <<unread, task_queue>>
    BY <1>1
  <2>6. QED
    BY ONLY <2>2, <2>3, <2>4, <2>5 DEF Places, Waiting
<1>4. CASE file_name[w] # f
  <2>1. Holders(f)' = Holders(f)
    BY <1>2, <1>4 DEF Holders
  <2>2. (f \in disk' <=> f \in disk) /\ (f \in failed' <=> f \in failed)
    BY <1>4 DEF Save, SaveFails
  <2>3. QED
    BY <1>1, <2>1, <2>2 DEF Places, Waiting
<1>5. QED
  BY <1>3, <1>4

\* Every step keeps the number of places of every image.
LEMMA StepConservation ==
    ASSUME EOS \notin File, TypeInv, Conservation, [Next]_vars
    PROVE  Conservation'
<1> SUFFICES ASSUME NEW f \in File PROVE Places(f)' = Places(f)
  BY OnePlace
<1> USE PlacesCount DEF TypeInv, TypeOK
<1>a. ASSUME task_queue'.d_queue = task_queue.d_queue,
             UNCHANGED <<unread, workerVars>>
      PROVE  Places(f)' = Places(f)
  BY <1>a DEF Places, Waiting, Holders, Working, workerVars
<1>1. CASE Main \/ UNCHANGED vars
  BY <1>a, <1>1 DEF Main, MainSpawn, MainJoin, MainReturn, emitterVars, vars
<1>2. CASE RunSource
  BY <1>2, SourcePlaces DEF RunSource
<1>3. ASSUME NEW w \in Worker, stage123(w)
      PROVE  Places(f)' = Places(f)
  <2> USE <1>3 DEF stage123
  <2>1. CASE Wait(w)
    BY <1>a, <2>1, TaskFacts DEF Wait
  <2>2. CASE LoadFails(w)
    BY <1>a, <2>2 DEF LoadFails
  <2>3. CASE Save(w) \/ SaveFails(w)
    BY <2>3, TurnPlaces
  <2>4. CASE Pop(w)
    <3>1. /\ task_queue.d_queue # <<>>
          /\ task_queue'.d_queue = Tail(task_queue.d_queue)
      BY <2>4, TaskFacts DEF Pop
    <3>2. Cardinality(Positions(task_queue'.d_queue, f)) =
            Cardinality(Positions(task_queue.d_queue, f))
            - (IF Task = f THEN 1 ELSE 0)
      BY <3>1, PositionsTail DEF Task, Back
    <3>3. /\ pc[w] = "pop" /\ file_name'[w] = Task
          /\ pc'[w] = IF Task = EOS THEN "done" ELSE "work"
          /\ \A v \in Worker \ {w} :
               pc'[v] = pc[v] /\ file_name'[v] = file_name[v]
          /\ UNCHANGED <<unread, disk, failed>>
      BY <2>4 DEF Pop
    <3>4. w \notin Holders(f)
      BY <3>3 DEF Holders, Working
    <3>5. Holders(f)' = IF Task = f THEN Holders(f) \cup {w} ELSE Holders(f)
      BY <3>3, <3>4 DEF Holders, Working
    <3>6. Cardinality(Holders(f)') =
            Cardinality(Holders(f)) + (IF Task = f THEN 1 ELSE 0)
      <4>1. Cardinality(Holders(f) \cup {w}) = Cardinality(Holders(f)) + 1
        BY <3>4, FS_AddElement
      <4>2. QED
        BY <3>5, <4>1
    <3>7. /\ Cardinality(Holders(f)) \in Nat
          /\ Cardinality(Positions(task_queue.d_queue, f)) \in Nat
          /\ UNCHANGED <<unread, disk, failed>>
      BY <3>3
    <3>8. QED
      BY ONLY <3>2, <3>6, <3>7 DEF Places, Waiting
  <2>5. QED
    BY <2>1, <2>2, <2>3, <2>4
<1>4. ASSUME NEW w \in Worker, SpuriousWake(w)
      PROVE  Places(f)' = Places(f)
  BY <1>a, <1>4, TaskFacts DEF SpuriousWake
<1>5. QED
  BY <1>1, <1>2, <1>3, <1>4 DEF Next, Step, Exit

\* Every image is in the folder, and nowhere else, when main() starts.
LEMMA InitConservation == Init => Conservation
<1> SUFFICES ASSUME Init, NEW f \in File PROVE Places(f) = 1
  BY OnePlace
<1>1. Positions(task_queue.d_queue, f) = {} /\ Holders(f) = {}
  BY DEF Init, EmitterInit, NewQueue, Positions, Holders, Working
<1>2. QED
  BY <1>1, FS_EmptySet DEF Init, EmitterInit, Places, Waiting

\* If no file is called EOS, no image is lost, and none is given to two workers
\* or settled twice, however the workers interleave.
THEOREM NoImageLost ==
    ASSUME EOS \notin File
    PROVE  Spec => []Conservation
<1>1. TypeInv /\ Conservation /\ [Next]_vars => Conservation'
  BY StepConservation
<1>2. QED
  BY <1>1, InitConservation, TypeInvariance, PTL DEF Spec
-----------------------------------------------------------------------------
\* The threads joined have returned.
JoinedExited == \A k \in 0..(joined - 1) : Exited(k)

\* Once a worker has returned, only EOS names are left in the queue.
OnlyEosLeft == Done # {} => OnlyEos

\* Names are read only from a folder that was opened.
ReadWhenOpened == dir # "opened" => unread = File

DrainInv == JoinedExited /\ OnlyEosLeft /\ ReadWhenOpened

\* A thread that has returned stays so; main() joins it only then.
LEMMA StepJoinedExited ==
    ASSUME TypeInv, JoinedExited, [Next]_vars
    PROVE  JoinedExited'
<1> USE EmitterAssumption
    DEF TypeInv, TypeOK, EmitterTypeOK, JoinedExited, Exited, Worker
<1>1. ASSUME source = "done" => source' = "done",
             \A w \in Worker : pc[w] = "done" => pc'[w] = "done",
             joined' = joined
      PROVE  JoinedExited'
  BY <1>1
<1>2. CASE MainSpawn \/ MainReturn \/ UNCHANGED vars
  BY <1>1, <1>2 DEF MainSpawn, MainReturn, vars, emitterVars, workerVars
<1>3. CASE MainJoin
  BY <1>3 DEF MainJoin, emitterVars, workerVars
<1>4. CASE RunSource
  BY <1>1, <1>4 DEF RunSource, Source, workerVars, SourceOpen, SourcePush,
     SourceNotify, SourceEndOfDir, SourcePushEos, SourceNotifyEos, SourceReturn
<1>5. ASSUME NEW w \in Worker, stage123(w) \/ SpuriousWake(w)
      PROVE  JoinedExited'
  BY <1>1, <1>5 DEF stage123, SpuriousWake, Wait, Pop, Save, SaveFails,
                    LoadFails, NextTurn, workerVars
<1>6. QED
  BY <1>2, <1>3, <1>4, <1>5 DEF Next, Step, Exit, Main

\* A worker returns at an EOS, which has no file behind it, and after the first
\* EOS Source pushes nothing else.
LEMMA StepOnlyEosLeft ==
    ASSUME TypeInv, EosAccounting, OnlyEosLeft, [Next]_vars
    PROVE  OnlyEosLeft'
<1> USE DEF TypeInv, TypeOK
<1>a. EmitterTypeOK /\ task_queue \in QueueRecord(Name, Worker)
  BY DEF EmitterTypeOK
<1>1. ASSUME task_queue'.d_queue = task_queue.d_queue, Done' = Done
      PROVE  OnlyEosLeft'
  BY <1>1 DEF OnlyEosLeft, OnlyEos
<1>2. CASE Main \/ UNCHANGED vars
  BY <1>1, <1>2 DEF Main, MainSpawn, MainJoin, MainReturn, vars, emitterVars,
                    workerVars, Done
<1>3. CASE RunSource
  <2>1. Done' = Done /\ Source
    BY <1>3 DEF RunSource, workerVars, Done
  <2>2. CASE SourcePush
    <3>1. Cardinality(EosQueued) + Cardinality(Done) = 0
      BY <2>2 DEF SourcePush, SourceOrder, EosAccounting, Done
    <3>2. Done = {}
      BY <3>1, DoneCount
    <3>3. QED
      BY <2>1, <3>2 DEF OnlyEosLeft
  <2>3. CASE ~ SourcePush
    BY <1>a, <2>1, <2>3, SourceOnlyEos DEF OnlyEosLeft
  <2>4. QED
    BY <2>2, <2>3
<1>4. ASSUME NEW w \in Worker, stage123(w)
      PROVE  OnlyEosLeft'
  <2> USE <1>4 DEF stage123
  <2>1. CASE Wait(w)
    BY <1>1, <1>a, <2>1, TaskFacts DEF Wait, workerVars, Done
  <2>2. CASE Pop(w)
    <3>1. /\ task_queue.d_queue # <<>>
          /\ task_queue'.d_queue = Tail(task_queue.d_queue)
      BY <1>a, <2>2, TaskFacts DEF Pop
    <3>2. OnlyEos \/ Task = EOS => OnlyEos'
      BY <1>a, <3>1, TaskPopOnlyEos DEF EosAccounting
    <3>3. Task # EOS => Done' = Done
      BY <2>2 DEF Pop, Done
    <3>4. QED
      BY <3>2, <3>3 DEF OnlyEosLeft
  <2>3. CASE Save(w) \/ SaveFails(w) \/ LoadFails(w)
    <3>1. Done' = Done /\ task_queue' = task_queue
      BY <2>3 DEF Save, SaveFails, LoadFails, NextTurn, workerVars, Done
    <3>2. QED
      BY <1>1, <3>1
  <2>4. QED
    BY <2>1, <2>2, <2>3
<1>5. ASSUME NEW w \in Worker, SpuriousWake(w)
      PROVE  OnlyEosLeft'
  BY <1>1, <1>5, <1>a, TaskFacts DEF SpuriousWake, workerVars, Done
<1>6. QED
  BY <1>2, <1>3, <1>4, <1>5 DEF Next, Step, Exit

\* Every step keeps the three.
LEMMA StepDrainInv ==
    ASSUME TypeInv, EosAccounting, DrainInv, [Next]_vars
    PROVE  DrainInv'
<1>1. ReadWhenOpened'
  BY DEF TypeInv, TypeOK, SourceOrder, DrainInv, ReadWhenOpened, Next, Step,
     Exit, Main, MainSpawn, MainJoin, MainReturn, RunSource, Source, SourceOpen,
     SourcePush, SourceNotify, SourceEndOfDir, SourcePushEos, SourceNotifyEos,
     SourceReturn, stage123, SpuriousWake, emitterVars, vars
<1>2. QED
  BY <1>1, StepJoinedExited, StepOnlyEosLeft DEF DrainInv

JobInv == TypeInv /\ EosAccounting /\ Conservation /\ DrainInv

\* They hold together.
LEMMA JobInvariance ==
    ASSUME EOS \notin File
    PROVE  Spec => []JobInv
<1>1. Init => DrainInv
  BY EmitterAssumption DEF Init, EmitterInit, DrainInv, JoinedExited,
     OnlyEosLeft, OnlyEos, ReadWhenOpened, Done
<1>2. Init => JobInv
  BY <1>1, InitTypeInv, InitEosAccounting, InitConservation DEF JobInv
<1>3. JobInv /\ [Next]_vars => JobInv'
  BY StepTypeInv, StepEosAccounting, StepConservation, StepDrainInv DEF JobInv
<1>4. QED
  BY <1>2, <1>3, PTL DEF Spec
-----------------------------------------------------------------------------
\* An image in the folder, or held by a worker, is still pending.
LEMMA PendingFacts ==
    ASSUME JobInv, NEW f \in File, f \in unread \/ Holders(f) # {}
    PROVE  f \notin disk /\ f \notin failed
<1>1. Places(f) = 1 /\ TypeInv
  BY OnePlace DEF JobInv
<1>2. Holders(f) # {} => Cardinality(Holders(f)) > 0
  BY <1>1, PlacesCount
<1>3. QED
  BY <1>1, <1>2, PlacesCount DEF Places, Waiting

\* When every thread has been joined, no image is on its way: the queue and the
\* workers hold none, and the folder was read to its end if it was opened.
LEMMA DrainedAtReturn ==
    ASSUME EOS \notin File, ParDeg > 0, JobInv, joined = ParDeg + 1
    PROVE  /\ dir \in {"opened", "missing"}
           /\ dir = "opened" => /\ \A f \in File : f \in disk \/ f \in failed
                                /\ nImgs = Cardinality(File)
           /\ dir = "missing" => /\ disk = {} /\ failed = {}
                                 /\ nImgs = 0
<1> USE EmitterAssumption DEF JobInv, TypeInv
<1>1. source = "done" /\ \A w \in Worker : pc[w] = "done"
  BY DEF DrainInv, JoinedExited, Exited, Worker
<1>2. dir \in {"opened", "missing"}
  BY <1>1 DEF SourceOrder, TypeOK, EmitterTypeOK
<1>3. 0 \in Worker /\ 0 \in Done
  BY <1>1 DEF Worker, Done
<1>4. ASSUME NEW f \in File
      PROVE  Positions(task_queue.d_queue, f) = {} /\ Holders(f) = {}
  BY <1>1, <1>3 DEF DrainInv, OnlyEosLeft, OnlyEos, Positions, Holders, Working
<1>5. Cardinality(unread) \in Nat /\ Cardinality(File) \in Nat /\ nImgs \in Nat
  BY UnreadCount DEF TypeOK, EmitterTypeOK
<1>6. Cardinality(unread) + nImgs = Cardinality(File)
  BY <1>1, <1>5 DEF SourceOrder
<1>7. ASSUME dir = "opened"
      PROVE  /\ \A f \in File : f \in disk \/ f \in failed
             /\ nImgs = Cardinality(File)
  <2>1. unread = {}
    BY <1>1, <1>7 DEF SourceOrder
  <2>2. ASSUME NEW f \in File PROVE f \in disk \/ f \in failed
    <3>1. Places(f) = 1
      BY OnePlace
    <3>2. QED
      BY <1>4, <2>1, <3>1, FS_EmptySet DEF Places, Waiting
  <2>3. QED
    BY <1>5, <1>6, <2>1, <2>2, FS_EmptySet
<1>8. ASSUME dir = "missing"
      PROVE  disk = {} /\ failed = {} /\ nImgs = 0
  <2>1. unread = File
    BY <1>8 DEF DrainInv, ReadWhenOpened
  <2>2. \A f \in File : f \notin disk /\ f \notin failed
    BY <2>1, PendingFacts
  <2>3. QED
    BY <1>5, <1>6, <2>1, <2>2 DEF TypeOK
<1>9. QED
  BY <1>2, <1>7, <1>8

\* WatermarkJob counts with the Cardinality of FiniteSets.
LEMMA JobCardinality == \A S : Job!Cardinality(S) = Cardinality(S)
BY DEF Job!Cardinality, Cardinality

\* Every step is a step of WatermarkJob, or none that it sees.
LEMMA StepJob ==
    ASSUME EOS \notin File, ParDeg > 0, JobInv, [Next]_vars
    PROVE  [Job!Next]_(Job!vars)
<1>a. ASSUME UNCHANGED <<dir, disk, failed, process>>,
             process = "running" \/ nImgs' = nImgs
      PROVE  UNCHANGED Job!vars
  BY <1>a DEF Job!vars, Outcome
<1>b. TypeInv /\ TypeOK /\ SourceOrder
  BY DEF JobInv, TypeInv
<1>1. CASE UNCHANGED vars
  BY <1>1, <1>a DEF vars, emitterVars, workerVars
<1>2. CASE Exit
  BY <1>2, <1>a DEF Exit, vars, emitterVars, workerVars
<1>3. ASSUME process = "running", MainSpawn \/ MainJoin
      PROVE  UNCHANGED Job!vars
  BY <1>3, <1>a DEF MainSpawn, MainJoin, emitterVars, workerVars
<1>4. ASSUME process = "running", MainReturn
      PROVE  Job!Next
  <2>1. /\ dir \in {"opened", "missing"}
        /\ dir = "opened" => /\ \A f \in File : f \in disk \/ f \in failed
                             /\ nImgs = Cardinality(File)
        /\ dir = "missing" => disk = {} /\ failed = {} /\ nImgs = 0
    BY <1>4, DrainedAtReturn DEF MainReturn
  <2>2. /\ UNCHANGED <<dir, disk, failed, nImgs>> /\ process' = "finished"
        /\ Outcome' = Outcome
    BY <1>4 DEF MainReturn, emitterVars, workerVars, Outcome
  <2>4. /\ dir = "opened" => {f \in File : Outcome[f] # "pending"} = File
        /\ dir = "missing" => {f \in File : Outcome[f] # "pending"} = {}
    BY <2>1 DEF Outcome
  <2>5. nImgs = Cardinality(Job!Settled)
    BY <2>1, <2>4, FS_EmptySet DEF Job!Settled
  <2>6. Job!Return
    BY <1>4, <2>1, <2>2, <2>4, <2>5, JobCardinality
    DEF Job!Return, Job!Settled
  <2>7. QED
    BY <2>6 DEF Job!Next
<1>5. ASSUME process = "running", RunSource
      PROVE  [Job!Next]_(Job!vars)
  <2>1. UNCHANGED <<disk, failed, process>> /\ Source
    BY <1>5 DEF RunSource, workerVars
  <2>2. CASE SourceOpen
    <3>1. dir = "unopened" /\ dir' \in {"opened", "missing"}
      BY <1>b, <2>2 DEF SourceOpen, SourceOrder
    <3>2. Job!Open
      BY <1>5, <2>1, <3>1 DEF Job!Open, Outcome
    <3>3. QED
      BY <3>2 DEF Job!Next
  <2>3. CASE ~ SourceOpen
    <3>1. dir' = dir
      BY <2>1, <2>3 DEF Source, SourcePush, SourceNotify, SourceEndOfDir,
                        SourcePushEos, SourceNotifyEos, SourceReturn
    <3>2. QED
      BY <1>5, <1>a, <2>1, <3>1
  <2>4. QED
    BY <2>2, <2>3
<1>6. ASSUME process = "running", NEW w \in Worker, stage123(w)
      PROVE  [Job!Next]_(Job!vars)
  <2>1. UNCHANGED <<dir, nImgs>>
    BY <1>6 DEF stage123
  <2>2. CASE Wait(w) \/ Pop(w)
    BY <1>6, <1>a, <2>1, <2>2 DEF Wait, Pop, workerVars
  <2>3. CASE LoadFails(w)
    <3>1. Job!Die
      BY <1>6, <2>1, <2>3 DEF LoadFails, workerVars, Job!Die, Outcome
    <3>2. QED
      BY <3>1 DEF Job!Next
  <2>4. CASE Save(w) \/ SaveFails(w)
    <3> DEFINE f == file_name[w]
    <3>1. w \in Working /\ f \in File /\ w \in Holders(f)
      BY <1>b, <2>4 DEF Save, SaveFails, NextTurn, Working, TypeInv,
                        WorksOnFile, Holders
    <3>2. f \notin disk /\ f \notin failed
      BY <3>1, PendingFacts
    <3>3. f \notin unread
      BY <1>b, <3>1, OnePlace, PlacesCount DEF JobInv, Places, Waiting
    <3>4. dir = "opened"
      BY <3>1, <3>3 DEF JobInv, DrainInv, ReadWhenOpened
    <3>5. process' = process
      BY <2>4 DEF Save, SaveFails, NextTurn
    <3> HIDE DEF f
    <3>6. CASE disk' = disk \cup {f} /\ failed' = failed
      <4>1. Outcome[f] = "pending"
        BY <3>1, <3>2 DEF Outcome
      <4>2. Outcome' = [Outcome EXCEPT ![f] = "written"]
        BY <3>1, <3>6 DEF Outcome
      <4>3. Job!Settle(f, "written")
        BY <1>6, <2>1, <3>4, <3>5, <4>1, <4>2 DEF Job!Settle
      <4>4. QED
        BY <3>1, <4>3 DEF Job!Next
    <3>7. CASE failed' = failed \cup {f} /\ disk' = disk
      <4>1. Outcome[f] = "pending"
        BY <3>1, <3>2 DEF Outcome
      <4>2. Outcome' = [Outcome EXCEPT ![f] = "skipped"]
        BY <3>1, <3>2, <3>7 DEF Outcome
      <4>3. Job!Settle(f, "skipped")
        BY <1>6, <2>1, <3>4, <3>5, <4>1, <4>2 DEF Job!Settle
      <4>4. QED
        BY <3>1, <4>3 DEF Job!Next
    <3>8. QED
      BY <2>4, <3>6, <3>7 DEF Save, SaveFails, f
  <2>5. QED
    BY <1>6, <2>2, <2>3, <2>4 DEF stage123
<1>7. ASSUME process = "running", NEW w \in Worker, SpuriousWake(w)
      PROVE  UNCHANGED Job!vars
  BY <1>7, <1>a DEF SpuriousWake, workerVars
<1>8. QED
  BY <1>1, <1>2, <1>3, <1>4, <1>5, <1>6, <1>7 DEF Next, Step, Main

\* With at least one worker and no file called EOS, the master-worker version
\* keeps the promise of WatermarkJob: each image is settled once, by an open
\* folder only, and main() returns with none left and the right count printed.
THEOREM KeepsPromise ==
    ASSUME EOS \notin File, ParDeg > 0
    PROVE  Spec => ImplementsJob
<1>1. Init => Job!Init
  BY DEF Init, EmitterInit, Job!Init, Outcome
<1>2. JobInv /\ [Next]_vars => [Job!Next]_(Job!vars)
  BY StepJob
<1>3. QED
  BY <1>1, <1>2, JobInvariance, PTL DEF Spec, ImplementsJob, Job!Spec
=============================================================================
