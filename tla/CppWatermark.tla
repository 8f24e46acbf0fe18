--------------------------- MODULE CppWatermark -----------------------------
(***************************************************************************)
(* cpp_watermark: the plain C++ version, a farm of ParDeg pipelines of     *)
(* three threads.  stage1(i) loads, stage2(i) stamps and stage3(i) saves;  *)
(* task_queue feeds every stage1, stage2task_queue[i] and                  *)
(* stage3task_queue[i] link the stages of pipeline i.  main() starts the   *)
(* threads, stage by stage and Source last, and joins them in that order.  *)
(*                                                                         *)
(* A critical section of a queue is one step, and so is the local work     *)
(* done just before it (load, stamp): BlockingQueue shows that a queue is  *)
(* atomic.  push() still takes two steps, since it notifies after it has   *)
(* unlocked.                                                               *)
(***************************************************************************)
EXTENDS Emitter

CONSTANTS Unreadable,   \* files whose load may throw CImgIOException
          Unsavable     \* files whose save_jpeg may throw CImgIOException

ASSUME CppAssumption == Unreadable \subseteq File /\ Unsavable \subseteq File

VARIABLES stage2task_queue, stage3task_queue,
          pc1, pc2, pc3,          \* where stage1(i), stage2(i), stage3(i) are
          file_name,              \* the task stage1(i) popped
          pair2, pair3,           \* the pair stage2(i), stage3(i) popped
                                  \* (EOS between two turns of their loops)
          disk,                   \* what path_out holds under each name
          failed,                 \* images whose save was reported as an error
          spawned, joined,        \* threads main() has started, has joined
          process                 \* the process runs, returned, or died

stageVars == <<stage2task_queue, stage3task_queue, pc1, pc2, pc3,
               file_name, pair2, pair3>>
outputVars == <<disk, failed>>
vars == <<emitterVars, stageVars, outputVars, spawned, joined, process>>

\* An image by the number of watermarks on it, or the CImg() of an EOS pair.
Image == {"empty", "raw", "stamped", "overstamped"}
Pair == [first : Name, second : Image]
EosPair == [first |-> EOS, second |-> "empty"]

PusherPC == {"pop", "push", "notify", "done"}

TypeOK ==
    /\ EmitterTypeOK
    /\ stage2task_queue \in [Worker -> QueueRecord(Pair, Worker)]
    /\ stage3task_queue \in [Worker -> QueueRecord(Pair, Worker)]
    /\ pc1 \in [Worker -> PusherPC]
    /\ pc2 \in [Worker -> PusherPC]
    /\ pc3 \in [Worker -> {"pop", "save", "done"}]
    /\ file_name \in [Worker -> Name]
    /\ pair2 \in [Worker -> Pair]
    /\ pair3 \in [Worker -> Pair]
    /\ disk \in [File -> Image \cup {"absent"}]
    /\ failed \subseteq File
    /\ spawned \in 0..(3 * ParDeg + 1)
    /\ joined \in 0..(3 * ParDeg + 1)
    /\ process \in {"running", "finished", "terminated"}

Init ==
    /\ EmitterInit
    /\ stage2task_queue = [i \in Worker |-> NewQueue]
    /\ stage3task_queue = [i \in Worker |-> NewQueue]
    /\ pc1 = [i \in Worker |-> "pop"]
    /\ pc2 = [i \in Worker |-> "pop"]
    /\ pc3 = [i \in Worker |-> "pop"]
    /\ file_name = [i \in Worker |-> EOS]
    /\ pair2 = [i \in Worker |-> EosPair]
    /\ pair3 = [i \in Worker |-> EosPair]
    /\ disk = [f \in File |-> "absent"]
    /\ failed = {}
    /\ spawned = 0
    /\ joined = 0
    /\ process = "running"
-----------------------------------------------------------------------------
\* The order of tids in main(): stage1, stage2, stage3 of each i, then Source.
ThreadCount == 3 * ParDeg + 1
Spawned(stage, i) == spawned >= 3 * i + stage
SourceSpawned == spawned = ThreadCount

\* Thread k of tids has returned.
Exited(k) ==
    LET i == k \div 3 IN
    IF k = 3 * ParDeg THEN source = "done"
    ELSE \/ k % 3 = 0 /\ pc1[i] = "done"
         \/ k % 3 = 1 /\ pc2[i] = "done"
         \/ k % 3 = 2 /\ pc3[i] = "done"

MainSpawn ==
    /\ spawned < ThreadCount
    /\ spawned' = spawned + 1
    /\ UNCHANGED <<emitterVars, stageVars, outputVars, joined, process>>

MainJoin ==
    /\ spawned = ThreadCount /\ joined < ThreadCount
    /\ Exited(joined)
    /\ joined' = joined + 1
    /\ UNCHANGED <<emitterVars, stageVars, outputVars, spawned, process>>

\* Mutated form: the threads are detached, and main() waits for none.
MainReturnUnjoined ==
    /\ spawned = ThreadCount
    /\ process' = "finished"
    /\ UNCHANGED <<emitterVars, stageVars, outputVars, spawned, joined>>

\* main() prints nImgs and returns.
MainReturn ==
    /\ spawned = ThreadCount /\ joined = ThreadCount
    /\ process' = "finished"
    /\ UNCHANGED <<emitterVars, stageVars, outputVars, spawned, joined>>

Main == MainSpawn \/ MainJoin \/ MainReturn

RunSource ==
    /\ SourceSpawned /\ Source
    /\ UNCHANGED <<stageVars, outputVars, spawned, joined, process>>
-----------------------------------------------------------------------------
Goto(pc, i, label) == [pc EXCEPT ![i] = label]

Stage1Wait(i) ==
    /\ pc1[i] = "pop" /\ TaskWait(i)
    /\ UNCHANGED <<dir, unread, source, eosSent, nImgs, stageVars, outputVars,
                   process>>

Stage1Pop(i) ==
    /\ pc1[i] = "pop" /\ TaskPop(i)
    /\ file_name' = [file_name EXCEPT ![i] = Task]
    /\ pc1' = Goto(pc1, i, "push")
    /\ UNCHANGED <<dir, unread, source, eosSent, nImgs, stage2task_queue,
                   stage3task_queue, pc2, pc3, pair2, pair3, outputVars,
                   process>>

\* What stage1 hands on: the loaded image, or the EOS with an empty image.
Loaded(name) ==
    IF name = EOS THEN EosPair ELSE [first |-> name, second |-> "raw"]

Stage1Push(i) ==
    /\ pc1[i] = "push"
    /\ stage2task_queue' =
         [stage2task_queue EXCEPT ![i] = PushFront(@, Loaded(file_name[i]))]
    /\ pc1' = Goto(pc1, i, "notify")
    /\ UNCHANGED <<emitterVars, stage3task_queue, pc2, pc3, file_name, pair2,
                   pair3, outputVars, process>>

\* Nothing catches what the CImg constructor throws: std::terminate().
Stage1LoadFails(i) ==
    /\ pc1[i] = "push"
    /\ file_name[i] # EOS /\ file_name[i] \in Unreadable
    /\ process' = "terminated"
    /\ UNCHANGED <<emitterVars, stageVars, outputVars>>

\* Mutated form: no return after the EOS is handed on.
Stage1NotifyForever(i) ==
    /\ pc1[i] = "notify"
    /\ \E q \in NotifyOne(stage2task_queue[i]) :
         stage2task_queue' = [stage2task_queue EXCEPT ![i] = q]
    /\ pc1' = Goto(pc1, i, "pop")
    /\ file_name' = [file_name EXCEPT ![i] = EOS]
    /\ UNCHANGED <<emitterVars, stage3task_queue, pc2, pc3, pair2, pair3,
                   outputVars, process>>

Stage1Notify(i) ==
    /\ pc1[i] = "notify"
    /\ \E q \in NotifyOne(stage2task_queue[i]) :
         stage2task_queue' = [stage2task_queue EXCEPT ![i] = q]
    /\ pc1' = Goto(pc1, i, IF file_name[i] = EOS THEN "done" ELSE "pop")
    /\ file_name' = [file_name EXCEPT ![i] = EOS]
    /\ UNCHANGED <<emitterVars, stage3task_queue, pc2, pc3, pair2, pair3,
                   outputVars, process>>

stage1(i) ==
    /\ Spawned(1, i)
    /\ \/ Stage1Wait(i) \/ Stage1Pop(i) \/ Stage1Push(i)
       \/ Stage1LoadFails(i) \/ Stage1Notify(i)
    /\ UNCHANGED <<spawned, joined>>
-----------------------------------------------------------------------------
\* Mutated form: stage2 takes an empty queue for the end of its input.
Stage2QuitIfEmpty(i) ==
    LET q == stage2task_queue[i] IN
    /\ pc2[i] = "pop" /\ ~ Asleep(q, i) /\ ~ Nonempty(q)
    /\ pc2' = Goto(pc2, i, "done")
    /\ UNCHANGED <<emitterVars, stage2task_queue, stage3task_queue, pc1, pc3,
                   file_name, pair2, pair3, outputVars>>

Stage2Wait(i) ==
    LET q == stage2task_queue[i] IN
    /\ pc2[i] = "pop" /\ ~ Asleep(q, i) /\ ~ Nonempty(q)
    /\ stage2task_queue' = [stage2task_queue EXCEPT ![i] = Sleep(@, i)]
    /\ UNCHANGED <<emitterVars, stage3task_queue, pc1, pc2, pc3, file_name,
                   pair2, pair3, outputVars>>

Stage2Pop(i) ==
    LET q == stage2task_queue[i] IN
    /\ pc2[i] = "pop" /\ ~ Asleep(q, i) /\ Nonempty(q)
    /\ pair2' = [pair2 EXCEPT ![i] = Back(q)]
    /\ stage2task_queue' = [stage2task_queue EXCEPT ![i] = PopBack(@)]
    /\ pc2' = Goto(pc2, i, "push")
    /\ UNCHANGED <<emitterVars, stage3task_queue, pc1, pc3, file_name, pair3,
                   outputVars>>

\* pipe_process_image() on the image; in avg mode a second stamp would show.
Stamp(img) == IF img = "raw" THEN "stamped" ELSE "overstamped"

\* What stage2 hands on: the stamped image, or the EOS as it came.
Processed(p) ==
    IF p.first = EOS THEN p ELSE [p EXCEPT !.second = Stamp(@)]

Stage2Push(i) ==
    /\ pc2[i] = "push"
    /\ stage3task_queue' =
         [stage3task_queue EXCEPT ![i] = PushFront(@, Processed(pair2[i]))]
    /\ pc2' = Goto(pc2, i, "notify")
    /\ UNCHANGED <<emitterVars, stage2task_queue, pc1, pc3, file_name, pair2,
                   pair3, outputVars>>

Stage2Notify(i) ==
    /\ pc2[i] = "notify"
    /\ \E q \in NotifyOne(stage3task_queue[i]) :
         stage3task_queue' = [stage3task_queue EXCEPT ![i] = q]
    /\ pc2' = Goto(pc2, i, IF pair2[i].first = EOS THEN "done" ELSE "pop")
    /\ pair2' = [pair2 EXCEPT ![i] = EosPair]
    /\ UNCHANGED <<emitterVars, stage2task_queue, pc1, pc3, file_name, pair3,
                   outputVars>>

stage2(i) ==
    /\ Spawned(2, i)
    /\ Stage2Wait(i) \/ Stage2Pop(i) \/ Stage2Push(i) \/ Stage2Notify(i)
    /\ UNCHANGED <<spawned, joined, process>>
-----------------------------------------------------------------------------
Stage3Wait(i) ==
    LET q == stage3task_queue[i] IN
    /\ pc3[i] = "pop" /\ ~ Asleep(q, i) /\ ~ Nonempty(q)
    /\ stage3task_queue' = [stage3task_queue EXCEPT ![i] = Sleep(@, i)]
    /\ UNCHANGED <<pc3, pair3, outputVars>>

Stage3Pop(i) ==
    LET q == stage3task_queue[i] IN
    /\ pc3[i] = "pop" /\ ~ Asleep(q, i) /\ Nonempty(q)
    /\ pair3' = [pair3 EXCEPT ![i] = Back(q)]
    /\ stage3task_queue' = [stage3task_queue EXCEPT ![i] = PopBack(@)]
    /\ pc3' = Goto(pc3, i, IF Back(q).first = EOS THEN "done" ELSE "save")
    /\ UNCHANGED outputVars

Stage3Save(i) ==
    /\ pc3[i] = "save"
    /\ disk' = [disk EXCEPT ![pair3[i].first] = pair3[i].second]
    /\ pc3' = Goto(pc3, i, "pop")
    /\ pair3' = [pair3 EXCEPT ![i] = EosPair]
    /\ UNCHANGED <<stage3task_queue, failed>>

\* save_jpeg throws CImgIOException: it is caught and reported.
Stage3SaveFails(i) ==
    /\ pc3[i] = "save" /\ pair3[i].first \in Unsavable
    /\ failed' = failed \cup {pair3[i].first}
    /\ pc3' = Goto(pc3, i, "pop")
    /\ pair3' = [pair3 EXCEPT ![i] = EosPair]
    /\ UNCHANGED <<stage3task_queue, disk>>

stage3(i) ==
    /\ Spawned(3, i)
    /\ Stage3Wait(i) \/ Stage3Pop(i) \/ Stage3Save(i) \/ Stage3SaveFails(i)
    /\ UNCHANGED <<emitterVars, stage2task_queue, pc1, pc2, file_name, pair2,
                   spawned, joined, process>>
-----------------------------------------------------------------------------
\* wait() may wake a thread with no notification.
SpuriousWake(i) ==
    /\ \/ /\ TaskWake(i)
          /\ UNCHANGED <<stage2task_queue, stage3task_queue>>
       \/ /\ Asleep(stage2task_queue[i], i)
          /\ stage2task_queue' = [stage2task_queue EXCEPT ![i] = WakeUp(@, i)]
          /\ UNCHANGED <<task_queue, stage3task_queue>>
       \/ /\ Asleep(stage3task_queue[i], i)
          /\ stage3task_queue' = [stage3task_queue EXCEPT ![i] = WakeUp(@, i)]
          /\ UNCHANGED <<task_queue, stage2task_queue>>
    /\ UNCHANGED <<dir, unread, source, eosSent, nImgs, pc1, pc2, pc3,
                   file_name, pair2, pair3, outputVars, spawned, joined,
                   process>>

Step ==
    \/ Main
    \/ RunSource
    \/ \E i \in Worker : stage1(i) \/ stage2(i) \/ stage3(i) \/ SpuriousWake(i)

\* No thread outlives the process.
Exit == process # "running" /\ UNCHANGED vars

Next == (process = "running" /\ Step) \/ Exit

Spec == Init /\ [][Next]_vars

\* The scheduler runs every thread that can run.
Fairness ==
    /\ WF_vars(process = "running" /\ Main)
    /\ WF_vars(process = "running" /\ RunSource)
    /\ \A i \in Worker : /\ WF_vars(process = "running" /\ stage1(i))
                         /\ WF_vars(process = "running" /\ stage2(i))
                         /\ WF_vars(process = "running" /\ stage3(i))

FairSpec == Spec /\ Fairness
-----------------------------------------------------------------------------
Firsts(pairs) == [k \in DOMAIN pairs |-> pairs[k].first]

\* The names inside pipeline i, the one nearest to the disk first.
Line(i) ==
    If(pc3[i] = "save", pair3[i].first) \o Firsts(stage3task_queue[i].d_queue)
    \o If(pc2[i] = "push", pair2[i].first) \o Firsts(stage2task_queue[i].d_queue)
    \o If(pc1[i] = "push", file_name[i])

\* The pipelines, by the names in them.
Lines == [i \in Worker |-> Line(i)]

\* How many times image f is found, over every place it can be in.
Copies(f) ==
    Cardinality(unread \cap {f})
    + Cardinality(Positions(task_queue.d_queue, f))
    + Cardinality(Spots(Lines, f))
    + (IF disk[f] # "absent" THEN 1 ELSE 0)
    + Cardinality(failed \cap {f})

(* No image is lost or handled twice: at every moment it is in exactly one *)
(* of the source folder, task_queue, one stage of one pipeline, the result *)
(* folder, or the images reported as not saved.                            *)
Conservation == \A f \in File : Copies(f) = 1

AwakeWorkers == {i \in Worker : pc1[i] = "pop" /\ ~ Asleep(task_queue, i)}

(* No wake-up is lost on any queue, though push() notifies after unlocking *)
(* and one task_queue serves all stage1: names waiting beside a sleeper    *)
(* are matched by a notify_one() to come or by a stage1 already awake.     *)
NoLostWakeup ==
    /\ task_queue.d_condition # {} =>
         Len(task_queue.d_queue) <=
             Cardinality(AwakeWorkers)
             + (IF source \in {"notify", "eosNotify"} THEN 1 ELSE 0)
    /\ \A i \in Worker :
         /\ Asleep(stage2task_queue[i], i) /\ Nonempty(stage2task_queue[i])
              => pc1[i] = "notify"
         /\ Asleep(stage3task_queue[i], i) /\ Nonempty(stage3task_queue[i])
              => pc2[i] = "notify"

Stopped == {i \in Worker : pc1[i] # "pop" /\ file_name[i] = EOS}

(* Each EOS that Source sends stops one stage1 and no more than one, and   *)
(* no file is behind an EOS in task_queue, where it could be left unread.  *)
EosAccounting ==
    /\ EosLast
    /\ Cardinality(EosQueued) + Cardinality(Stopped) = eosSent

(* A stage returns only when nothing can reach it any more: the stage      *)
(* before it is past its last push, and the queue between them is empty.   *)
DrainBeforeReturn ==
    \A i \in Worker :
        /\ pc1[i] = "done" => unread = {} \/ dir = "missing"
        /\ pc2[i] = "done" => /\ i \in Stopped /\ pc1[i] # "push"
                              /\ ~ Nonempty(stage2task_queue[i])
        /\ pc3[i] = "done" => /\ pc2[i] \in {"notify", "done"}
                              /\ Line(i) = <<>>

(* A pipeline keeps the order of its tasks: every step leaves the names in *)
(* pipeline i as they are, adds one behind them or takes the first away.   *)
PipelineInOrder ==
    [][\A i \in Worker :
          LET before == Line(i)
              after  == Line(i)'
          IN  \/ after = before
              \/ \E n \in Name : after = Append(before, n)
              \/ before # <<>> /\ after = Tail(before)]_vars

\* What has become of each image.
Outcome ==
    [f \in File |-> IF disk[f] = "stamped" THEN "written"
                    ELSE IF disk[f] # "absent" THEN "spoiled"
                    ELSE IF f \in failed THEN "skipped" ELSE "pending"]

(* cpp_watermark keeps the promise of WatermarkJob: images come out        *)
(* stamped once or reported, and main() returns with none left over.       *)
Job == INSTANCE WatermarkJob WITH
    outcome <- Outcome,
    printed <- IF process = "finished" THEN nImgs ELSE 0

ImplementsJob == Job!Spec

(* main() returns, or the process dies of an image it cannot load: no      *)
(* thread waits for ever on a queue, and every join is answered.           *)
Terminates == <>(process # "running")

(* The emitter manages termination (pipeline.cpp:36-40): a stage1 leaves   *)
(* its loop only for an EOS that Source sent, after the last file.         *)
EmitterEndsPipelines == \A i \in Worker : pc1[i] = "done" => eosSent > 0
=============================================================================
