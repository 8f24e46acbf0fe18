---------------------------- MODULE FFWatermark -----------------------------
(***************************************************************************)
(* ff_watermark: the FastFlow version, a farm whose ParDeg workers are     *)
(* pipelines of three nodes.  The load balancer runs source and deals its  *)
(* files to the pipelines in turn; each node is a thread that pops a       *)
(* pointer, calls svc() and pushes the result to the next node.  No thread *)
(* sleeps: a pop() of an empty queue and a push() on a full one are tried  *)
(* again until they succeed.  The queues are atomic here, and no thread    *)
(* passes the start before all have been spawned: USWSR and SpinBarrier    *)
(* model how the runtime brings that about.                                *)
(***************************************************************************)
EXTENDS Occurrences

CONSTANTS File,         \* names in the source folder, "." and ".." left out
          EOS,          \* the pointer value that ends a stream, never a name
          ParDeg,       \* nworkers of main()
          QueueSize,    \* entries of a queue inside a pipeline
          Unreadable,   \* files whose load may throw CImgIOException
          Unsavable     \* files whose save_jpeg may throw CImgIOException

ASSUME FFAssumption ==
    /\ IsFiniteSet(File) /\ EOS \notin File
    /\ ParDeg \in Nat \ {0} /\ QueueSize \in Nat \ {0}
    /\ Unreadable \subseteq File /\ Unsavable \subseteq File

Worker == 0..(ParDeg - 1)
Stage == 1..3
Task == File \cup {EOS}

VARIABLES dir, unread, nImgs,   \* opendir(), the entries still to be read
          emitter, file_name,   \* where source is, the file it read last
          nextw, eosSent,       \* the worker served last, EOS broadcast so far
          queue,                \* the input queue of each stage of each worker
          pc, task,             \* where each node is, the pointer it holds
          image,                \* the CImg object of each file, on the heap
          disk, failed,         \* path_out, and the saves reported as errors
          spawned, joined, process

emitterVars == <<dir, unread, nImgs, emitter, file_name, nextw, eosSent>>
nodeVars == <<pc, task, image>>
outputVars == <<disk, failed>>
mainVars == <<spawned, joined, process>>
vars == <<emitterVars, queue, nodeVars, outputVars, mainVars>>

\* An image by the number of watermarks on it, and its life on the heap.
Object == {"unborn", "raw", "stamped", "overstamped", "deleted"}

ThreadCount == 3 * ParDeg + 1

TypeOK ==
    /\ dir \in {"unopened", "opened", "missing"}
    /\ unread \subseteq File /\ nImgs \in 0..Cardinality(File)
    /\ emitter \in {"open", "read", "send", "count", "eos", "done"}
    /\ file_name \in Task
    /\ nextw \in -1..(ParDeg - 1) /\ eosSent \in 0..ParDeg
    /\ queue \in [Stage -> [Worker -> Seq(Task)]]
    /\ \A s \in 2..3, i \in Worker : Len(queue[s][i]) <= QueueSize
    /\ pc \in [Stage -> [Worker -> {"pop", "svc", "push", "done"}]]
    /\ task \in [Stage -> [Worker -> Task]]
    /\ image \in [File -> Object]
    /\ disk \in [File -> Object \cup {"absent"}]
    /\ failed \subseteq File
    /\ spawned \in 0..ThreadCount /\ joined \in 0..ThreadCount
    /\ process \in {"running", "finished", "terminated"}

Init ==
    /\ dir = "unopened" /\ unread = File /\ nImgs = 0
    /\ emitter = "open" /\ file_name = EOS
    /\ nextw = -1 /\ eosSent = 0
    /\ queue = [s \in Stage |-> [i \in Worker |-> <<>>]]
    /\ pc = [s \in Stage |-> [i \in Worker |-> "pop"]]
    /\ task = [s \in Stage |-> [i \in Worker |-> EOS]]
    /\ image = [f \in File |-> "unborn"]
    /\ disk = [f \in File |-> "absent"]
    /\ failed = {}
    /\ spawned = 0 /\ joined = 0 /\ process = "running"
-----------------------------------------------------------------------------
\* main(): run_and_wait_end() spawns the load balancer, then the nodes of each
\* pipeline; it joins the pipelines first, node by node, the balancer last.
Exited(k) ==
    IF k = 3 * ParDeg THEN emitter = "done"
    ELSE pc[(k % 3) + 1][k \div 3] = "done"

MainSpawn ==
    /\ spawned < ThreadCount
    /\ spawned' = spawned + 1
    /\ UNCHANGED <<emitterVars, queue, nodeVars, outputVars, joined, process>>

MainJoin ==
    /\ spawned = ThreadCount /\ joined < ThreadCount
    /\ Exited(joined)
    /\ joined' = joined + 1
    /\ UNCHANGED <<emitterVars, queue, nodeVars, outputVars, spawned, process>>

\* Mutated form: main() waits for the load balancer only.
MainReturnWaitLb ==
    /\ spawned = ThreadCount /\ emitter = "done"
    /\ process' = "finished"
    /\ UNCHANGED <<emitterVars, queue, nodeVars, outputVars, spawned, joined>>

\* main() prints nImgs and returns.
MainReturn ==
    /\ spawned = ThreadCount /\ joined = ThreadCount
    /\ process' = "finished"
    /\ UNCHANGED <<emitterVars, queue, nodeVars, outputVars, spawned, joined>>

Main == MainSpawn \/ MainJoin \/ MainReturn

\* The barrier at the head of every thread: all of them have been spawned.
Started == spawned = ThreadCount
-----------------------------------------------------------------------------
Enqueue(s, i, t) == queue' = [queue EXCEPT ![s][i] = Append(@, t)]

SourceOpen ==
    /\ emitter = "open"
    /\ \/ dir' = "opened" /\ emitter' = "read"
       \/ dir' = "missing" /\ emitter' = "eos"
    /\ UNCHANGED <<unread, nImgs, file_name, nextw, eosSent, queue>>

SourceRead ==
    /\ emitter = "read"
    /\ \E f \in unread : file_name' = f /\ unread' = unread \ {f}
    /\ emitter' = "send"
    /\ UNCHANGED <<dir, nImgs, nextw, eosSent, queue>>

\* ff_send_out(): schedule_task() puts the file to the next worker; that queue
\* has no limit, so the first try succeeds.
SourceSend ==
    /\ emitter = "send"
    /\ nextw' = (nextw + 1) % ParDeg
    /\ Enqueue(1, nextw', file_name)
    /\ emitter' = "count"
    /\ UNCHANGED <<dir, unread, nImgs, file_name, eosSent>>

SourceCount ==
    /\ emitter = "count"
    /\ nImgs' = nImgs + 1
    /\ emitter' = "read"
    /\ UNCHANGED <<dir, unread, file_name, nextw, eosSent, queue>>

\* closedir(), and svc() returns EOS to the load balancer.
SourceEndOfDir ==
    /\ emitter = "read" /\ unread = {}
    /\ emitter' = "eos"
    /\ UNCHANGED <<dir, unread, nImgs, file_name, nextw, eosSent, queue>>

\* Mutated form: the EOS is dealt like a task, to the next worker only.
PushEosScheduled ==
    /\ emitter = "eos"
    /\ nextw' = (nextw + 1) % ParDeg
    /\ Enqueue(1, nextw', EOS)
    /\ emitter' = "done"
    /\ UNCHANGED <<dir, unread, nImgs, file_name, eosSent>>

\* Mutated form: eosSent is counted before the range is tested.
PushEosOneMore ==
    /\ emitter = "eos"
    /\ queue' = [queue EXCEPT ![1][eosSent % ParDeg] = Append(@, EOS)]
    /\ eosSent' = eosSent + 1
    /\ emitter' = IF eosSent > ParDeg THEN "done" ELSE "eos"
    /\ UNCHANGED <<dir, unread, nImgs, file_name, nextw>>

\* push_eos(): broadcast_task() puts EOS to worker after worker.
PushEos ==
    /\ emitter = "eos"
    /\ Enqueue(1, eosSent, EOS)
    /\ eosSent' = eosSent + 1
    /\ emitter' = IF eosSent' = ParDeg THEN "done" ELSE "eos"
    /\ UNCHANGED <<dir, unread, nImgs, file_name, nextw>>

LoadBalancer ==
    /\ Started
    /\ \/ SourceOpen \/ SourceRead \/ SourceSend \/ SourceCount
       \/ SourceEndOfDir \/ PushEos
    /\ UNCHANGED <<nodeVars, outputVars, mainVars>>
-----------------------------------------------------------------------------
Goto(s, i, label) == pc' = [pc EXCEPT ![s][i] = label]

\* Mutated form: a node that pops EOS leaves at once and tells nobody.
NodePopEosKept(s, i) ==
    LET t == Head(queue[s][i]) IN
    /\ pc[s][i] = "pop" /\ queue[s][i] # <<>>
    /\ task' = [task EXCEPT ![s][i] = t]
    /\ queue' = [queue EXCEPT ![s][i] = Tail(@)]
    /\ Goto(s, i, IF t # EOS THEN "svc" ELSE "done")
    /\ UNCHANGED <<image, outputVars, process>>

\* thWorker::svc(): an EOS is handed on, and the last stage has nobody to tell.
NodePop(s, i) ==
    LET t == Head(queue[s][i]) IN
    /\ pc[s][i] = "pop" /\ queue[s][i] # <<>>
    /\ task' = [task EXCEPT ![s][i] = t]
    /\ queue' = [queue EXCEPT ![s][i] = Tail(@)]
    /\ Goto(s, i, IF t # EOS THEN "svc" ELSE IF s < 3 THEN "push" ELSE "done")
    /\ UNCHANGED <<image, outputVars, process>>

\* stage1: new img_t(path), a new pair, and the name is deleted.
Load(i) ==
    /\ pc[1][i] = "svc"
    /\ image' = [image EXCEPT ![task[1][i]] = "raw"]
    /\ Goto(1, i, "push")
    /\ UNCHANGED <<queue, task, outputVars, process>>

\* Nothing catches what the constructor throws: std::terminate().
LoadFails(i) ==
    /\ pc[1][i] = "svc" /\ task[1][i] \in Unreadable
    /\ process' = "terminated"
    /\ UNCHANGED <<queue, nodeVars, outputVars>>

\* stage2: pipe_process_image() on the image the pair points to.
Stamp(i) ==
    /\ pc[2][i] = "svc"
    /\ image' = [image EXCEPT ![task[2][i]] =
                    IF @ = "raw" THEN "stamped" ELSE "overstamped"]
    /\ Goto(2, i, "push")
    /\ UNCHANGED <<queue, task, outputVars, process>>

\* stage3: save, delete the image and the pair, return GO_ON.
Save(i) ==
    /\ pc[3][i] = "svc"
    /\ disk' = [disk EXCEPT ![task[3][i]] = image[task[3][i]]]
    /\ image' = [image EXCEPT ![task[3][i]] = "deleted"]
    /\ Goto(3, i, "pop")
    /\ UNCHANGED <<queue, task, failed, process>>

\* Mutated form: the handler goes to the next task (pipelineNEW.cpp).
SaveFailsContinue(i) ==
    /\ pc[3][i] = "svc" /\ task[3][i] \in Unsavable
    /\ failed' = failed \cup {task[3][i]}
    /\ Goto(3, i, "pop")
    /\ UNCHANGED <<queue, task, image, disk, process>>

\* The save throws: it is reported, and the image is deleted all the same.
SaveFails(i) ==
    /\ pc[3][i] = "svc" /\ task[3][i] \in Unsavable
    /\ failed' = failed \cup {task[3][i]}
    /\ image' = [image EXCEPT ![task[3][i]] = "deleted"]
    /\ Goto(3, i, "pop")
    /\ UNCHANGED <<queue, task, disk, process>>

\* Mutated form: push() is tried once, and its result is not looked at.
NodePushOnce(s, i) ==
    /\ pc[s][i] = "push" /\ s < 3
    /\ IF Len(queue[s + 1][i]) < QueueSize
       THEN Enqueue(s + 1, i, task[s][i]) ELSE UNCHANGED queue
    /\ Goto(s, i, IF task[s][i] = EOS THEN "done" ELSE "pop")
    /\ UNCHANGED <<task, image, outputVars, process>>

\* push() fails while the queue is full; the loop in Push() tries again.
NodePush(s, i) ==
    /\ pc[s][i] = "push" /\ s < 3
    /\ Len(queue[s + 1][i]) < QueueSize
    /\ Enqueue(s + 1, i, task[s][i])
    /\ Goto(s, i, IF task[s][i] = EOS THEN "done" ELSE "pop")
    /\ UNCHANGED <<task, image, outputVars, process>>

Svc(s, i) ==
    \/ s = 1 /\ (Load(i) \/ LoadFails(i))
    \/ s = 2 /\ Stamp(i)
    \/ s = 3 /\ (Save(i) \/ SaveFails(i))

Node(s, i) ==
    /\ Started
    /\ NodePop(s, i) \/ Svc(s, i) \/ NodePush(s, i)
    /\ UNCHANGED <<emitterVars, spawned, joined>>
-----------------------------------------------------------------------------
Step == Main \/ LoadBalancer \/ \E s \in Stage, i \in Worker : Node(s, i)

\* No thread outlives the process.
Exit == process # "running" /\ UNCHANGED vars

Next == (process = "running" /\ Step) \/ Exit

Spec == Init /\ [][Next]_vars

\* Spinning threads are preempted: the scheduler runs every thread.
Fairness ==
    /\ WF_vars(process = "running" /\ Main)
    /\ WF_vars(process = "running" /\ LoadBalancer)
    /\ \A s \in Stage, i \in Worker : WF_vars(process = "running" /\ Node(s, i))

FairSpec == Spec /\ Fairness
-----------------------------------------------------------------------------
Holds(s, i) == pc[s][i] \in {"svc", "push"} /\ task[s][i] # EOS

\* The threads that hold the pointer of f, and the queues from stage s on.
Holders(f) == {p \in Stage \X Worker : Holds(p[1], p[2]) /\ task[p[1]][p[2]] = f}
Queues(s) == [p \in (s..3) \X Worker |-> queue[p[1]][p[2]]]

\* How many threads and queues have the pointer of f.
Pointers(f) == Cardinality(Holders(f)) + Cardinality(Spots(Queues(1), f))

(* No image is lost or handled twice, whatever queue is full: it is in the *)
(* source folder, with source, in one place of one pipeline, in the result *)
(* folder or among the images reported as not saved.                       *)
Conservation ==
    \A f \in File :
        Cardinality(unread \cap {f})
        + (IF emitter = "send" /\ file_name = f THEN 1 ELSE 0)
        + Pointers(f)
        + (IF disk[f] # "absent" THEN 1 ELSE 0)
        + Cardinality(failed \cap {f}) = 1

\* Stage 1 has made the image by the time it pushes the pointer of it.
Users(f) == {p \in Holders(f) : p[1] = 1 => pc[1][p[2]] = "push"}
Reachable(f) == Cardinality(Users(f)) + Cardinality(Spots(Queues(2), f))

(* The pipeline passes pointers: an image is on the heap exactly while one *)
(* thread or queue points to it.  It is not deleted while some stage still *)
(* uses it, and is deleted even when it could not be saved.                *)
ImageOwned ==
    \A f \in File : (image[f] \in {"raw", "stamped", "overstamped"}) <=> (Reachable(f) = 1)

(* A node leaves its loop only when nothing can reach it any more, and so  *)
(* the join of a pipeline leaves no task behind: the node before it has    *)
(* left too, and the queue between them is empty.                          *)
DrainBeforeReturn ==
    \A s \in Stage, i \in Worker :
        pc[s][i] = "done" =>
            /\ queue[s][i] = <<>>
            /\ IF s = 1 THEN eosSent > i ELSE pc[s - 1][i] = "done"

\* What has become of each image.
Outcome ==
    [f \in File |-> IF disk[f] = "stamped" THEN "written"
                    ELSE IF disk[f] # "absent" THEN "spoiled"
                    ELSE IF f \in failed THEN "skipped" ELSE "pending"]

(* ff_watermark keeps the promise of WatermarkJob: images come out stamped *)
(* once or reported, and main() returns with none left over.               *)
Job == INSTANCE WatermarkJob WITH
    outcome <- Outcome,
    printed <- IF process = "finished" THEN nImgs ELSE 0

ImplementsJob == Job!Spec

(* main() returns, or the process dies of an image it cannot load: no node *)
(* spins for ever on an empty or a full queue, and every join is answered. *)
Terminates == <>(process # "running")
=============================================================================
