---------------------------- MODULE MasterWorker ----------------------------
(***************************************************************************)
(* The master-worker version: ParDeg threads run stage123() of             *)
(* lib/pipeline.cpp, each taking names from task_queue and loading,        *)
(* stamping and saving the image itself.  main() is that of                *)
(* test_versions/cpp_mw_wm.cpp: it starts the workers, then Source, and    *)
(* joins them in that order.                                               *)
(*                                                                         *)
(* As committed, that file does not compile.  It uses par_deg, which it    *)
(* does not declare, where it has read the number into nworkers (line 16), *)
(* and starts Source(nImgs, par_deg), a signature older than the           *)
(* Source(par_deg) of lib/pipeline.cpp; it also includes that file by a    *)
(* path that does not lead there.  What is modelled is the program with    *)
(* these three mended: par_deg is nworkers, and Source takes it alone.     *)
(***************************************************************************)
EXTENDS Emitter

CONSTANTS Unreadable,   \* files whose load may throw CImgIOException
          Unsavable     \* files whose save_jpeg may throw CImgIOException

ASSUME MasterWorkerAssumption ==
    Unreadable \subseteq File /\ Unsavable \subseteq File

VARIABLES pc,               \* where the thread of each stage123() is
          file_name,        \* the name it popped, EOS between two turns
          disk, failed,     \* images saved, images reported as not saved
          spawned, joined,  \* threads main() has started, has joined
          process

workerVars == <<pc, file_name, disk, failed>>
vars == <<emitterVars, workerVars, spawned, joined, process>>

TypeOK ==
    /\ EmitterTypeOK
    /\ pc \in [Worker -> {"pop", "work", "done"}]
    /\ file_name \in [Worker -> Name]
    /\ disk \subseteq File /\ failed \subseteq File
    /\ spawned \in 0..(ParDeg + 1)
    /\ joined \in 0..(ParDeg + 1)
    /\ process \in {"running", "finished", "terminated"}

Init ==
    /\ EmitterInit
    /\ pc = [w \in Worker |-> "pop"]
    /\ file_name = [w \in Worker |-> EOS]
    /\ disk = {}
    /\ failed = {}
    /\ spawned = 0
    /\ joined = 0
    /\ process = "running"

\* tids: the workers in order, Source last; mended as said above.
MainSpawn ==
    /\ spawned < ParDeg + 1
    /\ spawned' = spawned + 1
    /\ UNCHANGED <<emitterVars, workerVars, joined, process>>

Exited(k) == IF k = ParDeg THEN source = "done" ELSE pc[k] = "done"

MainJoin ==
    /\ spawned = ParDeg + 1 /\ joined < ParDeg + 1
    /\ Exited(joined)
    /\ joined' = joined + 1
    /\ UNCHANGED <<emitterVars, workerVars, spawned, process>>

MainReturn ==
    /\ joined = ParDeg + 1
    /\ process' = "finished"
    /\ UNCHANGED <<emitterVars, workerVars, spawned, joined>>

Main == MainSpawn \/ MainJoin \/ MainReturn

RunSource ==
    /\ spawned = ParDeg + 1
    /\ Source
    /\ UNCHANGED <<workerVars, spawned, joined, process>>

Wait(w) ==
    /\ pc[w] = "pop" /\ TaskWait(w)
    /\ UNCHANGED <<workerVars, process>>

\* Mutated form: an EOS is skipped instead of ending the worker.
PopSkipEos(w) ==
    /\ pc[w] = "pop" /\ TaskPop(w)
    /\ file_name' = [file_name EXCEPT ![w] = Task]
    /\ pc' = [pc EXCEPT ![w] = IF Task = EOS THEN "pop" ELSE "work"]
    /\ UNCHANGED <<disk, failed, process>>

Pop(w) ==
    /\ pc[w] = "pop" /\ TaskPop(w)
    /\ file_name' = [file_name EXCEPT ![w] = Task]
    /\ pc' = [pc EXCEPT ![w] = IF Task = EOS THEN "done" ELSE "work"]
    /\ UNCHANGED <<disk, failed, process>>

\* The end of a turn: file_name goes out of scope.
NextTurn(w) ==
    /\ pc[w] = "work"
    /\ pc' = [pc EXCEPT ![w] = "pop"]
    /\ file_name' = [file_name EXCEPT ![w] = EOS]
    /\ UNCHANGED <<task_queue, process>>

Save(w) ==
    /\ disk' = disk \cup {file_name[w]}
    /\ NextTurn(w)
    /\ UNCHANGED failed

SaveFails(w) ==
    /\ file_name[w] \in Unsavable
    /\ failed' = failed \cup {file_name[w]}
    /\ NextTurn(w)
    /\ UNCHANGED disk

\* Mutated form: a failed load is caught and the image dropped unreported.
LoadFailsSilently(w) ==
    /\ file_name[w] \in Unreadable
    /\ NextTurn(w)
    /\ UNCHANGED <<disk, failed>>

\* The load is outside the try block: std::terminate().
LoadFails(w) ==
    /\ pc[w] = "work" /\ file_name[w] \in Unreadable
    /\ process' = "terminated"
    /\ UNCHANGED <<task_queue, workerVars>>

stage123(w) ==
    /\ spawned > w
    /\ Wait(w) \/ Pop(w) \/ Save(w) \/ SaveFails(w) \/ LoadFails(w)
    /\ UNCHANGED <<dir, unread, source, eosSent, nImgs, spawned, joined>>

SpuriousWake(w) ==
    /\ TaskWake(w)
    /\ UNCHANGED <<dir, unread, source, eosSent, nImgs, workerVars, spawned,
                   joined, process>>

Step ==
    \/ Main \/ RunSource
    \/ \E w \in Worker : stage123(w) \/ SpuriousWake(w)

Exit == process # "running" /\ UNCHANGED vars

Next == (process = "running" /\ Step) \/ Exit

Spec == Init /\ [][Next]_vars

\* The scheduler runs every thread that can run.
Fairness ==
    /\ WF_vars(process = "running" /\ Main)
    /\ WF_vars(process = "running" /\ RunSource)
    /\ \A w \in Worker : WF_vars(process = "running" /\ stage123(w))

FairSpec == Spec /\ Fairness
-----------------------------------------------------------------------------
Working == {w \in Worker : pc[w] = "work"}

(* No image is lost or given to two workers: at every moment it is in      *)
(* exactly one of the source folder, task_queue, one worker, the result    *)
(* folder, or the images reported as not saved.                            *)
Conservation ==
    \A f \in File :
        Cardinality(unread \cap {f})
        + Cardinality(Positions(task_queue.d_queue, f))
        + Cardinality({w \in Working : file_name[w] = f})
        + Cardinality(disk \cap {f}) + Cardinality(failed \cap {f}) = 1

Awake == {w \in Worker : pc[w] = "pop" /\ ~ Asleep(task_queue, w)}

(* No wake-up is lost: while a worker sleeps, every name in task_queue is  *)
(* matched by a notify_one() of Source to come or by a worker awake.       *)
NoLostWakeup ==
    task_queue.d_condition # {} =>
        Len(task_queue.d_queue) <=
            Cardinality(Awake)
            + (IF source \in {"notify", "eosNotify"} THEN 1 ELSE 0)

(* A worker stops for one EOS only, and no file is left behind an EOS: the *)
(* EOS names sent are those still queued and those that stopped a worker.  *)
EosAccounting ==
    /\ EosLast
    /\ Cardinality(EosQueued)
         + Cardinality({w \in Worker : pc[w] = "done"}) = eosSent

\* What became of each image.
Outcome ==
    [f \in File |-> IF f \in disk THEN "written"
                    ELSE IF f \in failed THEN "skipped" ELSE "pending"]

(* The master-worker version keeps the promise of WatermarkJob.            *)
Job == INSTANCE WatermarkJob WITH
    outcome <- Outcome,
    printed <- IF process = "finished" THEN nImgs ELSE 0

ImplementsJob == Job!Spec

(* main() returns or the process dies of a load: nobody waits for ever.    *)
Terminates == <>(process # "running")
=============================================================================
