------------------------------ MODULE Emitter -------------------------------
(***************************************************************************)
(* Source(par_deg) of lib/pipeline.cpp: the farm emitter that fills        *)
(* task_queue from the source folder and then sends the EOS names that     *)
(* stop the workers.  A task is a file name and EOS is a name too, so a    *)
(* file called "EOS" would be one more EOS: File may contain EOS.          *)
(***************************************************************************)
EXTENDS QueueState

CONSTANTS File,     \* the names in the source folder, without . and ..
          EOS,      \* the name "EOS"
          ParDeg    \* par_deg

ASSUME EmitterAssumption == IsFiniteSet(File) /\ ParDeg \in Nat

Worker == 0..(ParDeg - 1)
Name == File \cup {EOS}

VARIABLES task_queue,
          dir,       \* what opendir() returned
          unread,    \* names readdir() has not returned yet
          source,    \* where the thread of Source is
          eosSent,   \* EOS names pushed by Source
          nImgs

emitterVars == <<task_queue, dir, unread, source, eosSent, nImgs>>

EmitterTypeOK ==
    /\ task_queue \in QueueRecord(Name, Worker)
    /\ dir \in {"unopened", "opened", "missing"}
    /\ unread \subseteq File
    /\ source \in {"open", "read", "notify", "eos", "eosNotify", "done"}
    /\ eosSent \in 0..(ParDeg + 1)
    /\ nImgs \in 0..Cardinality(File)

EmitterInit ==
    /\ task_queue = NewQueue
    /\ dir = "unopened"
    /\ unread = File
    /\ source = "open"
    /\ eosSent = 0
    /\ nImgs = 0

\* Mutated form: a missing folder ends Source at once, with no EOS sent, as
\* populate_task() of lib/util.cpp does.
SourceOpenNoEos ==
    /\ source = "open"
    /\ \/ dir' = "missing" /\ source' = "done"
       \/ dir' = "opened" /\ source' = "read"
    /\ UNCHANGED <<task_queue, unread, eosSent, nImgs>>

\* opendir() fails or succeeds.
SourceOpen ==
    /\ source = "open"
    /\ \/ dir' = "missing" /\ source' = "eos"
       \/ dir' = "opened" /\ source' = "read"
    /\ UNCHANGED <<task_queue, unread, eosSent, nImgs>>

\* readdir() returns the names in no particular order; each is pushed.
SourcePush ==
    /\ source = "read"
    /\ \E f \in unread :
        /\ unread' = unread \ {f}
        /\ task_queue' = PushFront(task_queue, f)
    /\ source' = "notify"
    /\ UNCHANGED <<dir, eosSent, nImgs>>

\* Mutated form: push() notifies only when task_queue was empty before it.
SourceNotifyIfFirst ==
    /\ source = "notify"
    /\ IF Len(task_queue.d_queue) <= 1
       THEN task_queue' \in NotifyOne(task_queue) ELSE UNCHANGED task_queue
    /\ nImgs' = nImgs + 1
    /\ source' = "read"
    /\ UNCHANGED <<dir, unread, eosSent>>

SourceNotify ==
    /\ source = "notify"
    /\ task_queue' \in NotifyOne(task_queue)
    /\ nImgs' = nImgs + 1
    /\ source' = "read"
    /\ UNCHANGED <<dir, unread, eosSent>>

\* readdir() returns NULL.
SourceEndOfDir ==
    /\ source = "read" /\ unread = {}
    /\ source' = "eos"
    /\ UNCHANGED <<task_queue, dir, unread, eosSent, nImgs>>

\* Mutated form: for(j = 1; j < par_deg; j++), one EOS too few.
EosCountShort == IF dir = "missing" THEN ParDeg ELSE ParDeg - 1

\* One EOS per worker when the folder is missing, one more when it was read.
EosCount == IF dir = "missing" THEN ParDeg ELSE ParDeg + 1

SourcePushEos ==
    /\ source = "eos" /\ eosSent < EosCount
    /\ task_queue' = PushFront(task_queue, EOS)
    /\ eosSent' = eosSent + 1
    /\ source' = "eosNotify"
    /\ UNCHANGED <<dir, unread, nImgs>>

\* Mutated form: nImgs++ in the loop that sends the EOS names too.
SourceNotifyEosCounted ==
    /\ source = "eosNotify"
    /\ task_queue' \in NotifyOne(task_queue)
    /\ nImgs' = nImgs + 1
    /\ source' = "eos"
    /\ UNCHANGED <<dir, unread, eosSent>>

SourceNotifyEos ==
    /\ source = "eosNotify"
    /\ task_queue' \in NotifyOne(task_queue)
    /\ source' = "eos"
    /\ UNCHANGED <<dir, unread, eosSent, nImgs>>

SourceReturn ==
    /\ source = "eos" /\ eosSent = EosCount
    /\ source' = "done"
    /\ UNCHANGED <<task_queue, dir, unread, eosSent, nImgs>>

Source ==
    \/ SourceOpen \/ SourcePush \/ SourceNotify \/ SourceEndOfDir
    \/ SourcePushEos \/ SourceNotifyEos \/ SourceReturn

\* A worker's task_queue.pop(): it sleeps, or removes the oldest name.
TaskWait(w) ==
    /\ ~ Asleep(task_queue, w) /\ ~ Nonempty(task_queue)
    /\ task_queue' = Sleep(task_queue, w)

\* Mutated form: back() with no pop_back().
TaskPeek(w) ==
    /\ ~ Asleep(task_queue, w) /\ Nonempty(task_queue)
    /\ UNCHANGED task_queue

TaskPop(w) ==
    /\ ~ Asleep(task_queue, w) /\ Nonempty(task_queue)
    /\ task_queue' = PopBack(task_queue)

Task == Back(task_queue)

TaskWake(w) ==
    /\ Asleep(task_queue, w)
    /\ task_queue' = WakeUp(task_queue, w)

-----------------------------------------------------------------------------
\* The EOS names in task_queue.
EosQueued == Positions(task_queue.d_queue, EOS)

\* Names are read in the order Source pushed them, so no file follows an EOS.
EosLast ==
    \A j, k \in DOMAIN task_queue.d_queue :
        j < k /\ task_queue.d_queue[j] = EOS => task_queue.d_queue[k] = EOS
=============================================================================
