----------------------------- MODULE ParallelFor ----------------------------
(***************************************************************************)
(* ff_process_image() of lib/ff_farm.cpp and the ParallelFor it runs on:   *)
(* the rows of an image are split in tasks, a table holds the tasks of     *)
(* each worker, and a worker that has none left takes those of another.    *)
(* Either the load balancer's thread hands the tasks out (schedRunning) or *)
(* the workers claim them from the table themselves, with atomics.  Before *)
(* the loop and after it the threads are frozen: asleep, until thaw().     *)
(***************************************************************************)
EXTENDS Integers, Sequences, FiniteSets

CONSTANTS MaxNw,        \* bound on max_nw
          Loops,        \* max_nw, the height of an image, chunk_sz (its absolute
                        \* value; 0 is static), what ff_numCores() returns
          GO_OUT        \* the pointer value that ends a worker's svc()

ASSUME PFAssumption ==
    /\ MaxNw \in Nat \ {0, 1} /\ IsFiniteSet(Loops)
    /\ Loops \subseteq [max_nw : 2..MaxNw, height : Nat \ {0}, chunk : Nat,
                       numCores : Nat \ {0}]
    /\ GO_OUT \notin [start : Nat, stop : Nat]

VARIABLES max_nw, height, chunk, numCores,
          data, maxid,                  \* the table, the worker to steal from
          nw, totaltasks, static, eossent,
          schedRunning,
          in, out,                      \* queues to a worker and back
          pc, task, id,                 \* a thread's place, rows, entry of the table
          freezing, frozen, stp,        \* ff_thread
          main, k,                      \* the caller, and the thread it is at
          handed, stamps                \* F calls for each row, stamps on it

Worker == 0..(max_nw - 1)
LB == max_nw                     \* the load balancer, which runs the scheduler
Thread == Worker \cup {LB}

imageVars == <<handed, stamps>>
tableVars == <<data, maxid>>
loopVars == <<max_nw, height, chunk, numCores, nw, static, schedRunning>>
schedVars == <<totaltasks, eossent>>
freezeVars == <<freezing, frozen, stp>>
vars == <<loopVars, tableVars, schedVars, in, out, pc, task, id, freezeVars,
          main, k, imageVars>>

Row == 0..(height - 1)
Span(a, b) == [start |-> a, stop |-> b]
RowSpan == [start : 0..height, stop : 0..height]
Rows(span) == span.start..(span.stop - 1)
MinOf(a, b) == IF a < b THEN a ELSE b

Busy == {"pop", "apply", "test", "load", "claim", "count", "victim", "look"}
Idle == {"freeze", "frozen", "again", "leave", "exited"}

TypeOK ==
    /\ \E l \in Loops :
        /\ max_nw = l.max_nw /\ height = l.height /\ numCores = l.numCores
        /\ chunk \in {l.chunk, 2 * l.chunk} \cup 1..height
    /\ \A i \in Worker :
        /\ data[i].ntask \in -max_nw..height
        /\ data[i].task \in RowSpan
    /\ maxid \in -1..(max_nw - 1)
    /\ nw \in 0..max_nw /\ totaltasks \in 0..(height + max_nw)
    /\ static \in BOOLEAN /\ schedRunning \in BOOLEAN
    /\ eossent \in [Worker -> BOOLEAN]
    /\ in \in [Worker -> Seq(RowSpan \cup {GO_OUT})]
    /\ out \in [Worker -> Nat]
    /\ pc \in [Thread -> Busy \cup Idle \cup {"svc", "collect"}]
    /\ task \in [Worker -> RowSpan] /\ id \in [Worker -> Worker]
    /\ freezing \in [Thread -> 0..2]
    /\ frozen \in [Thread -> BOOLEAN] /\ stp \in [Thread -> BOOLEAN]
    /\ main \in {"warmup", "setloop", "inline", "start", "thaw", "wait",
                 "stop", "join", "exit", "returned"}
    /\ k \in 0..(max_nw + 1)
    /\ handed \in [Row -> Nat] /\ stamps \in [Row -> Nat]

\* The constructor has spawned the load balancer and the workers, all of them
\* to freeze after their first svc().  Every image makes a ParallelFor anew.
Init ==
    /\ \E l \in Loops :
        /\ max_nw = l.max_nw /\ height = l.height
        /\ chunk = l.chunk /\ numCores = l.numCores
    /\ data = [i \in Worker |-> [ntask |-> 0, task |-> Span(0, 0)]]
    /\ maxid = -1 /\ nw = max_nw /\ totaltasks = 0
    /\ static = FALSE /\ schedRunning = TRUE
    /\ eossent = [i \in Worker |-> FALSE]
    /\ in = [i \in Worker |-> <<>>] /\ out = [i \in Worker |-> 0]
    /\ pc = [t \in Thread |-> IF t = LB THEN "svc" ELSE "pop"]
    /\ task = [i \in Worker |-> Span(0, 0)] /\ id = [i \in Worker |-> i]
    /\ freezing = [t \in Thread |-> 1] /\ frozen = [t \in Thread |-> FALSE]
    /\ stp = [t \in Thread |-> FALSE]
    /\ main = "warmup" /\ k = 0
    /\ handed = [r \in Row |-> 0] /\ stamps = [r \in Row |-> 0]
-----------------------------------------------------------------------------
(* The table.  init_data() deals the tasks to the workers in runs of ntxw, *)
(* one more to each of the first r workers when r > 1; when r = 1 the last *)
(* worker has the odd task.  Before(i) tasks go to the workers before i.   *)
NumTasks == (height + chunk - 1) \div chunk
Ntxw == IF NumTasks < max_nw THEN 1 ELSE NumTasks \div max_nw
Odd == NumTasks % max_nw
Before(i) ==
    IF NumTasks < max_nw THEN MinOf(i, NumTasks)
    ELSE i * Ntxw + (IF Odd > 1 THEN MinOf(i, Odd) ELSE 0)
Leftover == NumTasks - Before(max_nw)

DynamicEntry(i) ==
    LET last == i = max_nw - 1 /\ Leftover = 1
        more == IF last /\ Ntxw > 1 THEN 1 ELSE 0
        start == MinOf(Before(i) * chunk, height)
        stop == IF last THEN height ELSE MinOf(Before(i + 1) * chunk, height)
    IN  IF Before(i) = NumTasks THEN [ntask |-> 0, task |-> Span(0, 0)]
        ELSE [ntask |-> Before(i + 1) - Before(i) + more, task |-> Span(start, stop)]

\* An odd task behind single ones is not a task of its own: chunk is doubled.
Doubled == Leftover = 1 /\ Ntxw = 1
DynamicTotal == IF Doubled THEN NumTasks - 1 ELSE NumTasks

\* init_data_static() with chunk 0: as many blocks as workers.
StaticEntry(i) ==
    LET q == height \div max_nw
        r == height % max_nw
        first(j) == j * q + MinOf(j, r)
    IN  [ntask |-> 1, task |-> Span(first(i), first(i + 1))]
StaticChunk == (height + max_nw - 1) \div max_nw

\* Mutated form: the end of the worker's rows is not looked at.
NextTaskUnbounded(entry) == Span(entry.task.start, entry.task.start + chunk)

\* The next task of a table entry: chunk rows, or those that are left.
NextTask(entry) ==
    Span(entry.task.start, MinOf(entry.task.start + chunk, entry.task.stop))

Taken(entry) ==
    [ntask |-> entry.ntask - 1, task |-> Span(NextTask(entry).stop, entry.task.stop)]

Send(i, t) == in' = [in EXCEPT ![i] = Append(@, t)]

\* sendTask(): the first task of each of the nw workers; a second round only
\* when the scheduler runs, nobody has run out and there are plenty of tasks.
Served(table) == {i \in 0..(nw - 1) : table[i].ntask > 0}
Deal(table) == [i \in Worker |-> IF i \in Served(table) THEN Taken(table[i]) ELSE table[i]]
sendTask(skipmore) ==
    LET once == Deal(data)
        more == ~skipmore /\ Served(data) = 0..(nw - 1) /\ totaltasks >= 4 * nw
        given(i) == IF i \in Served(data) THEN <<NextTask(data[i])>> ELSE <<>>
        again(i) == IF more /\ i \in Served(once) THEN <<NextTask(once[i])>> ELSE <<>>
    IN  /\ data' = IF more THEN Deal(once) ELSE once
        /\ in' = [i \in Worker |-> in[i] \o given(i) \o again(i)]
        /\ eossent' = [i \in Worker |-> eossent[i] /\ i \notin Served(data)]
-----------------------------------------------------------------------------
(* ff_thread: what every thread does when its svc() has returned.  stp is  *)
(* read and written without the lock, all else under it.                   *)
Goto(t, label) == pc' = [pc EXCEPT ![t] = label]

Freeze(t) ==
    /\ pc[t] = "freeze"
    /\ IF ~stp[t] /\ freezing[t] = 1
       THEN /\ frozen' = [frozen EXCEPT ![t] = TRUE]
            /\ Goto(t, "frozen") /\ UNCHANGED freezing
       ELSE /\ freezing' = [freezing EXCEPT ![t] = IF @ = 0 THEN 0 ELSE 1]
            /\ Goto(t, "again") /\ UNCHANGED frozen

\* The wait on cond ends when thaw() has changed freezing.
Wake(t) ==
    /\ pc[t] = "frozen" /\ freezing[t] # 1
    /\ freezing' = [freezing EXCEPT ![t] = IF @ = 0 THEN 0 ELSE 1]
    /\ Goto(t, "again") /\ UNCHANGED frozen

\* while (!stp): svc() once more, or the end of the thread.
Again(t) ==
    /\ pc[t] = "again"
    /\ Goto(t, IF stp[t] THEN "leave" ELSE IF t = LB THEN "svc" ELSE "pop")
    /\ UNCHANGED <<freezing, frozen>>

Leave(t) ==
    /\ pc[t] = "leave"
    /\ frozen' = [frozen EXCEPT ![t] = @ \/ freezing[t] # 0]
    /\ Goto(t, "exited") /\ UNCHANGED freezing

ThreadRoutine(t) ==
    /\ Freeze(t) \/ Wake(t) \/ Again(t) \/ Leave(t)
    /\ UNCHANGED <<loopVars, tableVars, schedVars, in, out, task, id, stp,
                   main, k, imageVars>>
-----------------------------------------------------------------------------
(* The load balancer.  Tasks that come back are collected from any worker; *)
(* the code looks for one in turn.                                         *)

\* svc(NULL): with no loop set this is the warm-up, which sends GO_OUT to all.
FirstSvc ==
    /\ pc[LB] = "svc"
    /\ IF totaltasks = 0
       THEN /\ in' = [i \in Worker |-> Append(in[i], GO_OUT)]
            /\ Goto(LB, "freeze") /\ UNCHANGED <<data, eossent>>
       ELSE sendTask(FALSE) /\ Goto(LB, "collect")
    /\ UNCHANGED <<totaltasks, maxid, out>>

\* std::max_element: the first of the largest.
MaxElement ==
    CHOOSE i \in Worker :
        /\ \A j \in Worker : data[j].ntask <= data[i].ntask
        /\ \A j \in Worker : j < i => data[j].ntask < data[i].ntask

\* nextTask(): the worker's own tasks, then those of maxid, while it has any.
Victim(i) ==
    IF data[i].ntask # 0 THEN i
    ELSE IF maxid >= 0 /\ data[maxid].ntask > 0 THEN maxid ELSE MaxElement

SendGoOut(i) ==
    /\ IF eossent[i] THEN UNCHANGED in ELSE Send(i, GO_OUT)
    /\ eossent' = [eossent EXCEPT ![i] = TRUE]
    /\ UNCHANGED data

\* Mutated form: the loop is over when one task is still out.
ScheduleOneShort(i) ==
    /\ pc[LB] = "collect" /\ out[i] > 0
    /\ out' = [out EXCEPT ![i] = @ - 1]
    /\ totaltasks' = totaltasks - 1
    /\ Goto(LB, IF totaltasks' <= 1 THEN "freeze" ELSE "collect")
    /\ LET v == Victim(i) IN
       IF totaltasks' > 1 /\ data[v].ntask > 0
       THEN /\ data' = [data EXCEPT ![v] = Taken(@)]
            /\ Send(i, NextTask(data[v])) /\ UNCHANGED eossent
       ELSE SendGoOut(i)
    /\ maxid' = IF totaltasks' > 1 /\ data[i].ntask = 0 THEN Victim(i) ELSE maxid

\* Mutated form: the last task to come back ends the loop, and no more.
ScheduleLastSilent(i) ==
    /\ pc[LB] = "collect" /\ out[i] > 0
    /\ out' = [out EXCEPT ![i] = @ - 1]
    /\ totaltasks' = totaltasks - 1
    /\ Goto(LB, IF totaltasks' = 0 THEN "freeze" ELSE "collect")
    /\ LET v == Victim(i) IN
       IF totaltasks' = 0 THEN UNCHANGED <<data, in, eossent>>
       ELSE IF data[v].ntask > 0
       THEN /\ data' = [data EXCEPT ![v] = Taken(@)]
            /\ Send(i, NextTask(data[v])) /\ UNCHANGED eossent
       ELSE SendGoOut(i)
    /\ maxid' = IF totaltasks' > 0 /\ data[i].ntask = 0 THEN Victim(i) ELSE maxid

\* svc(t): worker i has done a task; it is sent another one, or GO_OUT once.
Schedule(i) ==
    /\ pc[LB] = "collect" /\ out[i] > 0
    /\ out' = [out EXCEPT ![i] = @ - 1]
    /\ totaltasks' = totaltasks - 1
    /\ Goto(LB, IF totaltasks' = 0 THEN "freeze" ELSE "collect")
    /\ LET v == Victim(i) IN
       IF totaltasks' > 0 /\ data[v].ntask > 0
       THEN /\ data' = [data EXCEPT ![v] = Taken(@)]
            /\ Send(i, NextTask(data[v])) /\ UNCHANGED eossent
       ELSE SendGoOut(i)
    /\ maxid' = IF totaltasks' > 0 /\ data[i].ntask = 0 THEN Victim(i) ELSE maxid

Scheduler ==
    /\ FirstSvc \/ \E i \in Worker : Schedule(i)
    /\ UNCHANGED <<loopVars, task, id, freezeVars, main, k, imageVars>>
-----------------------------------------------------------------------------
(* The workers.  Where no scheduler runs they claim tasks from the table:  *)
(* each step below is one atomic operation of nextTaskConcurrent().        *)
Pop(i) ==
    /\ pc[i] = "pop" /\ in[i] # <<>>
    /\ in' = [in EXCEPT ![i] = Tail(@)]
    /\ IF Head(in[i]) = GO_OUT
       THEN Goto(i, "freeze") /\ UNCHANGED task
       ELSE Goto(i, "apply") /\ task' = [task EXCEPT ![i] = Head(in[i])]
    /\ UNCHANGED <<data, maxid, out, id, imageVars>>

\* F: the loop over the rows of a span is inside another over the same rows.
Stamp(span) ==
    LET rows == Rows(span) IN
    /\ handed' = [r \in Row |-> handed[r] + (IF r \in rows THEN 1 ELSE 0)]
    /\ stamps' = [r \in Row |-> stamps[r] + (IF r \in rows THEN Cardinality(rows) ELSE 0)]

\* F(task), and the task goes back, or the worker looks for another.
Apply(i) ==
    /\ pc[i] = "apply"
    /\ Stamp(task[i])
    /\ IF schedRunning
       THEN out' = [out EXCEPT ![i] = @ + 1] /\ Goto(i, "pop") /\ UNCHANGED id
       ELSE id' = [id EXCEPT ![i] = i] /\ Goto(i, "test") /\ UNCHANGED out
    /\ UNCHANGED <<data, maxid, in, task>>

\* data[id].ntask.load()
TestTasks(i) ==
    /\ pc[i] = "test"
    /\ Goto(i, IF data[id[i]].ntask > 0 THEN "load" ELSE "victim")
    /\ UNCHANGED <<data, maxid, in, out, task, id, imageVars>>

\* start.load(), and the end of the task that begins there.
LoadStart(i) ==
    /\ pc[i] = "load"
    /\ task' = [task EXCEPT ![i] = NextTask(data[id[i]])]
    /\ Goto(i, "claim")
    /\ UNCHANGED <<data, maxid, in, out, id, imageVars>>

\* Mutated form: start is stored, not compared and exchanged.
ClaimBlindly(i) ==
    /\ pc[i] = "claim"
    /\ data' = [data EXCEPT ![id[i]].task.start = task[i].stop]
    /\ Goto(i, "count")
    /\ UNCHANGED <<maxid, in, out, task, id, imageVars>>

\* compare_exchange_weak() succeeds: nobody else has claimed this start.
Claim(i) ==
    /\ pc[i] = "claim" /\ data[id[i]].task.start = task[i].start
    /\ data' = [data EXCEPT ![id[i]].task.start = task[i].stop]
    /\ Goto(i, "count")
    /\ UNCHANGED <<maxid, in, out, task, id, imageVars>>

\* It fails, for the change of another worker or for no reason: begin again.
ClaimFails(i) ==
    /\ pc[i] = "claim"
    /\ Goto(i, "test")
    /\ UNCHANGED <<data, maxid, in, out, task, id, imageVars>>

\* ntask.fetch_sub(): below 0 when the rows were gone already.
CountTask(i) ==
    /\ pc[i] = "count"
    /\ data' = [data EXCEPT ![id[i]].ntask = @ - 1]
    /\ Goto(i, IF task[i].start < task[i].stop THEN "apply" ELSE "victim")
    /\ UNCHANGED <<maxid, in, out, task, id, imageVars>>

\* maxid, or the largest entry; as the others change the table meanwhile,
\* max_element() may come out with any.  Static scheduling steals nothing.
ChooseVictim(i) ==
    /\ pc[i] = "victim"
    /\ IF static THEN Goto(i, "freeze") /\ UNCHANGED id
       ELSE /\ \E v \in Worker : (maxid < 0 \/ v = maxid) /\ id' = [id EXCEPT ![i] = v]
            /\ Goto(i, "look")
    /\ UNCHANGED <<data, maxid, in, out, task, imageVars>>

\* The victim has tasks, or svc() returns GO_OUT.
LookAtVictim(i) ==
    /\ pc[i] = "look"
    /\ IF data[id[i]].ntask > 0 THEN maxid' = id[i] /\ Goto(i, "test")
       ELSE Goto(i, "freeze") /\ UNCHANGED maxid
    /\ UNCHANGED <<data, in, out, task, id, imageVars>>

nextTaskConcurrent(i) ==
    \/ TestTasks(i) \/ LoadStart(i) \/ Claim(i) \/ ClaimFails(i)
    \/ CountTask(i) \/ ChooseVictim(i) \/ LookAtVictim(i)

WorkerStep(i) ==
    /\ Pop(i) \/ Apply(i) \/ nextTaskConcurrent(i)
    /\ UNCHANGED <<loopVars, schedVars, freezeVars, main, k>>
-----------------------------------------------------------------------------
(* The caller of ff_process_image().                                       *)
threadVars == <<in, out, pc, task, id>>

\* The constructor waits until the workers are frozen, then the balancer.
WaitWarmup ==
    /\ main = "warmup" /\ frozen[k]
    /\ k' = (k + 1) % (max_nw + 1)
    /\ main' = IF k = LB THEN "setloop" ELSE "warmup"
    /\ UNCHANGED <<loopVars, tableVars, schedVars, threadVars, freezeVars, imageVars>>

\* setloop() and setF(): a new table, as many workers as it has tasks for, and
\* the scheduler runs if there are more tasks than workers, and a core for it.
SetLoop ==
    LET total == IF chunk = 0 THEN max_nw ELSE DynamicTotal
        running == IF total <= max_nw THEN total ELSE max_nw
    IN  /\ main = "setloop"
        /\ static' = (chunk = 0)
        /\ data' = [i \in Worker |-> IF chunk = 0 THEN StaticEntry(i) ELSE DynamicEntry(i)]
        /\ chunk' = IF chunk = 0 THEN StaticChunk ELSE IF Doubled THEN 2 * chunk ELSE chunk
        /\ totaltasks' = total /\ nw' = running /\ maxid' = -1
        /\ schedRunning' = (total > running /\ running < numCores)
        /\ main' = IF running = 1 THEN "inline" ELSE "start"
        /\ UNCHANGED <<max_nw, height, numCores, eossent, threadVars, freezeVars, k, imageVars>>

\* One worker would be left: the caller does the loop itself.
RunInline ==
    /\ main = "inline"
    /\ Stamp(Span(0, height))
    /\ main' = "stop"
    /\ UNCHANGED <<loopVars, tableVars, schedVars, threadVars, freezeVars, k>>

\* run_then_freeze(): without scheduler the caller sends the first tasks.
SendFirst ==
    /\ main = "start"
    /\ IF schedRunning THEN UNCHANGED <<data, in, eossent>> ELSE sendTask(TRUE)
    /\ main' = "thaw"
    /\ UNCHANGED <<loopVars, maxid, totaltasks, out, pc, task, id, freezeVars, k, imageVars>>

\* thaw(true): freezing is 2, so that the thread goes round once and freezes.
\* The scheduler comes first; workers from nw on sleep through the loop.
Thawed == IF ~schedRunning THEN k ELSE IF k = 0 THEN LB ELSE k - 1
LastThawed == IF schedRunning THEN nw ELSE nw - 1

Thaw ==
    /\ main = "thaw"
    /\ freezing' = [freezing EXCEPT ![Thawed] = 2]
    /\ frozen' = [frozen EXCEPT ![Thawed] = FALSE]
    /\ IF k = LastThawed THEN k' = 0 /\ main' = "wait"
       ELSE k' = k + 1 /\ UNCHANGED main
    /\ UNCHANGED <<loopVars, tableVars, schedVars, threadVars, stp, imageVars>>

\* wait_freezing(): only for the scheduler, or for each of the nw workers.
Wait ==
    /\ main = "wait"
    /\ IF schedRunning THEN frozen[LB] /\ main' = "stop" /\ UNCHANGED k
       ELSE /\ frozen[k]
            /\ IF k = nw - 1 THEN k' = 0 /\ main' = "stop"
               ELSE k' = k + 1 /\ UNCHANGED main
    /\ UNCHANGED <<loopVars, tableVars, schedVars, threadVars, freezeVars, imageVars>>

\* parallel_for_idx() has returned; the destructor stops all threads.
Stop ==
    /\ main = "stop"
    /\ stp' = [t \in Thread |-> TRUE]
    /\ main' = "join"
    /\ UNCHANGED <<loopVars, tableVars, schedVars, threadVars, freezing, frozen, k, imageVars>>

\* wait(): a thread that freezes is thawed for good when it has frozen.
JoinThaw ==
    /\ main = "join" /\ (freezing[k] # 0 => frozen[k])
    /\ freezing' = [freezing EXCEPT ![k] = 0]
    /\ frozen' = [frozen EXCEPT ![k] = @ /\ freezing[k] = 0]
    /\ main' = "exit"
    /\ UNCHANGED <<loopVars, tableVars, schedVars, threadVars, stp, k, imageVars>>

JoinExit ==
    /\ main = "exit" /\ pc[k] = "exited"
    /\ k' = k + 1
    /\ main' = IF k = LB THEN "returned" ELSE "join"
    /\ UNCHANGED <<loopVars, tableVars, schedVars, threadVars, freezeVars, imageVars>>

Main == WaitWarmup \/ SetLoop \/ RunInline \/ SendFirst \/ Thaw \/ Wait \/ Stop
        \/ JoinThaw \/ JoinExit

Finished == main = "returned" /\ UNCHANGED vars
-----------------------------------------------------------------------------
Next ==
    \/ Main \/ Scheduler
    \/ \E t \in Thread : ThreadRoutine(t)
    \/ \E i \in Worker : WorkerStep(i)
    \/ Finished

Spec == Init /\ [][Next]_vars

\* Every thread is scheduled, and a weak exchange does not fail for ever.
Fairness ==
    /\ WF_vars(Main) /\ WF_vars(Scheduler)
    /\ \A t \in 0..MaxNw :
        /\ WF_vars(t \in Thread /\ ThreadRoutine(t))
        /\ WF_vars(t \in Worker /\ WorkerStep(t))
        /\ SF_vars(t \in Worker /\ WorkerStep(t) /\ Claim(t))

FairSpec == Spec /\ Fairness
-----------------------------------------------------------------------------
\* The places row r may be in: the table, where workers share it; a queue; with
\* the worker that has claimed it; among the rows F was called for.
InTable(r) == {i \in Worker : nw > 1 /\ r \in Rows(data[i].task)}
InQueue(r) ==
    UNION {{<<i, j>> : j \in {j \in DOMAIN in[i] : in[i][j] # GO_OUT /\ r \in Rows(in[i][j])}} :
           i \in Worker}
Claimed(r) == {i \in Worker : pc[i] \in {"count", "apply"} /\ r \in Rows(task[i])}

(* While the loop runs, every row of the image is in exactly one of those  *)
(* places: the table splits the image without a gap or an overlap, and no  *)
(* row is lost or claimed twice, however workers race for the last tasks.  *)
RowConservation ==
    main \notin {"warmup", "setloop", "inline"} =>
        \A r \in Row :
            Cardinality(InTable(r)) + Cardinality(InQueue(r)) + Cardinality(Claimed(r))
            + handed[r] = 1

(* parallel_for_idx() returns when F has returned for each row, although   *)
(* with a scheduler it waits for no worker, but only for the scheduler.    *)
LoopDone ==
    main \in {"stop", "join", "exit", "returned"} => \A r \in Row : handed[r] = 1

(* ff_process_image() returns: no thread waits for a task, a GO_OUT or a   *)
(* thaw() that never comes, and main for no thread that has not frozen.    *)
Returns == <>(main = "returned")

(* "Function that applies a parallel watermark": like process_image(), it  *)
(* stamps each pixel of the image once.                                    *)
StampedOnce == main = "returned" => \A r \in Row : stamps[r] = 1
=============================================================================
