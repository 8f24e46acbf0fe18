# A TLA+ model of the parallel watermark program

The program stamps every image of a source folder with a watermark and writes the results to
another folder. It exists in three shipped versions, `seq_watermark` (a loop), `cpp_watermark`
(C++ threads and a blocking queue) and `ff_watermark` (the FastFlow library), and in several test
versions. This directory holds specifications of it, the configurations that model-check them with
TLC, and proofs checked by TLAPS. Module and action names follow the source; `PROJECT.json` maps
each definition to the lines it stands for.

## Inventory of the system

| Part | Source | State | Operations | Interacts with |
|---|---|---|---|---|
| `queue<T>` | `lib/util.cpp:41-109` | `d_mutex`, `d_condition`, `d_queue` | `push`, `pop`; copy and move | every thread of the C++ versions |
| emitter | `lib/pipeline.cpp:41-65` `Source` | directory stream, `nImgs` | read the folder, push names, push EOS names | `task_queue` |
| pipelines | `lib/pipeline.cpp:77-150` | one name or pair in hand per stage | `stage1` load, `stage2` stamp, `stage3` save | `task_queue`, `stage2task_queue[i]`, `stage3task_queue[i]` |
| master-worker | `lib/pipeline.cpp:162-180`, `test_versions/cpp_mw_wm.cpp` | one image per worker | `stage123` | `task_queue` |
| `main()` | `cpp_watermark.cpp` | `tids` | start threads, join them, print `nImgs` | all threads |
| sequential version | `lib/util.cpp:128-157,226-269` | averages, `nImgs` | `seq_wm`, `process_image` | CImg |
| kernels | `lib/util.cpp:119-193`, `lib/ff_farm.cpp:154-169` | pixels | whole image, half an image, chunks of rows | CImg, parallel_for |
| parallel_for | `lib/ff/parallel_for_internals.hpp` | table of tasks, frozen threads | split, hand out, claim, steal, freeze, thaw | load balancer, workers, caller |
| FastFlow version | `ff_watermark.cpp`, `lib/ff_farm.cpp` | tasks passed by pointer | `source`, `stage1`..`stage3` `svc` | FastFlow farm and pipeline |
| FastFlow queues | `lib/ff/buffer.hpp`, `dynqueue.hpp`, `ubuffer.hpp` | lock-free rings, pools | `push`, `pop`, `length` | two threads each |
| FastFlow runtime | `lib/ff/node.hpp`, `lb.hpp`, `farm.hpp`, `pipeline.hpp`, `barrier.hpp` | node and worker states | scheduling, end of stream, joins | the nodes |

What is hard here is concurrency and shutdown, not data: one queue shared by all first stages, a
condition variable notified after the mutex is released, termination by EOS names that travel in
the same queues as the file names, joins in a fixed order, images that cannot be loaded (nothing
catches the exception, so the process dies) or saved (caught and reported), and in FastFlow queues
with no locks at all. For each part, what makes it correct:

* `queue<T>`: mutual exclusion, first in first out, each value returned once, no lost wake-up.
* emitter: one EOS for each worker and after the last name, also when the folder is missing.
* pipelines: no image lost, repeated or overtaken; a stage returns only when nothing can reach it.
* the program: each image is written once with one stamp or reported; `main()` returns when no image
  is left and prints how many there were; no thread waits for ever.
* kernels: every marked pixel stamped exactly once, whatever the split in halves or chunks.
* FastFlow queues: each implements a FIFO for one producer and one consumer, and neither leaks nor
  reuses a ring or a node the other thread can still reach; farm: as the program, and no image is
  deleted while a stage holds it or left on the heap.
* start barrier: nobody leaves a round before all have come, and nobody stays in it.
* parallel_for: each row goes to one worker, the caller returns when all are done, and all threads end.

`PROJECT.json` lists every hazard at its line, with the properties that would catch it.

## Modules

| Module | Models |
|---|---|
| `QueueState` | the record `[d_queue, d_condition]` of one `queue<T>` and what each statement does to it. `d_queue` is listed in the order of removal, so `push_front` appends and `back`/`pop_back` are `Head`/`Tail` |
| `FifoQueue` | abstract: a FIFO whose values are each returned once |
| `BlockingQueue` | `queue<T>` statement by statement: lock, insert and unlock, notify; lock, test, sleep, lock again, read, remove and unlock. Implements `FifoQueue` |
| `WatermarkJob` | abstract: what every version promises its user |
| `Emitter` | `Source`, `task_queue`, and a worker's `pop` on it; shared by the next two |
| `CppWatermark` | `cpp_watermark`: `main`, `Source` and the three stages of each pipeline. Implements `WatermarkJob` |
| `MasterWorker` | `stage123` and the main of `cpp_mw_wm.cpp`, mended so that it compiles (see below). Implements `WatermarkJob` |
| `SWSR` | the record of one `SWSR_Ptr_Buffer`, a ring where NULL means free, and what each call does to it |
| `DynQueue` | `dynqueue`: linked list, node cache and the memory under them, one step for each access the other thread can see |
| `USWSR` | `uSWSR_Ptr_Buffer`, the queue FastFlow uses: rings chained through a `DynQueue`, recycled through a pool. Implements `FifoQueue` |
| `SpinBarrier` | `spinBarrier::doBarrier`, where all threads of a run meet before the first task |
| `FFWatermark` | `ff_watermark`: `source` in the load balancer, three nodes for each pipeline, bounded queues, images on the heap, joins. Implements `WatermarkJob` |
| `ParallelFor` | `ff_process_image` and the parallel_for under it: warm-up, table of tasks, scheduler thread or workers that claim and steal, freezing, thawing, joins |
| `Kernels` | how an image is stamped: whole, by halves; operators on images as functions from pixels |
| `SeqWatermark` | `seq_watermark`, with real (small) images. Implements `WatermarkJob` |
| `MC*` | instances for TLC |
| `*_proofs` | lemmas and theorems for TLAPS |

How the model corresponds to the code:

* A thread is a label (`pc`, `pc1`, ...) and the variable it holds (`file_name`, `pair2`, `pair3`).
  A variable out of scope between two turns of a loop holds EOS.
* In `BlockingQueue` each statement that takes or releases the mutex, or touches the deque, is a step.
  There `pop` takes effect when it reads `back()`, and the refinement mapping says so. The proof that
  this is an atomic FIFO is why the other modules make a critical section one step. They keep
  `push()` in two steps, insertion and `notify_one()`, and they keep the sleepers of every queue.
  Loading or stamping is local to a thread and joins the push that follows.
* `notify_one()` wakes any one sleeper, and a sleeper may wake for no reason. A woken thread is simply
  no longer in `d_condition`, and its next step tests the deque again.
* An image is `raw`, `stamped` or `overstamped` (in avg mode a second stamp would show), and
  `empty` for the `CImg()` of an EOS pair. Pixels are left out but in `Kernels` and `SeqWatermark`, where
  dividing by 1.8 into an int is `(v * 5) \div 9`.
* The names in the folder are the constant `File`, read in any order. EOS is a name like the others,
  so `File` may contain it.
* A load of a file in `Unreadable` may throw: the process ends, `process = "terminated"`. A save of a
  file in `Unsavable` may throw: it is caught, and the image is in `failed`.
* Threads start one after the other, `Source` last, and are joined in that order.
* `test_versions/cpp_mw_wm.cpp` does not compile as committed: it includes `./lib/pipeline.cpp` from a directory that
  has no `lib`, uses `par_deg` without declaring it (lines 25, 28, 37, 38; the number is read into `nworkers`, line 16),
  and starts `Source(nImgs, par_deg)` where `lib/pipeline.cpp:41` has `Source(int par_deg)`. `MasterWorker` models it with
  the path right, `par_deg` for `nworkers` and `Source(par_deg)`, as in `cpp_watermark.cpp`. So what is checked and proved of
  `main()` there is about the mended program; `stage123` and `Source` are as they stand.
* In `USWSR` addresses are numbers and memory is a function from them; `malloc` returns the lowest free one.
  Stores become visible in program order: on x86, for which the program is built, `WMB()` only
  restrains the compiler. `in_use_buffers++` is a load and a store, as nothing makes it atomic.
* `FFWatermark` takes two things from those modules: a queue is an atomic FIFO (`USWSR`), and no node
  starts before all threads exist (`SpinBarrier`). The queues inside a pipeline are bounded by
  `QueueSize`, and `Push` is tried again until there is room. The first queue of a worker is unbounded.
* In `ParallelFor` each atomic operation of `nextTaskConcurrent` is a step. `compare_exchange_weak` may
  fail for no reason, and `max_element` over a table others are changing may return any worker.
  `sendTask` is one step: while it runs each worker reads only its own queue or is frozen. The load
  balancer collects from any worker with a result, where the code looks in turn. `freezing` is 0, 1 or 2
  and `stp` is read without the lock, as in `node.hpp`.

Definitions commented as "Mutated form" are wrong on purpose: each is a plausible slip in
the definition that follows it, and substituting it makes the named property fail. They are in no
specification.

## Runs

| Run | Instance | Checks |
|---|---|---|
| `queue` | 2 producers, 2 consumers, 2 values, 3 pushes, 1 spurious wake-up | `MutualExclusion`, `NoLostWakeup`, `ImplementsFifo`, `SleepersAreServed` |
| `cpp_farm` | 2 pipelines, 2 images, each of which may fail to load or save, symmetric | `Conservation`, `NoLostWakeup`, `EosAccounting`, `DrainBeforeReturn`, `ImplementsJob` |
| `cpp_pipeline` | 1 pipeline, 3 images, each of which may fail to load or save | `PipelineInOrder` |
| `cpp_farm_live` | 2 pipelines, 1 image that may fail to save | `Terminates` |
| `eos_file` | 1 pipeline, an image and a file called EOS | `EmitterEndsPipelines`, violated |
| `master_worker` | 3 workers, 4 images, one may fail to load, one to save | `Conservation`, `NoLostWakeup`, `EosAccounting`, `ImplementsJob`, `Terminates` |
| `uswsr` | rings of 2, caches of 1, 8 pushes, growing or `fixedsize` | `NodesOwned`, `RingsOwned`, `ImplementsFifo`, `Delivered` |
| `spin_barrier` | 3 threads, 4 rounds | `Agreement`, `ResetIsLast`, `EverybodyLeaves` |
| `ff_farm` | 2 pipelines, 3 images (one may fail to load, one to save), inner queues of 1 | `Conservation`, `ImageOwned`, `DrainBeforeReturn`, `ImplementsJob`, `Terminates` |
| `parallel_for` | 2 or 3 workers, the loops of `MCLoops` | `RowConservation`, `LoopDone`, `Returns` |
| `row_loop` | the same loops | `StampedOnce`, violated |
| `seq` | any 2 of several small images, both modes, each may fail to load or save | `HalvesMeet`, `ImplementsJob` |

All passing runs but `cpp_pipeline`, `cpp_farm_live` and `seq` also check `TypeOK` (`BarrierTypeOK` in `spin_barrier`); in `parallel_for` it bounds the
`ntask` counters, which workers drive below 0, and the rows of every task. Deadlock is checked except
in `queue`, `uswsr` and `spin_barrier`, where threads may rightly stop when nobody calls any more; the other
specifications have a step that says a process that has ended stays so.

*Bounds.* `MaxPushes` and `MaxSpurious` bound `BlockingQueue`: three values let a second one arrive
while the first is unclaimed and a third be stolen between an insertion and its notification, and the
theorems cover every bound. Two pipelines are the least for which `task_queue` is shared and a
stage1 can take what was meant to wake another; with two images and five names in all, one pipeline
can hold both images, in two of its stages, while the other starves. Order is a matter of one pipeline,
and three images fill its three stages. In `cpp_farm_live` the end of stream is what matters: two
pipelines compete for three EOS names, and one image is enough to be late. Elsewhere in these three
versions nothing is bounded: the number of tasks is that of the files.

In `uswsr` a ring of two slots can be half full, full or wrapped; eight pushes let the queue grow by two
rings, so that a cache of one overflows and a ring is freed, while another is reused. With nine addresses
of each kind `malloc` never fails (`RoomAssumption`): a push takes one of each at most, the constructor one. In `spin_barrier`
four rounds use each counter twice, once more than a thread can be ahead; the program itself enters the barrier once
per thread (`node.hpp:185`); it is parallel_for with spin-waiting workers that comes back to one, loop after loop
(`parallel_for_internals.hpp:807,1043`). In `ff_farm` one slot is the
least a bounded queue can have, and three images and two EOS values must pass it. `MCLoops` holds,
for each branch of `init_data`, `init_data_static`, `setF` and `sendTask`, a loop that takes it: fewer
tasks than workers, one odd task appended to the last worker, `chunk` doubled, a second round of first
tasks, one task left and so no thread at all, as many cores as workers and fewer. In `seq` the images have heights
odd and even, and values on both sides of what the stamp changes.

*Fairness.* Weak fairness of each thread: the operating system runs every runnable thread. Nobody is
obliged to call `push` or `pop` in `BlockingQueue`, no wake-up without notification is assumed, and
no mutex is assumed fair: in `BlockingQueue` calls and spurious wake-ups are bounded, so
contention ends, and elsewhere a critical section is one step. In `cpp_farm_live` no load fails, so
`Terminates` there says that `main()` returns. The threads of FastFlow spin and are preempted, so each is
weakly fair too. A worker that keeps trying to claim a task has strong fairness of the
`compare_exchange_weak`: it does not fail spuriously for ever. `push` of `USWSR` is called again as long as it likes, never forced.

*Findings.* `eos_file` shows that a file called EOS ends a pipeline before `Source` has sent an
EOS, against `lib/pipeline.cpp:36-40`. The trace shows `stage1(0)` popping the file's name and
returning while the other image has not been read.

`row_loop` shows that `ff_process_image` stamps the rows of a task of `n` rows `n` times: the row loop of
`lib/ff_farm.cpp:163` has another inside it, over the same rows. In black that shows nothing; in avg
mode each stamp divides by 1.8 again, and the picture depends on `chunk_sz`. Its only
caller is the node `stage12_opt` (`lib/ff_farm.cpp:186`), used by the farms in `test_versions/`.

## Theorems

`BlockingQueue_proofs` holds for any finite sets of producers and consumers, any values and any
bounds (`QueueAssumption`). `IInv` is inductive: it is `TypeOK`, `MutualExclusion` and `CallsOK`.
`CallsOK` is needed because a push writes its argument only if the call has set it, a sleeper
must be a thread inside `wait()`, and a consumer about to run `pop_back()` relies on the value it
tested still being there. From it:

* `TypeCorrect` and `MutexHeld`;
* `WakeupsAreKept`: `NoLostWakeup` is inductive relative to `IInv`. It counts: an insertion adds
  one value and one notification to come, a notification turns into one more awake consumer, and a
  removal takes one value and one awake consumer. A consumer goes to sleep only on an empty deque;
* `Fifoness`: every step maps to a step of `FifoQueue` or leaves the mapped variables alone.

`CppWatermark_proofs` holds for any number of pipelines, any finite folder and any files that fail
to load or save (`EmitterAssumption`, `CppAssumption`). What concerns `task_queue` and `Source`
alone is proved in `Emitter_proofs`, what concerns one deque in `QueueState_proofs`.

* `TypeCorrect`: `TypeInv` adds `SourceOrder` to the types. That `nImgs` stays within the number of
  files needs the count of names read, announced and still unread.
* `WakeupsAreKept`: `WakeInv` adds to `NoLostWakeup` that a sleeper of `task_queue` is at its `pop()`,
  so that a notification makes one more stage1 awake, and that only stage `k + 1` of a pipeline
  sleeps on the queue after stage `k`, so that one `notify_one()` is enough there.
* `EachEosStopsOne`: an EOS is counted in `task_queue` until a stage1 pops it, and in `Stopped` from then
  on. `SourceOrder` says that no file is pushed after an EOS. The hypothesis `EOS \notin File` is
  needed: the run `eos_file` shows what happens without it.
* `ShutdownInOrder`: `PipelinesEnd` says that the EOS is the last pair of each deque of a pipeline, and
  is there only once the stage before has closed. It is inductive whatever files are called. With the
  count of `EachEosStopsOne` it gives `DrainBeforeReturn`: a stage1 has stopped only if `Source` has
  sent an EOS, hence has read the folder.
* `NamesStayInOrder`: the names in the five places of a pipeline, read from the end, are one sequence;
  each step appends to it, takes its first one out, or leaves it alone. Only the types are needed, so
  it holds whatever files are called.
* `NoImageLost`: `Conservation` is inductive relative to `TypeInv` and `StampInv`, which says that stage3 is
  given no EOS to save, that a pair is raw before stage2 and stamped after it. It counts positions in
  sequences (`Spots`), and what the counts need (an append adds one at most, a `Tail` takes away the
  head's) is in `QueueState_proofs`. `EOS \notin File` is assumed, as a file called EOS is read and then
  handled by nobody.
* `KeepsPromise`: the refinement of `WatermarkJob`, from `Conservation`, `PipelinesEnd`, `EosAccounting`
  `StampInv` and the joins (`DrainInv`). It needs a pipeline, for the same reason as below.

`MasterWorker_proofs` holds for any number of workers, any finite folder and any files that fail to
load or save (`EmitterAssumption`, `MasterWorkerAssumption`), and uses the same lemmas about `Source`.

* `TypeCorrect`: the types need `WorksOnFile`, since what a worker writes is the name it holds.
* `NoLostWakeupHolds` and `EachEosStopsOne`: as above; a worker that ends its turn is awake again.
* `NoImageLost`: a step takes an image out of one place and puts it in the next, and a save can only
  add an image that `Conservation` says was not yet in the result. A file called EOS would be read
  and then handled by nobody, so `EOS \notin File` is assumed here too.
* `KeepsPromise`: the refinement of `WatermarkJob`. `DrainInv` is what is missing to see that `main()`
  returns with nothing left: the threads joined have returned, once a worker has returned only EOS
  names are queued, and names are read only from a folder that was opened. It needs a worker:
  with `par_deg` 0 `main()` prints the number of images it queued and saves none.

`FFWatermark_proofs` holds for any number of pipelines, any bound of their inner queues, any finite
folder and any files that fail to load or save (`FFAssumption`: at least one pipeline, and a file name
is never the pointer value EOS, which is what `ff_watermark` sends).

* `TypeCorrect`: `TypeInv` adds `SourceOrder`, as above, and `NodeOrder`: `svc()` never sees an EOS, and the
  last node pushes nothing. The bound of the inner queues is part of the types.
* `NodesDrain`: `DrainBeforeReturn` is not inductive: that a node finds its queue empty when it leaves
  is known only because the EOS was the last entry. `NodesEnd` says so: an EOS is in a queue only
  if the node before has left, and nothing is behind it; a node holding an EOS has an empty queue.
* `NoImageLost`: `Conservation` is inductive relative to `TypeInv`. A pointer is with a thread or in a
  queue; the lemmas say what each step adds to the two counts and takes from them.
* `ImagesAreOwned`: `ImageOwned` is inductive relative to `TypeInv` and `Conservation`: that stage3 deletes an
  image nobody else can reach holds because its pointer is in one place only.
* `KeepsPromise`: the refinement of `WatermarkJob`. Here a pair points to the image and does not
  carry it, so `StampInv` says what the heap holds for each pointer: `raw` before stage2, `stamped` from
  then on. That no other stage changes it meanwhile is again that the pointer is in one place.
  `JoinedExited` (the nodes joined have left) and `NodesEnd` leave nothing in the queues when `main()` returns.

`FastFlow_proofs` is about what lies under the farm: the queue between two nodes and the start barrier.
Its theorems on `USWSR` hold for any size of the rings and of the two caches, any number of pushes, growing or
`fixedsize`, and any memory in which `malloc` finds room for them (`NodeAssumption`, `BufferAssumption`,
`RoomAssumption`). They rest on one inductive invariant, `QInv`:

* a ring is filled from `pread` to `pwrite` without a gap (`Contiguous`), and a cache stores no address
  twice (`Distinct`);
* `Acyclic`: the nodes can be ranked so that `next` always leads to a lower rank, stale nodes included. Without it
  `Nodes` and `Contents`, which walk along the list, are no functions: the walk must end. A node is linked
  at the end only, below all others, and that is why the rank survives;
* `Chain(s, R)`: the walk yields the nodes `s` and the rings `R`, each node after the dummy holds the next
  ring, the consumer reads the first ring, the producer writes the last (or the one before, until it has moved to a ring it has linked), and each
  address allocated has one owner: the chain, a cache, or the producer or consumer between two steps (`Owned`);
* `Pushing`, `Popping`, `Rings`: what each thread may rely on between two of its accesses, so that a ring to be linked is
  new, one to be released is empty and no longer written, and `next_r()` finds a ring;
* `Memory`: never more addresses in use than pushes so far and one.

From it `TypeCorrect`, `NodesAreOwned` and `RingsAreOwned`; and

* `KeepsFifo`: `Contents` is the values of the rings of the chain, one ring after the other. A `put` appends
  a value to the last ring, a `pop` takes the head of the first, a `link` adds an empty ring, `next_r()` drops
  an empty one, and nothing else changes a value. `Contents` is recursive over the list, so that two
  chains with the same rings give the same sequence would be an induction. `Laid` says instead how the rings are laid
  out in one sequence, by partial results, and `SameLaid` refutes the least place where two such layouts differ.

Those on `SpinBarrier` hold for any finite set of threads and any number of rounds. `Agreement` is not
inductive: its strengthening says which counter a thread uses (the parity of its round), that
threads are at most a round apart, and that each counter equals the number of threads counted in its
round and not let go. From it `BarrierTypes`, `BarrierAgreement` and `BarrierReset`.

`ParallelFor_proofs` holds for any finite set of loops: any image with rows, any chunk (0 is static), any
number of workers from two on and any number of cores. `PFAssumption` also says that the pointer value
GO_OUT is no task.

* `RowsAreConserved`: three kinds of lemmas. Arithmetic: `init_data` and `init_data_static` cut 0..height-1 in pieces
  without a gap or an overlap (`NewTable`, from `Sharing`, `EntryFacts` and `StaticSplit`). Protocol: when `setloop` writes the
  table all threads are frozen, their queues hold no task and F was called for no row (`Rest`), and with
  one task no thread runs at all (`Inline`). Steps: each takes a row from one place to the next
  (`AloneStays`, `AloneDealt`, `PopRows`, `ApplyRows`, `ClaimRows`). `ClaimKnown` is what the workers' race needs: the end a
  worker read before it claims a start is still right if that start is, as no step moves the end
  of an entry (`EndsStay`).
* `LoopIsDone`: a row that is in no table, in no queue and in no worker's hands has been handed to F, by
  the conservation above, so it remains to show that those places are empty when the caller goes on. Why they are
  differs with how the loop ran. Without a scheduler a worker freezes only after it has looked for rows, so that its
  own entry and queue are empty (`Own`, with k for how far the caller has thawed). That rests on
  `Enough`, which says that `ntask`, less the claims made but not counted yet, covers the rows left in an entry: a worker
  that reads 0 misses none. With a scheduler the caller waits for the load balancer alone. `Account` weighs each
  worker by the tasks in its entry, its queue, in hand and on their way back, and numbers them all
  apart below `totaltasks`, so that no task is anywhere when `totaltasks` is 0; `Counted` says that the
  load balancer freezes only there. The numbering (`Numbered`) stands for the sum of the weights: a sum over the workers
  would be a recursive definition, and proofs about it inductions.
* `TypeCorrect`: what is not obvious is how far two counters can fall. Workers test `ntask` and decrement it in
  separate steps, so it passes 0. `Bounded` shows by one for each worker past the test (`Poised`) at most: nobody
  passes the test once it is 0. `totaltasks` stays at 0 or above because each decrement answers a task that `Account` counts.

Only model-checked: liveness, which is beyond the prover; `SeqWatermark` (`HalvesMeet` and its refinement of
`WatermarkJob`), whose pixels are stamped by a fold over the rows: what a fold computes is an induction over data.

## Not modelled

* CImg (`lib/CImg.h`, 61 thousand of the 96 thousand lines of the repository): third party. A load or a
  save succeeds or throws `CImgIOException`.
* Most of FastFlow: collectors, feedback, accelerators, blocking mode, allocators, OpenCL, distributed
  nodes, `multipush`, `mp_push`, `mc_pop`, `length`. The program uses none of it. What it uses, and so what
  this project covers, is a small part of the vendored library; the share of all lines is small for
  that reason and cannot become large.
* Of `parallel_for`: reductions, spin-waiting workers and negative chunks, which `ff_process_image` does
  not ask for.
* Argument parsing, timing, logs. The copy and move operations of `queue<T>` run only before threads
  exist. `populate_task` has no caller. `stage12` and its variants repeat the bodies of `stage1` and `stage2`.
* `test_versions/` but for `cpp_mw_wm.cpp`: earlier forms of the same farm, which `make` does not build.
* A watermark smaller than the image: the program asks for the same size and reads outside it
  otherwise (`SeqAssumption`).
