----------------------------- MODULE QueueState -----------------------------
(***************************************************************************)
(* The state of one queue<T> of lib/util.cpp, and what its statements do   *)
(* to it.  d_queue lists the deque in the order pop() removes it: push()   *)
(* adds at one end (push_front), pop() reads and removes at the other      *)
(* (back, pop_back), so the back of the deque is the head of the sequence. *)
(* d_condition is the set of threads asleep in d_condition.wait().         *)
(***************************************************************************)
EXTENDS Occurrences

QueueRecord(Item, Thread) ==
    [d_queue : Seq(Item), d_condition : SUBSET Thread]

NewQueue == [d_queue |-> <<>>, d_condition |-> {}]

Nonempty(q) == q.d_queue # <<>>

Asleep(q, t) == t \in q.d_condition

\* Mutated form: push() and pop() work at the same end of the deque.
PushAtPoppedEnd(q, v) == [q EXCEPT !.d_queue = <<v>> \o @]

PushFront(q, v) == [q EXCEPT !.d_queue = Append(@, v)]

Back(q) == Head(q.d_queue)

PopBack(q) == [q EXCEPT !.d_queue = Tail(@)]

Sleep(q, t) == [q EXCEPT !.d_condition = @ \cup {t}]

WakeUp(q, t) == [q EXCEPT !.d_condition = @ \ {t}]

\* Mutated form: push() forgets to notify.
NotifyNobody(q) == {q}

\* notify_one(): wakes one sleeper, whichever the scheduler picks, or nobody.
NotifyOne(q) ==
    IF q.d_condition = {} THEN {q} ELSE {WakeUp(q, t) : t \in q.d_condition}
=============================================================================
