----------------------------- MODULE FifoQueue ------------------------------
(***************************************************************************)
(* What the callers of queue<T> rely on: a value pushed is returned by     *)
(* exactly one pop(), and values come out in the order they went in.       *)
(***************************************************************************)
EXTENDS Sequences

CONSTANTS Value, Consumer, NoValue

VARIABLES contents,   \* values pushed and not yet returned, oldest first
          rc          \* what each consumer's last pop() returned

Init ==
    /\ contents = <<>>
    /\ rc = [c \in Consumer |-> NoValue]

Enqueue(v) ==
    /\ contents' = Append(contents, v)
    /\ UNCHANGED rc

Dequeue(c) ==
    /\ contents # <<>>
    /\ rc' = [rc EXCEPT ![c] = Head(contents)]
    /\ contents' = Tail(contents)

Next ==
    \/ \E v \in Value : Enqueue(v)
    \/ \E c \in Consumer : Dequeue(c)

Spec == Init /\ [][Next]_<<contents, rc>>
=============================================================================
