------------------------------- MODULE SWSR ---------------------------------
(***************************************************************************)
(* SWSR_Ptr_Buffer of lib/ff/buffer.hpp: a ring of pointers shared by one  *)
(* producer, who alone moves pwrite, and one consumer, who alone moves     *)
(* pread.  There is no count: a NULL slot under pwrite means room, a NULL  *)
(* slot under pread means empty.                                           *)
(***************************************************************************)
EXTENDS Integers, FiniteSets

NULL == 0       \* pointers are numbers; 0 is the null pointer

Ring(size, Ptr) ==
    [pread : 0..(size - 1), pwrite : 0..(size - 1),
     buf : [0..(size - 1) -> Ptr \cup {NULL}]]

\* reset(): both indices at slot 0 and every slot NULL.
NewRing(size) ==
    [pread |-> 0, pwrite |-> 0, buf |-> [k \in 0..(size - 1) |-> NULL]]

\* Mutated form: the index runs one slot past the end.
WrapLate(r, k) == IF k \in DOMAIN r.buf THEN k + 1 ELSE 0

\* The slot after k.
Wrap(r, k) == IF k + 1 \in DOMAIN r.buf THEN k + 1 ELSE 0

Empty(r) == r.buf[r.pread] = NULL

Available(r) == r.buf[r.pwrite] = NULL

Top(r) == r.buf[r.pread]

\* buf[pwrite] = data; pwrite is read by nobody else, so it moves with it.
Put(r, data) == [r EXCEPT !.buf[r.pwrite] = data, !.pwrite = Wrap(r, r.pwrite)]

\* inc(): the slot is given back to the producer.
Inc(r) == [r EXCEPT !.buf[r.pread] = NULL, !.pread = Wrap(r, r.pread)]

Filled(r) == {k \in DOMAIN r.buf : r.buf[k] # NULL}

\* What the consumer would pop, oldest first.
RingContents(r) ==
    [k \in 1..Cardinality(Filled(r)) |->
        r.buf[(r.pread + k - 1) % Cardinality(DOMAIN r.buf)]]
=============================================================================
