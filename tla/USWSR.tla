------------------------------- MODULE USWSR --------------------------------
(***************************************************************************)
(* uSWSR_Ptr_Buffer of lib/ff/ubuffer.hpp, the queue between two threads   *)
(* of the FastFlow version: a chain of rings that grows when the producer  *)
(* finds its ring full and shrinks when the consumer has emptied one.  No  *)
(* lock is taken.  push() and pop() are cut at every access to memory the  *)
(* other thread can see; stores become visible in program order, as on the *)
(* machines (x86) where WMB() is a compiler barrier only.                  *)
(*                                                                         *)
(* One producer pushes 1, 2, 3, ...; one consumer keeps calling pop().     *)
(***************************************************************************)
EXTENDS DynQueue

CONSTANTS Buffer,           \* addresses malloc() may give a ring
          Size,             \* slots of a ring
          BufferCacheSize,  \* CACHE_SIZE of the pool
          MaxPushes         \* bound on the calls of push()

ASSUME BufferAssumption ==
    /\ Size \in Nat \ {0} /\ BufferCacheSize \in Nat \ {0}
    /\ MaxPushes \in Nat /\ Buffer \subseteq Nat \ {NULL}

\* malloc() never fails: a push takes one node and one ring at most, and the
\* constructor one of each.
ASSUME RoomAssumption ==
    \A addresses \in {Node, Buffer} :
        IsFiniteSet(addresses) => Cardinality(addresses) > MaxPushes

VARIABLES ring,             \* the memory: each ring buffer
          liveBuffers,      \* rings allocated and not freed
          bufcache,         \* rings the consumer gave back to the pool
          buf_r, buf_w,     \* the ring that is read, the ring that is written
          in_use_buffers, fixedsize,
          ppc, data, t,     \* where push() is, its argument and its new ring
          cpc, tmp, rc,     \* where pop() is, its new ring, the last value
          preg, creg        \* in_use_buffers, loaded to be changed

poolVars == <<ring, liveBuffers, bufcache>>
pushVars == <<ppc, data, t, preg>>
popVars == <<cpc, tmp, rc, creg>>
vars == <<listVars, poolVars, buf_r, buf_w, in_use_buffers, fixedsize,
          pushVars, popVars>>

TypeOK ==
    /\ ListTypeOK(Buffer)
    /\ ring \in [Buffer -> Ring(Size, 1..MaxPushes)]
    /\ liveBuffers \subseteq Buffer
    /\ bufcache \in Ring(BufferCacheSize, Buffer)
    /\ buf_r \in Buffer /\ buf_w \in Buffer
    /\ in_use_buffers \in Int /\ preg \in Int /\ creg \in Int
    /\ fixedsize \in BOOLEAN
    /\ ppc \in {"idle", "available", "next_w", "link", "swing", "buf_w",
                "load", "store", "put"}
    /\ data \in 0..MaxPushes
    /\ t \in Buffer \cup {NULL} /\ tmp \in Buffer \cup {NULL}
    /\ cpc \in {"idle", "compare", "again", "next_r", "recycle", "reset",
                "release", "load", "store", "buf_r", "pop"}
    /\ rc \in 0..MaxPushes

\* The constructor and init(): one ring, read and written.
Init ==
    LET first == Malloc(Buffer, {}) IN
    /\ ListInit
    /\ ring = [b \in Buffer |-> NewRing(Size)]
    /\ liveBuffers = {first}
    /\ bufcache = NewRing(BufferCacheSize)
    /\ buf_r = first /\ buf_w = first
    /\ in_use_buffers = 1
    /\ fixedsize \in BOOLEAN
    /\ ppc = "idle" /\ data = 0 /\ t = NULL /\ preg = 0
    /\ cpc = "idle" /\ tmp = NULL /\ rc = NULL /\ creg = 0
-----------------------------------------------------------------------------
PGoto(from, to) == ppc = from /\ ppc' = to

\* The parts of the state a step of push() and a step of pop() leave alone.
PushLeaves == UNCHANGED <<popVars, buf_r, fixedsize>>
PopLeaves == UNCHANGED <<pushVars, buf_w, fixedsize>>

CallPush ==
    /\ PGoto("idle", "available")
    /\ data < MaxPushes
    /\ data' = data + 1
    /\ PushLeaves
    /\ UNCHANGED <<listVars, poolVars, buf_w, in_use_buffers, t, preg>>

\* available(): the ring written has room.
PushFits ==
    /\ PGoto("available", "put")
    /\ Available(ring[buf_w])
    /\ PushLeaves
    /\ UNCHANGED <<listVars, poolVars, buf_w, in_use_buffers, data, t, preg>>

\* Full, and fixedsize: push() returns false; the value is not pushed.
PushRefused ==
    /\ PGoto("available", "idle")
    /\ fixedsize /\ ~ Available(ring[buf_w])
    /\ data' = data - 1
    /\ PushLeaves
    /\ UNCHANGED <<listVars, poolVars, buf_w, in_use_buffers, t, preg>>

\* pool.next_w(): a ring from the cache, or a new one.
PushGrow ==
    LET b == IF Empty(bufcache) THEN Malloc(Buffer, liveBuffers) ELSE Top(bufcache) IN
    /\ PGoto("available", "next_w")
    /\ ~ fixedsize /\ ~ Available(ring[buf_w])
    /\ bufcache' = IF Empty(bufcache) THEN bufcache ELSE Inc(bufcache)
    /\ ring' = IF Empty(bufcache) THEN [ring EXCEPT ![b] = NewRing(Size)] ELSE ring
    /\ liveBuffers' = liveBuffers \cup {b}
    /\ t' = b
    /\ PushLeaves
    /\ UNCHANGED <<listVars, buf_w, in_use_buffers, data, preg>>

\* inuse.push(t), in three steps.
PushAlloc ==
    /\ PGoto("next_w", "link")
    /\ ListAlloc(t)
    /\ PushLeaves
    /\ UNCHANGED <<poolVars, buf_w, in_use_buffers, data, t, preg>>

PushLink ==
    /\ PGoto("link", "swing")
    /\ ListLink
    /\ PushLeaves
    /\ UNCHANGED <<poolVars, buf_w, in_use_buffers, data, t, preg>>

PushSwing ==
    /\ PGoto("swing", "buf_w")
    /\ ListSwing
    /\ PushLeaves
    /\ UNCHANGED <<poolVars, buf_w, in_use_buffers, data, t, preg>>

PushSetBufW ==
    /\ PGoto("buf_w", "load")
    /\ buf_w' = t
    /\ t' = NULL
    /\ PushLeaves
    /\ UNCHANGED <<listVars, poolVars, in_use_buffers, data, preg>>

\* in_use_buffers++ is a load and a store.
PushLoad ==
    /\ PGoto("load", "store")
    /\ preg' = in_use_buffers
    /\ PushLeaves
    /\ UNCHANGED <<listVars, poolVars, buf_w, in_use_buffers, data, t>>

PushStore ==
    /\ PGoto("store", "put")
    /\ in_use_buffers' = preg + 1
    /\ preg' = 0
    /\ PushLeaves
    /\ UNCHANGED <<listVars, poolVars, buf_w, data, t>>

\* buf_w->push(data): the store the consumer sees.
PushPut ==
    /\ PGoto("put", "idle")
    /\ ring' = [ring EXCEPT ![buf_w] = Put(@, data)]
    /\ PushLeaves
    /\ UNCHANGED <<listVars, liveBuffers, bufcache, buf_w, in_use_buffers,
                   data, t, preg>>

PushStep ==
    \/ PushFits \/ PushRefused \/ PushGrow \/ PushAlloc \/ PushLink \/ PushSwing
    \/ PushSetBufW \/ PushLoad \/ PushStore \/ PushPut
-----------------------------------------------------------------------------
CGoto(from, to) == cpc = from /\ cpc' = to

\* buf_r->empty(): no when there is a value, and pop() takes it.
PopTest ==
    /\ CGoto("idle", IF Empty(ring[buf_r]) THEN "compare" ELSE "pop")
    /\ PopLeaves
    /\ UNCHANGED <<listVars, poolVars, buf_r, in_use_buffers, tmp, rc, creg>>

\* Mutated form: the second test of buf_r->empty() is left out.
PopCompareOnce ==
    /\ CGoto("compare", IF buf_r = buf_w THEN "idle" ELSE "next_r")
    /\ PopLeaves
    /\ UNCHANGED <<listVars, poolVars, buf_r, in_use_buffers, tmp, rc, creg>>

\* buf_r == buf_w: the whole queue is empty, and pop() returns false.
PopCompare ==
    /\ CGoto("compare", IF buf_r = buf_w THEN "idle" ELSE "again")
    /\ PopLeaves
    /\ UNCHANGED <<listVars, poolVars, buf_r, in_use_buffers, tmp, rc, creg>>

\* The producer may have written buf_r between the test and its move away.
PopTestAgain ==
    /\ CGoto("again", IF Empty(ring[buf_r]) THEN "next_r" ELSE "pop")
    /\ PopLeaves
    /\ UNCHANGED <<listVars, poolVars, buf_r, in_use_buffers, tmp, rc, creg>>

\* pool.next_r(): the next ring linked; pop() keeps the one it has if none is.
PopNext ==
    /\ CGoto("next_r", IF ListNext = NULL THEN "pop" ELSE "recycle")
    /\ IF ListNext = NULL THEN UNCHANGED <<tmp, listVars>>
       ELSE tmp' = ListFront /\ ListAdvance
    /\ PopLeaves
    /\ UNCHANGED <<poolVars, buf_r, in_use_buffers, rc, creg>>

PopRecycle ==
    /\ CGoto("recycle", "reset")
    /\ ListRecycle
    /\ PopLeaves
    /\ UNCHANGED <<poolVars, buf_r, in_use_buffers, tmp, rc, creg>>

\* pool.release(buf_r): reset() ...
PopReset ==
    /\ CGoto("reset", "release")
    /\ ring' = [ring EXCEPT ![buf_r] = NewRing(Size)]
    /\ PopLeaves
    /\ UNCHANGED <<listVars, liveBuffers, bufcache, buf_r, in_use_buffers,
                   tmp, rc, creg>>

\* Mutated form: a ring the cache has no room for is forgotten, not freed.
PopReleaseLeak ==
    /\ CGoto("release", "load")
    /\ bufcache' = IF Available(bufcache) THEN Put(bufcache, buf_r) ELSE bufcache
    /\ PopLeaves
    /\ UNCHANGED <<listVars, ring, liveBuffers, buf_r, in_use_buffers, tmp, rc, creg>>

\* ... then to the cache, or freed when the cache is full.
PopRelease ==
    /\ CGoto("release", "load")
    /\ IF Available(bufcache)
       THEN bufcache' = Put(bufcache, buf_r) /\ UNCHANGED liveBuffers
       ELSE liveBuffers' = liveBuffers \ {buf_r} /\ UNCHANGED bufcache
    /\ PopLeaves
    /\ UNCHANGED <<listVars, ring, buf_r, in_use_buffers, tmp, rc, creg>>

PopLoad ==
    /\ CGoto("load", "store")
    /\ creg' = in_use_buffers
    /\ PopLeaves
    /\ UNCHANGED <<listVars, poolVars, buf_r, in_use_buffers, tmp, rc>>

PopStore ==
    /\ CGoto("store", "buf_r")
    /\ in_use_buffers' = creg - 1
    /\ creg' = 0
    /\ PopLeaves
    /\ UNCHANGED <<listVars, poolVars, buf_r, tmp, rc>>

PopSetBufR ==
    /\ CGoto("buf_r", "pop")
    /\ buf_r' = tmp
    /\ tmp' = NULL
    /\ PopLeaves
    /\ UNCHANGED <<listVars, poolVars, in_use_buffers, rc, creg>>

\* buf_r->pop(&data): false when there is nothing, else the oldest value.
PopTake ==
    /\ CGoto("pop", "idle")
    /\ IF Empty(ring[buf_r]) THEN UNCHANGED <<ring, rc>>
       ELSE /\ rc' = Top(ring[buf_r])
            /\ ring' = [ring EXCEPT ![buf_r] = Inc(@)]
    /\ PopLeaves
    /\ UNCHANGED <<listVars, liveBuffers, bufcache, buf_r, in_use_buffers, tmp, creg>>

PopStep ==
    \/ PopTest \/ PopCompare \/ PopTestAgain \/ PopNext \/ PopRecycle
    \/ PopReset \/ PopRelease \/ PopLoad \/ PopStore
    \/ PopSetBufR \/ PopTake

Next == CallPush \/ PushStep \/ PopStep

Spec == Init /\ [][Next]_vars

\* A call of push() goes on to its end, and the consumer polls for ever
\* (ff_node::Pop); nobody has to call push().
FairSpec == Spec /\ WF_vars(PushStep) /\ WF_vars(PopStep)
-----------------------------------------------------------------------------
\* The ring pop() works on: next_r() has already replaced buf_r by tmp.
Reading == IF tmp # NULL THEN tmp ELSE buf_r

\* The values in the ring that is read and in the rings linked behind it.
Contents ==
    LET from[n \in Node \cup {NULL}] ==
          IF n = NULL THEN <<>>
          ELSE RingContents(ring[node[n].data]) \o from[node[n].next]
    IN  RingContents(ring[Reading]) \o from[ListNext]

(* The chain of rings is a first-in first-out queue, although a pop() that *)
(* finds its ring empty gives it up while the producer may be filling it   *)
(* (the second empty() of ubuffer.hpp:394).  push() takes effect at its    *)
(* store into the ring, pop() when it clears the slot.                     *)
Fifo == INSTANCE FifoQueue WITH
    Value <- 1..MaxPushes, Consumer <- {"consumer"}, NoValue <- NULL,
    contents <- Contents, rc <- [c \in {"consumer"} |-> rc]

ImplementsFifo == Fifo!Spec

(* The memory of the queue: the rings linked, read, being installed, being *)
(* released or in the pool's cache are all different and are all there is. *)
(* A ring in the cache is clean, since push() writes into it as it comes;  *)
(* no ring is released or freed while the producer still writes it; and a  *)
(* consumer that leaves its ring finds the next one linked, since buf_w    *)
(* moves only after the link: next_r() never fails (ubuffer.hpp:395).      *)
RingsOwned ==
    LET linked    == {node[n].data : n \in Range(Tail(Nodes))}
        cached    == {bufcache.buf[k] : k \in Filled(bufcache)}
        installed == IF ppc \in {"next_w", "link"} THEN {t} ELSE {}
        released  == IF cpc \in {"recycle", "reset", "release"} THEN {buf_r} ELSE {}
    IN  /\ liveBuffers = linked \cup {Reading} \cup cached \cup installed
                          \cup released
        /\ Cardinality(liveBuffers) =
             Cardinality(linked) + 1 + Cardinality(Filled(bufcache))
             + Cardinality(installed) + Cardinality(released)
        /\ \A b \in cached : ring[b] = NewRing(Size)
        /\ buf_w \in linked \cup {Reading}
        /\ cpc = "next_r" => ListNext # NULL

(* A value pushed is popped: the consumer that keeps polling reaches every *)
(* ring, whichever steps the producer was in when it looked.               *)
Delivered ==
    \A v \in 1..MaxPushes : (ppc = "idle" /\ data >= v) ~> rc >= v
=============================================================================
