------------------------------ MODULE DynQueue ------------------------------
(***************************************************************************)
(* dynqueue of lib/ff/dynqueue.hpp: the linked list that a BufferPool      *)
(* hands its buffers through.  The producer links nodes behind tail, the   *)
(* consumer unlinks them at head and gives them back through a cache, a    *)
(* ring that runs the other way.  Each operation is cut where it touches   *)
(* memory the other thread can see; USWSR runs the steps in order.         *)
(***************************************************************************)
EXTENDS SWSR, Sequences, Functions

CONSTANTS Node,           \* addresses malloc() may give a node
          NodeCacheSize   \* the size of the ring of free nodes

ASSUME NodeAssumption == NodeCacheSize \in Nat \ {0} /\ Node \subseteq Nat \ {NULL}

VARIABLES node,           \* the memory: data and next of each node
          liveNodes,      \* nodes allocated and not freed
          head, tail,
          cache,          \* nodes the consumer gave back
          pnode,          \* n of push()
          cnode           \* n of pop()

listVars == <<node, liveNodes, head, tail, cache, pnode, cnode>>

ListTypeOK(Ptr) ==
    /\ node \in [Node -> [data : Ptr \cup {NULL}, next : Node \cup {NULL}]]
    /\ liveNodes \subseteq Node
    /\ head \in Node /\ tail \in Node
    /\ cache \in Ring(NodeCacheSize, Node)
    /\ pnode \in Node \cup {NULL} /\ cnode \in Node \cup {NULL}

\* malloc(): some address not in use (the lowest, as they are all alike).
Malloc(addresses, live) ==
    CHOOSE a \in addresses \ live : \A b \in addresses \ live : a <= b

ListInit ==
    LET first == Malloc(Node, {}) IN
    /\ node = [n \in Node |-> [data |-> NULL, next |-> NULL]]
    /\ liveNodes = {first}
    /\ head = first /\ tail = first
    /\ cache = NewRing(NodeCacheSize)
    /\ pnode = NULL /\ cnode = NULL
-----------------------------------------------------------------------------
\* push(): allocnode(), then the node is filled while it is still private.
ListAlloc(d) ==
    LET n == IF Empty(cache) THEN Malloc(Node, liveNodes) ELSE Top(cache) IN
    /\ cache' = IF Empty(cache) THEN cache ELSE Inc(cache)
    /\ liveNodes' = liveNodes \cup {n}
    /\ node' = [node EXCEPT ![n] = [data |-> d, next |-> NULL]]
    /\ pnode' = n
    /\ UNCHANGED <<head, tail, cnode>>

\* Mutated form: tail moves first, and the new node is linked to itself.
ListLinkAfterSwing ==
    /\ node' = [node EXCEPT ![pnode].next = pnode]
    /\ UNCHANGED <<liveNodes, head, tail, cache, pnode, cnode>>

\* push(): tail->next = n, the store that shows the node to the consumer.
ListLink ==
    /\ node' = [node EXCEPT ![tail].next = pnode]
    /\ UNCHANGED <<liveNodes, head, tail, cache, pnode, cnode>>

ListSwing ==
    /\ tail' = pnode
    /\ pnode' = NULL
    /\ UNCHANGED <<node, liveNodes, head, cache, cnode>>

\* pop(): head->next, and what it carries.
ListNext == node[head].next
ListFront == node[ListNext].data

ListAdvance ==
    /\ cnode' = head
    /\ head' = ListNext
    /\ UNCHANGED <<node, liveNodes, tail, cache, pnode>>

\* Mutated form: the new head goes to the cache instead of the old one.
ListRecycleHead ==
    /\ IF Available(cache)
       THEN cache' = Put(cache, head) /\ UNCHANGED liveNodes
       ELSE liveNodes' = liveNodes \ {cnode} /\ UNCHANGED cache
    /\ cnode' = NULL
    /\ UNCHANGED <<node, head, tail, pnode>>

\* pop(): the old head goes to the cache, or is freed when the cache is full.
ListRecycle ==
    /\ IF Available(cache)
       THEN cache' = Put(cache, cnode) /\ UNCHANGED liveNodes
       ELSE liveNodes' = liveNodes \ {cnode} /\ UNCHANGED cache
    /\ cnode' = NULL
    /\ UNCHANGED <<node, head, tail, pnode>>
-----------------------------------------------------------------------------
\* The nodes of the list from head on, the ones to be popped behind it.
Nodes ==
    LET from[n \in Node \cup {NULL}] ==
          IF n = NULL THEN <<>> ELSE <<n>> \o from[node[n].next]
    IN  from[head]

(* The memory of the list: the nodes behind head, the ones in the cache    *)
(* and the ones a thread holds are all different, allocated, and together  *)
(* everything that was allocated: no node is freed while it can still be   *)
(* reached, handed out twice, or leaked.                                   *)
NodesOwned ==
    LET list == Nodes
        held == {pnode} \ (Range(list) \cup {NULL})
        cached == {cache.buf[k] : k \in Filled(cache)}
        retired == {cnode} \ {NULL}
    IN  /\ liveNodes = Range(list) \cup held \cup cached \cup retired
        /\ Cardinality(liveNodes) =
             Len(list) + Cardinality(held) + Cardinality(Filled(cache))
             + Cardinality(retired)
=============================================================================
