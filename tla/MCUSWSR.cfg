CONSTANTS
    Node <- MCNode
    Buffer <- MCBuffer
    NodeCacheSize = 1
    BufferCacheSize = 1
    Size = 2
    MaxPushes = 8
SPECIFICATION FairSpec
INVARIANTS
    TypeOK
    NodesOwned
    RingsOwned
PROPERTIES
    ImplementsFifo
    Delivered
CHECK_DEADLOCK FALSE
