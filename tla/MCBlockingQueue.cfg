CONSTANTS
    p1 = p1  p2 = p2
    c1 = c1  c2 = c2
    v1 = v1  v2 = v2
    Producer <- MCProducer
    Consumer <- MCConsumer
    Value <- MCValue
    NoValue = NoValue
    Free = Free
    MaxPushes = 3
    MaxSpurious = 1
SPECIFICATION FairSpec
INVARIANTS
    TypeOK
    MutualExclusion
    NoLostWakeup
PROPERTIES
    ImplementsFifo
    SleepersAreServed
CHECK_DEADLOCK FALSE
