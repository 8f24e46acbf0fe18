CONSTANTS
    t1 = t1  t2 = t2  t3 = t3
    Thread <- MCThread
    MaxRounds = 4
SPECIFICATION BarrierFairSpec
INVARIANTS
    BarrierTypeOK
    Agreement
    ResetIsLast
PROPERTY
    EverybodyLeaves
CHECK_DEADLOCK FALSE
