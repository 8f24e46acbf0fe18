CONSTANTS
    MaxNw = 3
    Loops <- MCLoops
    GO_OUT = GO_OUT
SPECIFICATION FairSpec
INVARIANTS
    TypeOK
    RowConservation
    LoopDone
PROPERTY
    Returns
