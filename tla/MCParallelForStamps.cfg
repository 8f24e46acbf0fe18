CONSTANTS
    MaxNw = 3
    Loops <- MCLoops
    GO_OUT = GO_OUT
SPECIFICATION Spec
INVARIANT
    StampedOnce
