CONSTANTS
    f1 = f1  f2 = f2  f3 = f3
    EOS = EOS
    File <- TwoFiles
    Unreadable <- TwoFiles
    Unsavable <- TwoFiles
    ParDeg = 2
SPECIFICATION Spec
SYMMETRY FileSymmetry
INVARIANTS
    TypeOK
    Conservation
    NoLostWakeup
    EosAccounting
    DrainBeforeReturn
PROPERTIES
    ImplementsJob
