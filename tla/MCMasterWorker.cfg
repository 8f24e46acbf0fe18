CONSTANTS
    f1 = f1  f2 = f2  f3 = f3  f4 = f4
    EOS = EOS
    File <- MCFile
    Unreadable <- MCUnreadable
    Unsavable <- MCUnsavable
    ParDeg = 3
SPECIFICATION FairSpec
INVARIANTS
    TypeOK
    Conservation
    NoLostWakeup
    EosAccounting
PROPERTIES
    ImplementsJob
    Terminates
