CONSTANTS
    f1 = f1  f2 = f2  f3 = f3
    File <- MCFile
    EOS = EOS
    ParDeg = 2
    QueueSize = 1
    Unreadable <- MCUnreadable
    Unsavable <- MCUnsavable
SPECIFICATION FairSpec
INVARIANTS
    TypeOK
    Conservation
    ImageOwned
    DrainBeforeReturn
PROPERTIES
    ImplementsJob
    Terminates
