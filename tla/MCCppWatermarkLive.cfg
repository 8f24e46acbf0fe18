CONSTANTS
    f1 = f1  f2 = f2  f3 = f3
    EOS = EOS
    File <- OneFile
    Unreadable <- NoFile
    Unsavable <- OneFile
    ParDeg = 2
SPECIFICATION FairSpec
PROPERTIES
    Terminates
