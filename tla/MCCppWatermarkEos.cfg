CONSTANTS
    f1 = f1  f2 = f2  f3 = f3
    EOS = EOS
    File <- WithEosFile
    Unreadable <- NoFile
    Unsavable <- NoFile
    ParDeg = 1
SPECIFICATION Spec
INVARIANT
    EmitterEndsPipelines
