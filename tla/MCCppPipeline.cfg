CONSTANTS
    f1 = f1  f2 = f2  f3 = f3
    EOS = EOS
    File <- ThreeFiles
    Unreadable <- ThreeFiles
    Unsavable <- ThreeFiles
    ParDeg = 1
SPECIFICATION Spec
PROPERTIES
    PipelineInOrder
