CONSTANTS
    f1 = f1  f2 = f2
    Absent = Absent
    File <- MCFile
    Watermark <- MCWatermark
    Picture <- MCPicture
    Unreadable <- MCFile
    Unsavable <- MCFile
SPECIFICATION Spec
INVARIANT
    HalvesMeet
PROPERTY
    ImplementsJob
