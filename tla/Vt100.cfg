SPECIFICATION Spec
CONSTANTS
    MaxParams = 2
    OscMaxLen = 2
    MaxNumber = 7
    Size <- SmallSizes
    Chunk <- MCChunk
INVARIANTS
    TypeOK
    WritesStayOnScreen
    RegionScrolls
    EraseHalvesMakeWhole
    ResizeKeepsRows
    SequencesParsed
CHECK_DEADLOCK FALSE
