SPECIFICATION Spec
CONSTANTS
    Caller = {"worker", "main"}
    Piece = {"E", "N", "o"}
    Text <- MCText
    BufferSize <- MCBufferSize
    ReadMax = 2
    Op <- MCOp
    SafeToken = {"nmap"}
    MaxOps = 2
INVARIANTS
    EngineTypeOK
    ResultsAreTheirOwn
    ServiceEndsWithWork
PROPERTY
    EveryOperationIsAnswered
