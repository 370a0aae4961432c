SPECIFICATION Spec
CONSTANTS
    Chunk = {1, 8, 55, 64}
    Block = 64
    MaxMessage = 200
INVARIANT
    Md5OfTheMessage
CHECK_DEADLOCK FALSE
