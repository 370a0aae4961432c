SPECIFICATION Spec
CONSTANTS
    Byte = {0, 1}
    Capacity = 4
    Modulus = 8
    MaxLen = 3
INVARIANTS
    TypeOK
    NeverOverfull
    NoRace
PROPERTY ImplementsQueue
