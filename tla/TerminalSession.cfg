SPECIFICATION Spec
CONSTANTS
    MaxInstalls = 1
    MaxClears = 1
    None = None
INVARIANTS
    TypeOK
    NoAbandonedShell
    InputReachesCurrentShell
    FirstSessionEndsWithItsShell
    QuietAfterDestroy
PROPERTIES
    ExitIsNoticed
    ReadersEnd
CHECK_DEADLOCK FALSE
