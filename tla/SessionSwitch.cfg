SPECIFICATION Spec
CONSTANTS
    MaxInstalls = 1
    MaxClears = 1
    None = None
PROPERTY EndedNoticeIsTrue
CHECK_DEADLOCK FALSE
