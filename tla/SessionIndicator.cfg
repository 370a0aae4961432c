SPECIFICATION Spec
CONSTANTS
    MaxInstalls = 1
    MaxClears = 1
    None = None
INVARIANT IndicatorWhileActive
CHECK_DEADLOCK FALSE
