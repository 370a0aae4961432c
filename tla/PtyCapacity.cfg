SPECIFICATION Spec
CONSTANTS
    MaxSessions = 2
    Shell = {k1, k2, k3}
    None = None
INVARIANT RefusedOnlyWhenFull
