SPECIFICATION Spec
CONSTANTS
    MaxSessions = 2
    Shell = {k1, k2, k3, k4, k5}
    None = None
SYMMETRY ShellSymmetry
INVARIANTS
    TypeOK
    CountAccounts
    ActiveSlotsOwn
    ShellsAccounted
    MastersAccounted
PROPERTY SignalsReachOwnShell
