SPECIFICATION Spec
CONSTANTS
    Distro = {kali, debian, ubuntu}
    XzDistro = {kali, debian}
    MaxInstalls = 2
    None = None
INVARIANTS
    TypeOK
    InstalledMeansWhole
    ReadyMeansWhole
    NeverStuck
PROPERTY EveryInstallEnds
CHECK_DEADLOCK FALSE
