SPECIFICATION Spec
CONSTANTS
    Distro = {kali, ubuntu}
    XzDistro = {kali}
    MaxInstalls = 2
    None = None
INVARIANT DistrosDontMix
CHECK_DEADLOCK FALSE
