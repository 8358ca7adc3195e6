SPECIFICATION Spec
CONSTANTS
    Process = {n1, n2}
    Row = {r1}
    Sizes <- Instances
    None = None
SYMMETRY Processes
INVARIANTS NothingStranded OneMaster InstalledRootOpens ReadsThroughRotation
CHECK_DEADLOCK FALSE
