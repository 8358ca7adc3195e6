SPECIFICATION Spec
CONSTANTS
    Process = {n1, n2}
    Row = {r1}
    Sizes <- Alone
    None = None
SYMMETRY Processes
INVARIANTS NothingUnderRetiredMaster
CHECK_DEADLOCK FALSE
