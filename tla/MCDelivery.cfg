SPECIFICATION Spec
CONSTANTS
    Workload = {w1, w2}
    Key = {k1}
    Value = {v1, v2}
    Param = {x1}
    Mode = {"full", "config-only"}
    MaxLife = 1
    MaxPins = 1
    Sizes <- Instances
    None = None
SYMMETRY Workloads
INVARIANTS CurrentIsCurrent HeldPayloads
PROPERTIES ReleaseTellsTruth SuccessMeansSwept
CHECK_DEADLOCK FALSE
