SPECIFICATION Spec
CONSTANTS
    Node = {n1, n2}
    Sizes <- Instances
    None = None
SYMMETRY Nodes
INVARIANTS ServesTarget NeededPayloads ConfirmedBeforeUse StatusIsEarned
CHECK_DEADLOCK FALSE
