SPECIFICATION Spec
CONSTANTS
    p1 = p1
    p2 = p2
    Principal = {p1, p2}
    Key = {k1, k2}
    Value = {v1}
    NoValue = NoValue
    None = None
    PolicyInput <- Policies
    Source <- Sources
    MaxAdmin = 1
    MaxDraft = 2
    MaxRequest = 1
    MaxRevision = 2
SYMMETRY Keys
INVARIANTS MergedWithQuorum
PROPERTIES MergedAsReviewed GateHolds
CHECK_DEADLOCK FALSE
