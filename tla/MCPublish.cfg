SPECIFICATION Spec
CONSTANTS
    e1 = e1
    e2 = e2
    k1 = k1
    k2 = k2
    g = g
    v1 = v1
    v2 = v2
    Env = {e1}
    Key = {k1, k2}
    Principal = {alice, bob}
    Group = {g}
    NoGroup = NoGroup
    Value = {v1, v2}
    NoValue = NoValue
    Declaration <- OnlyOptional
    InitEnv = {e1}
    InitKey = {k1, k2}
    InitGroups <- Either
    MaxPending = 2
    MaxRevision = 4
    MaxSchema = 1
    MaxVersion = 1
SYMMETRY Interchangeable
CHECK_DEADLOCK FALSE
PROPERTIES NoBlindOverwrite RestoreAsPreviewed HistoryIsAppendOnly GroupsPublishWhole
