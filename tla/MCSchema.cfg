SPECIFICATION Spec
CONSTANTS
    e1 = e1
    e2 = e2
    k1 = k1
    k2 = k2
    g = g
    v1 = v1
    v2 = v2
    Env = {e1, e2}
    Key = {k1, k2}
    Principal = {alice}
    Group = {g}
    NoGroup = NoGroup
    Value = {v1}
    NoValue = NoValue
    Declaration <- Strict
    InitEnv = {e1}
    InitKey = {k1}
    InitGroups <- Grouped
    MaxPending = 1
    MaxRevision = 3
    MaxSchema = 3
    MaxVersion = 1
CHECK_DEADLOCK FALSE
INVARIANTS TypeOK SnapshotIsPublishedState DeliveredContentIsValid DraftsNameLiveCells LineageExplainsHistory
