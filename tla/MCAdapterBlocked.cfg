SPECIFICATION Spec
CONSTANTS
    Worker = {w1, w2}
    Name <- Two
    Secrets <- One
    Contents <- Renamed
    Plans = {{"publish", "credential"}}
    Stalls = FALSE
    None = None
    MaxGen = 3
    MaxFaults = 0
SYMMETRY Workers
INVARIANTS PublishNotBlocked
CHECK_DEADLOCK FALSE
