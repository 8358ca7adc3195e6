SPECIFICATION Spec
CONSTANTS
    Worker = {w1, w2}
    Name <- Two
    Secrets <- One
    Contents <- Renamed
    Plans = {{"publish", "pause"}, {"manual", "credential"}, {"teardown", "intrude", "adopt"},
             {"publish", "linger"}, {"teardown", "linger"}}
    Stalls = TRUE
    None = None
    MaxGen = 3
    MaxFaults = 1
SYMMETRY Workers
INVARIANTS OneWriteInFlight ConvergedMeansWritten NeverDisowned ScrubLeavesNothing
PROPERTIES NewestWins ForeignKept
CHECK_DEADLOCK FALSE
