SPECIFICATION FairSpec
CONSTANTS
    Lease = {l1}
    Worker = {w1, w2}
    NoWorker = NoWorker
    MayPause = TRUE
    MaxClaims = 1
    MaxDisturb = 2
CHECK_DEADLOCK FALSE
INVARIANTS DisclosedRoleIsTracked
PROPERTIES RevokeSticks RevokeCompletes AbandonedMintIsDropped
