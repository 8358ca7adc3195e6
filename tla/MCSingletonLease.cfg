SPECIFICATION Spec
CONSTANTS
    Node = {n1, n2}
    NoNode = NoNode
    LeaseTTL = 2
    MaxClock = 4
    MaxFence = 3
INVARIANTS
    TypeOK
    LeaseBacksLeader
    NoTermOverlap
    FenceNamesOneTerm
PROPERTIES
    FencedWork
SYMMETRY NodeSymmetry
