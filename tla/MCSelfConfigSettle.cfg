SPECIFICATION FairSpec
CONSTANTS
    Node = {n1, n2}
    Sizes <- OneJob
    None = None
PROPERTIES JobsSettle
CHECK_DEADLOCK FALSE
