SPECIFICATION FairSpec
CONSTANTS
    Kinds <- MCKinds
    Capacity = 7
    MaxMessages = 3
    None = None
INVARIANTS TypeOK InOrder NothingSkipped LossExplained
PROPERTY Served
CHECK_DEADLOCK FALSE
