SPECIFICATION Spec
CONSTANTS
    PlaysAgain = FALSE
    Headers <- MCHeaders
    AudioLens = {2, 3}
    PerPacket = 2
    NalTable <- MCNalTable
    MaxSetups = 3
    MaxPlays = 2
ACTION_CONSTRAINT Scope
INVARIANTS NoCallbackOnFreed ReleasedOnce MediaWhole
PROPERTIES RefusedChangesNothing MediaEnds
CHECK_DEADLOCK FALSE
