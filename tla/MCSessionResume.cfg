SPECIFICATION Spec
CONSTANTS
    PlaysAgain = TRUE
    Headers <- MCHeaders
    AudioLens = {2, 3}
    PerPacket = 2
    NalTable <- MCNalTable
    MaxSetups = 3
    MaxPlays = 2
INVARIANT NoCallbackOnFreed
CHECK_DEADLOCK FALSE
