SPECIFICATION RecvSpec
CONSTANTS
    SeqMod = 4
    Half = 2
    RocMod = 3
    IdxMod = 8
    Window = 2
INVARIANTS
    NoReplay
    WindowExact
PROPERTY HighestMonotonic
