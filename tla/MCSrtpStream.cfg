SPECIFICATION Spec
CONSTANTS
    SeqMod = 8
    Half = 4
    RocMod = 4
    IdxMod = 16
    Window = 3
    MaxPackets = 12
INVARIANTS
    SentConsecutive
    AcceptsInRange
PROPERTY KeepsPromise
