SPECIFICATION FairSpec
CONSTANTS
    t1 = t1
    t2 = t2
    t3 = t3
    Threads = {t1, t2, t3}
    None = None
    Calls = {"transmit", "respond", "read", "shutdown"}
    Chunks = 2
    MaxCalls = 3
CHECK_DEADLOCK FALSE
INVARIANTS
    CryptoExclusive
    FramesWhole
    TransmitTruthful
    AtMostOneLateIo
PROPERTY CallsReturn
