SPECIFICATION Spec
CONSTANTS
    t1 = t1
    t2 = t2
    Threads = {t1, t2}
    None = None
    Calls = {"transmit", "respond", "read", "shutdown"}
    Chunks = 2
    MaxCalls = 3
CHECK_DEADLOCK FALSE
INVARIANT RespondTruthful
