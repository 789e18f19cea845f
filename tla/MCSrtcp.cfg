SPECIFICATION Spec
CONSTANTS
    Window = 3
    WireMod = 8
    MaxReports = 10
INVARIANTS
    IndexNeverReused
    WindowExact
PROPERTY KeepsPromise
