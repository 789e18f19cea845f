SPECIFICATION Spec
CONSTANTS
    Kilo = 2
    clock_rate = 6
    TsMod = 16
    CountMod = 4
    TimeMod = 128
    Kinds = {"Raw", "SysClockUs"}
    Sizes = {1, 3}
    Junk = {0, 5, 60}
    WallOffsets = {0, 3, 6}
    Lags <- MCLags
    MaxTime = 14
    MaxPackets = 3
PROPERTIES SrConsistent SrCountsWire
