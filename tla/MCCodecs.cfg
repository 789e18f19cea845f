SPECIFICATION MCSpec
CONSTANTS
    NalHeader = 1
    FuHeader = 2
    MaxNalu = 5
    Limit = 5
    Lengths = {0, 3, 4, 5, 6, 7, 9, 10}
    MaxUnits = 3
    JpegFrames <- MCJpegFrames
    MaxFrag = 220
    MaxScan = 400
    MaxJpegs = 2
    Randoms <- MCRandoms
    Foreign <- MCForeign
    BufLens = {72, 73, 74, 128}
    Pieces = {0, 1, 8, 55, 56, 63, 64, 65, 120}
    MaxPieces = 3
    RtpHeaders <- MCRtpHeaders
    Payloads <- MCPayloads
    MaxFeeds = 1
    Files <- MCFiles
    H265Headers <- MCH265Headers
    Slices <- MCSlices
    MAX_RETRANSMITS = 3
    Backends = {"openssl", "wolfssl", "mbedtls"}
    MaxInits = 3
INVARIANTS RebuiltWhole ResultTruthful PacketsWellFormed JpegRebuilt JpegTruthful KeyRoundTrip Md5Blocks FeedExact UnitsExact WriteTruthful TlsReleased
CHECK_DEADLOCK FALSE
