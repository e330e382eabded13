SPECIFICATION FairSpec
CONSTANTS
    c1 = c1
    c2 = c2
    p1 = p1
    p2 = p2
    Chunks <- MCChunks
    Size <- MCSize
    MaxLc = 2
    MaxPackets = 2
    StructSize = 4
    Paths <- MCPaths
    LongPaths <- MCLongPaths
    Foreign = Foreign
    Malformed = Malformed
    NoPath = NoPath
    UI = "nbgl"
    CalledFromSwap = FALSE
PROPERTY EveryCommandAnswered
