SPECIFICATION Spec
CONSTANTS
    ByteBits = 1
    Triples <- MCTriples
    Pairs   <- MCPairs
    Default <- MCDefault
    Values = {0, 1, 6, 7, 8, 15, 16, 24, 127, 128, 240, 248, 255}
    Codes   <- MCCodes
    Counter = 7
    EarlierOps    <- MCOps
    EarlierBlocks <- MCBlocks
    JumpTable     <- MCJumps
    Trapped  = 5
    Firsts   = {0, 1, 3, 23, 33, 79, 87, 151, 199}
    Seconds  = {0, 1, 4, 7, 12, 250}
    Skips    = {0, 1, 2, 3, 4, 6, 9, 12}
    Contents <- MCContents
    Few      = {0, 1, 6, 248, 255}
CHECK_DEADLOCK FALSE
INVARIANT AsDocumented
