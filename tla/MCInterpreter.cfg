SPECIFICATION LoadSpec
CONSTANTS
    CodeLength = 4
    SkipLimit = 2
    BlockScanLimit = 2
    RegMod = 5
    HaltAddress = 4
    Targets = {0, 2, 4}
    Programs <- MCPrograms
    Gas = {2, 5}
    InitialReg = {0, 3}
    Mapped = {FALSE}
INVARIANTS
    BlocksStartAtOpcodes
    TablesServe
    TypeOK
    CachedBlocksEnd
    CounterFollowed
    GasPaysForWork
    OverrunWithinBlock
    ControlOnOpcodes
PROPERTIES
    Returns
CHECK_DEADLOCK FALSE
