SPECIFICATION LoadSpec
CONSTANTS
    CodeLength = 4
    SkipLimit = 2
    BlockScanLimit = 2
    RegMod = 5
    HaltAddress = 4
    GasWord = 16
    GasAdjustment = 4
    Targets = {0, 2, 4}
    Programs <- MCPrograms
    Gas = {2, 5}
    InitialReg = {0, 3}
    Mapped = {FALSE}
INVARIANTS
    BackwardSkips
    TablesServe
    TypeOK
    GasPaysForWork
    ResumesWhereItLeft
PROPERTIES
    Returns
CHECK_DEADLOCK FALSE
