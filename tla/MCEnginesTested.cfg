SPECIFICATION CompareSpec
CONSTANTS
    CodeLength = 4
    SkipLimit = 2
    RegMod = 5
    HaltAddress = 4
    GasWord = 64
    GasAdjustment = 8
    Targets = {0, 2}
    Landings = {1, 2, 3}
    Programs <- MCPrograms
    Gas = {1, 3, 6}
    InitialReg = {0, 2, 3}
    Mapped = {FALSE, TRUE}
INVARIANT AsTested
CHECK_DEADLOCK FALSE
