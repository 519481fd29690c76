SPECIFICATION MCSpec
CONSTANTS
    Kinds = {"SDHC", "SDv2", "SDv1", "MMC", "none", "stuck"}
    Sizes <- MCSizes
    Voltages = {TRUE, FALSE}
    Mishears = TRUE
    MmcBlocks = {0, 1, 2}
    Values = {0, 1}
    MmcMaxCount = 2
    Removable = TRUE
CHECK_DEADLOCK FALSE
INVARIANTS CardKnown
PROPERTIES InitializeReturns WriteIsDurable TransfersReturn
