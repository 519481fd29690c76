SPECIFICATION MCSpec
CONSTANTS
    Blocks = {0, 1, 2}
    Blank = 0
    Buffers <- MCBuffers
    MaxCount = 3
    Types = {"CARD_SD", "CARD_MMC"}
    Tries = 2
    Faults = TRUE
    SlowCards = {TRUE, FALSE}
    MaxSlow = 2
PROPERTIES WriteReported
