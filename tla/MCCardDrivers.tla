---------------------------- MODULE MCCardDrivers ----------------------------
(***************************************************************************)
(* A board has one of the two card drivers (listfiles.ino: SDMMC on a Wio  *)
(* Lite AI, SD elsewhere): the SPI driver initialises a card, or the SDMMC *)
(* driver transfers blocks, and the other one does nothing.                *)
(***************************************************************************)
EXTENDS SdInit, SdMmc

VARIABLE board      \* "spi" or "sdmmc"

MCSizes == {[v |-> 1, size |-> 4094, mult |-> 7, len |-> 10],
            [v |-> 1, size |-> 4095, mult |-> 7, len |-> 11],
            [v |-> 1, size |-> 0, mult |-> 0, len |-> 9],
            [v |-> 2, size |-> 8191, mult |-> 0, len |-> 9]}

\* Where the other driver is that the board does not have.
Unused ==
    IF board = "sdmmc"
    THEN slotVars = <<<<"none", CHOOSE s \in Sizes : TRUE, FALSE>>,
                      FALSE, FALSE, TRUE, "NONE", 0, "idle", FALSE, 0>>
    ELSE contents = [b \in MmcBlocks |-> CHOOSE d \in Values : TRUE]

MCInit == SlotInit /\ MmcInit /\ board \in {"spi", "sdmmc"} /\ Unused

MCNext ==
    /\ UNCHANGED board
    /\ \/ board = "spi" /\ SlotNext /\ UNCHANGED mmcVars
       \/ board = "sdmmc" /\ MmcNext /\ UNCHANGED slotVars

MCSpec ==
    /\ MCInit /\ [][MCNext]_<<slotVars, mmcVars, board>>
    /\ WF_slotVars(board = "spi" /\ Identifying /\ UNCHANGED <<mmcVars, board>>)
    /\ WF_slotVars(board = "spi" /\ SecondPasses /\ UNCHANGED <<mmcVars, board>>)
    /\ WF_mmcVars(board = "sdmmc" /\ Wait /\ UNCHANGED <<slotVars, board>>)
    /\ WF_mmcVars(board = "sdmmc" /\ MmcWorks /\ UNCHANGED <<slotVars, board>>)
=============================================================================
