-------------------------------- MODULE SdMmc --------------------------------
(***************************************************************************)
(* The driver of the SDMMC controller (SDMMC/Seeed_SDMMC_Interface.cpp):   *)
(* SD_initialize, SD_status, SD_read, SD_write and SD_ioctl.  A transfer   *)
(* is the vendor's blocking call, then a loop that polls the card without  *)
(* a limit until it is ready again.  FatFs asks for the status at the      *)
(* start of each of its calls, and then reads, writes and synchronises,    *)
(* the last also after a write that failed (that of FSInfo in sync_fs).    *)
(***************************************************************************)
EXTENDS Integers

CONSTANTS
    MmcBlocks,    \* the card's blocks
    Values,       \* what they may hold
    MmcMaxCount,  \* bound: the largest number of blocks transferred by a call
    Removable     \* the card may be pulled out, for good

ASSUME MmcAssumption == MmcBlocks \subseteq Nat /\ MmcMaxCount \in Nat
ASSUME RemovableAssumption == Removable \in BOOLEAN

VARIABLES
    contents,   \* what the card's blocks hold
    buffered,   \* the blocks it has received and not programmed, with contents
    cardState,  \* its state: "transfer" (ready), "busy" or "gone"
    SD_State,   \* "NOINIT" (STA_NOINIT) or "OK"
    running,    \* the call in progress: "none", "read", "write"
    range,      \* the blocks it transfers
    data,       \* the value it writes, or what it has read
    result      \* the result of the last call

mmcVars == <<contents, buffered, cardState, SD_State, running, range, data, result>>

None == [b \in {} |-> 0]

MmcInit ==
    /\ contents \in [MmcBlocks -> Values] /\ buffered = None
    /\ cardState = "transfer" /\ SD_State = "NOINIT"
    /\ running = "none" /\ range = {} /\ data = None /\ result = "OK"
-----------------------------------------------------------------------------
(* The card and the vendor's library *)

\* A received block is programmed; behind the last one the card is ready.
MmcPrograms ==
    /\ cardState = "busy" /\ buffered # None
    /\ \E b \in DOMAIN buffered :
          /\ contents' = [contents EXCEPT ![b] = buffered[b]]
          /\ buffered' = [x \in DOMAIN buffered \ {b} |-> buffered[x]]
    /\ cardState' = IF buffered' = None THEN "transfer" ELSE "busy"
    /\ UNCHANGED <<SD_State, running, range, data, result>>

\* A card that has nothing to program any more, or stops sending, gets ready.
GetsReady ==
    /\ cardState = "busy" /\ buffered = None
    /\ cardState' = "transfer"
    /\ UNCHANGED <<contents, buffered, SD_State, running, range, data, result>>

Pulled ==
    /\ Removable /\ cardState # "gone"
    /\ cardState' = "gone" /\ buffered' = None
    /\ UNCHANGED <<contents, SD_State, running, range, data, result>>

MmcWorks == MmcPrograms \/ GetsReady

\* BSP_SD_GetCardState: is the card in the transfer state?
TransferOK == cardState = "transfer"

MmcReturn(r) == running' = "none" /\ result' = r
-----------------------------------------------------------------------------
(* The driver *)

\* SD_CheckStatus, for SD_initialize and SD_status
CheckStatus ==
    /\ running = "none"
    /\ SD_State' = IF TransferOK THEN "OK" ELSE "NOINIT"
    /\ result' = "OK"
    /\ UNCHANGED <<contents, buffered, cardState, running, range, data>>

\* BSP_SD_ReadBlocks ends well: the data are there, the card may still be busy.
SDRead(S) ==
    /\ running = "none" /\ TransferOK
    /\ running' = "read" /\ range' = S /\ data' = [b \in S |-> contents[b]]
    /\ cardState' \in {"transfer", "busy"}
    /\ UNCHANGED <<contents, buffered, SD_State, result>>

\* BSP_SD_WriteBlocks ends well: the card has got all the blocks.
SDWrite(S, d) ==
    /\ running = "none" /\ TransferOK
    /\ running' = "write" /\ range' = S /\ data' = [b \in S |-> d]
    /\ buffered' = data' /\ cardState' = "busy"
    /\ UNCHANGED <<contents, SD_State, result>>

\* Either fails: a read at once or while the card sends, a write when the card
\* has got some of the blocks, from the first one on.
ReadFails(S) ==
    /\ running = "none"
    /\ range' = S /\ MmcReturn("ERROR")
    /\ cardState' \in IF TransferOK THEN {"transfer", "busy"} ELSE {cardState}
    /\ UNCHANGED <<contents, buffered, SD_State, running, data>>

WriteFails(S, d) ==
    /\ running = "none"
    /\ range' = S /\ MmcReturn("ERROR")
    /\ \/ UNCHANGED <<buffered, cardState>>
       \/ /\ TransferOK /\ cardState' = "busy"
          /\ \E n \in S : buffered' = [b \in {x \in S : x <= n} |-> d]
    /\ UNCHANGED <<contents, SD_State, data>>

\* Mutant: the loop that waits for the card is left out.
WaitNot ==
    /\ running # "none"
    /\ MmcReturn("OK")
    /\ UNCHANGED <<contents, buffered, cardState, SD_State, range, data>>

\* Mutant: it looks at SD_State, which nobody changes meanwhile.
WaitForState ==
    /\ running # "none" /\ SD_State = "OK"
    /\ MmcReturn("OK")
    /\ UNCHANGED <<contents, buffered, cardState, SD_State, range, data>>

\* The waiting loops of SD_read and SD_write
Wait ==
    /\ running # "none" /\ TransferOK
    /\ MmcReturn("OK")
    /\ UNCHANGED <<contents, buffered, cardState, SD_State, range, data>>

\* SD_ioctl(CTRL_SYNC): only the state that the last status call has left counts
SDSync ==
    /\ running = "none"
    /\ result' = IF SD_State = "NOINIT" THEN "NOTRDY" ELSE "SYNCED"
    /\ UNCHANGED <<contents, buffered, cardState, SD_State, running, range, data>>
-----------------------------------------------------------------------------
Transfers == {a .. a + n - 1 : a \in MmcBlocks, n \in 1 .. MmcMaxCount}

MmcNext ==
    \/ MmcWorks \/ Pulled \/ CheckStatus \/ Wait \/ SDSync
    \/ \E S \in Transfers \cap SUBSET MmcBlocks :
          \/ SDRead(S) \/ ReadFails(S)
          \/ \E d \in Values : SDWrite(S, d) \/ WriteFails(S, d)

MmcSpec == MmcInit /\ [][MmcNext]_mmcVars

\* The driver polls, and a card that is busy works on.
MmcFairSpec == MmcSpec /\ WF_mmcVars(Wait) /\ WF_mmcVars(MmcWorks)
-----------------------------------------------------------------------------
\* A write that reports success has put every block on the card: it does not
\* return while the card still programs.
WriteIsDurable ==
    [][running = "write" /\ running' = "none" /\ result' = "OK" =>
          \A b \in range : contents'[b] = data[b]]_mmcVars

\* SD_read and SD_write return, if the card stays where it is.
TransfersReturn == (<>[](cardState # "gone")) => (running # "none" ~> running = "none")
=============================================================================
