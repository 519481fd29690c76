-------------------------------- MODULE SdInit --------------------------------
(***************************************************************************)
(* sd_disk_initialize of the SPI driver (SD/Seeed_sdcard_hal.cpp): which   *)
(* card is in the slot?  One sdTransaction at a step; a slot may be empty, *)
(* or hold a card of any generation, one that keeps its line low, or one   *)
(* whose answers get lost.                                                 *)
(***************************************************************************)
EXTENDS Integers

CONSTANTS
    Kinds,      \* what may be in the slot: "SDHC", "SDv2", "SDv1", "MMC",
                \* "none", "stuck" (the line stays low)
    Sizes,      \* the CSD fields of the cards: [v, size, mult, len]
    Voltages,   \* whether cards can work at the slot's voltage
    Mishears    \* answers may be lost or wrong

ASSUME KindAssumption ==
    Kinds \subseteq {"SDHC", "SDv2", "SDv1", "MMC", "none", "stuck"}
ASSUME SizeAssumption ==
    \A s \in Sizes :
       /\ s.v \in {1, 2} /\ s.mult \in 0 .. 7 /\ s.len \in 9 .. 11
       /\ s.size \in 0 .. (IF s.v = 1 THEN 2^12 ELSE 2^22) - 1
ASSUME FlagAssumption == Voltages \subseteq BOOLEAN /\ Mishears \in BOOLEAN

VARIABLES
    \* the card
    kind, csd, volt,
    started,    \* it has left the idle state
    hcs,        \* it has been told that the host knows high capacity cards
    \* the driver
    noinit,     \* STA_NOINIT of card->status
    type,       \* card->type
    sectors,    \* card->sectors
    step,       \* the next transaction; "idle" between calls
    overdue,    \* the time of the running loop is over
    tries       \* failed attempts to read the CSD

inSlot == <<kind, csd, volt>>
slotVars == <<inSlot, started, hcs, noinit, type, sectors, step, overdue, tries>>

SlotInit ==
    /\ kind \in Kinds /\ csd \in Sizes /\ volt \in Voltages
    /\ started \in BOOLEAN /\ hcs = FALSE
    /\ noinit = TRUE /\ type = "NONE" /\ sectors = 0
    /\ step = "idle" /\ overdue = FALSE /\ tries = 0
-----------------------------------------------------------------------------
(* What the driver hears *)

Ready == 0
Idle == 1
Illegal == 5
BadCrc == 9
NoReply == 255

State == IF started THEN Ready ELSE Idle

\* sdTransaction: what sdCommand returns when the card answers a.
Answers(a) ==
    CASE kind = "none" -> {NoReply}
      [] kind = "stuck" -> {Ready}
      [] OTHER -> IF Mishears THEN {a, BadCrc, NoReply} ELSE {a}

Proceed(p) ==
    /\ step' = p /\ overdue' = FALSE /\ tries' = 0
    /\ UNCHANGED <<noinit, type, sectors>>

UnknownCard ==
    /\ step' = "idle" /\ type' = "UNKNOWN" /\ overdue' = FALSE /\ tries' = 0
    /\ UNCHANGED <<noinit, sectors>>

KnownAs(t, p) ==
    /\ step' = p /\ type' = t /\ overdue' = FALSE /\ tries' = 0
    /\ UNCHANGED <<noinit, sectors>>

CardSame == UNCHANGED <<inSlot, started, hcs>>
-----------------------------------------------------------------------------
(* sd_disk_initialize *)

Initialize ==
    /\ step = "idle" /\ noinit
    /\ Proceed("reset") /\ CardSame

\* GO_IDLE_STATE
Reset ==
    /\ step = "reset"
    /\ started' = FALSE /\ hcs' = FALSE /\ UNCHANGED inSlot
    /\ \E t \in Answers(Idle) : IF t = Idle THEN Proceed("crc") ELSE UnknownCard

\* CRC_ON_OFF, which old cards do not know
CrcOff ==
    /\ step = "crc" /\ CardSame
    /\ \E a \in {Idle, Illegal} : \E t \in Answers(a) :
          IF t \in {Idle, Illegal} THEN Proceed("cond") ELSE UnknownCard

\* SEND_IF_COND, which only cards of version 2 know; they send the pattern back
SendIfCond ==
    /\ step = "cond" /\ CardSame
    /\ \E t \in Answers(IF kind \in {"SDHC", "SDv2"} THEN Idle ELSE Illegal) :
          IF t = Idle THEN Proceed("ocr2") \/ (Mishears /\ UnknownCard)
                      ELSE Proceed("ocr1")

\* READ_OCR: can the card work with this voltage?
ReadOcr(p, q) ==
    /\ step = p /\ CardSame
    /\ \E t \in Answers(Idle) : IF t = Idle /\ volt THEN Proceed(q) ELSE UnknownCard

\* The card has got its operating conditions and may be ready now.  One of high
\* capacity does not start for a host that has not named these.
Conditions(host) ==
    /\ hcs' = (hcs \/ host) /\ UNCHANGED inSlot
    /\ started' \in IF kind = "SDHC" /\ ~hcs' THEN {started} ELSE {started, TRUE}

\* What it answers then; an MMC does not know APP_CMD.
Answer == IF kind = "MMC" THEN Illegal ELSE IF started' THEN Ready ELSE Idle

\* APP_OP_COND, with the host's high capacity support
OpCond2 ==
    /\ step = "op2" /\ Conditions(TRUE)
    /\ \E t \in Answers(Answer) :
          \/ t = Idle /\ ~overdue /\ UNCHANGED <<noinit, type, sectors, step, overdue, tries>>
          \/ t = Idle /\ overdue /\ UnknownCard
          \/ t = Ready /\ Proceed("ccs")
          \/ t \notin {Idle, Ready} /\ UnknownCard

\* READ_OCR: card capacity status
ReadCcs ==
    /\ step = "ccs" /\ CardSame
    /\ \E t \in Answers(State) :
          IF t = Ready
          THEN IF kind = "SDHC" THEN KnownAs("SDHC", "detect") ELSE KnownAs("SD", "detect")
          ELSE UnknownCard

\* Mutant: the old command sequence offers high capacity support as well.
OpCond1HighCapacity ==
    /\ step = "op1" /\ Conditions(TRUE)
    /\ \E t \in Answers(Answer) :
          \/ t = Idle /\ ~overdue /\ UNCHANGED <<noinit, type, sectors, step, overdue, tries>>
          \/ t = Ready /\ KnownAs("SD", "detect")
          \/ t # Ready /\ (t = Idle => overdue) /\ Proceed("opmmc")

\* APP_OP_COND without it
OpCond1 ==
    /\ step = "op1" /\ Conditions(FALSE)
    /\ \E t \in Answers(Answer) :
          \/ t = Idle /\ ~overdue /\ UNCHANGED <<noinit, type, sectors, step, overdue, tries>>
          \/ t = Ready /\ KnownAs("SD", "detect")
          \/ t # Ready /\ (t = Idle => overdue) /\ Proceed("opmmc")

\* Mutant: the loop for an MMC does not look at the time.
OpCondMmcForever ==
    /\ step = "opmmc" /\ Conditions(FALSE)
    /\ \E t \in Answers(IF started' THEN Ready ELSE Idle) :
          \/ t = Ready /\ KnownAs("MMC", "blocklen")
          \/ t # Ready /\ UNCHANGED <<noinit, type, sectors, step, overdue, tries>>

\* SEND_OP_COND; SD cards know it too
OpCondMmc ==
    /\ step = "opmmc" /\ Conditions(FALSE)
    /\ \E t \in Answers(IF started' THEN Ready ELSE Idle) :
          \/ t = Ready /\ KnownAs("MMC", "blocklen")
          \/ t # Ready /\ ~overdue /\ UNCHANGED <<noinit, type, sectors, step, overdue, tries>>
          \/ t # Ready /\ overdue /\ UnknownCard

\* APP_CLR_CARD_DETECT, for all but MMC
ClearDetect ==
    /\ step = "detect" /\ CardSame
    /\ \E t \in Answers(State) :
          IF t = Ready THEN Proceed(IF type = "SDHC" THEN "csd" ELSE "blocklen")
                       ELSE UnknownCard

\* SET_BLOCKLEN, for all but SDHC
SetBlockLen ==
    /\ step = "blocklen" /\ CardSame
    /\ \E t \in Answers(State) : IF t = Ready THEN Proceed("csd") ELSE UnknownCard

\* The number of sectors from the CSD: C_SIZE, C_SIZE_MULT and READ_BL_LEN in
\* the old layout, C_SIZE alone in the new one.  The code shifts words of 32
\* bits, in the old layout numbers of bytes (32 - 9 = 23).
Capacity(c) ==
    IF c.v = 2 THEN ((c.size + 1) % 2^22) * 2^10
               ELSE ((c.size + 1) * 2^(c.mult + 2) * 2^(c.len - 9)) % 2^23

Done(n) ==
    /\ sectors' = n /\ noinit' = FALSE
    /\ step' = "idle" /\ overdue' = FALSE /\ tries' = 0 /\ UNCHANGED type

\* sdGetSectorsCount: SEND_CSD and the data block; 0 when it cannot be read
ReadCsd ==
    /\ step = "csd" /\ CardSame
    /\ \/ Done(Capacity(csd))
       \/ Mishears /\ Done(0)
       \/ /\ Mishears /\ tries < 2
          /\ tries' = tries + 1
          /\ UNCHANGED <<noinit, type, sectors, step, overdue>>

\* A second passes in one of the loops.
SecondPasses ==
    /\ step \in {"op2", "op1", "opmmc"} /\ ~overdue
    /\ overdue' = TRUE
    /\ CardSame /\ UNCHANGED <<noinit, type, sectors, step, tries>>

\* sdcard_uninit and sdcard_init: a new entry, for a card that is new or not.
NewCard ==
    /\ step = "idle"
    /\ kind' \in Kinds /\ csd' \in Sizes /\ volt' \in Voltages /\ started' \in BOOLEAN
    /\ hcs' = FALSE
    /\ noinit' = TRUE /\ type' = "NONE" /\ sectors' = 0
    /\ UNCHANGED <<step, overdue, tries>>

Identifying ==
    \/ Reset \/ CrcOff \/ SendIfCond \/ ReadOcr("ocr2", "op2") \/ OpCond2 \/ ReadCcs
    \/ ReadOcr("ocr1", "op1") \/ OpCond1 \/ OpCondMmc
    \/ ClearDetect \/ SetBlockLen \/ ReadCsd

SlotNext == Initialize \/ Identifying \/ SecondPasses \/ NewCard

SlotSpec == SlotInit /\ [][SlotNext]_slotVars

\* The driver runs, and time passes.
SlotFairSpec == SlotSpec /\ WF_slotVars(Identifying) /\ WF_slotVars(SecondPasses)
-----------------------------------------------------------------------------
Initialized == step = "idle" /\ ~noinit

\* It is addressed the way it expects: by sectors if and only if it is one of
\* high capacity, whatever answers were lost on the way (the driver then takes a
\* card of version 2 for an older one).
RightAddressing == type = "SDHC" <=> kind = "SDHC"

\* It is a ready card of the right voltage, not an empty slot, nor a line that is
\* stuck at 0, where each answer says "ready".
IsCard == started /\ volt /\ kind \notin {"none", "stuck"}

\* Its number of sectors is the card's, or 0 for "unknown", which is also what 32
\* bits make of the few capacities of 2^32 bytes (old layout) and sectors (new).
SectorCount(c) == IF c.v = 2 THEN (c.size + 1) * 1024
           ELSE (c.size + 1) * 2^(c.mult + 2) * 2^(c.len - 9)
SectorsRight == sectors \in {0, SectorCount(csd)}

\* A card that was initialised is one, and is known for what it is.
CardKnown == Initialized => IsCard /\ RightAddressing /\ SectorsRight

\* Initialisation ends, also for a card that never gets ready.
InitializeReturns == step # "idle" ~> step = "idle"
=============================================================================
