-------------------------------- MODULE SdCard --------------------------------
(***************************************************************************)
(* The block transfers of the SPI driver (SD/Seeed_sdcard_hal.cpp):        *)
(* sd_disk_read, sd_disk_write and sd_disk_ioctl(CTRL_SYNC) of a card that *)
(* has been initialised, one command, block or wait at a step, against a   *)
(* card that may refuse, not answer, reject data or stay busy.             *)
(*                                                                         *)
(* A busy card holds its line low, which the driver reads as 0: as "busy"  *)
(* where it waits (sdWait), as the answer "accepted" to any command.       *)
(***************************************************************************)
EXTENDS Integers

CONSTANTS
    Blocks,     \* the card's blocks
    Blank,      \* what an erased block holds
    Buffers,    \* what programs write, block by block
    MaxCount,   \* bound: the largest number of blocks transferred by a call
    MaxSlow,    \* bound: the same of a slow card
    Types,      \* the values of card->type: "CARD_SD", "CARD_MMC"
    Tries,      \* how often sdCommand sends a command (3)
    Faults,     \* commands, data and programming may fail
    SlowCards   \* whether the card may stay busy for longer than the driver waits

ASSUME BlockAssumption == Blocks \subseteq Nat
ASSUME BoundAssumption == {MaxCount, MaxSlow, Tries} \subseteq Nat /\ MaxSlow <= MaxCount
ASSUME TypeAssumption == Types \subseteq {"CARD_SD", "CARD_MMC"}
ASSUME ModeAssumption == Faults \in BOOLEAN /\ SlowCards \subseteq BOOLEAN
ASSUME BufferAssumption == \A b \in Buffers : 1 .. MaxCount \subseteq DOMAIN b

VARIABLES
    \* the card
    store,      \* its blocks
    prog,       \* the block it is programming, with its contents; or Nothing
    busy,       \* it holds the line low
    mode,       \* "tran", "send" blocks to the host or "recv" them
    cpos,       \* the block it sends or receives next
    nwr,        \* the blocks well written since the last write command (ACMD22)
    erase,      \* the number of blocks to erase before a write (ACMD23)
    fault,      \* an error it reports in its status (CMD13)
    \* the driver
    call,       \* "read", "write" or "sync", first block, count; card->type and
                \*   whether the card is a slow one, which are the same in all calls
    buf,        \* the caller's buffer
    pos,        \* blocks of it done: buffer, currentBuffer
    sec,        \* sector, currentSector
    left,       \* count, currentCount
    f,          \* failed attempts in a row
    try,        \* sdCommand's f
    late,       \* the time of the running wait is over
    token,      \* the card's answer to the last block of data
    pc,         \* where the call is; "idle" between calls
    res         \* the result of the last call

card == <<store, prog, busy, mode, cpos, nwr, erase, fault>>
place == <<pos, sec, left>>
vars == <<card, call, buf, place, f, try, late, token, pc, res>>

Nothing == <<>>
Accepted == 5       \* 0x05
Rejected == 10      \* 0x0A, which the driver takes for a CRC error
WriteError == 12    \* 0x0C, for a write error

\* What a card answers: 0x0B for a CRC error, 0x0D for a write error, as the SD
\* specification has it (xxx0sss1); the bytes that the driver looks for only where
\* the last bit of the answer, which nothing protects, is read wrongly.
CrcAnswers == {11, Rejected}
ErrorAnswers == {13, WriteError}
NoAnswer == 31      \* 0xFF & 0x1F: nobody listens
NotSent == 0        \* sdWriteBytes returns false: the card stayed busy

Multi == call.n > 1

\* A card that knows no ACMD22 and ACMD23.
MMC == call.type = "CARD_MMC"

Call(op, a, n) == [op |-> op, at |-> a, n |-> n, type |-> call.type, slow |-> call.slow]

Init ==
    /\ store = [b \in Blocks |-> Blank]
    /\ prog = Nothing /\ busy = FALSE /\ mode = "tran" /\ cpos = 0
    /\ nwr = 0 /\ erase = 0 /\ fault = FALSE
    /\ call \in [op : {"sync"}, at : {0}, n : {0}, type : Types, slow : SlowCards]
    /\ buf = <<>>
    /\ pos = 0 /\ sec = 0 /\ left = 0 /\ f = 0 /\ try = 0 /\ late = FALSE
    /\ token = NotSent /\ pc = "idle" /\ res = "OK"
-----------------------------------------------------------------------------
(* The card on its own *)

\* Programming a block ends, well or not.
Program ==
    /\ prog # Nothing
    /\ prog' = Nothing /\ busy' = FALSE
    /\ \/ /\ store' = [store EXCEPT ![prog.block] = prog.value]
          /\ nwr' = nwr + 1 /\ UNCHANGED fault
       \/ /\ Faults /\ fault' = TRUE
          /\ UNCHANGED <<store, nwr>>
    /\ UNCHANGED <<mode, cpos, erase, call, buf, place, f, try, late, token, pc, res>>

\* It is ready again after the stop token.
BusyEnds ==
    /\ busy /\ prog = Nothing
    /\ busy' = FALSE
    /\ UNCHANGED <<store, prog, mode, cpos, nwr, erase, fault>>
    /\ UNCHANGED <<call, buf, place, f, try, late, token, pc, res>>

CardWorks == Program \/ BusyEnds

\* The time runs out that the driver waits for a busy card, or for data.
TimePasses ==
    /\ pc # "idle" /\ ~late
    /\ \/ busy /\ call.slow
       \/ ~busy /\ pc = "data" /\ (Faults \/ mode # "send")
    /\ late' = TRUE
    /\ UNCHANGED <<card, call, buf, place, f, try, token, pc, res>>
-----------------------------------------------------------------------------
(* What the calls share *)

\* sdWait and sdSelectCard: the card is ready, or the time is over.
Waited == ~busy \/ late

Goto(p) == pc' = p /\ late' = FALSE /\ try' = 0

Return(r) ==
    /\ Goto("idle") /\ res' = r /\ token' = NotSent
    /\ f' = 0 /\ pos' = 0 /\ sec' = 0 /\ left' = 0

Commands == {"command", "erasecount", "stop", "written", "status"}

\* sdCommand finds no answer, or a CRC error: it waits and sends again.
CommandAgain ==
    /\ pc \in Commands /\ Waited /\ ~busy /\ Faults /\ try + 1 < Tries
    /\ try' = try + 1 /\ late' = FALSE
    /\ UNCHANGED <<card, call, buf, place, f, token, pc, res>>

\* The number of failed attempts that ends a call.
Attempts == 3

\* Mutant: the buffer is not taken back to the sector that is written again.
ResumeDataAhead(w) ==
    /\ pos' = pos /\ sec' = call.at + w /\ left' = call.n - w
    /\ Goto(IF MMC THEN "command" ELSE "erasecount")

\* sdWriteSectors goes on after the w blocks that the card reports.
Resume(w) ==
    /\ pos' = w /\ sec' = call.at + w /\ left' = call.n - w
    /\ Goto(IF MMC THEN "command" ELSE "erasecount")

\* After a rejected block: three rejections in a row end the call.
Restart(w) == IF f < Attempts
              THEN Resume(w) /\ UNCHANGED <<f, token, res>>
              ELSE Return("ERROR")

\* sdCommand returns another answer than 0: the call fails.  Without the number
\* of written blocks it starts from the first one.
CommandFails ==
    /\ pc \in Commands /\ Waited /\ ~busy
    /\ Faults \/ mode # "tran"
    /\ IF pc = "written" THEN Restart(0) ELSE Return("ERROR")
    /\ UNCHANGED <<card, call, buf>>

\* A call has failed once more: another attempt from p on, or none.
AgainFrom(p) ==
    IF f + 1 < Attempts THEN f' = f + 1 /\ Goto(p) /\ UNCHANGED <<place, token, res>>
                        ELSE Return("ERROR")
-----------------------------------------------------------------------------
(* sdReadSector, sdReadSectors *)

DiskRead(a, n) ==
    /\ pc = "idle"
    /\ call' = Call("read", a, n)
    /\ buf' = [i \in 1 .. n |-> Blank]
    /\ pos' = 0 /\ sec' = a /\ left' = n /\ f' = 0
    /\ Goto("command")
    /\ UNCHANGED <<card, token, res>>

\* CMD17, CMD18.  A busy card does not take the command; its 0 looks as if.
ReadCommand ==
    /\ pc = "command" /\ call.op = "read" /\ Waited
    /\ \/ busy /\ UNCHANGED <<mode, cpos>>
       \/ ~busy /\ mode' = "send" /\ cpos' = sec
    /\ Goto("data")
    /\ UNCHANGED <<store, prog, busy, nwr, erase, fault>>
    /\ UNCHANGED <<call, buf, place, f, token, res>>

\* Mutant: the sector stays the same when a block has been read.
ReadBlockStays ==
    /\ pc = "data" /\ ~busy /\ mode = "send" /\ cpos \in Blocks
    /\ buf' = [buf EXCEPT ![pos + 1] = store[cpos]]
    /\ cpos' = cpos + 1
    /\ IF Multi
       THEN /\ pos' = pos + 1 /\ sec' = sec /\ left' = left - 1 /\ f' = 0
            /\ Goto(IF left = 1 THEN "stop" ELSE "data")
            /\ UNCHANGED <<mode, token, res>>
       ELSE mode' = "tran" /\ Return("OK")
    /\ UNCHANGED <<store, prog, busy, nwr, erase, fault, call>>

\* sdReadBytes: a block arrives.
ReadBlock ==
    /\ pc = "data" /\ ~busy /\ mode = "send" /\ cpos \in Blocks
    /\ buf' = [buf EXCEPT ![pos + 1] = store[cpos]]
    /\ cpos' = cpos + 1
    /\ IF Multi
       THEN /\ pos' = pos + 1 /\ sec' = sec + 1 /\ left' = left - 1 /\ f' = 0
            /\ Goto(IF left = 1 THEN "stop" ELSE "data")
            /\ UNCHANGED <<mode, token, res>>
       ELSE mode' = "tran" /\ Return("OK")
    /\ UNCHANGED <<store, prog, busy, nwr, erase, fault, call>>

\* Mutant: a failed block of a single read does not count as an attempt.
ReadBlockFailsForever ==
    /\ pc = "data"
    /\ busy \/ late \/ Faults \/ cpos \notin Blocks
    /\ mode' = IF Multi THEN mode ELSE "tran"
    /\ IF Multi THEN f' = f + 1 /\ Goto("stop") /\ UNCHANGED <<place, token, res>>
                ELSE Goto("command") /\ UNCHANGED <<f, place, token, res>>
    /\ UNCHANGED <<store, prog, busy, cpos, nwr, erase, fault, call, buf>>

\* sdReadBytes: another token than 0xFE, or none in time.
ReadBlockFails ==
    /\ pc = "data"
    /\ busy \/ late \/ Faults \/ cpos \notin Blocks
    /\ mode' = IF Multi THEN mode ELSE "tran"
    /\ IF Multi THEN f' = f + 1 /\ Goto("stop") /\ UNCHANGED <<place, token, res>>
                ELSE AgainFrom("command")
    /\ UNCHANGED <<store, prog, busy, cpos, nwr, erase, fault, call, buf>>

\* CMD12 after a multiple read: done, or another attempt for the rest.
StopRead ==
    /\ pc = "stop" /\ call.op = "read"
    /\ mode' = IF busy THEN mode ELSE "tran"
    /\ IF left = 0 THEN Return("OK")
       ELSE IF f < Attempts THEN Goto("command") /\ UNCHANGED <<f, place, token, res>>
       ELSE Return("ERROR")
    /\ UNCHANGED <<store, prog, busy, cpos, nwr, erase, fault, call, buf>>
-----------------------------------------------------------------------------
(* sdWriteSector, sdWriteSectors *)

DiskWrite(a, n, b) ==
    /\ pc = "idle"
    /\ call' = Call("write", a, n)
    /\ buf' = [i \in 1 .. n |-> b[i]]
    /\ pos' = 0 /\ sec' = a /\ left' = n /\ f' = 0
    /\ Goto(IF n > 1 /\ ~MMC THEN "erasecount" ELSE "command")
    /\ UNCHANGED <<card, token, res>>

\* Mutant: the blocks of the whole call are announced, not those that are left.
EraseCountAll ==
    /\ pc = "erasecount" /\ Waited
    /\ erase' = IF busy THEN erase ELSE call.n
    /\ Goto("command")
    /\ UNCHANGED <<store, prog, busy, mode, cpos, nwr, fault>>
    /\ UNCHANGED <<call, buf, place, f, token, res>>

\* ACMD23: the card may erase that many blocks when it gets a multiple write.
EraseCount ==
    /\ pc = "erasecount" /\ Waited
    /\ erase' = IF busy THEN erase ELSE left
    /\ Goto("command")
    /\ UNCHANGED <<store, prog, busy, mode, cpos, nwr, fault>>
    /\ UNCHANGED <<call, buf, place, f, token, res>>

\* CMD24, CMD25.
WriteCommand ==
    /\ pc = "command" /\ call.op = "write" /\ Waited
    /\ \/ busy /\ UNCHANGED <<store, mode, cpos, nwr, erase>>
       \/ /\ ~busy /\ mode' = "recv" /\ cpos' = sec /\ nwr' = 0 /\ erase' = 0
          /\ \/ UNCHANGED store
             \/ Multi /\ store' = [b \in Blocks |-> IF b \in sec .. sec + erase - 1
                                                    THEN Blank ELSE store[b]]
    /\ Goto("send")
    /\ UNCHANGED <<prog, busy, fault, call, buf, place, f, token, res>>

\* What the driver makes of the answer t to a block of data.
Answered(t) ==
    IF Multi
    THEN /\ token' = t
         /\ IF t = Accepted
            THEN /\ pos' = pos + 1 /\ left' = left - 1 /\ f' = 0
                 /\ Goto(IF left = 1 THEN "ready" ELSE "send")
            ELSE f' = f + 1 /\ Goto("ready") /\ UNCHANGED <<pos, left>>
         /\ UNCHANGED <<sec, res>>
    ELSE \/ t = Rejected /\ AgainFrom("command")
         \/ t = WriteError /\ Return("ERROR")
         \/ /\ t \notin {Rejected, WriteError}
            /\ token' = t
            /\ Goto("status") /\ UNCHANGED <<place, f, res>>

\* The block to send; behind the caller's buffer there may be anything.
Data == IF pos < call.n THEN buf[pos + 1] ELSE Blank

\* The card takes a block and programs it.
SendBlock ==
    /\ pc = "send" /\ ~busy /\ mode = "recv" /\ ~fault /\ cpos \in Blocks
    /\ prog' = [block |-> cpos, value |-> Data] /\ busy' = TRUE
    /\ cpos' = cpos + 1
    /\ mode' = IF Multi THEN "recv" ELSE "tran"
    /\ Answered(Accepted)
    /\ UNCHANGED <<store, nwr, erase, fault, call, buf>>

\* The card does not take it: nothing of it is kept, and CMD13 reports no error.
BlockRejected ==
    /\ pc = "send" /\ ~busy /\ mode = "recv" /\ Faults
    /\ mode' = IF Multi THEN "recv" ELSE "tran"
    /\ \E t \in CrcAnswers : Answered(t)
    /\ UNCHANGED <<store, prog, busy, cpos, nwr, erase, fault, call, buf>>

BlockWriteError ==
    /\ pc = "send" /\ ~busy /\ mode = "recv"
    /\ Faults \/ fault \/ cpos \notin Blocks
    /\ mode' = IF Multi THEN "recv" ELSE "tran"
    /\ fault' = TRUE
    /\ \E t \in ErrorAnswers : Answered(t)
    /\ UNCHANGED <<store, prog, busy, cpos, nwr, erase, call, buf>>

\* The card has not taken the write command and ignores the data.
BlockIgnored ==
    /\ pc = "send" /\ ~busy /\ mode # "recv"
    /\ Answered(NoAnswer)
    /\ UNCHANGED <<card, call, buf>>

\* The card stays busy: the block is not sent.
BlockNotSent ==
    /\ pc = "send" /\ busy /\ late
    /\ Answered(NotSent)
    /\ UNCHANGED <<card, call, buf>>

\* The wait after the loop; sdStop when all blocks have been sent.
AfterBlocks ==
    /\ pc = "ready" /\ Waited
    /\ IF busy THEN Return("ERROR") /\ UNCHANGED <<busy, mode>>
       ELSE /\ IF left = 0
               THEN Goto("status") /\ mode' = "tran" /\ busy' = TRUE
               ELSE Goto("stop") /\ UNCHANGED <<busy, mode>>
            /\ UNCHANGED <<place, f, token, res>>
    /\ UNCHANGED <<store, prog, cpos, nwr, erase, fault, call, buf>>

\* CMD12 after a block that was not accepted: only a rejected one is sent again.
StopWrite ==
    /\ pc = "stop" /\ call.op = "write"
    /\ mode' = IF busy THEN mode ELSE "tran"
    /\ IF token # Rejected THEN Return("ERROR")
       ELSE IF MMC THEN Restart(0)
       ELSE Goto("written") /\ UNCHANGED <<f, place, token, res>>
    /\ UNCHANGED <<store, prog, busy, cpos, nwr, erase, fault, call, buf>>

\* ACMD22 and the four bytes of its answer.
Written ==
    /\ pc = "written" /\ Waited
    /\ \/ ~busy /\ Restart(nwr)
       \/ (busy \/ Faults) /\ Restart(0)
    /\ UNCHANGED <<card, call, buf>>

\* Mutant: the card's status is not looked at.
StatusIgnored ==
    /\ pc = "status" /\ Waited
    /\ \/ busy /\ Return("OK") /\ UNCHANGED fault
       \/ ~busy /\ fault' = FALSE /\ Return("OK")
    /\ UNCHANGED <<store, prog, busy, mode, cpos, nwr, erase, call, buf>>

\* CMD13: the status of a busy card reads as 0 as well.
Status ==
    /\ pc = "status" /\ Waited
    /\ \/ busy /\ Return("OK") /\ UNCHANGED fault
       \/ ~busy /\ fault' = FALSE /\ Return(IF fault THEN "ERROR" ELSE "OK")
    /\ UNCHANGED <<store, prog, busy, mode, cpos, nwr, erase, call, buf>>
-----------------------------------------------------------------------------
(* sd_disk_ioctl(CTRL_SYNC) *)

DiskSync ==
    /\ pc = "idle"
    /\ call' = Call("sync", 0, 0)
    /\ Goto("select")
    /\ UNCHANGED <<card, buf, place, f, token, res>>

\* sdSelectCard returns true whatever sdWait says.
SyncEnds ==
    /\ pc = "select" /\ Waited
    /\ Return("OK")
    /\ UNCHANGED <<card, call, buf>>
-----------------------------------------------------------------------------
Start ==
    \/ DiskSync
    \/ \E a \in Blocks, n \in 1 .. IF call.slow THEN MaxSlow ELSE MaxCount :
          /\ a .. a + n - 1 \subseteq Blocks
          /\ DiskRead(a, n) \/ \E b \in Buffers : DiskWrite(a, n, b)

Reading == ReadCommand \/ ReadBlock \/ ReadBlockFails \/ StopRead
Writing == EraseCount \/ WriteCommand \/ SendBlock \/ BlockWriteError
           \/ BlockIgnored \/ BlockNotSent \/ AfterBlocks \/ StopWrite
           \/ Written \/ Status
Driver == CommandAgain \/ CommandFails \/ Reading \/ Writing \/ BlockRejected \/ SyncEnds

Next == Start \/ Driver \/ CardWorks \/ TimePasses

Spec == Init /\ [][Next]_vars

\* The driver runs, and each wait ends: the card becomes ready, or the time is
\* over.  Nothing else is assumed of the card.
FairSpec == Spec /\ WF_vars(Driver) /\ WF_vars(CardWorks \/ TimePasses)
-----------------------------------------------------------------------------
Ends(op) == pc # "idle" /\ pc' = "idle" /\ call.op = op /\ res' = "OK"

\* "0: Successful" (diskio.h:22), of sd_disk_write: each block of the call is on the
\* card, or in the card on its way there.  The code does not keep it: a block that
\* the card answers with 0x0B, or never gets because it stays busy, is none of the
\* cases of sdWriteSector, which then asks for the status and reports success.
WriteReported ==
    [][Ends("write") =>
          \A i \in 1 .. call.n :
             \/ store'[call.at + i - 1] = buf[i]
             \/ prog' = [block |-> call.at + i - 1, value |-> buf[i]]]_vars

\* What remains of it: unless a wait for the busy card has run out of time, a
\* multiple write that reports success has programmed each of its blocks, whatever
\* was lost, rejected or sent again before; and a single write has if the card
\* accepted the block it was sent last.
AcceptedIsWritten ==
    [][Ends("write") /\ ~call.slow /\ (Multi \/ token = Accepted) =>
          \A i \in 1 .. call.n : store'[call.at + i - 1] = buf[i]]_vars

\* The same of sd_disk_read: the program has the blocks it asked for, in order,
\* although a multiple read goes on in the middle after an error.
ReadReported ==
    [][Ends("read") => \A i \in 1 .. call.n : buf'[i] = store[call.at + i - 1]]_vars

\* A write changes the call's blocks only, each to what the caller has for it,
\* or to blank: neither restarting nor the count of blocks to erase reaches
\* beyond them.
OnlyOwnBlocks ==
    [][\A b \in Blocks : store'[b] # store[b] /\ ~call.slow =>
          /\ call.op = "write" /\ b \in call.at .. call.at + call.n - 1
          /\ store'[b] \in {Blank, buf[b - call.at + 1]}]_vars

\* No more blocks are sent than the caller's buffer has: the count that the loop
\* runs down to 0 is never 0 when it starts.
StaysInBuffer == pc = "send" /\ ~call.slow => pos < call.n

\* Every call returns, if the card stops rejecting data some day: waits and
\* attempts are bounded.  (It may go on for ever without that: sdWriteSectors
\* clears its counter for each accepted block, also for those that it sends
\* again.)
CallsReturn ==
    (<>[][~BlockRejected]_vars) => (pc # "idle" ~> pc = "idle")
=============================================================================
