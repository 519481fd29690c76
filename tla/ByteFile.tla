------------------------------- MODULE ByteFile -------------------------------
(***************************************************************************)
(* What an open file promises to the program that uses it: a sequence of   *)
(* bytes with a pointer, moved by reads, writes and seeks.  A call hands   *)
(* bytes over in pieces and may stop early; after an error the file must   *)
(* be closed, and what it holds is not known any more.                     *)
(***************************************************************************)
EXTENDS Integers, Sequences

CONSTANT Byte

VARIABLES bytes,  \* the contents
          pos,    \* the read/write pointer
          state,  \* "open", "failed" (until it is closed), "closed" or "lost"
          io      \* the bytes the last step passed to or from the program

fileVars == <<bytes, pos, state, io>>

FileInit == bytes = <<>> /\ pos = 0 /\ state = "closed" /\ io = <<>>

\* The contents with the bytes w written over them, or past them, from p on.
Overlay(w, p) ==
    [i \in 1 .. IF Len(bytes) > p + Len(w) THEN Len(bytes) ELSE p + Len(w) |->
        IF i \in p + 1 .. p + Len(w) THEN w[i - p] ELSE bytes[i]]

\* Open the existing file, at its start or its end.
Open(atEnd) ==
    /\ state \in {"closed", "lost"}
    /\ state = "closed" => bytes' = bytes
    /\ pos' = IF atEnd THEN Len(bytes') ELSE 0
    /\ state' = "open" /\ io' = <<>>

\* Create the file, or empty it.
Create ==
    /\ state \in {"closed", "lost"}
    /\ bytes' = <<>> /\ pos' = 0 /\ state' = "open" /\ io' = <<>>

\* k bytes at the pointer are handed over.
Deliver(k) ==
    /\ state = "open" /\ pos + k <= Len(bytes)
    /\ io' = SubSeq(bytes, pos + 1, pos + k)
    /\ pos' = pos + k
    /\ UNCHANGED <<bytes, state>>

\* Bytes of the program are written at the pointer.
Take ==
    /\ state = "open" /\ io' # <<>>
    /\ bytes' = Overlay(io', pos)
    /\ pos' = pos + Len(io')
    /\ UNCHANGED state

\* The pointer moves; the file may grow by bytes nobody has written.
Move ==
    /\ state = "open"
    /\ Len(bytes') >= Len(bytes) /\ SubSeq(bytes', 1, Len(bytes)) = bytes
    /\ pos' \in 0 .. Len(bytes') /\ io' = <<>>
    /\ UNCHANGED state

\* The file ends at the pointer.
Cut ==
    /\ state = "open"
    /\ bytes' = SubSeq(bytes, 1, pos) /\ io' = <<>>
    /\ UNCHANGED <<pos, state>>

\* A call fails for good.
Fail ==
    /\ state = "open"
    /\ state' = "failed" /\ bytes' = <<>> /\ pos' = 0 /\ io' = <<>>

\* The file is closed: its contents are kept, or lost after an error.
Close ==
    /\ state \in {"open", "failed"} /\ pos' = 0 /\ io' = <<>>
    /\ \/ state = "open" /\ state' = "closed" /\ UNCHANGED bytes
       \/ state' = "lost" /\ bytes' = <<>>

\* Opening it fails: nothing happens, or emptying it was begun.
OpenFails ==
    /\ state \in {"closed", "lost"}
    /\ pos' = 0 /\ io' = <<>>
    /\ \/ UNCHANGED <<bytes, state>>
       \/ state' = "lost" /\ bytes' = <<>>

FileNext ==
    \/ \E atEnd \in BOOLEAN : Open(atEnd)
    \/ \E k \in 1 .. Len(bytes) : Deliver(k)
    \/ Take \/ Create \/ Move \/ Cut \/ Fail \/ Close \/ OpenFails

FileSpec == FileInit /\ [][FileNext]_fileVars
=============================================================================
