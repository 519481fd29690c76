----------------------------- MODULE SectorStore -----------------------------
(***************************************************************************)
(* What the access window of a FatFs volume promises to the code above it: *)
(* a map from metadata sectors to contents in which a read returns the     *)
(* last write (store), beside the contents that would survive a power cut  *)
(* now (dur).  Only what the running call asks for is written.  Sectors    *)
(* reach the disk one at a time, in any order; a synchronisation may       *)
(* report success only when nothing is left behind.                        *)
(***************************************************************************)
CONSTANTS Sect,    \* the sectors that are read and written through the window
          Val      \* their contents

VARIABLES store,   \* [Sect -> Val]: what a read returns
          dur,     \* [Sect -> Val]: what the disk holds
          asked,   \* the writes the running call asks for: <<sector, contents>>
          res      \* result of the operation that completed last

storeVars == <<store, dur, asked, res>>

Ok(s, v) == [st |-> "OK", sect |-> s, val |-> v]
Synced == [st |-> "SYNCED"]
Failed == [st |-> "DISK_ERR"]

StoreInit ==
    /\ store \in [Sect -> Val]
    /\ dur = store
    /\ asked = {}
    /\ res = Failed

\* The running call returns r.
Returns(r) == res' = r /\ asked' = {}

\* It goes on.
GoesOn == UNCHANGED <<res, asked>>

\* A call that writes begins.
Ask ==
    /\ asked = {} /\ asked' \in SUBSET (Sect \X Val)
    /\ UNCHANGED <<store, dur, res>>

\* A read that succeeds returns the sector's current contents.
Read(s) ==
    /\ Returns(Ok(s, store[s]))
    /\ UNCHANGED <<store, dur>>

\* Replace a sector's contents, in the store only.
Write(s, v) ==
    /\ <<s, v>> \in asked
    /\ store' = [store EXCEPT ![s] = v]
    /\ Returns(Ok(s, v)) \/ GoesOn
    /\ UNCHANGED dur

\* A call has written all it wants to.
Written ==
    /\ asked' = {}
    /\ UNCHANGED <<store, dur, res>>

\* One sector reaches the disk; the call it happens in may go on or fail.
Destage(s) ==
    /\ dur' = [dur EXCEPT ![s] = store[s]]
    /\ Returns(Failed) \/ GoesOn
    /\ UNCHANGED store

\* A call fails and changes nothing.
Fail ==
    /\ Returns(Failed)
    /\ UNCHANGED <<store, dur>>

\* A synchronisation succeeds: everything written is on the disk.
Sync ==
    /\ dur = store
    /\ Returns(Synced)
    /\ UNCHANGED <<store, dur>>

\* Power cut or new mount: what had not reached the disk is gone.
Lose ==
    /\ store' = dur
    /\ Returns(Failed)
    /\ UNCHANGED dur

StoreNext ==
    \/ \E s \in Sect : Read(s) \/ Destage(s)
    \/ \E s \in Sect, v \in Val : Write(s, v)
    \/ Ask \/ Written \/ Fail \/ Sync \/ Lose

StoreSpec == StoreInit /\ [][StoreNext]_storeVars
=============================================================================
