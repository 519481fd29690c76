---------------------------- MODULE FileHandles ----------------------------
(***************************************************************************)
(* File variables of a program and the objects they point to               *)
(* (Seeed_FS.cpp, class File): a FIL of an open file, a DIR of an open       *)
(* directory and the FILINFO that openNextFile allocates.  A File is three  *)
(* pointers that are copied without counting, its destructor does nothing,  *)
(* and memory that was freed is allocated again.                           *)
(*                                                                         *)
(* Programs do what they like: they copy Files and go on with all of them,  *)
(* close them or not, and use them after that.  What a program does behind  *)
(* a use of freed memory is undefined, and the model stops there.  What     *)
(* FS::open and f_readdir find on the volume is any outcome.               *)
(***************************************************************************)
EXTENDS Integers, FiniteSets

CONSTANTS
    Vars,       \* File variables of the program
    Addresses   \* addresses of the heap, which is as large as the program needs

Null == "NULL"

ASSUME HeapAssumption == Null \notin Addresses /\ IsFiniteSet(Addresses)

VARIABLES
    heap,       \* kind of each object that is allocated, "free" of the others
    ptr,        \* the pointers of each File: _file, _dir, _fno
    stale,      \* history: the pointers of each File whose object has been freed
    shared,     \* history: Files that were copied, or are copies of others
    lost,       \* history: objects whose last File went out of scope with them
    misused     \* history: freed memory was used, or freed again

handleVars == <<heap, ptr, stale, shared, lost, misused>>

Fields == {"file", "dir", "fno"}
Kind == [file |-> "FIL", dir |-> "DIR", fno |-> "FILINFO"]
Empty == [k \in Fields |-> Null]

HandlesInit ==
    /\ heap = [o \in Addresses |-> "free"]
    /\ ptr = [v \in Vars |-> Empty]
    /\ stale = [v \in Vars |-> {}]
    /\ shared = {} /\ lost = {} /\ misused = FALSE

Held(p) == {p[k] : k \in Fields} \ {Null}
IsOpen(p) == p["file"] # Null \/ p["dir"] # Null        \* File::operator bool

\* The objects that a File holds, apart from those that are there no more.
Owned(v) == {ptr[v][k] : k \in Fields \ stale[v]} \ {Null}

\* An operation that looks behind the given pointers of v, and then does A.
Using(v, pointers, A) ==
    IF stale[v] \cap pointers = {}
    THEN A /\ UNCHANGED misused
    ELSE misused' = TRUE /\ UNCHANGED <<heap, ptr, stale, shared, lost>>

\* Of the pointers p, some of which were stale, those that are when the objects
\* freed are gone.
StaleOf(p, were, freed) == {k \in Fields : p[k] # Null /\ (k \in were \/ p[k] \in freed)}
-----------------------------------------------------------------------------
(* Closing *)

\* Mutant: the FILINFO is not deleted.
DeletedNoFno(p) == Held(p) \ {p["fno"]}

\* What File::close deletes.
Deleted(p) == Held(p)

\* Mutant: _dir keeps its value as well.
AfterCloseKeepsDir(p) == [Empty EXCEPT !["fno"] = p["fno"], !["dir"] = p["dir"]]

\* _fno keeps its value.
AfterClose(p) == [Empty EXCEPT !["fno"] = p["fno"]]

\* The objects of the File q are deleted and the objects new are allocated; v gets
\* the pointers p, of which were are stale before.
Replace(q, new, v, p, were) ==
    /\ heap' = [o \in Addresses |-> IF o \in Deleted(q) THEN "free"
                                    ELSE IF o \in DOMAIN new THEN new[o] ELSE heap[o]]
    /\ stale' = [x \in Vars |-> IF x = v THEN StaleOf(p, were, Deleted(q))
                                ELSE StaleOf(ptr[x], stale[x], Deleted(q))]

CloseFile(v) ==
    Using(v, Fields,
          /\ Replace(ptr[v], <<>>, v, AfterClose(ptr[v]), {})
          /\ ptr' = [ptr EXCEPT ![v] = AfterClose(@)]
          /\ UNCHANGED <<shared, lost>>)

\* v = w, operator=: v is closed, which may free what w holds, and takes w's
\* pointers.  A copy by the constructor, also of an argument, has a v that is empty.
Copy(v, w) ==
    /\ v # w
    /\ Using(v, Fields,
             /\ Replace(ptr[v], <<>>, v, ptr[w], stale[w])
             /\ ptr' = [ptr EXCEPT ![v] = ptr[w]]
             /\ shared' = shared \cup {v, w}
             /\ UNCHANGED lost)

\* v = v; nothing happens.
AssignSelf(v) == v \in Vars /\ UNCHANGED handleVars

\* The File goes out of scope: the destructor closes nothing.
ScopeEnds(v) ==
    /\ ptr' = [ptr EXCEPT ![v] = Empty]
    /\ stale' = [stale EXCEPT ![v] = {}]
    /\ shared' = shared \ {v}
    /\ lost' = lost \cup (Owned(v) \ UNION {Owned(w) : w \in Vars \ {v}})
    /\ UNCHANGED <<heap, misused>>
-----------------------------------------------------------------------------
(* Opening *)

Fresh == {o \in Addresses : heap[o] = "free"}

\* What a call opens at the address o: a file, a directory or nothing.
Found(found, o) == [k \in Fields |-> IF Kind[k] = found /\ k # "fno" THEN o ELSE Null]

\* v = SD.open(path, mode), which allocates before v is closed.
OpenPath(v, found, o) ==
    /\ found # "none" => o \in Fresh
    /\ Using(v, Fields,
             /\ Replace(ptr[v], [x \in Held(Found(found, o)) |-> found], v, Found(found, o), {})
             /\ ptr' = [ptr EXCEPT ![v] = Found(found, o)]
             /\ shared' = shared \ {v}
             /\ UNCHANGED lost)

\* v = d.openNextFile(mode): the FILINFO is allocated once and used with the DIR,
\* if there is one: f_readdir of NULL fails.  The object found is opened; or v
\* becomes empty at the end of the directory, for an error or without a DIR.
OpenNextFile(v, d, n, found, o) ==
    LET listing == [ptr[d] EXCEPT !["fno"] = n]
        q == IF v = d THEN listing ELSE ptr[v]
        first == IF ptr[d]["fno"] = Null THEN {n} ELSE {}
        new == [x \in first \cup Held(Found(found, o)) |-> IF x \in first THEN "FILINFO" ELSE found]
    IN  /\ IF ptr[d]["fno"] = Null THEN n \in Fresh ELSE n = ptr[d]["fno"]
        /\ found # "none" => ptr[d]["dir"] # Null /\ o \in Fresh \ {n}
        /\ Using(d, IF ptr[d]["dir"] # Null THEN {"dir", "fno"} ELSE {},
              Using(v, Fields,
                 /\ Replace(q, new, v, Found(found, o), {})
                 /\ ptr' = [ptr EXCEPT ![d] = listing, ![v] = Found(found, o)]
                 /\ shared' = shared \ {v}
                 /\ UNCHANGED lost))
-----------------------------------------------------------------------------
(* Using *)

\* read, write, peek, gets, seek, position, available and flush do nothing when
\* _file is NULL, and otherwise use the FIL.
UseFile(v) == Using(v, {"file"}, UNCHANGED <<heap, ptr, stale, shared, lost>>)

\* size does not look whether there is a file; programs ask it of open files.
Size(v) == ptr[v]["file"] # Null /\ UseFile(v)

\* isDirectory looks at the pointers only; rewindDirectory uses the DIR.
RewindDirectory(v) == Using(v, {"dir"}, UNCHANGED <<heap, ptr, stale, shared, lost>>)
-----------------------------------------------------------------------------
HandlesNext ==
    /\ ~misused
    /\ \E v \in Vars :
          \/ CloseFile(v) \/ AssignSelf(v) \/ ScopeEnds(v)
          \/ \E w \in Vars : Copy(v, w)
          \/ \E found \in {"none", "FIL", "DIR"}, o \in Addresses :
                \/ OpenPath(v, found, o)
                \/ \E d \in Vars, n \in Addresses : OpenNextFile(v, d, n, found, o)
          \/ UseFile(v) \/ Size(v) \/ RewindDirectory(v)

HandlesSpec == HandlesInit /\ [][HandlesNext]_handleVars
-----------------------------------------------------------------------------
\* What a File that was never copied keeps: open, it has no pointer to memory that was
\* freed, by whatever the program has done with other Files; closed, no other than
\* _fno.  So freed memory is used through copies of which one was closed, or through
\* a File that was closed behind openNextFile and is closed or assigned once more.
StaleByCopy ==
    \A v \in Vars \ shared : stale[v] # {} => stale[v] = {"fno"} /\ ~IsOpen(ptr[v])

\* Nothing else is wrong with any File: a pointer that is not stale leads to a live
\* object of its kind, although memory is allocated again; and each object that is
\* allocated has such a pointer to it, or went out of scope with its last File.
HandlesSafe ==
    /\ \A v \in Vars : \A k \in Fields \ stale[v] :
          ptr[v][k] # Null => ptr[v][k] \in Addresses /\ heap[ptr[v][k]] = Kind[k]
    /\ {o \in Addresses : heap[o] # "free"} = lost \cup UNION {Owned(v) : v \in Vars}
=============================================================================
