---------------------------- MODULE DurableStore ----------------------------
(***************************************************************************)
(* What the file-backed server promises its clients, without locks, files  *)
(* or goroutines: updates are applied once, the disk moves from one moment *)
(* of the memory to a later one, an answer in sync mode comes after the    *)
(* disk has the update, and a new process begins with the last save or     *)
(* with nothing.                                                           *)
(***************************************************************************)
CONSTANT Requests

VARIABLES
    mode,     \* "sync", "periodic" or "off"
    up,       \* the process runs
    mem,      \* the requests applied
    disk,     \* those the last complete save held
    acked,    \* the requests answered with success
    excused,  \* the requests whose own save reported an error
    clean,    \* the process was shut down and has saved everything
    lossy     \* some start did not begin with the last save

vars == <<mode, up, mem, disk, acked, excused, clean, lossy>>

Init ==
    /\ mode \in {"sync", "periodic", "off"}
    /\ up = TRUE
    /\ clean = FALSE
    /\ lossy = FALSE
    /\ mem = {} /\ disk = {} /\ acked = {} /\ excused = {}

Apply(r) ==
    /\ up
    /\ r \notin acked
    /\ mem' = mem \cup {r}
    /\ UNCHANGED <<mode, up, disk, acked, excused, clean, lossy>>

\* A save completes: the disk now holds a later moment of the memory.
Persist ==
    /\ up
    /\ disk' \in SUBSET mem
    /\ disk \subseteq disk'
    /\ UNCHANGED <<mode, up, mem, acked, excused, clean, lossy>>

\* The save of a request that was applied fails; the server only logs it.
Excuse(r) ==
    /\ up
    /\ mode = "sync"
    /\ r \in mem
    /\ excused' = excused \cup {r}
    /\ UNCHANGED <<mode, up, mem, disk, acked, clean, lossy>>

Ack(r) ==
    /\ up
    /\ r \in mem
    /\ mode = "sync" => r \in disk \cup excused
    /\ acked' = acked \cup {r}
    /\ UNCHANGED <<mode, up, mem, disk, excused, clean, lossy>>

\* The process ends.  It may call that clean only when all is saved.
Stop ==
    /\ up
    /\ up' = FALSE
    /\ clean' \in BOOLEAN
    /\ clean' => disk = mem
    /\ UNCHANGED <<mode, mem, disk, acked, excused, lossy>>

\* A new process: all of the last save or nothing of it, never a part.  A
\* file that could not be read at one start may come back at a later one.
Recover(S) ==
    /\ ~up
    /\ S \in {disk, {}} \/ lossy
    /\ up' = TRUE
    /\ mem' = S
    /\ disk' = S
    /\ clean' = FALSE
    /\ lossy' = (lossy \/ S # disk)
    /\ UNCHANGED <<mode, acked, excused>>

Next ==
    \/ \E r \in Requests : Apply(r) \/ Excuse(r) \/ Ack(r)
    \/ Persist
    \/ Stop
    \/ \E S \in SUBSET Requests : Recover(S)

Spec == Init /\ [][Next]_vars
=============================================================================
