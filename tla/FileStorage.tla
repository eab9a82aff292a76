---------------------------- MODULE FileStorage ----------------------------
(***************************************************************************)
(* The server's file-backed storage and the life of the process around it: *)
(* request handlers (HTTP or gRPC) that update MemStorage, the saves of    *)
(* FileBackedStorage (after each update, by the periodic goroutine and in  *)
(* Close), the graceful shutdown of main, crashes and restarts with Load.  *)
(*                                                                         *)
(* Within one life of the process updates are only ever added, under the   *)
(* lock of MemStorage, so the set of the requests applied so far           *)
(* identifies one moment of the gauges and counters: "mem", and a snapshot *)
(* of it, are such sets.  A request that is a gauge set to NaN or Inf is   *)
(* in NonFinite; every request writes metrics of its own.                  *)
(***************************************************************************)
EXTENDS Naturals, FiniteSets

CONSTANTS
    Requests,      \* the update requests the server receives, each once
    NonFinite,     \* those that set a gauge to a value JSON cannot hold
    Restore,       \* cfg.Restore: Load on start
    MaxErrors,     \* bound: failing file operations
    MaxRestarts    \* bound: starts of the process after the first

ASSUME RequestsAssumption == /\ Requests \cap {"saver", "main", "free"} = {}
                             /\ NonFinite \subseteq Requests
ASSUME RestoreAssumption == Restore \in BOOLEAN
ASSUME BoundsAssumption == MaxErrors \in Nat /\ MaxRestarts \in Nat

VARIABLES
    storeInterval, \* cfg.StoreInterval: "sync" (0), "periodic" (> 0), "off" (< 0)
    status,     \* of the process: "running", "stopping", "closing", "down"
    exit,       \* how it ended: "none", "clean", "forced" or "crash"
    mem,        \* MemStorage: the requests applied
    mu,         \* holder of FileBackedStorage.mu, or "free"
    pc,         \* where each handler, the saver and main are
    snap,       \* the marshalled snapshot each of them is writing
    fileState,  \* of the file: "missing", "full" or "torn" (truncated)
    fileData,   \* what a full file holds
    saved,      \* history: what the last complete write of this life held
    acked,      \* history: the requests answered with success
    badSave,    \* history: whose last Save returned an error
    errors,     \* history: failing file operations so far
    restarts,   \* history: starts of the process after the first
    amnesia     \* history: a restart did not get back all that was saved

storeVars   == <<mem, mu, snap, badSave>>
fileVars    == <<fileState, fileData, saved>>
processVars == <<storeInterval, status, exit, restarts, amnesia>>
vars == <<pc, acked, errors, storeVars, fileVars, processVars>>

StoreIntervals == {"sync", "periodic", "off"}
Actors == Requests \cup {"saver", "main"}
Alive == status # "down"

\* A handler's request is not finished yet.
InFlight(r) == pc[r] \in {"handle", "lock", "marshal", "open", "write", "respond"}
\* json.MarshalIndent refuses NaN and the infinities.
Marshals(S) == S \cap NonFinite = {}

\* StartPeriodicSave is only called when the interval is positive.
SaverStart == IF storeInterval = "periodic" THEN "select" ELSE "done"

-----------------------------------------------------------------------------
(* The first start: no file yet.                                            *)
Init ==
    /\ storeInterval \in StoreIntervals
    /\ status = "running"
    /\ exit = "none"
    /\ mem = {}
    /\ mu = "free"
    /\ pc = [a \in Actors |-> IF a = "saver" THEN SaverStart
                              ELSE IF a = "main" THEN "wait" ELSE "new"]
    /\ snap = [a \in Actors |-> {}]
    /\ fileState = "missing"
    /\ fileData = {}
    /\ saved = {}
    /\ acked = {}
    /\ badSave = {}
    /\ errors = 0
    /\ restarts = 0
    /\ amnesia = FALSE

-----------------------------------------------------------------------------
(* Save.  An actor whose pc is "lock" has called it.                        *)

\* MUTANT of After: the periodic goroutine returns after its first Save.
AfterSaverReturns(a) ==
    CASE a = "saver" -> "done"
      [] a = "main" -> "return"
      [] OTHER -> "respond"

\* Where an actor goes on after Save: the handler answers, the saver loops,
\* main returns.
After(a) ==
    CASE a = "saver" -> "select"
      [] a = "main" -> "return"
      [] OTHER -> "respond"

\* MUTANT of SaveLock: Save does not take the mutex.
SaveLockSkipped(a) ==
    /\ Alive
    /\ pc[a] = "lock"
    /\ pc' = [pc EXCEPT ![a] = "marshal"]
    /\ UNCHANGED <<acked, errors, mem, mu, snap, badSave, fileVars, processVars>>

SaveLock(a) ==
    /\ Alive
    /\ pc[a] = "lock"
    /\ mu = "free"
    /\ mu' = a
    /\ pc' = [pc EXCEPT ![a] = "marshal"]
    /\ UNCHANGED <<acked, errors, mem, snap, badSave, fileVars, processVars>>

\* MUTANT of SaveMarshal: only what the last save did not hold is written.
SaveMarshalIncrement(a) ==
    /\ Alive
    /\ pc[a] = "marshal"
    /\ Marshals(mem)
    /\ snap' = [snap EXCEPT ![a] = mem \ saved]
    /\ pc' = [pc EXCEPT ![a] = "open"]
    /\ UNCHANGED <<acked, errors, mem, mu, badSave, fileVars, processVars>>

SaveMarshal(a) ==
    /\ Alive
    /\ pc[a] = "marshal"
    /\ Marshals(mem)
    /\ snap' = [snap EXCEPT ![a] = mem]
    /\ pc' = [pc EXCEPT ![a] = "open"]
    /\ UNCHANGED <<acked, errors, mem, mu, badSave, fileVars, processVars>>

\* os.WriteFile opens the file with O_TRUNC: what was there is gone.
SaveOpen(a) ==
    /\ Alive
    /\ pc[a] = "open"
    /\ fileState' = "torn"
    /\ fileData' = {}
    /\ pc' = [pc EXCEPT ![a] = "write"]
    /\ UNCHANGED <<acked, errors, saved, storeVars, processVars>>

SaveWrite(a) ==
    /\ Alive
    /\ pc[a] = "write"
    /\ fileState' = "full"
    /\ fileData' = snap[a]
    /\ saved' = snap[a]
    /\ mu' = "free"
    /\ snap' = [snap EXCEPT ![a] = {}]
    /\ badSave' = badSave \ {a}
    /\ pc' = [pc EXCEPT ![a] = After(a)]
    /\ UNCHANGED <<acked, errors, mem, processVars>>

\* MUTANT of SaveReturnsError: the early return forgets to unlock.
SaveReturnsErrorLocked(a) ==
    /\ snap' = [snap EXCEPT ![a] = {}]
    /\ badSave' = badSave \cup {a}
    /\ pc' = [pc EXCEPT ![a] = After(a)]
    /\ UNCHANGED <<acked, mem, mu, fileVars, processVars>>

\* Save returns an error: the deferred Unlock runs, the caller only logs.
SaveReturnsError(a) ==
    /\ mu' = "free"
    /\ snap' = [snap EXCEPT ![a] = {}]
    /\ badSave' = badSave \cup {a}
    /\ pc' = [pc EXCEPT ![a] = After(a)]
    /\ UNCHANGED <<acked, mem, fileVars, processVars>>

SaveMarshalFails(a) ==
    /\ Alive
    /\ pc[a] = "marshal"
    /\ ~Marshals(mem)
    /\ SaveReturnsError(a)
    /\ UNCHANGED errors

\* The open fails and leaves the file alone, or the write fails after it.
SaveFileFails(a) ==
    /\ Alive
    /\ pc[a] \in {"open", "write"}
    /\ errors < MaxErrors
    /\ errors' = errors + 1
    /\ SaveReturnsError(a)

Save(a) ==
    \/ SaveLock(a) \/ SaveMarshal(a) \/ SaveOpen(a) \/ SaveWrite(a)
    \/ SaveMarshalFails(a) \/ SaveFileFails(a)

-----------------------------------------------------------------------------
(* The handlers: UpdateMetric, UpdateMetricJSON, UpdateMetricsBatch and the *)
(* gRPC UpdateMetrics, down to the storage.                                 *)

\* The listeners accept until Shutdown and GracefulStop close them.
Receive(r) ==
    /\ status = "running"
    /\ pc[r] = "new"
    /\ pc' = [pc EXCEPT ![r] = "handle"]
    /\ UNCHANGED <<acked, errors, storeVars, fileVars, processVars>>

\* A request that does not validate changes nothing and is not saved.
Reject(r) ==
    /\ Alive
    /\ pc[r] = "handle"
    /\ pc' = [pc EXCEPT ![r] = "rejected"]
    /\ UNCHANGED <<acked, errors, storeVars, fileVars, processVars>>

\* MUTANT of Update: the service does not call notifyUpdate.
UpdateWithoutNotify(r) ==
    /\ Alive
    /\ pc[r] = "handle"
    /\ mem' = mem \cup {r}
    /\ pc' = [pc EXCEPT ![r] = "respond"]
    /\ UNCHANGED <<acked, errors, mu, snap, badSave, fileVars, processVars>>

\* The update of MemStorage and notifyUpdate, which saves when onUpdate is set.
Update(r) ==
    /\ Alive
    /\ pc[r] = "handle"
    /\ mem' = mem \cup {r}
    /\ pc' = [pc EXCEPT ![r] = IF storeInterval = "sync" THEN "lock" ELSE "respond"]
    /\ UNCHANGED <<acked, errors, mu, snap, badSave, fileVars, processVars>>

Respond(r) ==
    /\ Alive
    /\ pc[r] = "respond"
    /\ acked' = acked \cup {r}
    /\ pc' = [pc EXCEPT ![r] = "acked"]
    /\ UNCHANGED <<errors, storeVars, fileVars, processVars>>

-----------------------------------------------------------------------------
(* StartPeriodicSave: nobody waits for its goroutine.                       *)

SaverTick ==
    /\ Alive
    /\ pc["saver"] = "select"
    /\ pc' = [pc EXCEPT !["saver"] = "lock"]
    /\ UNCHANGED <<acked, errors, storeVars, fileVars, processVars>>

SaverStop ==
    /\ status \in {"stopping", "closing"}
    /\ pc["saver"] = "select"
    /\ pc' = [pc EXCEPT !["saver"] = "done"]
    /\ UNCHANGED <<acked, errors, storeVars, fileVars, processVars>>

-----------------------------------------------------------------------------
(* main: the signal, Shutdown with its budget of five seconds, g.Wait, and  *)
(* fileSt.Close, after which the process ends with whatever still runs.     *)

Signal ==
    /\ status = "running"
    /\ status' = "stopping"
    /\ UNCHANGED <<pc, acked, errors, storeVars, fileVars, storeInterval, exit, restarts, amnesia>>

\* g.Wait returns and Close calls Save.
StartClose(how) ==
    /\ status = "stopping"
    /\ status' = "closing"
    /\ exit' = how
    /\ pc' = [pc EXCEPT !["main"] = "lock"]
    /\ UNCHANGED <<acked, errors, storeVars, fileVars, storeInterval, restarts, amnesia>>

Drained == \A r \in Requests : ~InFlight(r)

\* MUTANT of ShutdownDone: Close does not wait for the handlers.
ShutdownNotAwaited == StartClose("clean")

ShutdownDone == Drained /\ StartClose("clean")

\* MUTANT of BudgetExpires: Shutdown is given a context without deadline.
BudgetNeverExpires == FALSE

\* shutdownCtx expires: the handlers that are left are not waited for.
BudgetExpires == ~Drained /\ StartClose("forced")

\* The process is gone: its goroutines, its mutex and its memory with it.
Die(how) ==
    /\ status' = "down"
    /\ exit' = how
    /\ mu' = "free"
    /\ pc' = [a \in Actors |->
                IF a \in {"saver", "main"} THEN "done"
                ELSE IF InFlight(a) THEN "lost" ELSE pc[a]]
    /\ snap' = [a \in Actors |-> {}]
    /\ UNCHANGED <<acked, errors, mem, badSave, fileVars, storeInterval, restarts, amnesia>>

Exit ==
    /\ status = "closing"
    /\ pc["main"] = "return"
    /\ Die(exit)

Crash == Alive /\ Die("crash")

\* A new process starts with the content S of its storage.
Start(S) ==
    /\ status = "down"
    /\ restarts < MaxRestarts
    /\ restarts' = restarts + 1
    /\ status' = "running"
    /\ exit' = "none"
    /\ mem' = S
    /\ saved' = S
    /\ amnesia' = (amnesia \/ S # saved)
    /\ badSave' = badSave \ {"saver", "main"}
    /\ pc' = [pc EXCEPT !["saver"] = SaverStart, !["main"] = "wait"]
    /\ UNCHANGED <<storeInterval, acked, mu, snap, fileState, fileData>>

\* Load: a missing file is no error and a torn one is not valid JSON; main
\* goes on with an empty storage either way.
Load == IF fileState = "full" THEN fileData ELSE {}

Restart == Start(IF Restore THEN Load ELSE {}) /\ UNCHANGED errors

\* os.ReadFile fails although the file is there.
RestartUnreadable ==
    /\ Restore
    /\ fileState # "missing"
    /\ errors < MaxErrors
    /\ errors' = errors + 1
    /\ Start({})

\* The process stays down.
Terminated == status = "down" /\ UNCHANGED vars

-----------------------------------------------------------------------------
Handle(r) == Receive(r) \/ Reject(r) \/ Update(r) \/ Respond(r) \/ Save(r)
Saver == SaverTick \/ SaverStop \/ Save("saver")
Main == ShutdownDone \/ BudgetExpires \/ Save("main") \/ Exit

Next ==
    \/ \E r \in Requests : Handle(r)
    \/ Saver
    \/ Main
    \/ Signal
    \/ Crash
    \/ Restart
    \/ RestartUnreadable
    \/ Terminated

Spec == Init /\ [][Next]_vars

(* Goroutines keep running, the ticker and the shutdown budget fire, and    *)
(* sync.Mutex does not starve a waiter.  A save waits for no client, so it  *)
(* goes on even in a handler.  Requests, signals, crashes and restarts need *)
(* not come.                                                                *)
ProcessFairness ==
    /\ WF_vars(Saver) /\ SF_vars(SaveLock("saver")) /\ SF_vars(SaverStop)
    /\ WF_vars(Main) /\ SF_vars(SaveLock("main"))
    /\ \A r \in Requests : WF_vars(Save(r))

HandlerFairness ==
    \A r \in Requests : WF_vars(pc[r] # "new" /\ Handle(r)) /\ SF_vars(SaveLock(r))

\* Elsewhere a handler may hang, on a client that does not read its answer
\* for example.
FairSpec == Spec /\ ProcessFairness
-----------------------------------------------------------------------------
ActorPCs == {"new", "handle", "lock", "marshal", "open", "write", "respond", "acked",
             "rejected", "lost", "select", "done", "wait", "return"}

TypeOK ==
    /\ storeInterval \in StoreIntervals
    /\ status \in {"running", "stopping", "closing", "down"}
    /\ exit \in {"none", "clean", "forced", "crash"}
    /\ mem \in SUBSET Requests
    /\ mu \in Actors \cup {"free"}
    /\ pc \in [Actors -> ActorPCs]
    /\ snap \in [Actors -> SUBSET Requests]
    /\ fileState \in {"missing", "full", "torn"}
    /\ fileData \in SUBSET Requests
    /\ saved \in SUBSET Requests
    /\ acked \in SUBSET Requests
    /\ badSave \in SUBSET Actors
    /\ errors \in Nat
    /\ restarts \in Nat
    /\ amnesia \in BOOLEAN

(* Concurrent saves never put an older snapshot over a newer one: within    *)
(* one life of the process what is on disk only grows.                      *)
SavesNeverRegress == [][restarts' = restarts => saved \subseteq saved']_vars

(* With a store interval of 0 an answered request is in every complete      *)
(* file: whatever else is going on, such a file holds every request that    *)
(* was answered and whose own save did not report an error, unless an       *)
(* earlier restart has already lost the content of the file.  A torn file   *)
(* is left out: a crash between the truncation and the write of any Save    *)
(* loses all that was answered before.                                      *)
SyncAckedOnDisk ==
    storeInterval = "sync" /\ ~amnesia /\ fileState = "full" =>
        acked \subseteq fileData \cup badSave

(* After a drained shutdown whose final save succeeded, a readable file     *)
(* holds everything that was in memory; without a periodic saver it always  *)
(* is readable.                                                             *)
CleanExitComplete ==
    status = "down" /\ exit = "clean" /\ "main" \notin badSave =>
        /\ fileState = "full" => fileData = mem
        /\ storeInterval # "periodic" => fileState = "full"

(* "The server must successfully save all unsaved data": a drained shutdown *)
(* without any file error leaves a readable file.                           *)
ExitFileIntact ==
    status = "down" /\ exit = "clean" /\ errors = 0 => fileState = "full"

(* When no handler hangs, every request the server has begun to handle gets *)
(* its answer, or the process ends; a failing save does not leave the mutex *)
(* locked.                                                                  *)
RequestsAnswered ==
    HandlerFairness => \A r \in Requests : pc[r] = "handle" ~> pc[r] \in {"acked", "rejected", "lost"}

(* What is in memory reaches the disk with a positive store interval, a     *)
(* failing save notwithstanding, unless the process ends first or a gauge   *)
(* that cannot be marshalled is in memory: from then on nothing is saved.   *)
EventuallySaved ==
    \A r \in Requests :
        storeInterval = "periodic" /\ r \in mem ~> r \in saved \/ status = "down" \/ ~Marshals(mem)

(* Once the signal is there the process ends, handlers that hang included.  *)
ShutdownExits == status = "stopping" ~> status = "down"

(* The abstract store of DurableStore, read off this state: its disk is the *)
(* last complete save, its stop is clean when a drained shutdown ended with *)
(* a successful save.                                                       *)
Durable == INSTANCE DurableStore WITH
    mode    <- storeInterval,
    up      <- Alive,
    disk    <- saved,
    excused <- badSave \cap Requests,
    clean   <- ~Alive /\ exit = "clean" /\ "main" \notin badSave,
    lossy   <- amnesia

(* The handlers, the saver and main, with the locking and the file steps of *)
(* every save, implement the store that DurableStore promises.              *)
ImplementsDurableStore == Durable!Spec
=============================================================================
