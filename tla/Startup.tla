------------------------------ MODULE Startup ------------------------------
(***************************************************************************)
(* The start of the server, from the configuration of Config to the point  *)
(* where it serves, and to its end: the choice of the storage with its     *)
(* fallbacks, Load, the mode of saving, the steps that end the process,    *)
(* and the final save.  What is served is in FileStorage, DBStorage and    *)
(* Handlers; here a save is only told apart by whether the stored metrics  *)
(* are in what it writes.                                                  *)
(***************************************************************************)
EXTENDS Config

VARIABLES
    storage,     \* "none", "db", "file" or "mem"
    loaded,      \* Load has read the file
    http,        \* of the HTTP listener: "none", "open" or "failed"
    grpc,        \* of the gRPC listener: "none", "open" or "off"
    saving,      \* who is writing the file: "nobody", "saver", "handler" or "main"
    fileData,    \* the file: "missing", "corrupt", "data" (with the metrics stored
                 \* before the start), "fresh" (without them) or "torn" (truncated)
    stored,      \* history: the file had data at the start
    loadFailed,  \* history: Load has returned an error
    writeFailed  \* history: the last save could not write what it had truncated

fileVars == <<saving, fileData, stored, writeFailed>>
serverVars == <<storage, loaded, loadFailed, http, grpc, fileVars>>
vars == <<configVars, serverVars>>

Init ==
    /\ ConfigInit
    /\ storage = "none"
    /\ loaded = FALSE
    /\ http = "none"
    /\ grpc = "none"
    /\ saving = "nobody"
    /\ fileData \in IF input.program = "server" THEN {"missing", "corrupt", "data"} ELSE {"missing"}
    /\ stored = (fileData = "data")
    /\ loadFailed = FALSE
    /\ writeFailed = FALSE

\* NewDBStorage: the database answers and is migrated.
ConnectDB ==
    /\ input.program = "server"
    /\ phase = "parsed"
    /\ Set("DatabaseDSN")
    /\ phase' = "storage"
    /\ storage' = "db"
    /\ UNCHANGED <<input, pos, given, cfg, loaded, loadFailed, http, grpc, fileVars>>

\* Connect or Migrate fails, which is a warning.
ConnectFails ==
    /\ input.program = "server"
    /\ phase = "parsed"
    /\ Set("DatabaseDSN")
    /\ phase' = "storage"
    /\ UNCHANGED <<input, pos, given, cfg, serverVars>>

WithoutDB ==
    /\ input.program = "server"
    /\ phase = "parsed"
    /\ ~Set("DatabaseDSN")
    /\ phase' = "storage"
    /\ UNCHANGED <<input, pos, given, cfg, serverVars>>

\* MUTANT of ChooseStorage: Load is left to the first request.
ChooseStorageLazily ==
    /\ phase = "storage"
    /\ phase' = "build"
    /\ storage' = CASE storage = "db" -> "db"
                    [] storage # "db" /\ Set("FileStoragePath") -> "file"
                    [] OTHER -> "mem"
    /\ UNCHANGED <<input, pos, given, cfg, http, grpc, fileVars, loaded, loadFailed>>

\* The file when there is no database, memory when there is no file either.
\* A file that cannot be read or parsed is a warning; a missing one is not
\* even that.
ChooseStorage ==
    /\ phase = "storage"
    /\ phase' = "build"
    /\ storage' = CASE storage = "db" -> "db"
                    [] storage # "db" /\ Set("FileStoragePath") -> "file"
                    [] OTHER -> "mem"
    /\ LET loads == storage' = "file" /\ cfg.Restore = Bool(TRUE)
       IN  \E ok \in {FALSE, fileData = "data"} :
              /\ loaded' = (loads /\ ok)
              /\ loadFailed' = (loads /\ ~ok /\ fileData # "missing")
    /\ UNCHANGED <<input, pos, given, cfg, http, grpc, fileVars>>

-----------------------------------------------------------------------------
(* Save, of three callers, under its mutex.  The process may end between    *)
(* the truncation and the write.                                            *)

Alive == phase \in {"build", "listen", "serving", "closing", "saving", "exiting"}

\* os.WriteFile has truncated the file.  Save leaves it alone when it fails
\* before this.
SaveOpen(who) ==
    /\ saving = "nobody"
    /\ saving' = who
    /\ fileData' = "torn"
    /\ UNCHANGED <<stored, writeFailed, storage, loaded, loadFailed, http, grpc>>

\* It has written what is in memory, where the stored metrics only are if
\* Load has read the file; or the write has failed.
SaveWrite(who) ==
    /\ saving = who
    /\ saving' = "nobody"
    /\ \/ fileData' = (IF loaded THEN "data" ELSE "fresh") /\ writeFailed' = FALSE
       \/ writeFailed' = TRUE /\ UNCHANGED fileData
    /\ UNCHANGED <<stored, storage, loaded, loadFailed, http, grpc>>

\* The periodic saver runs next to the rest of main, until the process ends;
\* after the cancellation its select may still choose the tick.
PeriodicSave ==
    /\ Alive
    /\ storage = "file"
    /\ cfg.StoreInterval[2] > 0
    /\ Duration(cfg.StoreInterval[2]) > 0
    /\ SaveOpen("saver")
    /\ UNCHANGED configVars

\* time.NewTicker in the saver's goroutine panics, which ends the process.
SaverPanics ==
    /\ Alive
    /\ storage = "file"
    /\ cfg.StoreInterval[2] > 0
    /\ Duration(cfg.StoreInterval[2]) <= 0
    /\ phase' = "panic"
    /\ UNCHANGED <<input, pos, given, cfg, serverVars>>

\* SaveOnUpdate of a request, as soon as one of the listeners is open.
SaveOnUpdate ==
    /\ Alive
    /\ storage = "file"
    /\ cfg.StoreInterval[2] = 0
    /\ http = "open" \/ grpc = "open"
    /\ SaveOpen("handler")
    /\ UNCHANGED configVars

SaveEnds ==
    /\ Alive
    /\ SaveWrite("saver") \/ SaveWrite("handler")
    /\ UNCHANGED configVars

-----------------------------------------------------------------------------
\* The audit file, the private key and the subnet; a failure ends the process.
Build ==
    /\ phase = "build"
    /\ \/ phase' = "listen"
       \/ /\ Set("AuditFile") \/ Set("CryptoKey") \/ Set("TrustedSubnet")
          /\ phase' = "fatal"
    /\ UNCHANGED <<input, pos, given, cfg, serverVars>>

\* The goroutine of ListenAndServe; an address in use cancels the group.
HTTPListen ==
    /\ phase = "listen"
    /\ http = "none"
    /\ http' \in {"open", "failed"}
    /\ UNCHANGED <<configVars, storage, loaded, loadFailed, grpc, fileVars>>

\* net.Listen in main itself, a failure ends the process.
GRPCListen ==
    /\ phase = "listen"
    /\ grpc = "none"
    /\ \/ /\ grpc' = IF Set("GRPCAddr") THEN "open" ELSE "off"
          /\ UNCHANGED phase
       \/ /\ Set("GRPCAddr")
          /\ phase' = "fatal"
          /\ UNCHANGED grpc
    /\ UNCHANGED <<input, pos, given, cfg, storage, loaded, loadFailed, http, fileVars>>

Serve ==
    /\ phase = "listen"
    /\ http = "open"
    /\ grpc # "none"
    /\ phase' = "serving"
    /\ UNCHANGED <<input, pos, given, cfg, serverVars>>

\* g.Wait returns: ListenAndServe has failed, or a signal has come.
Stop ==
    /\ phase \in {"listen", "serving"}
    /\ grpc # "none"
    /\ phase' = IF storage = "file" THEN "closing" ELSE "exiting"
    /\ UNCHANGED <<input, pos, given, cfg, serverVars>>

\* The final save of Close, which may fail before it opens the file.
Close ==
    /\ phase = "closing"
    /\ \/ phase' = "saving" /\ SaveOpen("main")
       \/ phase' = "exiting" /\ UNCHANGED serverVars
    /\ UNCHANGED <<input, pos, given, cfg>>

CloseReturns ==
    /\ phase = "saving"
    /\ SaveWrite("main")
    /\ phase' = "exiting"
    /\ UNCHANGED <<input, pos, given, cfg>>

\* main returns, whatever the saver and the handlers are doing.
Exit ==
    /\ phase = "exiting"
    /\ phase' = "stopped"
    /\ UNCHANGED <<input, pos, given, cfg, serverVars>>

Terminated ==
    /\ phase \in {"fatal", "panic", "running", "stopped"}
    /\ UNCHANGED vars

Next ==
    \/ ConfigNext /\ UNCHANGED serverVars
    \/ ConnectDB \/ ConnectFails \/ WithoutDB \/ ChooseStorage
    \/ PeriodicSave \/ SaverPanics \/ SaveOnUpdate \/ SaveEnds
    \/ Build \/ HTTPListen \/ GRPCListen \/ Serve \/ Stop \/ Close \/ CloseReturns \/ Exit
    \/ Terminated

Spec == Init /\ [][Next]_vars
-----------------------------------------------------------------------------
(* A start of the server, whichever step of it fails and whoever saves in   *)
(* between, leaves the stored metrics in the file.  It loses them in four   *)
(* ways only: it was told not to restore them, when a failing listener is   *)
(* enough; Load failed on the good file, which is a warning; the last write *)
(* failed; or a save is in the middle, where the end of the process, a      *)
(* fatal error of main included, cuts it off.                               *)
FailedStartKeepsFile ==
    stored /\ fileData # "data" =>
        /\ storage = "file"
        /\ cfg.Restore # Bool(TRUE) \/ loadFailed \/ writeFailed \/ saving # "nobody"
=============================================================================
