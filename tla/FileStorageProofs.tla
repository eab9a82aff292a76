------------------------- MODULE FileStorageProofs -------------------------
(***************************************************************************)
(* Proofs about FileStorage for every set of requests and every mode.  The *)
(* argument rests on the mutex of FileBackedStorage: whoever marshals,     *)
(* opens or writes holds it, so that the snapshot being written contains   *)
(* everything a completed save has put on disk.                            *)
(***************************************************************************)
EXTENDS FileStorage, TLAPS

Saving(a) == pc[a] \in {"marshal", "open", "write"}
Writing(a) == pc[a] \in {"open", "write"}

(* Where each kind of actor can be.                                         *)
PlaceInv ==
    /\ \A r \in Requests : pc[r] \notin {"select", "done", "wait", "return"}
    /\ pc["saver"] \in {"select", "lock", "marshal", "open", "write", "done"}
    /\ pc["main"] \in {"wait", "lock", "marshal", "open", "write", "return", "done"}
    /\ storeInterval # "periodic" => pc["saver"] = "done"
    /\ status = "down" => \A a \in Actors : ~Saving(a)
    /\ status = "down" => \A r \in Requests : ~InFlight(r)
    /\ status \in {"running", "stopping"} => pc["main"] = "wait"

(* Only the holder of the mutex is inside Save.                             *)
MutexInv == \A a \in Actors : Saving(a) <=> mu = a

(* A snapshot lies between what is on disk and what is in memory.           *)
GrowthInv ==
    /\ Alive => saved \subseteq mem
    /\ \A a \in Actors : Writing(a) => saved \subseteq snap[a] /\ snap[a] \subseteq mem

(* A full file is the last completed save, and it holds the requests whose  *)
(* handler has come back from its own save.                                 *)
DiskInv ==
    /\ ~amnesia /\ fileState = "full" => fileData = saved
    /\ acked = {r \in Requests : pc[r] = "acked"}
    /\ \A r \in Requests : pc[r] = "lock" \/ Saving(r) => r \in mem
    /\ \A r \in Requests : Writing(r) => r \in snap[r]
    /\ storeInterval = "sync" /\ ~amnesia =>
          \A r \in Requests : pc[r] \in {"respond", "acked"} => r \in saved \cup badSave

(* A drained shutdown: memory stands still, and once main is back from a    *)
(* successful Close it is on disk, whoever saves after that.                *)
CloseInv ==
    /\ status = "closing" => exit \in {"clean", "forced"} /\ pc["main"] # "wait" /\ pc["main"] # "done"
    /\ status = "closing" /\ exit = "clean" =>
          /\ Drained
          /\ Writing("main") => snap["main"] = mem
          /\ pc["main"] = "write" => fileState = "torn"
          /\ pc["main"] = "return" /\ "main" \notin badSave =>
                /\ Writing("saver") => snap["saver"] = mem
                /\ fileState = "full" => fileData = mem
                /\ storeInterval # "periodic" => fileState = "full"

-----------------------------------------------------------------------------
(* The actors are distinct.                                                 *)
LEMMA ActorFacts ==
  /\ "saver" \in Actors /\ "main" \in Actors /\ "free" \notin Actors
  /\ "saver" \notin Requests /\ "main" \notin Requests
  /\ \A r \in Requests : r \in Actors
  /\ \A a \in Actors : a \in Requests \/ a = "saver" \/ a = "main"
BY RequestsAssumption DEF Actors

(* The steps, sorted by who takes them.                                     *)
LEMMA StepCases ==
  ASSUME [Next]_vars
  PROVE  \/ \E a \in Actors : Save(a)
         \/ \E r \in Requests : Receive(r) \/ Reject(r) \/ Update(r) \/ Respond(r)
         \/ SaverTick \/ SaverStop
         \/ Signal \/ ShutdownDone \/ BudgetExpires
         \/ Exit \/ Crash
         \/ Restart \/ RestartUnreadable
         \/ UNCHANGED vars
BY ActorFacts DEF Next, Handle, Saver, Main, Terminated

(* Where Save leads.                                                        *)
LEMMA AfterFacts ==
  /\ \A r \in Requests : After(r) = "respond"
  /\ After("saver") = "select"
  /\ After("main") = "return"
BY ActorFacts DEF After

(* Every step keeps every variable in its type.                             *)
LEMMA TypeStep == ASSUME TypeOK, [Next]_vars PROVE TypeOK'
<1> USE DEF TypeOK, ActorPCs, storeVars, fileVars, processVars
<1>1. ASSUME NEW a \in Actors, Save(a) PROVE TypeOK'
  <2>0. After(a) \in ActorPCs
    BY ActorFacts, AfterFacts
  <2>1. CASE SaveLock(a)
    BY <2>1 DEF SaveLock
  <2>2. CASE SaveMarshal(a)
    BY <2>2 DEF SaveMarshal
  <2>3. CASE SaveOpen(a)
    BY <2>3 DEF SaveOpen
  <2>4. CASE SaveWrite(a)
    BY <2>0, <2>4 DEF SaveWrite
  <2>5. CASE SaveMarshalFails(a)
    BY <2>0, <2>5 DEF SaveMarshalFails, SaveReturnsError
  <2>6. CASE SaveFileFails(a)
    BY <2>0, <2>6 DEF SaveFileFails, SaveReturnsError
  <2> QED BY <1>1, <2>1, <2>2, <2>3, <2>4, <2>5, <2>6 DEF Save
<1>2. ASSUME NEW r \in Requests, Receive(r) \/ Reject(r) \/ Update(r) \/ Respond(r) PROVE TypeOK'
  <2>1. CASE Receive(r) \/ Reject(r)
    BY <2>1, ActorFacts DEF Receive, Reject
  <2>2. CASE Update(r)
    BY <2>2, ActorFacts DEF Update
  <2>3. CASE Respond(r)
    BY <2>3, ActorFacts DEF Respond
  <2> QED BY <1>2, <2>1, <2>2, <2>3
<1>3. CASE SaverTick \/ SaverStop
  BY <1>3 DEF SaverTick, SaverStop
<1>4. CASE Signal
  BY <1>4 DEF Signal
<1>5. CASE ShutdownDone \/ BudgetExpires
  BY <1>5 DEF ShutdownDone, BudgetExpires, StartClose
<1>6. ASSUME NEW how \in {"none", "clean", "forced", "crash"}, Die(how) PROVE TypeOK'
  BY <1>6 DEF Die
<1>7. CASE Exit \/ Crash
  BY <1>6, <1>7 DEF Exit, Crash
<1>8. ASSUME NEW S \in SUBSET Requests, Start(S), errors' \in Nat PROVE TypeOK'
  <2>1. SaverStart \in ActorPCs
    BY DEF SaverStart
  <2>2. pc' \in [Actors -> ActorPCs]
    BY <1>8, <2>1 DEF Start
  <2>3. amnesia' \in BOOLEAN
    BY <1>8 DEF Start
  <2> QED BY <1>8, <2>2, <2>3 DEF Start
<1>9. CASE Restart \/ RestartUnreadable
  BY <1>8, <1>9 DEF Restart, RestartUnreadable, Load
<1>10. CASE UNCHANGED vars
  BY <1>10 DEF vars
<1> QED BY StepCases, <1>1, <1>2, <1>3, <1>4, <1>5, <1>7, <1>9, <1>10

(* A fresh start is of the right type.                                      *)
LEMMA TypeInit == Init => TypeOK
<1> SUFFICES ASSUME Init PROVE TypeOK
  OBVIOUS
<1>1. SaverStart \in ActorPCs
  BY DEF SaverStart, ActorPCs
<1>2. pc \in [Actors -> ActorPCs]
  BY <1>1 DEF Init, ActorPCs
<1>3. snap \in [Actors -> SUBSET Requests]
  BY DEF Init
<1> QED BY <1>2, <1>3 DEF Init, TypeOK

(* The storage's variables have their types in every reachable state.       *)
THEOREM TypeCorrect == Spec => []TypeOK
BY TypeInit, TypeStep, PTL DEF Spec

-----------------------------------------------------------------------------
(* Each actor stays within its own program.                                 *)
LEMMA PlaceStep == ASSUME TypeOK, PlaceInv, [Next]_vars PROVE PlaceInv'
<1> USE ActorFacts DEF TypeOK, PlaceInv, Saving, InFlight, processVars
<1>1. ASSUME NEW a \in Actors, Save(a) PROVE PlaceInv'
  <2>1. CASE SaveLock(a)
    BY <2>1 DEF SaveLock, Alive
  <2>2. CASE SaveMarshal(a)
    BY <2>2 DEF SaveMarshal, Alive
  <2>3. CASE SaveOpen(a)
    BY <2>3 DEF SaveOpen, Alive
  <2>4. CASE SaveWrite(a)
    BY <2>4, AfterFacts DEF SaveWrite, Alive
  <2>5. CASE SaveMarshalFails(a)
    BY <2>5, AfterFacts DEF SaveMarshalFails, SaveReturnsError, Alive
  <2>6. CASE SaveFileFails(a)
    BY <2>6, AfterFacts DEF SaveFileFails, SaveReturnsError, Alive
  <2> QED BY <1>1, <2>1, <2>2, <2>3, <2>4, <2>5, <2>6 DEF Save
<1>2. ASSUME NEW r \in Requests, Receive(r) \/ Reject(r) \/ Update(r) \/ Respond(r) PROVE PlaceInv'
  BY <1>2 DEF Receive, Reject, Update, Respond, Alive
<1>3. CASE SaverTick
  BY <1>3 DEF SaverTick, Alive
<1>4. CASE SaverStop
  BY <1>4 DEF SaverStop
<1>5. CASE Signal
  BY <1>5 DEF Signal
<1>6. CASE ShutdownDone \/ BudgetExpires
  BY <1>6 DEF ShutdownDone, BudgetExpires, StartClose
<1>7. ASSUME NEW how, Die(how) PROVE PlaceInv'
  BY <1>7 DEF Die
<1>8. CASE Exit \/ Crash
  BY <1>7, <1>8 DEF Exit, Crash
<1>9. ASSUME NEW S, Start(S) PROVE PlaceInv'
  BY <1>9 DEF Start, SaverStart
<1>10. CASE Restart \/ RestartUnreadable
  BY <1>9, <1>10 DEF Restart, RestartUnreadable
<1>11. CASE UNCHANGED vars
  BY <1>11 DEF vars
<1> QED BY StepCases, <1>1, <1>2, <1>3, <1>4, <1>5, <1>6, <1>8, <1>10, <1>11

(* FileBackedStorage.mu excludes.                                           *)
LEMMA MutexStep == ASSUME TypeOK, PlaceInv, MutexInv, [Next]_vars PROVE MutexInv'
<1> USE ActorFacts DEF TypeOK, MutexInv, Saving, storeVars
<1>1. ASSUME NEW a \in Actors, Save(a) PROVE MutexInv'
  <2>1. CASE SaveLock(a)
    BY <2>1 DEF SaveLock
  <2>2. CASE SaveMarshal(a)
    BY <2>2 DEF SaveMarshal
  <2>3. CASE SaveOpen(a)
    BY <2>3 DEF SaveOpen
  <2>4. CASE SaveWrite(a)
    BY <2>4, AfterFacts DEF SaveWrite
  <2>5. CASE SaveMarshalFails(a)
    BY <2>5, AfterFacts DEF SaveMarshalFails, SaveReturnsError
  <2>6. CASE SaveFileFails(a)
    BY <2>6, AfterFacts DEF SaveFileFails, SaveReturnsError
  <2> QED BY <1>1, <2>1, <2>2, <2>3, <2>4, <2>5, <2>6 DEF Save
<1>2. ASSUME NEW r \in Requests, Receive(r) \/ Reject(r) \/ Update(r) \/ Respond(r) PROVE MutexInv'
  BY <1>2 DEF Receive, Reject, Update, Respond
<1>3. CASE SaverTick \/ SaverStop
  BY <1>3 DEF SaverTick, SaverStop
<1>4. CASE Signal
  BY <1>4 DEF Signal
<1>5. CASE ShutdownDone \/ BudgetExpires
  BY <1>5 DEF ShutdownDone, BudgetExpires, StartClose, PlaceInv
<1>6. ASSUME NEW how, Die(how) PROVE MutexInv'
  BY <1>6 DEF Die, InFlight
<1>7. CASE Exit \/ Crash
  BY <1>6, <1>7 DEF Exit, Crash
<1>8. ASSUME NEW S, Start(S) PROVE MutexInv'
  BY <1>8 DEF Start, SaverStart, PlaceInv
<1>9. CASE Restart \/ RestartUnreadable
  BY <1>8, <1>9 DEF Restart, RestartUnreadable
<1>10. CASE UNCHANGED vars
  BY <1>10 DEF vars
<1> QED BY StepCases, <1>1, <1>2, <1>3, <1>4, <1>5, <1>7, <1>9, <1>10

(* Snapshots grow with memory, and the disk with the snapshots.             *)
LEMMA GrowthStep ==
  ASSUME TypeOK, PlaceInv, MutexInv, GrowthInv, [Next]_vars
  PROVE  GrowthInv' /\ (restarts' = restarts => saved \subseteq saved')
<1> DEFINE Goal == GrowthInv' /\ (restarts' = restarts => saved \subseteq saved')
<1> USE ActorFacts DEF TypeOK, GrowthInv, Writing, Alive, storeVars, fileVars, processVars
<1>1. ASSUME NEW a \in Actors, Save(a) PROVE Goal
  <2>1. CASE SaveLock(a)
    BY <2>1 DEF SaveLock
  <2>2. CASE SaveMarshal(a)
    BY <2>2 DEF SaveMarshal
  <2>3. CASE SaveOpen(a)
    BY <2>3 DEF SaveOpen
  <2>4. CASE SaveWrite(a)
    <3>1. \A b \in Actors \ {a} : ~Writing(b)
      BY <2>4 DEF SaveWrite, MutexInv, Saving
    <3>2. saved \subseteq snap[a] /\ snap[a] \subseteq mem
      BY <2>4 DEF SaveWrite
    <3> QED BY <2>4, <3>1, <3>2, AfterFacts DEF SaveWrite
  <2>5. CASE SaveMarshalFails(a)
    BY <2>5, AfterFacts DEF SaveMarshalFails, SaveReturnsError
  <2>6. CASE SaveFileFails(a)
    BY <2>6, AfterFacts DEF SaveFileFails, SaveReturnsError
  <2> QED BY <1>1, <2>1, <2>2, <2>3, <2>4, <2>5, <2>6 DEF Save
<1>2. ASSUME NEW r \in Requests, Receive(r) \/ Reject(r) \/ Update(r) \/ Respond(r) PROVE Goal
  BY <1>2 DEF Receive, Reject, Update, Respond
<1>3. CASE SaverTick \/ SaverStop
  BY <1>3 DEF SaverTick, SaverStop
<1>4. CASE Signal
  BY <1>4 DEF Signal
<1>5. CASE ShutdownDone \/ BudgetExpires
  BY <1>5 DEF ShutdownDone, BudgetExpires, StartClose
<1>6. ASSUME NEW how, Die(how) PROVE Goal
  BY <1>6 DEF Die, InFlight
<1>7. CASE Exit \/ Crash
  BY <1>6, <1>7 DEF Exit, Crash
<1>8. ASSUME NEW S, Start(S) PROVE Goal
  <2>1. \A a \in Actors : ~Writing(a) /\ ~Writing(a)'
    BY <1>8 DEF Start, SaverStart, PlaceInv, Saving
  <2> QED BY <1>8, <2>1 DEF Start
<1>9. CASE Restart \/ RestartUnreadable
  BY <1>8, <1>9 DEF Restart, RestartUnreadable
<1>10. CASE UNCHANGED vars
  BY <1>10 DEF vars
<1> QED BY StepCases, <1>1, <1>2, <1>3, <1>4, <1>5, <1>7, <1>9, <1>10

(* A fresh process saves nothing yet and has nothing to save.               *)
LEMMA LockInit == Init => PlaceInv /\ MutexInv /\ GrowthInv
<1> SUFFICES ASSUME Init PROVE PlaceInv /\ MutexInv /\ GrowthInv
  OBVIOUS
<1>1. /\ \A r \in Requests : pc[r] = "new"
      /\ pc["saver"] = SaverStart /\ pc["main"] = "wait"
  BY ActorFacts DEF Init
<1>2. SaverStart \in {"select", "done"} /\ (storeInterval # "periodic" => SaverStart = "done")
  BY DEF SaverStart
<1>3. \A a \in Actors : ~Saving(a)
  BY <1>1, <1>2, ActorFacts DEF Saving
<1> QED BY <1>1, <1>2, <1>3, ActorFacts DEF Init, PlaceInv, MutexInv, GrowthInv, Writing, Saving

(* And nobody has an answer.                                                *)
LEMMA DiskInit == Init => DiskInv
<1> SUFFICES ASSUME Init PROVE DiskInv
  OBVIOUS
<1>1. \A r \in Requests : pc[r] = "new"
  BY ActorFacts DEF Init
<1> QED BY <1>1 DEF Init, DiskInv, Saving, Writing

(* Saves of one life of the process never put back an older state.          *)
THEOREM DiskOnlyGrows == Spec => SavesNeverRegress
<1> DEFINE Inv == TypeOK /\ PlaceInv /\ MutexInv /\ GrowthInv
<1>1. Init => Inv
  BY TypeInit, LockInit
<1>2. Inv /\ [Next]_vars => Inv'
  BY TypeStep, PlaceStep, MutexStep, GrowthStep
<1>3. Inv /\ [Next]_vars => [restarts' = restarts => saved \subseteq saved']_vars
  BY GrowthStep
<1> QED BY <1>1, <1>2, <1>3, PTL DEF Spec, SavesNeverRegress

-----------------------------------------------------------------------------
(* The file, the answers and the saves of the handlers.                     *)
LEMMA DiskStep ==
  ASSUME TypeOK, PlaceInv, MutexInv, GrowthInv, DiskInv, [Next]_vars
  PROVE  DiskInv'
<1> USE ActorFacts DEF TypeOK, DiskInv, Writing, Saving, storeVars, fileVars, processVars
<1>1. ASSUME NEW a \in Actors, Save(a) PROVE DiskInv'
  <2>1. CASE SaveLock(a)
    BY <2>1 DEF SaveLock
  <2>2. CASE SaveMarshal(a)
    BY <2>2 DEF SaveMarshal
  <2>3. CASE SaveOpen(a)
    BY <2>3 DEF SaveOpen
  <2>4. CASE SaveWrite(a)
    <3>1. saved \subseteq saved' /\ (a \in Requests => a \in saved')
      BY <2>4 DEF SaveWrite, GrowthInv
    <3> QED BY <2>4, <3>1, AfterFacts DEF SaveWrite
  <2>5. CASE SaveMarshalFails(a)
    BY <2>5, AfterFacts DEF SaveMarshalFails, SaveReturnsError
  <2>6. CASE SaveFileFails(a)
    BY <2>6, AfterFacts DEF SaveFileFails, SaveReturnsError
  <2> QED BY <1>1, <2>1, <2>2, <2>3, <2>4, <2>5, <2>6 DEF Save
<1>2. ASSUME NEW r \in Requests, Receive(r) \/ Reject(r) \/ Update(r) \/ Respond(r) PROVE DiskInv'
  <2>1. CASE Receive(r) \/ Reject(r)
    BY <2>1 DEF Receive, Reject
  <2>2. CASE Update(r)
    BY <2>2 DEF Update
  <2>3. CASE Respond(r)
    BY <2>3 DEF Respond
  <2> QED BY <1>2, <2>1, <2>2, <2>3
<1>3. CASE SaverTick \/ SaverStop
  BY <1>3 DEF SaverTick, SaverStop
<1>4. CASE Signal
  BY <1>4 DEF Signal
<1>5. CASE ShutdownDone \/ BudgetExpires
  BY <1>5 DEF ShutdownDone, BudgetExpires, StartClose
<1>6. ASSUME NEW how, Die(how) PROVE DiskInv'
  <2>1. \A r \in Requests : pc'[r] = IF InFlight(r) THEN "lost" ELSE pc[r]
    BY <1>6 DEF Die
  <2>2. UNCHANGED <<storeInterval, acked, mem, badSave, fileVars, amnesia>>
    BY <1>6 DEF Die
  <2> QED BY <2>1, <2>2 DEF InFlight
<1>7. CASE Exit \/ Crash
  BY <1>6, <1>7 DEF Exit, Crash
<1>8. ASSUME NEW S, Start(S) PROVE DiskInv'
  <2>1. \A r \in Requests : pc'[r] = pc[r] /\ ~InFlight(r)
    BY <1>8 DEF Start, PlaceInv
  <2> QED BY <1>8, <2>1 DEF Start, InFlight
<1>9. CASE Restart \/ RestartUnreadable
  BY <1>8, <1>9 DEF Restart, RestartUnreadable
<1>10. CASE UNCHANGED vars
  BY <1>10 DEF vars
<1> QED BY StepCases, <1>1, <1>2, <1>3, <1>4, <1>5, <1>7, <1>9, <1>10

(* With a store interval of 0 the answered requests are in every complete   *)
(* file; a torn one is left out.                                            *)
THEOREM SyncIsDurable == Spec => []SyncAckedOnDisk
<1> DEFINE Inv == TypeOK /\ PlaceInv /\ MutexInv /\ GrowthInv /\ DiskInv
<1>1. Init => Inv
  BY TypeInit, LockInit, DiskInit
<1>2. Inv /\ [Next]_vars => Inv'
  BY TypeStep, PlaceStep, MutexStep, GrowthStep, DiskStep
<1>3. Inv => SyncAckedOnDisk
  BY DEF DiskInv, SyncAckedOnDisk
<1> QED BY <1>1, <1>2, <1>3, PTL DEF Spec

-----------------------------------------------------------------------------
(* The final save of a drained shutdown.                                    *)
LEMMA CloseStep ==
  ASSUME TypeOK, PlaceInv, MutexInv, CloseInv, CleanExitComplete, [Next]_vars
  PROVE  CloseInv' /\ CleanExitComplete'
<1> DEFINE Goal == CloseInv' /\ CleanExitComplete'
<1> USE ActorFacts DEF TypeOK, CloseInv, CleanExitComplete, Drained, InFlight, Writing,
        Alive, storeVars, fileVars, processVars
<1>1. ASSUME NEW a \in Actors, Save(a) PROVE Goal
  <2>0. Alive /\ UNCHANGED <<status, exit, mem>>
    BY <1>1 DEF Save, SaveLock, SaveMarshal, SaveOpen, SaveWrite, SaveMarshalFails, SaveFileFails,
       SaveReturnsError
  <2>1. CASE ~(status = "closing" /\ exit = "clean")
    <3>1. status = "closing" => pc'["main"] # "wait" /\ pc'["main"] # "done"
      BY <1>1, AfterFacts DEF Save, SaveLock, SaveMarshal, SaveOpen, SaveWrite, SaveMarshalFails,
         SaveFileFails, SaveReturnsError
    <3> QED BY <2>0, <2>1, <3>1
  <2>2. CASE status = "closing" /\ exit = "clean"
    <3>1. a = "main" \/ a = "saver"
      BY <1>1, <2>2 DEF Save, SaveLock, SaveMarshal, SaveOpen, SaveWrite, SaveMarshalFails,
         SaveFileFails
    <3>2. a = "saver" => storeInterval = "periodic"
      BY <1>1 DEF PlaceInv, Save, SaveLock, SaveMarshal, SaveOpen, SaveWrite, SaveMarshalFails,
         SaveFileFails
    <3>3. CASE SaveLock(a)
      BY <2>2, <3>1, <3>2, <3>3 DEF SaveLock, PlaceInv
    <3>4. CASE SaveMarshal(a)
      BY <2>2, <3>1, <3>2, <3>4 DEF SaveMarshal
    <3>5. CASE SaveOpen(a)
      BY <2>2, <3>1, <3>2, <3>5 DEF SaveOpen, MutexInv, Saving
    <3>6. CASE SaveWrite(a)
      BY <2>2, <3>1, <3>2, <3>6, AfterFacts DEF SaveWrite, MutexInv, Saving
    <3>7. CASE SaveMarshalFails(a)
      BY <2>2, <3>1, <3>2, <3>7, AfterFacts DEF SaveMarshalFails, SaveReturnsError
    <3>8. CASE SaveFileFails(a)
      BY <2>2, <3>1, <3>2, <3>8, AfterFacts DEF SaveFileFails, SaveReturnsError
    <3> QED BY <1>1, <3>3, <3>4, <3>5, <3>6, <3>7, <3>8 DEF Save
  <2> QED BY <2>1, <2>2
<1>2. ASSUME NEW r \in Requests, Receive(r) \/ Reject(r) \/ Update(r) \/ Respond(r) PROVE Goal
  <2>1. ~(status = "closing" /\ exit = "clean") /\ status # "down" /\ UNCHANGED <<status, exit>>
    BY <1>2 DEF Receive, Reject, Update, Respond
  <2>2. pc'["main"] = pc["main"]
    BY <1>2 DEF Receive, Reject, Update, Respond
  <2> QED BY <2>1, <2>2
<1>3. CASE SaverTick \/ SaverStop
  BY <1>3 DEF SaverTick, SaverStop, PlaceInv
<1>4. CASE Signal
  BY <1>4 DEF Signal
<1>5. CASE ShutdownDone \/ BudgetExpires
  BY <1>5 DEF ShutdownDone, BudgetExpires, StartClose, PlaceInv
<1>6. CASE Exit
  BY <1>6 DEF Exit, Die
<1>7. CASE Crash
  BY <1>7 DEF Crash, Die
<1>8. ASSUME NEW S, Start(S) PROVE Goal
  BY <1>8 DEF Start
<1>9. CASE Restart \/ RestartUnreadable
  BY <1>8, <1>9 DEF Restart, RestartUnreadable
<1>10. CASE UNCHANGED vars
  BY <1>10 DEF vars
<1> QED BY StepCases, <1>1, <1>2, <1>3, <1>4, <1>5, <1>6, <1>7, <1>9, <1>10

(* A drained shutdown whose final save succeeds leaves memory on disk.      *)
THEOREM CleanExitSaves == Spec => []CleanExitComplete
<1> DEFINE Inv == TypeOK /\ PlaceInv /\ MutexInv /\ CloseInv /\ CleanExitComplete
<1>1. Init => Inv
  BY TypeInit, LockInit DEF Init, CloseInv, CleanExitComplete
<1>2. Inv /\ [Next]_vars => Inv'
  BY TypeStep, PlaceStep, MutexStep, CloseStep
<1> QED BY <1>1, <1>2, PTL DEF Spec

-----------------------------------------------------------------------------
(* What the refinement needs on top of that: only a sync handler saves, and *)
(* it does so once; a handler about to answer has its update in memory and, *)
(* in sync mode, its save behind it; and a successful Close has saved all.  *)
AnswerInv ==
    /\ \A r \in Requests : r \in badSave => pc[r] \in {"respond", "acked", "lost"}
    /\ \A r \in Requests : pc[r] = "lock" \/ Saving(r) => storeInterval = "sync"
    /\ \A r \in Requests :
          pc[r] = "respond" => r \in mem /\ (storeInterval = "sync" => r \in saved \cup badSave)
    /\ status = "closing" /\ exit = "clean" /\ pc["main"] = "return" /\ "main" \notin badSave =>
          saved = mem

(* The invariants the refinement rests on.                                  *)
IInv ==
    /\ TypeOK /\ PlaceInv /\ MutexInv /\ GrowthInv /\ DiskInv
    /\ CloseInv /\ CleanExitComplete /\ AnswerInv

(* Handlers, saver and main between an update and what is told about it.    *)
LEMMA AnswerStep == ASSUME IInv, [Next]_vars PROVE AnswerInv'
<1> USE ActorFacts DEF IInv, TypeOK, AnswerInv, Saving, storeVars, fileVars, processVars
<1>1. ASSUME NEW a \in Actors, Save(a) PROVE AnswerInv'
  <2>1. CASE SaveLock(a)
    BY <2>1 DEF SaveLock
  <2>2. CASE SaveMarshal(a)
    BY <2>2 DEF SaveMarshal
  <2>3. CASE SaveOpen(a)
    BY <2>3 DEF SaveOpen
  <2>4. CASE SaveWrite(a)
    <3>1. saved \subseteq saved' /\ (a \in Requests => a \in saved' /\ a \in mem /\ a \notin badSave)
      BY <2>4 DEF SaveWrite, GrowthInv, DiskInv, Writing
    <3>2. ASSUME status = "closing", exit = "clean", pc'["main"] = "return", "main" \notin badSave'
          PROVE  saved' = mem'
      <4>1. a \notin Requests
        BY <2>4, <3>2 DEF SaveWrite, CloseInv, Drained, InFlight
      <4>2. CASE a = "main"
        BY <2>4, <3>2, <4>2 DEF SaveWrite, CloseInv, Writing
      <4>3. CASE a = "saver"
        BY <2>4, <3>2, <4>3 DEF SaveWrite, CloseInv, Writing
      <4> QED BY <4>1, <4>2, <4>3
    <3> QED BY <2>4, <3>1, <3>2, AfterFacts DEF SaveWrite
  <2>5. ASSUME SaveReturnsError(a), Saving(a), Alive PROVE AnswerInv'
    <3>1. a \in Requests => a \in mem
      BY <2>5 DEF DiskInv
    <3> QED BY <2>5, <3>1, AfterFacts DEF SaveReturnsError
  <2>6. CASE SaveMarshalFails(a) \/ SaveFileFails(a)
    BY <2>5, <2>6 DEF SaveMarshalFails, SaveFileFails
  <2> QED BY <1>1, <2>1, <2>2, <2>3, <2>4, <2>6 DEF Save
<1>2. ASSUME NEW r \in Requests, Receive(r) \/ Reject(r) \/ Update(r) \/ Respond(r) PROVE AnswerInv'
  <2>1. CASE Receive(r) \/ Reject(r)
    BY <2>1 DEF Receive, Reject
  <2>2. CASE Update(r)
    <3>1. ~(status = "closing" /\ exit = "clean")
      BY <2>2 DEF Update, CloseInv, Drained, InFlight
    <3> QED BY <2>2, <3>1 DEF Update
  <2>3. CASE Respond(r)
    BY <2>3 DEF Respond
  <2> QED BY <1>2, <2>1, <2>2, <2>3
<1>3. CASE SaverTick \/ SaverStop
  BY <1>3 DEF SaverTick, SaverStop
<1>4. CASE Signal
  BY <1>4 DEF Signal
<1>5. CASE ShutdownDone \/ BudgetExpires
  BY <1>5 DEF ShutdownDone, BudgetExpires, StartClose
<1>6. ASSUME NEW how, Die(how) PROVE AnswerInv'
  <2>1. \A r \in Requests : pc'[r] = IF InFlight(r) THEN "lost" ELSE pc[r]
    BY <1>6 DEF Die
  <2>2. status' = "down" /\ UNCHANGED <<storeInterval, mem, badSave, saved>>
    BY <1>6 DEF Die
  <2> QED BY <2>1, <2>2 DEF InFlight
<1>7. CASE Exit \/ Crash
  BY <1>6, <1>7 DEF Exit, Crash
<1>8. ASSUME NEW S, Start(S) PROVE AnswerInv'
  <2>1. \A r \in Requests : pc'[r] = pc[r] /\ ~InFlight(r)
    BY <1>8 DEF Start, PlaceInv
  <2> QED BY <1>8, <2>1 DEF Start, InFlight
<1>9. CASE Restart \/ RestartUnreadable
  BY <1>8, <1>9 DEF Restart, RestartUnreadable
<1>10. CASE UNCHANGED vars
  BY <1>10 DEF vars
<1> QED BY StepCases, <1>1, <1>2, <1>3, <1>4, <1>5, <1>7, <1>9, <1>10

(* Every step of the server is a step of the abstract store or is not seen. *)
LEMMA DurableStep == ASSUME IInv, [Next]_vars PROVE [Durable!Next]_(Durable!vars)
<1> DEFINE clean == ~Alive /\ exit = "clean" /\ "main" \notin badSave
           excused == badSave \cap Requests
<1> USE ActorFacts
<1>0. /\ TypeOK /\ clean \in BOOLEAN /\ clean' \in BOOLEAN
      /\ Alive \in BOOLEAN /\ Alive' \in BOOLEAN /\ (Alive => ~clean) /\ (Alive' => ~clean')
  BY DEF IInv, Alive
<1> HIDE DEF clean
<1>1. ASSUME Alive, Alive', UNCHANGED <<storeInterval, mem, saved, acked, excused, amnesia>>
      PROVE  UNCHANGED Durable!vars
  BY <1>0, <1>1 DEF Durable!vars, clean
<1>2. ASSUME NEW a \in Actors, Save(a) PROVE [Durable!Next]_(Durable!vars)
  <2>0. Alive /\ Alive' /\ UNCHANGED <<storeInterval, mem, acked, amnesia>>
    BY <1>2 DEF Save, SaveLock, SaveMarshal, SaveOpen, SaveWrite, SaveMarshalFails, SaveFileFails,
       SaveReturnsError, Alive, storeVars, fileVars, processVars
  <2>1. CASE SaveLock(a) \/ SaveMarshal(a) \/ SaveOpen(a)
    BY <1>1, <2>0, <2>1 DEF SaveLock, SaveMarshal, SaveOpen, storeVars, fileVars
  <2>2. CASE SaveWrite(a)
    <3>1. saved \subseteq saved' /\ saved' \in SUBSET mem
      BY <2>2 DEF SaveWrite, IInv, GrowthInv, Writing
    <3>2. excused' = excused
      BY <2>2 DEF SaveWrite, IInv, AnswerInv
    <3>3. Durable!Persist
      BY <1>0, <2>0, <3>1, <3>2 DEF Durable!Persist, clean
    <3> QED BY <3>3 DEF Durable!Next
  <2>3. ASSUME SaveReturnsError(a), Saving(a) PROVE [Durable!Next]_(Durable!vars)
    <3>1. saved' = saved /\ badSave' = badSave \cup {a}
      BY <2>3 DEF SaveReturnsError, fileVars
    <3>2. CASE a \in Requests
      <4>1. storeInterval = "sync" /\ a \in mem /\ excused' = excused \cup {a}
        BY <2>3, <3>1, <3>2 DEF IInv, AnswerInv, DiskInv
      <4>2. Durable!Excuse(a)
        BY <1>0, <2>0, <3>1, <4>1 DEF Durable!Excuse, clean
      <4> QED BY <3>2, <4>2 DEF Durable!Next
    <3>3. CASE a \notin Requests
      BY <1>1, <2>0, <3>1, <3>3
    <3> QED BY <3>2, <3>3
  <2>4. CASE SaveMarshalFails(a) \/ SaveFileFails(a)
    BY <2>3, <2>4 DEF SaveMarshalFails, SaveFileFails, Saving
  <2> QED BY <1>2, <2>1, <2>2, <2>4 DEF Save
<1>3. ASSUME NEW r \in Requests, Receive(r) \/ Reject(r) PROVE UNCHANGED Durable!vars
  BY <1>1, <1>3 DEF Receive, Reject, Alive, storeVars, fileVars, processVars
<1>4. ASSUME NEW r \in Requests, Update(r) PROVE Durable!Next
  <2>1. /\ Alive /\ Alive' /\ mem' = mem \cup {r}
        /\ UNCHANGED <<storeInterval, saved, acked, excused, amnesia>>
    BY <1>4 DEF Update, Alive, fileVars, processVars
  <2>2. r \notin acked
    BY <1>4 DEF Update, IInv, DiskInv
  <2>3. Durable!Apply(r)
    BY <1>0, <2>1, <2>2 DEF Durable!Apply, clean
  <2> QED BY <2>3 DEF Durable!Next
<1>5. ASSUME NEW r \in Requests, Respond(r) PROVE Durable!Next
  <2>1. /\ Alive /\ Alive' /\ acked' = acked \cup {r}
        /\ UNCHANGED <<storeInterval, mem, saved, excused, amnesia>>
    BY <1>5 DEF Respond, Alive, storeVars, fileVars, processVars
  <2>2. r \in mem /\ (storeInterval = "sync" => r \in saved \cup excused)
    BY <1>5 DEF Respond, IInv, AnswerInv
  <2>3. Durable!Ack(r)
    BY <1>0, <2>1, <2>2 DEF Durable!Ack, clean
  <2> QED BY <2>3 DEF Durable!Next
<1>6. CASE SaverTick \/ SaverStop \/ Signal \/ ShutdownDone \/ BudgetExpires
  BY <1>1, <1>6 DEF SaverTick, SaverStop, Signal, ShutdownDone, BudgetExpires, StartClose, Alive,
     storeVars, fileVars, processVars
<1>7. ASSUME NEW how, Die(how), Alive, how = "clean" /\ "main" \notin badSave => saved = mem
      PROVE  Durable!Next
  <2>1. ~Alive' /\ UNCHANGED <<storeInterval, mem, saved, acked, excused, amnesia>>
    BY <1>7 DEF Die, Alive, fileVars
  <2>2. clean' => saved = mem
    BY <1>7 DEF Die, clean
  <2>3. Durable!Stop
    BY <1>0, <1>7, <2>1, <2>2 DEF Durable!Stop, clean
  <2> QED BY <2>3 DEF Durable!Next
<1>8. CASE Exit
  BY <1>7, <1>8 DEF Exit, Alive, IInv, AnswerInv
<1>9. CASE Crash
  BY <1>7, <1>9 DEF Crash
<1>10. ASSUME NEW S \in SUBSET Requests, Start(S), S \in {saved, {}} \/ amnesia PROVE Durable!Next
  <2>1. /\ ~Alive /\ Alive' /\ mem' = S /\ saved' = S /\ amnesia' = (amnesia \/ S # saved)
        /\ UNCHANGED <<storeInterval, acked, excused>>
    BY <1>10 DEF Start, Alive
  <2>2. Durable!Recover(S)
    BY <1>0, <1>10, <2>1 DEF Durable!Recover, clean
  <2> QED BY <2>2 DEF Durable!Next
<1>11. CASE Restart \/ RestartUnreadable
  BY <1>0, <1>10, <1>11 DEF Restart, RestartUnreadable, Load, IInv, TypeOK, DiskInv
<1>12. CASE UNCHANGED vars
  BY <1>12 DEF vars, storeVars, fileVars, processVars, Durable!vars, Alive
<1> QED BY StepCases, <1>2, <1>3, <1>4, <1>5, <1>6, <1>8, <1>9, <1>11, <1>12

(* The handlers, the saver and main with their locking, their partial file  *)
(* writes, crashes and restarts implement the store DurableStore promises.  *)
THEOREM DurableStoreImplemented == Spec => ImplementsDurableStore
<1>1. Init => IInv
  <2>1. Init => AnswerInv
    <3> SUFFICES ASSUME Init PROVE AnswerInv
      OBVIOUS
    <3>1. \A r \in Requests : pc[r] = "new"
      BY ActorFacts DEF Init
    <3> QED BY <3>1 DEF Init, AnswerInv, Saving
  <2> QED BY <2>1, TypeInit, LockInit, DiskInit DEF Init, IInv, CloseInv, CleanExitComplete
<1>2. IInv /\ [Next]_vars => IInv'
  <2> SUFFICES ASSUME IInv, [Next]_vars PROVE IInv'
    OBVIOUS
  <2>1. AnswerInv'
    BY AnswerStep
  <2> QED BY <2>1, TypeStep, PlaceStep, MutexStep, GrowthStep, DiskStep, CloseStep DEF IInv
<1>3. Init => Durable!Init
  BY DEF Init, Durable!Init, Alive, StoreIntervals
<1>4. IInv /\ [Next]_vars => [Durable!Next]_(Durable!vars)
  BY DurableStep
<1> QED BY <1>1, <1>2, <1>3, <1>4, PTL DEF Spec, Durable!Spec, ImplementsDurableStore
=============================================================================
