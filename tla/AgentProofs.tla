---------------------------- MODULE AgentProofs ----------------------------
(***************************************************************************)
(* Proofs about Agent and Pipeline for every RateLimit and every bound.    *)
(* The agent's inductive invariant IInv adds to the properties who holds   *)
(* the mutex, how far the half-done collection is, that a batch's id is    *)
(* its place in "produced", and what has to be true before a worker may    *)
(* leave its loop.                                                         *)
(***************************************************************************)
EXTENDS Pipeline, SequenceTheorems, FiniteSetTheorems, TLAPS

(* The mutex is held exactly during the writes, and the samples differ only *)
(* while their writer holds it.                                             *)
LockInv ==
    /\ mu = "collect" <=> pcCollect \in {"gauges", "counter"}
    /\ mu = "extra" <=> pcExtra \in {"memory", "cpu"}
    /\ Runtime = Counter + (IF pcCollect = "counter" THEN 1 ELSE 0)
    /\ Memory = CPU + (IF pcExtra = "cpu" THEN 1 ELSE 0)

IdInv == \A i \in 1..Len(produced) : produced[i].id = i

(* runReport only gets to its last steps after the cancellation and with a  *)
(* final batch.                                                             *)
ReporterInv ==
    /\ pcReport \in {"stop", "flush", "return", "done"} => ctxDone
    /\ pcReport \in {"push", "flush", "return", "done"} => Len(produced) > 0

(* A worker only leaves a channel that is closed and empty.                 *)
ExitInv == \A w \in Workers : pcWorker[w] = "exited" => closed /\ jobs = <<>>

(* ReceivedOnce, point by point.                                            *)
Sending(w) == pcWorker[w] = "send"
Finished(n) == n \in delivered \/ n \in failed
ReceivedInv ==
    /\ \A n \in delivered : n \in 1..taken /\ n \notin failed
    /\ \A n \in failed : n \in 1..taken
    /\ \A n \in 1..taken : Finished(n) \/ \E w \in Workers : Sending(w) /\ workerBatch[w].id = n
    /\ \A w \in Workers :
          Sending(w) => /\ workerBatch[w].id \in 1..taken
                        /\ ~Finished(workerBatch[w].id)
                        /\ \A v \in Workers :
                              Sending(v) /\ workerBatch[v].id = workerBatch[w].id => v = w

-----------------------------------------------------------------------------
(* Every step keeps every variable in its type.                             *)
LEMMA TypeStep == ASSUME TypeOK, [Next]_vars PROVE TypeOK'
<1> USE DEF TypeOK, metrics, collectorVars, reportVars, workerVars
<1>0. NoBatch \in Batches
  BY DEF NoBatch, Batches
<1>1. CASE Cancel
  <2>1. pending.Counter \in Nat
    BY DEF Batches
  <2>2. atCancel' \in Nat
    BY <1>1, <2>1 DEF Cancel
  <2> QED
    BY <1>1, <2>2 DEF Cancel
<1>2. CASE Collecting
  <2>1. CASE CollectTick
    BY <2>1 DEF CollectTick
  <2>2. CASE CollectLock
    BY <2>2 DEF CollectLock
  <2>3. CASE CollectGauges
    BY <2>3 DEF CollectGauges
  <2>4. CASE CollectCounter
    BY <2>4 DEF CollectCounter
  <2>5. CASE CollectStop
    BY <2>5 DEF CollectStop
  <2> QED BY <1>2, <2>1, <2>2, <2>3, <2>4, <2>5 DEF Collecting
<1>3. CASE CollectingExtra
  <2>1. CASE ExtraTick
    BY <2>1 DEF ExtraTick
  <2>2. CASE ExtraFails
    BY <2>2 DEF ExtraFails
  <2>3. CASE ExtraLock
    BY <2>3 DEF ExtraLock
  <2>4. CASE ExtraMemory
    BY <2>4 DEF ExtraMemory
  <2>5. CASE ExtraCPU
    BY <2>5 DEF ExtraCPU
  <2>6. CASE ExtraStop
    BY <2>6 DEF ExtraStop
  <2> QED BY <1>3, <2>1, <2>2, <2>3, <2>4, <2>5, <2>6 DEF CollectingExtra
<1>4. CASE Reporting
  <2>1. ASSUME NEW from \in {"tick", "stop"}, NEW to \in {"push", "flush"},
               GetSnapshot(from, to)
        PROVE  TypeOK'
    <3>1. convertToModelMetrics(Len(produced) + 1) \in Batches
      BY DEF convertToModelMetrics, Batches
    <3>2. produced' \in Seq(Batches)
      BY <2>1, <3>1, AppendProperties DEF GetSnapshot, TakeSnapshot
    <3> QED BY <2>1, <3>1, <3>2 DEF GetSnapshot, TakeSnapshot
  <2>2. ASSUME NEW from \in {"push", "flush"}, NEW to \in {"select", "return"}, Push(from, to),
               flushes' \in Nat
        PROVE  TypeOK'
    <3>1. jobs' \in Seq(Batches)
      BY <2>2, AppendProperties DEF Push
    <3> QED BY <1>0, <2>2, <3>1 DEF Push
  <2>3. CASE ReportTick \/ ReportStop \/ ReportPushCancelled \/ ReportClose
    BY <2>3 DEF ReportTick, ReportStop, ReportPushCancelled, ReportClose
  <2>4. CASE ReportSnapshot \/ ReportFinalSnapshot
    BY <2>1, <2>4 DEF ReportSnapshot, ReportFinalSnapshot
  <2>5. CASE ReportPush \/ ReportFlush
    BY <2>2, <2>5 DEF ReportPush, ReportFlush
  <2> QED BY <1>4, <2>3, <2>4, <2>5 DEF Reporting
<1>5. ASSUME NEW w \in Workers, Working(w) PROVE TypeOK'
  <2>1. CASE WorkerReceive(w)
    <3>1. Head(jobs) \in Batches /\ Tail(jobs) \in Seq(Batches)
      BY <2>1, HeadTailProperties DEF WorkerReceive
    <3> QED BY <2>1, <3>1 DEF WorkerReceive
  <2>a. workerBatch[w].id \in Nat
    BY <1>5 DEF Batches
  <2>b. ASSUME WorkerNext(w)
        PROVE  /\ pcWorker' \in [Workers -> {"recv", "send", "exited"}]
               /\ workerBatch' \in [Workers -> Batches]
    BY <1>0, <2>b DEF WorkerNext
  <2>2. CASE WorkerSent(w)
    <3>1. delivered' \in SUBSET Nat /\ UNCHANGED failed
      BY <2>2, <2>a DEF WorkerSent
    <3> QED BY <2>2, <2>b, <3>1 DEF WorkerSent, WorkerNext
  <2>3. CASE WorkerFailed(w)
    <3>1. failed' \in SUBSET Nat /\ UNCHANGED delivered
      BY <2>3, <2>a DEF WorkerFailed
    <3> QED BY <2>3, <2>b, <3>1 DEF WorkerFailed, WorkerNext
  <2>4. CASE WorkerExit(w)
    BY <2>4 DEF WorkerExit
  <2> QED BY <1>5, <2>1, <2>2, <2>3, <2>4 DEF Working
<1>6. CASE UNCHANGED vars
  BY <1>6 DEF vars
<1> QED BY <1>1, <1>2, <1>3, <1>4, <1>5, <1>6 DEF Next, Terminated

(* The start of Run is of the right type.                                   *)
LEMMA TypeInit == Init => TypeOK
<1>1. NoBatch \in Batches
  BY DEF NoBatch, Batches
<1>2. <<>> \in Seq(Batches)
  OBVIOUS
<1> SUFFICES ASSUME Init PROVE TypeOK
  OBVIOUS
<1>3. pcWorker \in [Workers -> {"recv", "send", "exited"}] /\ workerBatch \in [Workers -> Batches]
  BY <1>1 DEF Init
<1> QED BY <1>1, <1>2, <1>3 DEF Init, TypeOK

(* The agent's variables have their types in every reachable state.         *)
THEOREM TypeCorrect == Spec => []TypeOK
BY TypeInit, TypeStep, PTL DEF Spec

-----------------------------------------------------------------------------
(* What convertToModelMetrics appends to the history: the old batches stay  *)
(* where they are and the new one is the last.                              *)
LEMMA SnapshotAppends ==
  ASSUME TypeOK, NEW from, NEW to, TakeSnapshot(from, to)
  PROVE  /\ Len(produced') = Len(produced) + 1
         /\ \A i \in 1..Len(produced) : produced'[i] = produced[i]
         /\ produced'[Len(produced) + 1] = convertToModelMetrics(Len(produced) + 1)
<1>1. convertToModelMetrics(Len(produced) + 1) \in Batches
  BY DEF TypeOK, convertToModelMetrics, Batches
<1> QED BY <1>1, AppendProperties DEF TypeOK, TakeSnapshot

(* The mutex and the half-done collections.                                 *)
LEMMA LockStep == ASSUME TypeOK, LockInv, [Next]_vars PROVE LockInv'
<1> USE DEF TypeOK, LockInv, metrics, collectorVars
<1>1. CASE Cancel
  BY <1>1 DEF Cancel
<1>2. CASE Collecting
  <2>1. CASE CollectTick \/ CollectStop
    BY <2>1 DEF CollectTick, CollectStop
  <2>2. CASE CollectLock
    BY <2>2 DEF CollectLock
  <2>3. CASE CollectGauges
    BY <2>3 DEF CollectGauges
  <2>4. CASE CollectCounter
    BY <2>4 DEF CollectCounter
  <2> QED BY <1>2, <2>1, <2>2, <2>3, <2>4 DEF Collecting
<1>3. CASE CollectingExtra
  <2>1. CASE ExtraTick \/ ExtraFails \/ ExtraStop
    BY <2>1 DEF ExtraTick, ExtraFails, ExtraStop
  <2>2. CASE ExtraLock
    BY <2>2 DEF ExtraLock
  <2>3. CASE ExtraMemory
    BY <2>3 DEF ExtraMemory
  <2>4. CASE ExtraCPU
    BY <2>4 DEF ExtraCPU
  <2> QED BY <1>3, <2>1, <2>2, <2>3, <2>4 DEF CollectingExtra
<1>4. CASE UNCHANGED collectorVars
  BY <1>4
<1>5. CASE Reporting
  BY <1>4, <1>5 DEF Reporting, ReportTick, ReportStop, ReportSnapshot, ReportFinalSnapshot,
     GetSnapshot, TakeSnapshot, ReportPush, Push, ReportPushCancelled, ReportFlush, ReportClose
<1>6. ASSUME NEW w \in Workers, Working(w) PROVE LockInv'
  BY <1>4, <1>6 DEF Working, WorkerReceive, WorkerSent, WorkerFailed, WorkerNext, WorkerExit
<1>7. CASE UNCHANGED vars
  BY <1>4, <1>7 DEF vars
<1> QED BY <1>1, <1>2, <1>3, <1>5, <1>6, <1>7 DEF Next, Terminated

(* A step leaves "produced" alone or is one of the two snapshots.           *)
LEMMA ProducedStep ==
  ASSUME [Next]_vars
  PROVE  \/ UNCHANGED produced
         \/ ReportSnapshot
         \/ ReportFinalSnapshot
<1> USE DEF reportVars
<1>1. CASE Collecting
  BY <1>1 DEF Collecting, CollectTick, CollectLock, CollectGauges, CollectCounter, CollectStop
<1>2. CASE CollectingExtra
  BY <1>2 DEF CollectingExtra, ExtraTick, ExtraFails, ExtraLock, ExtraMemory, ExtraCPU, ExtraStop
<1>3. CASE Reporting
  BY <1>3 DEF Reporting, ReportTick, ReportStop, ReportPush, Push, ReportPushCancelled,
     ReportFlush, ReportClose
<1>4. CASE \E w \in Workers : Working(w)
  BY <1>4 DEF Working, WorkerReceive, WorkerSent, WorkerFailed, WorkerNext, WorkerExit
<1> QED BY <1>1, <1>2, <1>3, <1>4 DEF Next, Cancel, Terminated, vars

(* Snapshots are only taken while nobody writes, hence they are consistent. *)
LEMMA SnapshotStep ==
  ASSUME TypeOK, LockInv, SnapshotConsistent, [Next]_vars
  PROVE  SnapshotConsistent'
<1>1. CASE UNCHANGED produced
  BY <1>1 DEF SnapshotConsistent
<1>2. ASSUME NEW from, NEW to, GetSnapshot(from, to) PROVE SnapshotConsistent'
  <2>1. TakeSnapshot(from, to) /\ Runtime = Counter /\ Memory = CPU
    BY <1>2 DEF GetSnapshot, LockInv, TypeOK
  <2>2. /\ convertToModelMetrics(Len(produced) + 1).Runtime
           = convertToModelMetrics(Len(produced) + 1).Counter
        /\ convertToModelMetrics(Len(produced) + 1).Memory
           = convertToModelMetrics(Len(produced) + 1).CPU
    BY <2>1 DEF convertToModelMetrics
  <2>3. /\ Len(produced') = Len(produced) + 1
        /\ \A i \in 1..Len(produced) : produced'[i] = produced[i]
        /\ produced'[Len(produced) + 1] = convertToModelMetrics(Len(produced) + 1)
    BY <2>1, SnapshotAppends
  <2>4. Len(produced) \in Nat
    BY DEF TypeOK
  <2>5. ASSUME NEW i \in 1..Len(produced')
        PROVE  produced'[i].Runtime = produced'[i].Counter /\ produced'[i].Memory = produced'[i].CPU
    <3>1. i \in 1..Len(produced) \/ i = Len(produced) + 1
      BY <2>3, <2>4
    <3> QED BY <2>2, <2>3, <3>1 DEF SnapshotConsistent
  <2> QED BY <2>5 DEF SnapshotConsistent
<1> QED BY <1>1, <1>2, ProducedStep DEF ReportSnapshot, ReportFinalSnapshot

(* Every batch the agent sends is one moment of the collector.              *)
THEOREM SnapshotsAreConsistent == Spec => []SnapshotConsistent
<1>1. Init => LockInv /\ SnapshotConsistent
  BY DEF Init, LockInv, SnapshotConsistent
<1>2. TypeOK /\ LockInv /\ SnapshotConsistent /\ [Next]_vars
      => LockInv' /\ SnapshotConsistent'
  BY LockStep, SnapshotStep
<1> QED BY <1>1, <1>2, TypeCorrect, PTL DEF Spec

-----------------------------------------------------------------------------
(* The order of the reporter's last steps.                                  *)
LEMMA ReporterStep ==
  ASSUME TypeOK, ReporterInv, ChannelOpenWhileUsed, FlushedOnce, [Next]_vars
  PROVE  ReporterInv' /\ ChannelOpenWhileUsed' /\ FlushedOnce'
<1> USE DEF TypeOK, ReporterInv, ChannelOpenWhileUsed, FlushedOnce, reportVars
<1>1. CASE Cancel
  BY <1>1 DEF Cancel
<1>2. CASE UNCHANGED <<ctxDone, reportVars>>
  BY <1>2
<1>3. CASE Collecting \/ CollectingExtra
  BY <1>2, <1>3 DEF Collecting, CollectTick, CollectLock, CollectGauges, CollectCounter, CollectStop,
     CollectingExtra, ExtraTick, ExtraFails, ExtraLock, ExtraMemory, ExtraCPU, ExtraStop
<1>4. CASE \E w \in Workers : Working(w)
  BY <1>2, <1>4 DEF Working, WorkerReceive, WorkerSent, WorkerFailed, WorkerNext, WorkerExit
<1>5. CASE Reporting
  <2>1. CASE ReportTick \/ ReportStop \/ ReportPushCancelled
    BY <2>1 DEF ReportTick, ReportStop, ReportPushCancelled
  <2>2. CASE ReportSnapshot \/ ReportFinalSnapshot
    BY <2>2, SnapshotAppends DEF ReportSnapshot, ReportFinalSnapshot, GetSnapshot, TakeSnapshot
  <2>3. CASE ReportPush
    BY <2>3 DEF ReportPush, Push
  <2>4. CASE ReportFlush
    BY <2>4 DEF ReportFlush, Push
  <2>5. CASE ReportClose
    BY <2>5 DEF ReportClose
  <2> QED BY <1>5, <2>1, <2>2, <2>3, <2>4, <2>5 DEF Reporting
<1>6. CASE UNCHANGED vars
  BY <1>2, <1>6 DEF vars
<1> QED BY <1>1, <1>3, <1>4, <1>5, <1>6 DEF Next, Terminated

(* No send on a closed channel, and exactly one final flush.                *)
THEOREM ChannelClosedOnce == Spec => []ShutdownOrder
<1>1. Init => ReporterInv /\ ChannelOpenWhileUsed /\ FlushedOnce
  BY DEF Init, ReporterInv, ChannelOpenWhileUsed, FlushedOnce
<1>2. TypeOK /\ ReporterInv /\ ChannelOpenWhileUsed /\ FlushedOnce /\ [Next]_vars
      => ReporterInv' /\ ChannelOpenWhileUsed' /\ FlushedOnce'
  BY ReporterStep
<1> QED BY <1>1, <1>2, TypeCorrect, PTL DEF Spec, ShutdownOrder

-----------------------------------------------------------------------------
(* A step that touches neither the channel nor the batches.                 *)
LEMMA QuietStep ==
  ASSUME UNCHANGED <<jobs, reportVars, workerVars>>
  PROVE  /\ IdInv => IdInv'
         /\ NoBatchLost => NoBatchLost'
         /\ ExitInv => ExitInv'
         /\ ReceivedInv => ReceivedInv'
BY DEF reportVars, workerVars, IdInv, NoBatchLost, HasPending, ExitInv, ReceivedInv, Sending, Finished

(* Batches move from the reporter through the channel to the workers.       *)
LEMMA ChannelStep ==
  ASSUME TypeOK, IdInv, NoBatchLost, [Next]_vars
  PROVE  IdInv' /\ NoBatchLost'
<1> USE DEF TypeOK
<1>1. CASE UNCHANGED <<jobs, reportVars, workerVars>>
  BY <1>1, QuietStep
<1>2. CASE Cancel \/ Collecting \/ CollectingExtra
  BY <1>1, <1>2 DEF Cancel, Collecting, CollectTick, CollectLock, CollectGauges, CollectCounter,
     CollectStop, CollectingExtra, ExtraTick, ExtraFails, ExtraLock, ExtraMemory, ExtraCPU, ExtraStop
<1>3. CASE Reporting
  <2>1. CASE ReportTick \/ ReportStop \/ ReportPushCancelled \/ ReportClose
    BY <2>1 DEF ReportTick, ReportStop, ReportPushCancelled, ReportClose, IdInv, NoBatchLost,
       HasPending, workerVars
  <2>2. ASSUME NEW from \in {"tick", "stop"}, NEW to \in {"push", "flush"},
               TakeSnapshot(from, to)
        PROVE  IdInv' /\ NoBatchLost'
    <3>1. /\ Len(produced') = Len(produced) + 1
          /\ \A i \in 1..Len(produced) : produced'[i] = produced[i]
          /\ produced'[Len(produced) + 1] = convertToModelMetrics(Len(produced) + 1)
      BY <2>2, SnapshotAppends
    <3>2. convertToModelMetrics(Len(produced) + 1).id = Len(produced) + 1
      BY DEF convertToModelMetrics
    <3>3. /\ UNCHANGED <<jobs, taken>>
          /\ pending' = convertToModelMetrics(Len(produced) + 1)
          /\ ~HasPending /\ HasPending'
      BY <2>2 DEF TakeSnapshot, HasPending, workerVars
    <3>4. Len(produced) \in Nat /\ Len(jobs) \in Nat
      OBVIOUS
    <3>5. IdInv'
      BY <3>1, <3>2, <3>4 DEF IdInv
    <3>6. NoBatchLost'
      BY <3>1, <3>3, <3>4 DEF NoBatchLost
    <3> QED BY <3>5, <3>6
  <2>3. CASE ReportSnapshot \/ ReportFinalSnapshot
    BY <2>2, <2>3 DEF ReportSnapshot, ReportFinalSnapshot, GetSnapshot
  <2>4. ASSUME NEW from \in {"push", "flush"}, NEW to \in {"select", "return"}, Push(from, to)
        PROVE  IdInv' /\ NoBatchLost'
    <3>1. /\ Len(jobs') = Len(jobs) + 1
          /\ \A i \in 1..Len(jobs) : jobs'[i] = jobs[i]
          /\ jobs'[Len(jobs) + 1] = pending
      BY <2>4, AppendProperties DEF Push
    <3>2. UNCHANGED <<produced, taken>> /\ HasPending /\ ~HasPending'
      BY <2>4 DEF Push, HasPending, workerVars
    <3>3. Len(produced) \in Nat /\ Len(jobs) \in Nat
      OBVIOUS
    <3>4. IdInv'
      BY <3>2 DEF IdInv
    <3>5. Len(produced) = taken + Len(jobs) + 1 /\ pending = produced[Len(produced)]
      BY <3>2 DEF NoBatchLost
    <3>6. ASSUME NEW i \in 1..Len(jobs') PROVE jobs'[i] = produced[taken + i]
      <4>1. i \in 1..Len(jobs) \/ i = Len(jobs) + 1
        BY <3>1, <3>3
      <4>2. i = Len(jobs) + 1 => taken + i = Len(produced)
        BY <3>3, <3>5
      <4> QED BY <3>1, <3>5, <4>1, <4>2 DEF NoBatchLost
    <3>7. NoBatchLost'
      BY <3>1, <3>2, <3>3, <3>5, <3>6 DEF NoBatchLost
    <3> QED BY <3>4, <3>7
  <2>5. CASE ReportPush \/ ReportFlush
    BY <2>4, <2>5 DEF ReportPush, ReportFlush
  <2> QED BY <1>3, <2>1, <2>3, <2>5 DEF Reporting
<1>4. ASSUME NEW w \in Workers, Working(w) PROVE IdInv' /\ NoBatchLost'
  <2>1. CASE WorkerReceive(w)
    <3>1. /\ Len(jobs') = Len(jobs) - 1
          /\ \A i \in 1..Len(jobs') : jobs'[i] = jobs[i + 1]
      BY <2>1, HeadTailProperties DEF WorkerReceive
    <3>2. UNCHANGED <<produced, pending>> /\ taken' = taken + 1 /\ HasPending' = HasPending
      BY <2>1 DEF WorkerReceive, HasPending, reportVars
    <3>3. Len(produced) \in Nat /\ Len(jobs) \in Nat
      OBVIOUS
    <3>4. IdInv'
      BY <3>2 DEF IdInv
    <3>5. ASSUME NEW i \in 1..Len(jobs') PROVE jobs'[i] = produced[taken' + i]
      <4>1. i + 1 \in 1..Len(jobs) /\ taken' + i = taken + (i + 1)
        BY <3>1, <3>2, <3>3
      <4> QED BY <3>1, <4>1 DEF NoBatchLost
    <3>6. NoBatchLost'
      BY <3>1, <3>2, <3>3, <3>5 DEF NoBatchLost
    <3> QED BY <3>4, <3>6
  <2>2. CASE WorkerSent(w) \/ WorkerFailed(w) \/ WorkerExit(w)
    BY <2>2 DEF WorkerSent, WorkerFailed, WorkerNext, WorkerExit, IdInv, NoBatchLost, HasPending,
       reportVars
  <2> QED BY <1>4, <2>1, <2>2 DEF Working
<1>5. CASE UNCHANGED vars
  BY <1>1, <1>5 DEF vars
<1> QED BY <1>2, <1>3, <1>4, <1>5 DEF Next, Terminated

(* Every snapshot reaches a worker, in order and exactly once.              *)
THEOREM NoBatchIsLost == Spec => []NoBatchLost
<1>1. Init => IdInv /\ NoBatchLost
  BY DEF Init, IdInv, NoBatchLost, HasPending
<1>2. TypeOK /\ IdInv /\ NoBatchLost /\ [Next]_vars => IdInv' /\ NoBatchLost'
  BY ChannelStep
<1> QED BY <1>1, <1>2, TypeCorrect, PTL DEF Spec

-----------------------------------------------------------------------------
(* The workers: what they hold and what they have finished.                 *)
LEMMA WorkerStep ==
  ASSUME TypeOK, IdInv, NoBatchLost, ReceivedInv, [Next]_vars
  PROVE  ReceivedInv'
<1> USE DEF TypeOK
<1>1. CASE UNCHANGED workerVars
  BY <1>1 DEF workerVars, ReceivedInv, Sending, Finished
<1>2. CASE Cancel \/ Collecting \/ CollectingExtra
  BY <1>1, <1>2 DEF Cancel, Collecting, CollectTick, CollectLock, CollectGauges, CollectCounter,
     CollectStop, CollectingExtra, ExtraTick, ExtraFails, ExtraLock, ExtraMemory, ExtraCPU, ExtraStop
<1>3. CASE Reporting
  BY <1>1, <1>3 DEF Reporting, ReportTick, ReportStop, ReportSnapshot, ReportFinalSnapshot,
     GetSnapshot, TakeSnapshot, ReportPush, Push, ReportPushCancelled, ReportFlush, ReportClose
<1>4. ASSUME NEW w \in Workers, Working(w) PROVE ReceivedInv'
  <2>1. CASE WorkerReceive(w)
    <3>1. jobs[1] = produced[taken + 1] /\ taken + 1 \in 1..Len(produced) /\ Head(jobs) = jobs[1]
      BY <2>1, EmptySeq DEF WorkerReceive, NoBatchLost
    <3>2. Head(jobs).id = taken + 1
      BY <3>1 DEF IdInv
    <3>3. /\ workerBatch'[w].id = taken + 1 /\ Sending(w)' /\ ~Sending(w)
          /\ \A v \in Workers \ {w} : workerBatch'[v] = workerBatch[v] /\ Sending(v)' = Sending(v)
          /\ taken' = taken + 1 /\ UNCHANGED <<delivered, failed>>
      BY <2>1, <3>2 DEF WorkerReceive, Sending
    <3>4. taken + 1 \notin delivered /\ taken + 1 \notin failed
      BY DEF ReceivedInv
    <3>5. /\ \A n \in delivered' : n \in 1..taken' /\ n \notin failed'
          /\ \A n \in failed' : n \in 1..taken'
      BY <3>3 DEF ReceivedInv
    <3>6. ASSUME NEW n \in 1..taken'
          PROVE  Finished(n)' \/ \E v \in Workers : Sending(v)' /\ workerBatch'[v].id = n
      <4>1. CASE n = taken + 1
        BY <3>3, <4>1
      <4>2. CASE n \in 1..taken
        BY <3>3, <4>2 DEF ReceivedInv, Finished
      <4> QED BY <3>3, <4>1, <4>2
    <3>7. ASSUME NEW v \in Workers, Sending(v)'
          PROVE  /\ workerBatch'[v].id \in 1..taken'
                 /\ ~Finished(workerBatch[v].id)'
                 /\ \A u \in Workers :
                       Sending(u)' /\ workerBatch'[u].id = workerBatch'[v].id => u = v
      <4>1. \A u \in Workers \ {w} : Sending(u)' => workerBatch'[u].id \in 1..taken
        BY <3>3 DEF ReceivedInv
      <4>2. taken + 1 \notin 1..taken
        OBVIOUS
      <4>3. CASE v = w
        <5>1. workerBatch'[v].id \in 1..taken' /\ ~Finished(workerBatch[v].id)'
          BY <3>3, <3>4, <4>3 DEF Finished
        <5>2. \A u \in Workers :
                 Sending(u)' /\ workerBatch'[u].id = workerBatch'[v].id => u = v
          BY <3>3, <4>1, <4>2, <4>3
        <5> QED BY <5>1, <5>2
      <4>4. CASE v # w
        <5>1. workerBatch'[v] = workerBatch[v] /\ Sending(v)
          BY <3>3, <3>7, <4>4
        <5>2. workerBatch[v].id \in 1..taken /\ ~Finished(workerBatch[v].id)'
          BY <3>3, <5>1 DEF ReceivedInv, Finished
        <5>3. \A u \in Workers :
                 Sending(u)' /\ workerBatch'[u].id = workerBatch'[v].id => u = v
          BY <3>3, <4>2, <5>1, <5>2 DEF ReceivedInv
        <5> QED BY <3>3, <5>1, <5>2, <5>3
      <4> QED BY <4>3, <4>4
    <3> QED BY <3>5, <3>6, <3>7 DEF ReceivedInv
  <2>2. CASE WorkerSent(w) \/ WorkerFailed(w)
    <3>1. /\ Sending(w) /\ ~Sending(w)'
          /\ \A v \in Workers \ {w} : workerBatch'[v] = workerBatch[v] /\ Sending(v)' = Sending(v)
          /\ \/ delivered' = delivered \cup {workerBatch[w].id} /\ failed' = failed
             \/ failed' = failed \cup {workerBatch[w].id} /\ delivered' = delivered
          /\ taken' = taken
      BY <2>2 DEF WorkerSent, WorkerFailed, WorkerNext, Sending
    <3> DEFINE m == workerBatch[w].id
    <3>2. m \in 1..taken /\ ~Finished(m)
      BY <3>1 DEF ReceivedInv
    <3>3. \A v \in Workers : Sending(v)' =>
              /\ v # w /\ Sending(v) /\ workerBatch'[v] = workerBatch[v]
              /\ workerBatch[v].id # m
      BY <3>1 DEF ReceivedInv
    <3>4. \A n : Finished(n)' <=> Finished(n) \/ n = m
      BY <3>1 DEF Finished
    <3>5. ASSUME NEW n \in 1..taken
          PROVE  Finished(n)' \/ \E v \in Workers : Sending(v)' /\ workerBatch'[v].id = n
      BY <3>1, <3>4 DEF ReceivedInv
    <3>6. ASSUME NEW v \in Workers, Sending(v)'
          PROVE  /\ workerBatch'[v].id \in 1..taken
                 /\ ~Finished(workerBatch[v].id)'
                 /\ \A u \in Workers :
                       Sending(u)' /\ workerBatch'[u].id = workerBatch'[v].id => u = v
      <4>1. workerBatch'[v] = workerBatch[v] /\ Sending(v) /\ workerBatch[v].id # m
        BY <3>3, <3>6
      <4>2. workerBatch[v].id \in 1..taken /\ ~Finished(workerBatch[v].id)
        BY <4>1 DEF ReceivedInv
      <4>3. ~Finished(workerBatch[v].id)'
        BY <3>1, <4>1, <4>2 DEF Finished
      <4>4. \A u \in Workers :
               Sending(u)' /\ workerBatch'[u].id = workerBatch'[v].id => u = v
        BY <3>3, <4>1 DEF ReceivedInv
      <4> QED BY <4>1, <4>2, <4>3, <4>4
    <3>7. /\ \A n \in delivered' : n \in 1..taken /\ n \notin failed'
          /\ \A n \in failed' : n \in 1..taken
      <4>1. /\ \A n \in delivered : n \in 1..taken /\ n \notin failed
            /\ \A n \in failed : n \in 1..taken
            /\ m \notin delivered /\ m \notin failed
        BY <3>2 DEF ReceivedInv, Finished
      <4>2. \/ delivered' = delivered \cup {m} /\ failed' = failed
            \/ failed' = failed \cup {m} /\ delivered' = delivered
        BY <3>1
      <4> QED BY <3>2, <4>1, <4>2
    <3> QED BY <3>1, <3>5, <3>6, <3>7 DEF ReceivedInv
  <2>3. CASE WorkerExit(w)
    BY <2>3 DEF WorkerExit, ReceivedInv, Sending, Finished
  <2> QED BY <1>4, <2>1, <2>2, <2>3 DEF Working
<1>5. CASE UNCHANGED vars
  BY <1>1, <1>5 DEF vars
<1> QED BY <1>2, <1>3, <1>4, <1>5 DEF Next, Terminated

(* The pointwise form says what ReceivedOnce says.                          *)
LEMMA ReceivedInvIsReceivedOnce == ASSUME ReceivedInv PROVE ReceivedOnce
BY DEF ReceivedInv, ReceivedOnce, Sending, Finished

(* A worker leaves only when nothing can come any more.                     *)
LEMMA ExitStep ==
  ASSUME TypeOK, ExitInv, ChannelOpenWhileUsed, [Next]_vars
  PROVE  ExitInv'
<1> USE DEF TypeOK, ExitInv, ChannelOpenWhileUsed
<1>1. CASE UNCHANGED <<jobs, reportVars, workerVars>>
  BY <1>1, QuietStep
<1>2. CASE Cancel \/ Collecting \/ CollectingExtra
  BY <1>1, <1>2 DEF Cancel, Collecting, CollectTick, CollectLock, CollectGauges, CollectCounter,
     CollectStop, CollectingExtra, ExtraTick, ExtraFails, ExtraLock, ExtraMemory, ExtraCPU, ExtraStop
<1>3. CASE Reporting
  <2>1. CASE ReportPush \/ ReportFlush
    BY <2>1 DEF ReportPush, ReportFlush, Push, workerVars
  <2>2. CASE ReportTick \/ ReportStop \/ ReportPushCancelled \/ ReportClose
    BY <2>2 DEF ReportTick, ReportStop, ReportPushCancelled, ReportClose, workerVars
  <2>3. CASE ReportSnapshot \/ ReportFinalSnapshot
    BY <2>3 DEF ReportSnapshot, ReportFinalSnapshot, GetSnapshot, TakeSnapshot, workerVars
  <2> QED BY <1>3, <2>1, <2>2, <2>3 DEF Reporting
<1>4. ASSUME NEW w \in Workers, Working(w) PROVE ExitInv'
  <2>1. CASE WorkerReceive(w)
    BY <2>1 DEF WorkerReceive, reportVars
  <2>2. CASE WorkerSent(w) \/ WorkerFailed(w)
    BY <2>2 DEF WorkerSent, WorkerFailed, WorkerNext, reportVars
  <2>3. CASE WorkerExit(w)
    BY <2>3 DEF WorkerExit, reportVars
  <2> QED BY <1>4, <2>1, <2>2, <2>3 DEF Working
<1>5. CASE UNCHANGED vars
  BY <1>1, <1>5 DEF vars
<1> QED BY <1>2, <1>3, <1>4, <1>5 DEF Next, Terminated

(* What the invariants say of the moment wg.Wait() returns.                 *)
LEMMA StoppedMeansDrained ==
  ASSUME TypeOK, ReporterInv, ChannelOpenWhileUsed, NoBatchLost, ReceivedInv, ExitInv
  PROVE  DrainedAtStop
<1> SUFFICES ASSUME Stopped
             PROVE  delivered \cup failed = 1..Len(produced) /\ produced # <<>>
  BY DEF DrainedAtStop
<1>1. 1 \in Workers /\ \A w \in Workers : pcWorker[w] = "exited"
  BY RateLimitAssumption DEF Stopped, Workers
<1>2. jobs = <<>> /\ ~HasPending
  BY <1>1 DEF ExitInv, Stopped, HasPending
<1>3. Len(produced) = taken
  BY <1>2, EmptySeq DEF NoBatchLost, TypeOK
<1>4. delivered \cup failed = 1..taken
  BY <1>1 DEF ReceivedInv, Sending, Finished
<1>5. Len(produced) > 0
  BY DEF ReporterInv, Stopped
<1> QED BY <1>3, <1>4, <1>5, EmptySeq DEF TypeOK

(* The inductive invariant.                                                 *)
IInv ==
    /\ TypeOK /\ ReporterInv /\ ChannelOpenWhileUsed /\ FlushedOnce
    /\ IdInv /\ NoBatchLost /\ ReceivedInv /\ ExitInv

(* It holds when Run starts.                                                *)
LEMMA IInvInit == Init => IInv
<1>1. Init => TypeOK
  BY TypeInit
<1>2. Init => ReporterInv /\ ChannelOpenWhileUsed /\ FlushedOnce
  BY DEF Init, ReporterInv, ChannelOpenWhileUsed, FlushedOnce
<1>3. Init => IdInv /\ NoBatchLost
  BY DEF Init, IdInv, NoBatchLost, HasPending
<1>4. Init => ReceivedInv /\ ExitInv
  BY DEF Init, ReceivedInv, ExitInv, Sending, Finished
<1> QED BY <1>1, <1>2, <1>3, <1>4 DEF IInv

(* Every step of every goroutine keeps it.                                  *)
LEMMA IInvStep == ASSUME IInv, [Next]_vars PROVE IInv'
BY TypeStep, ReporterStep, ChannelStep, WorkerStep, ExitStep DEF IInv

(* It holds in every reachable state.                                       *)
LEMMA IInvHolds == Spec => []IInv
<1>1. IInv /\ [Next]_vars => IInv'
  BY IInvStep
<1> QED BY <1>1, IInvInit, PTL DEF Spec

(* Graceful shutdown: SendBatch has returned exactly once for every batch a *)
(* worker received, and when Run returns that is every snapshot there is.   *)
THEOREM ShutdownDrains == Spec => [](ReceivedOnce /\ DrainedAtStop)
<1>1. IInv => ReceivedOnce /\ DrainedAtStop
  BY ReceivedInvIsReceivedOnce, StoppedMeansDrained DEF IInv
<1> QED BY <1>1, IInvHolds, PTL

-----------------------------------------------------------------------------
(* What the final flush owes: the poll counter never goes back, so a        *)
(* snapshot taken after the cancellation has it all, and a reporter that    *)
(* already holds a batch owes no more than that batch.                      *)
FreshInv ==
    /\ ctxDone => Counter >= atCancel
    /\ HasPending => pending.Counter <= Counter
    /\ ctxDone /\ HasPending => pending.Counter >= atCancel
    /\ pcReport \in {"return", "done"} => produced[Len(produced)].Counter >= atCancel

(* The poll counter never goes back.                                        *)
LEMMA CounterGrows == ASSUME TypeOK, [Next]_vars PROVE Counter' \in Nat /\ Counter <= Counter'
<1> USE DEF TypeOK, metrics, collectorVars
<1>1. CASE Collecting
  BY <1>1 DEF Collecting, CollectTick, CollectLock, CollectGauges, CollectCounter, CollectStop
<1>2. CASE CollectingExtra
  BY <1>2 DEF CollectingExtra, ExtraTick, ExtraFails, ExtraLock, ExtraMemory, ExtraCPU, ExtraStop
<1>3. CASE Reporting
  BY <1>3 DEF Reporting, ReportTick, ReportStop, ReportSnapshot, ReportFinalSnapshot,
     GetSnapshot, TakeSnapshot, ReportPush, Push, ReportPushCancelled, ReportFlush, ReportClose
<1>4. CASE \E w \in Workers : Working(w)
  BY <1>4 DEF Working, WorkerReceive, WorkerSent, WorkerFailed, WorkerNext, WorkerExit
<1>5. CASE Cancel \/ UNCHANGED vars
  BY <1>5 DEF Cancel, vars
<1> QED BY <1>1, <1>2, <1>3, <1>4, <1>5 DEF Next, Terminated

(* The cancellation sets the debt, and every way to the flush pays it.      *)
LEMMA FreshStep == ASSUME IInv, FreshInv, [Next]_vars PROVE FreshInv'
<1>1. /\ TypeOK /\ ReporterInv /\ NoBatchLost
      /\ pending.Counter \in Nat /\ Counter \in Nat /\ atCancel \in Nat
      /\ Counter' \in Nat /\ Counter <= Counter'
  BY CounterGrows DEF IInv, TypeOK, Batches
<1>2. CASE Cancel
  <2>1. pcReport \notin {"return", "done"}
    BY <1>1, <1>2 DEF Cancel, ReporterInv
  <2> QED BY <1>1, <1>2, <2>1 DEF Cancel, FreshInv, HasPending, ReporterInv, reportVars, collectorVars, metrics
<1>3. CASE UNCHANGED <<ctxDone, atCancel, reportVars>>
  <2>1. produced[Len(produced)].Counter' = produced[Len(produced)].Counter
    BY <1>3 DEF reportVars
  <2> QED BY <1>1, <1>3, <2>1 DEF FreshInv, HasPending, reportVars
<1>4. CASE Collecting \/ CollectingExtra
  BY <1>3, <1>4 DEF Collecting, CollectTick, CollectLock, CollectGauges, CollectCounter, CollectStop,
     CollectingExtra, ExtraTick, ExtraFails, ExtraLock, ExtraMemory, ExtraCPU, ExtraStop
<1>5. CASE \E w \in Workers : Working(w)
  BY <1>3, <1>5 DEF Working, WorkerReceive, WorkerSent, WorkerFailed, WorkerNext, WorkerExit
<1>6. CASE Reporting
  <2>1. CASE ReportTick \/ ReportStop \/ ReportPushCancelled
    BY <1>1, <2>1 DEF ReportTick, ReportStop, ReportPushCancelled, FreshInv, HasPending,
       collectorVars, metrics
  <2>2. CASE ReportSnapshot \/ ReportFinalSnapshot
    <3>1. /\ pending'.Counter = Counter /\ Counter' = Counter /\ pcReport' \in {"push", "flush"}
          /\ UNCHANGED <<ctxDone, atCancel>>
      BY <2>2 DEF ReportSnapshot, ReportFinalSnapshot, GetSnapshot, TakeSnapshot,
         convertToModelMetrics, collectorVars, metrics
    <3> QED BY <1>1, <3>1 DEF FreshInv
  <2>3. CASE ReportPush
    BY <1>1, <2>3 DEF ReportPush, Push, FreshInv, HasPending, collectorVars, metrics
  <2>4. CASE ReportFlush
    <3>1. produced' = produced /\ produced[Len(produced)].Counter >= atCancel
      BY <1>1, <2>4 DEF ReportFlush, Push, FreshInv, HasPending, NoBatchLost, ReporterInv
    <3> QED BY <1>1, <2>4, <3>1 DEF ReportFlush, Push, FreshInv, HasPending, collectorVars, metrics
  <2>5. CASE ReportClose
    BY <1>1, <2>5 DEF ReportClose, FreshInv, HasPending, collectorVars, metrics
  <2> QED BY <1>6, <2>1, <2>2, <2>3, <2>4, <2>5 DEF Reporting
<1>7. CASE UNCHANGED vars
  BY <1>3, <1>7 DEF vars
<1> QED BY <1>2, <1>4, <1>5, <1>6, <1>7 DEF Next, Terminated

(* The final flush holds every poll the cancellation found, whichever of    *)
(* the two selects of runReport it found it at.                             *)
THEOREM FlushIsFresh == Spec => []FinalFlushIsFresh
<1>1. Init => FreshInv
  BY DEF Init, FreshInv, HasPending
<1>2. IInv /\ FreshInv /\ [Next]_vars => FreshInv'
  BY FreshStep
<1>3. FreshInv => FinalFlushIsFresh
  BY DEF FreshInv, FinalFlushIsFresh, Stopped
<1> QED BY <1>1, <1>2, <1>3, IInvHolds, PTL DEF Spec

-----------------------------------------------------------------------------
(* The buffer never holds more than the channel's capacity.                 *)
CapacityInv == Len(jobs) <= RateLimit

(* Only a push makes the buffer longer, and it looks first.                 *)
LEMMA CapacityStep == ASSUME TypeOK, CapacityInv, [Next]_vars PROVE CapacityInv'
<1> USE RateLimitAssumption DEF TypeOK, CapacityInv
<1>1. CASE UNCHANGED jobs
  BY <1>1
<1>2. CASE Cancel \/ Collecting \/ CollectingExtra
  BY <1>1, <1>2 DEF Cancel, Collecting, CollectTick, CollectLock, CollectGauges, CollectCounter,
     CollectStop, CollectingExtra, ExtraTick, ExtraFails, ExtraLock, ExtraMemory, ExtraCPU, ExtraStop
<1>3. CASE Reporting
  <2>1. ASSUME NEW from, NEW to, Push(from, to) PROVE CapacityInv'
    BY <2>1, AppendProperties DEF Push
  <2> QED BY <1>1, <1>3, <2>1 DEF Reporting, ReportTick, ReportStop, ReportSnapshot,
         ReportFinalSnapshot, GetSnapshot, TakeSnapshot, ReportPush, ReportPushCancelled, ReportFlush,
         ReportClose
<1>4. ASSUME NEW w \in Workers, Working(w) PROVE CapacityInv'
  <2>1. CASE WorkerReceive(w)
    <3>1. Len(jobs') = Len(jobs) - 1
      BY <2>1, HeadTailProperties DEF WorkerReceive
    <3> QED BY <3>1
  <2> QED BY <1>1, <1>4, <2>1 DEF Working, WorkerSent, WorkerFailed, WorkerNext, WorkerExit
<1>5. CASE UNCHANGED vars
  BY <1>1, <1>5 DEF vars
<1> QED BY <1>2, <1>3, <1>4, <1>5 DEF Next, Terminated

(* Delivery counts with the same Cardinality.                               *)
LEMMA SameCardinality == \A S : Promise!Cardinality(S) = Cardinality(S)
BY DEF Promise!Cardinality, Cardinality

(* The batches a worker has received and not finished are at most as many   *)
(* as there are other workers: each of them holds one of its own.           *)
LEMMA InFlightBound ==
  ASSUME IInv, NEW w \in Workers, ~Sending(w)
  PROVE  taken - Cardinality(Promise!Finished) < RateLimit
<1> DEFINE Done == Promise!Finished
           Open == (1..taken) \ Done
           Busy == Workers \ {w}
           holder == [n \in Open |-> CHOOSE v \in Workers : Sending(v) /\ workerBatch[v].id = n]
<1>1. taken \in Nat /\ RateLimit \in Nat \ {0} /\ Done \in SUBSET (1..taken)
  BY RateLimitAssumption DEF IInv, TypeOK, ReceivedInv, Promise!Finished
<1>2. \A n \in Open : holder[n] \in Workers /\ Sending(holder[n]) /\ workerBatch[holder[n]].id = n
  BY DEF IInv, ReceivedInv, Finished, Promise!Finished
<1>3. holder \in Injection(Open, Busy)
  <2>1. holder \in [Open -> Busy]
    BY <1>2
  <2>2. \A m, n \in Open : holder[m] = holder[n] => m = n
    BY <1>2
  <2> QED BY <2>1, <2>2 DEF Injection, IsInjective
<1>4. IsFiniteSet(Busy) /\ Cardinality(Busy) = RateLimit - 1
  <2>1. IsFiniteSet(Workers) /\ Cardinality(Workers) = RateLimit
    BY <1>1, FS_Interval DEF Workers
  <2> QED BY <2>1, FS_RemoveElement
<1>5. IsFiniteSet(Open) /\ Cardinality(Open) <= RateLimit - 1
  BY <1>3, <1>4, FS_Injection
<1>6. IsFiniteSet(1..taken) /\ Cardinality(1..taken) = taken
  BY <1>1, FS_Interval
<1>7. Cardinality(Open) = taken - Cardinality(Done)
  <2>1. Cardinality((1..taken) \ Done) = Cardinality(1..taken) - Cardinality((1..taken) \cap Done)
    BY <1>6, FS_Difference
  <2>2. (1..taken) \cap Done = Done
    BY <1>1
  <2> QED BY <1>6, <2>1, <2>2
<1>8. Cardinality(Open) \in Nat /\ Cardinality(Done) \in Nat
  BY <1>1, <1>5, <1>6, FS_Subset, FS_CardinalityType
<1> QED BY <1>1, <1>5, <1>7, <1>8

(* wg.Wait() has returned: nothing of the agent moves any more.             *)
LEMMA StoppedIsFinal ==
  ASSUME IInv, Stopped, [Next]_vars PROVE UNCHANGED vars
<1>1. 1 \in Workers /\ ctxDone
  BY RateLimitAssumption DEF IInv, ReporterInv, Stopped, Workers
<1>2. ~Cancel /\ ~Collecting /\ ~CollectingExtra
  BY <1>1 DEF Stopped, Cancel, Collecting, CollectTick, CollectLock, CollectGauges, CollectCounter,
     CollectStop, CollectingExtra, ExtraTick, ExtraFails, ExtraLock, ExtraMemory, ExtraCPU, ExtraStop
<1>3. ~Reporting
  BY DEF Stopped, Reporting, ReportTick, ReportStop, ReportSnapshot, ReportFinalSnapshot,
     GetSnapshot, TakeSnapshot, ReportPush, Push, ReportPushCancelled, ReportFlush, ReportClose
<1>4. \A w \in Workers : ~Working(w)
  BY DEF Stopped, Working, WorkerReceive, WorkerSent, WorkerFailed, WorkerNext, WorkerExit
<1> QED BY <1>2, <1>3, <1>4 DEF Next, Terminated

(* Every step of the goroutines is a step of the promise or is not seen.    *)
LEMMA DeliveryStep ==
  ASSUME IInv, CapacityInv, [Next]_vars, DrainedAtStop'
  PROVE  [Promise!Next]_(Promise!vars)
<1>0. /\ TypeOK /\ Len(produced) \in Nat /\ Len(jobs) \in Nat /\ taken \in Nat
      /\ Len(produced) = taken + Len(jobs) + (IF HasPending THEN 1 ELSE 0)
      /\ Stopped \in BOOLEAN /\ Stopped' \in BOOLEAN
  BY DEF IInv, TypeOK, NoBatchLost, Stopped
<1>1. CASE Stopped
  BY <1>1, StoppedIsFinal DEF vars, collectorVars, metrics, reportVars, workerVars, Stopped, Promise!vars
<1>2. ASSUME ~Stopped, UNCHANGED <<produced, taken, delivered, failed>>
      PROVE  [Promise!Next]_(Promise!vars)
  <2>1. CASE Stopped'
    <3>1. (delivered \cup failed)' = (1..Len(produced))' /\ produced' # <<>>
      BY <2>1 DEF DrainedAtStop
    <3>2. Promise!Finished = 1..Len(produced) /\ Len(produced) > 0
      BY <1>0, <1>2, <3>1, EmptySeq DEF Promise!Finished, TypeOK
    <3>3. Promise!Stop
      BY <1>0, <1>2, <2>1, <3>2 DEF Promise!Stop
    <3> QED BY <3>3 DEF Promise!Next
  <2>2. CASE ~Stopped'
    BY <1>0, <1>2, <2>2 DEF Promise!vars
  <2> QED BY <2>1, <2>2
<1>3. ASSUME ~Stopped, NEW from \in {"tick", "stop"}, NEW to \in {"push", "flush"},
             TakeSnapshot(from, to)
      PROVE  Promise!Make
  <2>1. Len(produced') = Len(produced) + 1 /\ UNCHANGED <<taken, delivered, failed>>
    BY <1>0, <1>3, SnapshotAppends DEF TakeSnapshot, workerVars
  <2>2. ~Stopped'
    BY <1>3 DEF TakeSnapshot, Stopped
  <2>3. Len(produced) - taken <= RateLimit
    <3>1. ~HasPending
      BY <1>3 DEF TakeSnapshot, HasPending
    <3> QED BY <1>0, <3>1, RateLimitAssumption DEF CapacityInv
  <2> QED BY <1>0, <1>3, <2>1, <2>2, <2>3 DEF Promise!Make
<1>4. ASSUME ~Stopped, NEW w \in Workers, WorkerReceive(w) PROVE Promise!Begin
  <2>1. taken' = taken + 1 /\ UNCHANGED <<produced, delivered, failed>> /\ ~Stopped'
    BY <1>4, <1>0 DEF WorkerReceive, reportVars, Stopped, TypeOK
  <2>2. taken < Len(produced)
    <3>1. Len(jobs) # 0
      BY <1>0, <1>4, EmptySeq DEF WorkerReceive, TypeOK
    <3> QED BY <1>0, <3>1
  <2>3. taken - Cardinality(Promise!Finished) < RateLimit
    BY <1>4, InFlightBound DEF WorkerReceive, Sending
  <2> QED BY <1>0, <1>4, <2>1, <2>2, <2>3, SameCardinality DEF Promise!Begin
<1>5. ASSUME ~Stopped, NEW w \in Workers, WorkerSent(w) \/ WorkerFailed(w) PROVE Promise!Next
  <2>1. /\ workerBatch[w].id \in 1..taken /\ workerBatch[w].id \notin Promise!Finished
        /\ UNCHANGED <<produced, taken>> /\ ~Stopped'
    BY <1>0, <1>5 DEF WorkerSent, WorkerFailed, WorkerNext, IInv, TypeOK, ReceivedInv, Sending, Finished,
       Promise!Finished, reportVars, Stopped
  <2>2. Promise!Deliver(workerBatch[w].id) \/ Promise!GiveUp(workerBatch[w].id)
    BY <1>0, <1>5, <2>1 DEF WorkerSent, WorkerFailed, Promise!Deliver, Promise!GiveUp
  <2> QED BY <2>1, <2>2 DEF Promise!Next
<1>6. CASE ~Stopped /\ (Cancel \/ Collecting \/ CollectingExtra)
  BY <1>2, <1>6 DEF Cancel, Collecting, CollectTick, CollectLock, CollectGauges, CollectCounter,
     CollectStop, CollectingExtra, ExtraTick, ExtraFails, ExtraLock, ExtraMemory, ExtraCPU, ExtraStop,
     reportVars, workerVars
<1>7. CASE ~Stopped /\ Reporting
  <2>1. CASE ReportSnapshot \/ ReportFinalSnapshot
    BY <1>3, <1>7, <2>1 DEF ReportSnapshot, ReportFinalSnapshot, GetSnapshot, Promise!Next
  <2> QED BY <1>2, <1>7, <2>1 DEF Reporting, ReportTick, ReportStop, ReportPush, Push,
         ReportPushCancelled, ReportFlush, ReportClose, workerVars
<1>8. ASSUME ~Stopped, NEW w \in Workers, Working(w) PROVE [Promise!Next]_(Promise!vars)
  <2>1. CASE WorkerExit(w)
    BY <1>2, <1>8, <2>1 DEF WorkerExit, reportVars
  <2> QED BY <1>4, <1>5, <1>8, <2>1 DEF Working, Promise!Next
<1>9. CASE UNCHANGED vars
  BY <1>9 DEF vars, collectorVars, metrics, reportVars, workerVars, Stopped, Promise!vars
<1> QED BY <1>1, <1>6, <1>7, <1>8, <1>9 DEF Next, Terminated

(* The goroutines, the channel and the worker pool are an implementation of *)
(* the delivery that module Delivery promises, for every RateLimit.         *)
THEOREM DeliveryImplemented == Spec => ImplementsDelivery
<1>1. Init => Promise!Init
  BY DEF Init, Promise!Init, Stopped
<1>2. Init => CapacityInv
  BY RateLimitAssumption DEF Init, CapacityInv
<1>3. IInv /\ CapacityInv /\ [Next]_vars => CapacityInv'
  BY CapacityStep DEF IInv
<1>4. IInv /\ CapacityInv /\ DrainedAtStop' /\ [Next]_vars => [Promise!Next]_(Promise!vars)
  BY DeliveryStep
<1> QED BY <1>1, <1>2, <1>3, <1>4, IInvHolds, ShutdownDrains, PTL
     DEF Spec, Promise!Spec, ImplementsDelivery

-----------------------------------------------------------------------------
(***************************************************************************)
(* The agent and the server together.  The agent inside the pipeline is an *)
(* agent of Agent, so its inductive invariant holds here as well; what is  *)
(* added ties the server's gauges, and the requests that were given up on, *)
(* to the batch of "produced" they came from.  With one worker the server  *)
(* shows the last batch the worker received, an earlier one, or one that a *)
(* late request has brought back.                                          *)
(***************************************************************************)
PipelineTypeOK ==
    /\ pollCount \in Nat
    /\ gauges \in Batches
    /\ answered \in SUBSET Workers
    /\ attempt \in [Workers -> 0..Retries]
    /\ late \in SUBSET (Batches \X (0..Retries))
    /\ abandoned \in SUBSET Nat

(* The batches a worker holds, a late request carries and the server shows  *)
(* are snapshots, and later snapshots have counted at least as many polls.  *)
OriginInv ==
    /\ \A i, j \in 1..Len(produced) : i <= j => produced[i].Counter <= produced[j].Counter
    /\ \A i \in 1..Len(produced) : produced[i].Counter <= Counter
    /\ \A w \in Workers : Sending(w) => workerBatch[w] = produced[workerBatch[w].id]
    /\ gauges.id <= taken
    /\ IF gauges.id = 0 THEN gauges = NoBatch ELSE gauges = produced[gauges.id]
    /\ \A x \in late : /\ x[1].id \in abandoned /\ x[1].id \in 1..taken
                       /\ x[1] = produced[x[1].id]

(* One worker: it holds the newest batch received, and the server shows     *)
(* that batch as soon as it has answered it, until a late request arrives.  *)
Shown(n) == gauges.id = n \/ gauges.id \in abandoned

OneWorkerInv ==
    RateLimit = 1 =>
        /\ Sending(1) => workerBatch[1].id = taken
        /\ 1 \in answered => Sending(1) /\ Shown(taken)
        /\ taken \in delivered => Shown(taken)

-----------------------------------------------------------------------------
(* The agent's part of a step is a step of Agent.                           *)
LEMMA AgentTakesStep == ASSUME [PipelineNext]_pipelineVars PROVE [Next]_vars
BY DEF PipelineNext, AgentStep, UpdateBatch, UpdateBatchLate, Retry, Sent, Failed, Next, Working,
   pipelineVars

(* The pipeline does nothing that the agent alone could not do.             *)
THEOREM PipelineRunsAgent == PipelineSpec => Spec
<1>1. PipelineInit => Init
  BY DEF PipelineInit
<1>2. [PipelineNext]_pipelineVars => [Next]_vars
  BY AgentTakesStep
<1> QED BY <1>1, <1>2, PTL DEF PipelineSpec, Spec

(* The steps that the server's variables see.                               *)
LEMMA ServerSees ==
  ASSUME [PipelineNext]_pipelineVars
  PROVE  \/ \E w \in Workers : UpdateBatch(w) \/ Retry(w) \/ Sent(w) \/ Failed(w)
         \/ \E x \in late : UpdateBatchLate(x)
         \/ /\ UNCHANGED <<serverVars, senderVars, networkVars>>
            /\ [Next]_vars /\ UNCHANGED <<delivered, failed>>
<1>1. CASE AgentStep
  <2>1. UNCHANGED <<delivered, failed>>
    <3>1. CASE Cancel \/ Collecting \/ CollectingExtra
      BY <3>1 DEF Cancel, Collecting, CollectTick, CollectLock, CollectGauges, CollectCounter,
         CollectStop, CollectingExtra, ExtraTick, ExtraFails, ExtraLock, ExtraMemory, ExtraCPU,
         ExtraStop, workerVars
    <3>2. CASE Reporting
      BY <3>2 DEF Reporting, ReportTick, ReportStop, ReportSnapshot, ReportFinalSnapshot,
         GetSnapshot, TakeSnapshot, ReportPush, Push, ReportPushCancelled, ReportFlush, ReportClose,
         workerVars
    <3>3. CASE \E w \in Workers : WorkerReceive(w) \/ WorkerExit(w)
      BY <3>3 DEF WorkerReceive, WorkerExit
    <3> QED BY <1>1, <3>1, <3>2, <3>3 DEF AgentStep, Terminated, vars, workerVars
  <2> QED BY <1>1, <2>1, AgentTakesStep DEF AgentStep
<1>2. CASE UNCHANGED pipelineVars
  BY <1>2 DEF pipelineVars, vars, workerVars
<1> QED BY <1>1, <1>2 DEF PipelineNext

(* What a step does to the requests given up on: it may add one of a batch  *)
(* that a worker is sending.                                                *)
LEMMA LateStep ==
  ASSUME [PipelineNext]_pipelineVars
  PROVE  /\ abandoned \subseteq abandoned'
         /\ \/ late' \subseteq late /\ abandoned' = abandoned
            \/ \E w \in Workers : Sending(w) /\ GiveUp(w)
<1>1. ASSUME NEW w \in Workers, UpdateBatch(w) \/ Retry(w) \/ Sent(w) \/ Failed(w)
      PROVE  \/ UNCHANGED networkVars
             \/ Sending(w) /\ GiveUp(w)
  BY <1>1 DEF UpdateBatch, Retry, Sent, Failed, WorkerFailed, WorkerNext, Sending
<1>2. ASSUME NEW w \in Workers, GiveUp(w) PROVE abandoned \subseteq abandoned'
  BY <1>2 DEF GiveUp
<1>3. ASSUME NEW x \in late, UpdateBatchLate(x) PROVE late' \subseteq late /\ abandoned' = abandoned
  BY <1>3 DEF UpdateBatchLate
<1>4. UNCHANGED networkVars => late' \subseteq late /\ abandoned' = abandoned
  BY DEF networkVars
<1> QED BY <1>1, <1>2, <1>3, <1>4, ServerSees

(* The types of the server's variables.                                     *)
LEMMA PipelineTypeStep ==
  ASSUME TypeOK, PipelineTypeOK, [PipelineNext]_pipelineVars
  PROVE  PipelineTypeOK'
<1>1. ASSUME NEW w \in Workers
      PROVE  workerBatch[w] \in Batches /\ workerBatch[w].Counter \in Nat /\ workerBatch[w].id \in Nat
  BY <1>1 DEF TypeOK, Batches
<1>2. ASSUME NEW x \in late PROVE x[1] \in Batches /\ x[1].Counter \in Nat
  BY <1>2 DEF PipelineTypeOK, Batches
<1>3. late' \in SUBSET (Batches \X (0..Retries)) /\ abandoned' \in SUBSET Nat
  <2>1. ASSUME NEW w \in Workers, GiveUp(w)
        PROVE  late' \in SUBSET (Batches \X (0..Retries)) /\ abandoned' \in SUBSET Nat
    <3>1. <<workerBatch[w], attempt[w]>> \in Batches \X (0..Retries)
      BY <1>1 DEF PipelineTypeOK
    <3> QED BY <1>1, <2>1, <3>1 DEF GiveUp, PipelineTypeOK
  <2> QED BY <2>1, LateStep DEF PipelineTypeOK
<1>4. attempt' \in [Workers -> 0..Retries] /\ answered' \in SUBSET Workers
  BY RetriesAssumption, ServerSees
     DEF PipelineTypeOK, UpdateBatch, UpdateBatchLate, Retry, Sent, Failed, Forget, senderVars
<1>5. pollCount' \in Nat /\ gauges' \in Batches
  BY <1>1, <1>2, ServerSees
     DEF PipelineTypeOK, UpdateBatch, UpdateBatchLate, Apply, Retry, Sent, Failed, Forget, serverVars
<1> QED BY <1>3, <1>4, <1>5 DEF PipelineTypeOK

-----------------------------------------------------------------------------
(* The history only grows at its end, with the polls there are.             *)
LEMMA HistoryStep ==
  ASSUME TypeOK, OriginInv, [Next]_vars
  PROVE  /\ Len(produced) \in Nat /\ Len(produced') \in Nat /\ Len(produced) <= Len(produced')
         /\ \A i \in 1..Len(produced) : produced'[i] = produced[i]
         /\ \A i, j \in 1..Len(produced') : i <= j => produced'[i].Counter <= produced'[j].Counter
         /\ \A i \in 1..Len(produced') : produced'[i].Counter <= Counter'
<1>0. /\ Len(produced) \in Nat /\ Counter \in Nat /\ Counter' \in Nat /\ Counter <= Counter'
      /\ \A i \in 1..Len(produced) : produced[i].Counter \in Nat
  <2>1. Len(produced) \in Nat /\ \A i \in 1..Len(produced) : produced[i] \in Batches
    BY ElementOfSeq DEF TypeOK
  <2>2. Counter \in Nat /\ Counter' \in Nat /\ Counter <= Counter'
    BY CounterGrows DEF TypeOK
  <2> QED BY <2>1, <2>2 DEF Batches
<1>1. CASE UNCHANGED produced
  BY <1>0, <1>1 DEF OriginInv
<1>2. ASSUME NEW from, NEW to, GetSnapshot(from, to)
      PROVE  /\ Len(produced') = Len(produced) + 1
             /\ \A i \in 1..Len(produced) : produced'[i] = produced[i]
             /\ produced'[Len(produced) + 1].Counter = Counter /\ Counter' = Counter
  BY <1>2, SnapshotAppends DEF GetSnapshot, TakeSnapshot, convertToModelMetrics, collectorVars, metrics
<1>3. CASE ReportSnapshot \/ ReportFinalSnapshot
  <2>1. /\ Len(produced') = Len(produced) + 1
        /\ \A i \in 1..Len(produced) : produced'[i] = produced[i]
        /\ produced'[Len(produced) + 1].Counter = Counter /\ Counter' = Counter
    BY <1>2, <1>3 DEF ReportSnapshot, ReportFinalSnapshot
  <2>2. \A i \in 1..Len(produced') : i \in 1..Len(produced) \/ i = Len(produced) + 1
    BY <1>0, <2>1
  <2>3. \A i \in 1..Len(produced') : produced'[i].Counter <= Counter'
    BY <1>0, <2>1, <2>2 DEF OriginInv
  <2>4. ASSUME NEW i \in 1..Len(produced'), NEW j \in 1..Len(produced'), i <= j
        PROVE  produced'[i].Counter <= produced'[j].Counter
    <3>1. CASE j = Len(produced) + 1
      BY <2>1, <2>3, <3>1
    <3>2. CASE j \in 1..Len(produced)
      BY <1>0, <2>1, <2>4, <3>2 DEF OriginInv
    <3> QED BY <2>2, <3>1, <3>2
  <2> QED BY <1>0, <2>1, <2>3, <2>4
<1> QED BY <1>1, <1>3, ProducedStep

(* What a worker receives: the next snapshot.                               *)
LEMMA ReceiveEffect ==
  ASSUME IInv, NEW w \in Workers, WorkerReceive(w)
  PROVE  /\ workerBatch'[w] = produced[taken + 1] /\ workerBatch'[w].id = taken + 1
         /\ taken' = taken + 1 /\ UNCHANGED <<produced, Counter>> /\ taken + 1 \in 1..Len(produced)
         /\ ~Sending(w) /\ Sending(w)'
         /\ \A v \in Workers \ {w} : workerBatch'[v] = workerBatch[v] /\ Sending(v)' = Sending(v)
<1>1. jobs[1] = produced[taken + 1] /\ taken + 1 \in 1..Len(produced) /\ Head(jobs) = jobs[1]
  BY EmptySeq DEF WorkerReceive, NoBatchLost, IInv, TypeOK
<1> QED BY <1>1 DEF WorkerReceive, IInv, TypeOK, IdInv, Sending, reportVars, collectorVars, metrics

(* Nobody but the worker itself touches what it holds.                      *)
LEMMA HeldStep ==
  ASSUME IInv, [Next]_vars
  PROVE  \/ \E w \in Workers : WorkerReceive(w)
         \/ /\ taken' = taken
            /\ \A w \in Workers : Sending(w)' => Sending(w) /\ workerBatch'[w] = workerBatch[w]
<1> USE DEF IInv, TypeOK, Sending
<1>1. CASE Cancel \/ Collecting \/ CollectingExtra
  BY <1>1 DEF Cancel, Collecting, CollectTick, CollectLock, CollectGauges, CollectCounter,
     CollectStop, CollectingExtra, ExtraTick, ExtraFails, ExtraLock, ExtraMemory, ExtraCPU,
     ExtraStop, workerVars
<1>2. CASE Reporting
  BY <1>2 DEF Reporting, ReportTick, ReportStop, ReportSnapshot, ReportFinalSnapshot,
     GetSnapshot, TakeSnapshot, ReportPush, Push, ReportPushCancelled, ReportFlush, ReportClose,
     workerVars
<1>3. ASSUME NEW w \in Workers, WorkerSent(w) \/ WorkerFailed(w) \/ WorkerExit(w)
      PROVE  /\ taken' = taken
             /\ \A v \in Workers : Sending(v)' => Sending(v) /\ workerBatch'[v] = workerBatch[v]
  BY <1>3 DEF WorkerSent, WorkerFailed, WorkerNext, WorkerExit
<1>4. CASE UNCHANGED vars
  BY <1>4 DEF vars, workerVars
<1> QED BY <1>1, <1>2, <1>3, <1>4 DEF Next, Working, Terminated

(* The snapshots keep their place on the way to the server.                 *)
LEMMA OriginStep ==
  ASSUME IInv, PipelineTypeOK, OriginInv, [PipelineNext]_pipelineVars
  PROVE  OriginInv'
<1>0. /\ [Next]_vars /\ TypeOK /\ taken \in Nat /\ gauges.id \in Nat
      /\ Len(produced) \in Nat /\ Len(jobs) \in Nat /\ taken <= Len(produced)
  <2>1. TypeOK /\ taken \in Nat /\ Len(produced) \in Nat /\ Len(jobs) \in Nat
    BY DEF IInv, TypeOK
  <2>2. gauges.id \in Nat
    BY DEF PipelineTypeOK, Batches
  <2>3. taken <= Len(produced)
    BY <2>1 DEF IInv, NoBatchLost
  <2> QED BY <2>1, <2>2, <2>3, AgentTakesStep
<1>1. /\ Len(produced') \in Nat /\ Len(produced) <= Len(produced')
      /\ \A i \in 1..Len(produced) : produced'[i] = produced[i]
      /\ \A i, j \in 1..Len(produced') : i <= j => produced'[i].Counter <= produced'[j].Counter
      /\ \A i \in 1..Len(produced') : produced'[i].Counter <= Counter'
  BY <1>0, HistoryStep
<1>2. \A w \in Workers : Sending(w) => workerBatch[w].id \in 1..taken /\ workerBatch[w].id \in 1..Len(produced)
  BY <1>0 DEF IInv, ReceivedInv
<1>3. taken' \in Nat /\ taken <= taken'
  BY <1>0, HeldStep, ReceiveEffect
<1>4. \A w \in Workers : Sending(w)' => workerBatch'[w] = produced'[workerBatch'[w].id]
  <2>1. CASE \E w \in Workers : WorkerReceive(w)
    BY <1>1, <1>2, <2>1, ReceiveEffect DEF OriginInv
  <2>2. CASE \A w \in Workers : Sending(w)' => Sending(w) /\ workerBatch'[w] = workerBatch[w]
    BY <1>1, <1>2, <2>2 DEF OriginInv
  <2> QED BY <1>0, <2>1, <2>2, HeldStep
<1>5. /\ gauges'.id <= taken'
      /\ IF gauges'.id = 0 THEN gauges' = NoBatch ELSE gauges' = produced'[gauges'.id]
  <2>1. ASSUME NEW w \in Workers, UpdateBatch(w)
        PROVE  /\ gauges'.id <= taken'
               /\ IF gauges'.id = 0 THEN gauges' = NoBatch ELSE gauges' = produced'[gauges'.id]
    <3>1. Sending(w) /\ gauges' = workerBatch[w] /\ UNCHANGED <<produced, taken>>
      BY <2>1 DEF UpdateBatch, Apply, Sending, vars, reportVars, workerVars
    <3> QED BY <1>0, <1>2, <3>1 DEF OriginInv
  <2>2. ASSUME NEW x \in late, UpdateBatchLate(x)
        PROVE  /\ gauges'.id <= taken'
               /\ IF gauges'.id = 0 THEN gauges' = NoBatch ELSE gauges' = produced'[gauges'.id]
    <3>1. gauges' = x[1] /\ UNCHANGED <<produced, taken>>
      BY <2>2 DEF UpdateBatchLate, Apply, vars, reportVars, workerVars
    <3> QED BY <1>0, <3>1 DEF OriginInv
  <2>3. CASE gauges' = gauges
    BY <1>0, <1>1, <1>3, <2>3 DEF OriginInv
  <2> QED BY <2>1, <2>2, <2>3, ServerSees DEF Retry, Sent, Failed, Forget, serverVars
<1>6. ASSUME NEW x \in late'
      PROVE  x[1].id \in abandoned' /\ x[1].id \in 1..taken' /\ x[1] = produced'[x[1].id]
  <2>0. \A i \in 1..taken : i \in 1..taken' /\ produced'[i] = produced[i]
    BY <1>0, <1>1, <1>3
  <2>1. CASE x \in late
    <3>1. x[1].id \in abandoned /\ x[1].id \in 1..taken /\ x[1] = produced[x[1].id]
      BY <2>1 DEF OriginInv
    <3>2. abandoned \subseteq abandoned'
      BY LateStep
    <3> QED BY <2>0, <3>1, <3>2
  <2>2. CASE x \notin late
    <3>1. PICK w \in Workers : Sending(w) /\ GiveUp(w)
      BY <1>6, <2>2, LateStep
    <3>2. x[1] = workerBatch[w] /\ workerBatch[w].id \in abandoned'
      BY <1>6, <2>2, <3>1 DEF GiveUp
    <3>3. workerBatch[w].id \in 1..taken /\ workerBatch[w] = produced[workerBatch[w].id]
      BY <1>2, <3>1 DEF OriginInv
    <3> QED BY <2>0, <3>2, <3>3
  <2> QED BY <2>1, <2>2
<1> QED BY <1>1, <1>4, <1>5, <1>6 DEF OriginInv

-----------------------------------------------------------------------------
(* The one worker sends the newest batch, and only goes on after an answer. *)
LEMMA OneWorkerStep ==
  ASSUME IInv, PipelineTypeOK, OriginInv, OneWorkerInv, [PipelineNext]_pipelineVars
  PROVE  OneWorkerInv'
<1> SUFFICES ASSUME RateLimit = 1
             PROVE  /\ Sending(1)' => workerBatch'[1].id = taken'
                    /\ 1 \in answered' => Sending(1)' /\ Shown(taken)'
                    /\ taken' \in delivered' => Shown(taken)'
  BY DEF OneWorkerInv
<1> DEFINE Goal == /\ Sending(1)' => workerBatch'[1].id = taken'
                   /\ 1 \in answered' => Sending(1)' /\ Shown(taken)'
                   /\ taken' \in delivered' => Shown(taken)'
<1>1. 1 \in Workers /\ \A w \in Workers : w = 1
  BY DEF Workers
<1>2. taken \in Nat /\ \A n \in delivered : n <= taken
  BY DEF IInv, TypeOK, ReceivedInv
<1>3. CASE UpdateBatch(1)
  <2>1. Sending(1) /\ gauges' = workerBatch[1] /\ UNCHANGED <<pcWorker, workerBatch, taken, delivered>>
    BY <1>3 DEF UpdateBatch, Apply, Sending, vars, workerVars
  <2> QED BY <2>1 DEF OneWorkerInv, Sending, Shown
<1>4. CASE Sent(1)
  <2>1. Shown(taken)' /\ ~Sending(1)' /\ 1 \notin answered'
    BY <1>1, <1>4 DEF Sent, Forget, WorkerSent, WorkerNext, OneWorkerInv, IInv, TypeOK, Sending,
       Shown, serverVars, networkVars
  <2> QED BY <2>1
<1>5. CASE Failed(1)
  <2>1. /\ ~Sending(1)' /\ 1 \notin answered' /\ UNCHANGED <<taken, gauges, delivered>>
    BY <1>1, <1>5 DEF Failed, Forget, WorkerFailed, WorkerNext, IInv, TypeOK, Sending, serverVars
  <2> QED BY <2>1, LateStep DEF OneWorkerInv, Shown
<1>6. CASE Retry(1)
  <2>1. /\ 1 \notin answered' /\ UNCHANGED <<pcWorker, workerBatch, taken, gauges, delivered>>
    BY <1>6 DEF Retry, vars, workerVars, serverVars
  <2> QED BY <2>1, LateStep DEF OneWorkerInv, Sending, Shown
<1>7. ASSUME NEW x \in late, UpdateBatchLate(x) PROVE Goal
  <2>1. /\ UNCHANGED <<pcWorker, workerBatch, taken, delivered, answered, abandoned>>
        /\ gauges'.id \in abandoned'
    BY <1>7 DEF UpdateBatchLate, Apply, vars, workerVars, senderVars, OriginInv
  <2> QED BY <2>1 DEF OneWorkerInv, Sending, Shown
<1>8. ASSUME UNCHANGED <<serverVars, senderVars, networkVars>>, [Next]_vars,
             UNCHANGED <<delivered, failed>>
      PROVE  Goal
  <2>1. CASE WorkerReceive(1)
    <3>1. taken' = taken + 1 /\ workerBatch'[1].id = taken + 1 /\ ~Sending(1)
      BY <1>1, <2>1, ReceiveEffect
    <3>2. 1 \notin answered' /\ taken' \notin delivered'
      BY <1>2, <1>8, <3>1 DEF OneWorkerInv, senderVars
    <3> QED BY <3>1, <3>2
  <2>2. CASE ~WorkerReceive(1)
    <3>1. taken' = taken /\ (Sending(1)' => workerBatch'[1] = workerBatch[1] /\ Sending(1))
      BY <1>1, <1>8, <2>2, HeldStep
    <3>2. Sending(1) => Sending(1)' \/ delivered' # delivered \/ failed' # failed
      <4>1. ASSUME Sending(1), ~Sending(1)' PROVE WorkerSent(1) \/ WorkerFailed(1)
        <5>1. CASE Cancel \/ Collecting \/ CollectingExtra
          BY <4>1, <5>1 DEF Cancel, Collecting, CollectTick, CollectLock, CollectGauges,
             CollectCounter, CollectStop, CollectingExtra, ExtraTick, ExtraFails, ExtraLock,
             ExtraMemory, ExtraCPU, ExtraStop, workerVars, Sending
        <5>2. CASE Reporting
          BY <4>1, <5>2 DEF Reporting, ReportTick, ReportStop, ReportSnapshot, ReportFinalSnapshot,
             GetSnapshot, TakeSnapshot, ReportPush, Push, ReportPushCancelled, ReportFlush,
             ReportClose, workerVars, Sending
        <5>3. CASE UNCHANGED vars
          BY <4>1, <5>3 DEF vars, workerVars, Sending
        <5>4. CASE WorkerExit(1)
          BY <4>1, <5>4 DEF WorkerExit, Sending
        <5> QED BY <1>1, <1>8, <2>2, <5>1, <5>2, <5>3, <5>4 DEF Next, Working, Terminated
      <4>2. Sending(1) => workerBatch[1].id \notin delivered /\ workerBatch[1].id \notin failed
        BY <1>1 DEF IInv, ReceivedInv, Finished
      <4> QED BY <4>1, <4>2 DEF WorkerSent, WorkerFailed
    <3> QED BY <1>8, <3>1, <3>2 DEF OneWorkerInv, Shown, serverVars, senderVars, networkVars
  <2> QED BY <2>1, <2>2
<1> QED BY <1>1, <1>3, <1>4, <1>5, <1>6, <1>7, <1>8, ServerSees

(* The invariants of the pipeline.                                          *)
PInv == IInv /\ PipelineTypeOK /\ OriginInv /\ OneWorkerInv

(* They hold in every reachable state.                                      *)
LEMMA PInvHolds == PipelineSpec => []PInv
<1>1. PipelineInit => PInv
  <2> SUFFICES ASSUME PipelineInit PROVE PInv
    OBVIOUS
  <2>1. Init /\ IInv
    BY IInvInit DEF PipelineInit
  <2>2. NoBatch \in Batches /\ NoBatch.id = 0
    BY DEF NoBatch, Batches
  <2>3. PipelineTypeOK
    BY <2>2, RetriesAssumption DEF PipelineInit, PipelineTypeOK
  <2>4. OriginInv
    BY <2>1, <2>2 DEF PipelineInit, Init, OriginInv, Sending
  <2>5. OneWorkerInv
    BY <2>1, <2>2 DEF PipelineInit, Init, OneWorkerInv, Sending, Workers
  <2> QED BY <2>1, <2>3, <2>4, <2>5 DEF PInv
<1>2. PInv /\ [PipelineNext]_pipelineVars => PInv'
  <2> SUFFICES ASSUME PInv, [PipelineNext]_pipelineVars PROVE PInv'
    OBVIOUS
  <2>1. IInv'
    BY AgentTakesStep, IInvStep DEF PInv
  <2>2. PipelineTypeOK'
    BY PipelineTypeStep DEF PInv, IInv
  <2>3. OriginInv' /\ OneWorkerInv'
    BY OriginStep, OneWorkerStep DEF PInv
  <2> QED BY <2>1, <2>2, <2>3 DEF PInv
<1> QED BY <1>1, <1>2, PTL DEF PipelineSpec

(* With a rate limit of one the server goes back to an older snapshot only  *)
(* with a request that SendBatch had given up on; failed calls that were    *)
(* applied all the same do not do it.                                       *)
THEOREM ServerNeverGoesBack == PipelineSpec => ServerAdvances
<1>1. ASSUME PInv, [PipelineNext]_pipelineVars, RateLimit = 1
      PROVE  \/ gauges'.id >= gauges.id /\ gauges'.Counter >= gauges.Counter
             \/ gauges'.id \in abandoned
  <2>1. gauges.id \in Nat /\ gauges.Counter \in Nat
    BY <1>1 DEF PInv, PipelineTypeOK, Batches
  <2>2. CASE gauges' = gauges
    BY <2>1, <2>2
  <2>3. ASSUME NEW w \in Workers, UpdateBatch(w)
        PROVE  gauges'.id >= gauges.id /\ gauges'.Counter >= gauges.Counter
    <3>1. w = 1 /\ Sending(1) /\ gauges' = workerBatch[1]
      BY <1>1, <2>3 DEF UpdateBatch, Apply, Sending, Workers
    <3>2. 1 \in Workers
      BY <1>1 DEF Workers
    <3>3. workerBatch[1].id = taken /\ taken \in Nat /\ workerBatch[1].Counter \in Nat
      BY <1>1, <3>1, <3>2 DEF PInv, OneWorkerInv, IInv, TypeOK, Batches
    <3>4. gauges.id <= taken /\ workerBatch[1] = produced[taken]
      BY <1>1, <3>1, <3>2, <3>3 DEF PInv, OriginInv
    <3>5. taken \in 1..Len(produced)
      <4>1. taken \in 1..taken
        BY <1>1, <3>1, <3>2, <3>3 DEF PInv, IInv, ReceivedInv
      <4>2. Len(produced) \in Nat /\ Len(jobs) \in Nat
        BY <1>1 DEF PInv, IInv, TypeOK
      <4>3. taken <= Len(produced)
        BY <1>1, <3>3, <4>2 DEF PInv, IInv, NoBatchLost
      <4> QED BY <3>3, <4>1, <4>2, <4>3
    <3>6. CASE gauges.id = 0
      BY <1>1, <2>1, <3>1, <3>3, <3>4, <3>6 DEF PInv, OriginInv, NoBatch
    <3>7. CASE gauges.id # 0
      <4>1. gauges.id \in 1..Len(produced) /\ gauges = produced[gauges.id]
        BY <1>1, <2>1, <3>3, <3>4, <3>5, <3>7 DEF PInv, OriginInv
      <4>2. gauges.Counter <= workerBatch[1].Counter
        BY <1>1, <3>4, <3>5, <4>1 DEF PInv, OriginInv
      <4> QED BY <2>1, <3>1, <3>3, <3>4, <4>2
    <3> QED BY <3>6, <3>7
  <2>4. ASSUME NEW x \in late, UpdateBatchLate(x) PROVE gauges'.id \in abandoned
    BY <1>1, <2>4 DEF UpdateBatchLate, Apply, PInv, OriginInv
  <2> QED BY <1>1, <2>2, <2>3, <2>4, ServerSees DEF Retry, Sent, Failed, Forget, serverVars
<1>2. PInv /\ [PipelineNext]_pipelineVars
      => [RateLimit = 1 =>
            \/ gauges'.id >= gauges.id /\ gauges'.Counter >= gauges.Counter
            \/ gauges'.id \in abandoned]_pipelineVars
  BY <1>1
<1> QED BY <1>2, PInvHolds, PTL DEF PipelineSpec, ServerAdvances

(* When Run has returned and no call has failed, the worker's last batch is *)
(* the last snapshot, and the one the server shows unless a late request    *)
(* has come after it.                                                       *)
LEMMA FinalShown == PInv => FinalSnapshotArrives
<1>1. ASSUME PInv, Stopped, RateLimit = 1, failed = {}, gauges.id \notin abandoned
      PROVE  gauges = produced[Len(produced)]
  <2>1. delivered = 1..Len(produced) /\ produced # <<>>
    BY <1>1, StoppedMeansDrained DEF PInv, IInv, DrainedAtStop
  <2>2. Len(produced) \in Nat /\ Len(produced) > 0 /\ taken \in Nat /\ Len(jobs) \in Nat
    BY <1>1, <2>1, EmptySeq DEF PInv, IInv, TypeOK
  <2>3. taken = Len(produced)
    <3>1. Len(produced) \in delivered
      BY <2>1, <2>2
    <3>2. Len(produced) <= taken
      BY <1>1, <2>2, <3>1 DEF PInv, IInv, ReceivedInv
    <3>3. taken <= Len(produced)
      BY <1>1, <2>2 DEF PInv, IInv, NoBatchLost
    <3> QED BY <2>2, <3>2, <3>3
  <2>4. gauges.id = taken
    BY <1>1, <2>1, <2>2, <2>3 DEF PInv, OneWorkerInv, Shown
  <2> QED BY <1>1, <2>2, <2>3, <2>4 DEF PInv, OriginInv
<1> QED BY <1>1 DEF FinalSnapshotArrives

(* When Run has returned and no call has failed, the server shows the final *)
(* flush, or the batch of a request that SendBatch had given up on.         *)
THEOREM FinalSnapshotIsShown == PipelineSpec => []FinalSnapshotArrives
BY FinalShown, PInvHolds, PTL

-----------------------------------------------------------------------------
(***************************************************************************)
(* What the server's PollCount is.  The workers send running totals as     *)
(* deltas, so it is their sum; that needs induction over the snapshots,    *)
(* which is stated for a set of naturals.                                  *)
(***************************************************************************)

(* A set with 0 in it that is closed under the successor has every natural  *)
(* number: a least element outside it would have a predecessor outside.     *)
LEMMA SetInduction ==
  ASSUME NEW S, 0 \in S, \A n \in Nat : n \in S => n + 1 \in S
  PROVE  Nat \subseteq S
<1> DEFINE T == Nat \ S
           R == OpToRel(<, Nat)
<1> SUFFICES ASSUME T # {} PROVE FALSE
  OBVIOUS
<1>1. PICK x \in T : \A y \in T : ~ (<<y, x>> \in R)
  <2>1. IsWellFoundedOn(R, Nat)
    BY NatLessThanWellFounded
  <2>2. T \subseteq Nat
    OBVIOUS
  <2> HIDE DEF R, T
  <2> QED BY <2>1, <2>2, WFMin
<1>2. x \in Nat /\ x # 0 /\ x - 1 \in T
  OBVIOUS
<1>3. <<x - 1, x>> \in R
  BY <1>2 DEF OpToRel
<1> QED BY <1>1, <1>2, <1>3

(* The sums of the running totals of the first n snapshots.                 *)
TotalsSum(ps) ==
    LET sum[n \in 0..Len(ps)] == IF n = 0 THEN 0 ELSE sum[n - 1] + ps[n].Counter
    IN  sum

LEMMA TotalsSumStep ==
  ASSUME NEW ps, Len(ps) \in Nat
  PROVE  /\ TotalsSum(ps)[0] = 0
         /\ \A n \in 1..Len(ps) : TotalsSum(ps)[n] = TotalsSum(ps)[n - 1] + ps[n].Counter
<1> DEFINE Good(f, n) == f = [i \in 0..n |-> IF i = 0 THEN 0 ELSE f[i - 1] + ps[i].Counter]
           S == {n \in Nat : \E f : Good(f, n)}
<1>1. 0 \in S
  <2>1. Good([i \in 0..0 |-> 0], 0)
    OBVIOUS
  <2> QED BY <2>1
<1>2. ASSUME NEW n \in Nat, n \in S PROVE n + 1 \in S
  <2>1. PICK g : Good(g, n)
    BY <1>2
  <2> DEFINE h == [i \in 0..(n + 1) |-> IF i <= n THEN g[i] ELSE g[n] + ps[n + 1].Counter]
  <2>2. Good(h, n + 1)
    BY <2>1
  <2>3. \E f : Good(f, n + 1)
    <3> HIDE DEF h, Good
    <3> QED BY <2>2
  <2> QED BY <2>3
<1>3. \E f : Good(f, Len(ps))
  <2> HIDE DEF Good
  <2>1. Nat \subseteq S
    <3> HIDE DEF S
    <3> QED BY <1>1, <1>2, SetInduction
  <2> QED BY <2>1
<1> DEFINE R == TotalsSum(ps)
<1>4. R = [i \in 0..Len(ps) |-> IF i = 0 THEN 0 ELSE R[i - 1] + ps[i].Counter]
  BY <1>3 DEF TotalsSum
<1> HIDE DEF R
<1>5. R[0] = 0 /\ \A n \in 1..Len(ps) : R[n] = R[n - 1] + ps[n].Counter
  BY <1>4
<1> QED BY <1>5 DEF R

(* Snapshots to come do not change the sums of those there are.             *)
LEMMA TotalsSumGrows ==
  ASSUME NEW ps, NEW qs, Len(ps) \in Nat, Len(qs) \in Nat, Len(ps) <= Len(qs),
         \A i \in 1..Len(ps) : qs[i] = ps[i]
  PROVE  \A n \in 0..Len(ps) : TotalsSum(qs)[n] = TotalsSum(ps)[n]
<1> DEFINE F == TotalsSum(ps)
           G == TotalsSum(qs)
           S == {n \in Nat : n <= Len(ps) => G[n] = F[n]}
<1>1. F[0] = 0 /\ \A n \in 1..Len(ps) : F[n] = F[n - 1] + ps[n].Counter
  BY TotalsSumStep
<1>2. G[0] = 0 /\ \A n \in 1..Len(qs) : G[n] = G[n - 1] + qs[n].Counter
  BY TotalsSumStep
<1> HIDE DEF F, G
<1>3. 0 \in S
  BY <1>1, <1>2
<1>4. ASSUME NEW n \in Nat, n \in S PROVE n + 1 \in S
  <2> SUFFICES ASSUME n + 1 <= Len(ps) PROVE G[n + 1] = F[n + 1]
    OBVIOUS
  <2>1. n + 1 \in 1..Len(ps) /\ n + 1 \in 1..Len(qs) /\ (n + 1) - 1 = n /\ G[n] = F[n]
    BY <1>4
  <2>2. F[n + 1] = F[n] + ps[n + 1].Counter /\ G[n + 1] = G[n] + qs[n + 1].Counter
    BY <1>1, <1>2, <2>1
  <2> QED BY <2>1, <2>2
<1>5. Nat \subseteq S
  <2> HIDE DEF S
  <2> QED BY <1>3, <1>4, SetInduction
<1>6. \A n \in 0..Len(ps) : G[n] = F[n]
  BY <1>5
<1> QED BY <1>6 DEF F, G

(* The sums are numbers, and do not decrease.                               *)
LEMMA TotalsSumNat ==
  ASSUME NEW ps, Len(ps) \in Nat, \A i \in 1..Len(ps) : ps[i].Counter \in Nat
  PROVE  /\ \A n \in 0..Len(ps) : TotalsSum(ps)[n] \in Nat
         /\ \A n \in 1..Len(ps) : TotalsSum(ps)[n - 1] <= TotalsSum(ps)[n]
<1> DEFINE F == TotalsSum(ps)
           S == {n \in Nat : n <= Len(ps) => F[n] \in Nat}
<1>1. F[0] = 0 /\ \A n \in 1..Len(ps) : F[n] = F[n - 1] + ps[n].Counter
  BY TotalsSumStep
<1> HIDE DEF F
<1>2. 0 \in S
  BY <1>1
<1>3. ASSUME NEW n \in Nat, n \in S PROVE n + 1 \in S
  <2> SUFFICES ASSUME n + 1 <= Len(ps) PROVE F[n + 1] \in Nat
    OBVIOUS
  <2>1. n + 1 \in 1..Len(ps) /\ (n + 1) - 1 = n /\ F[n] \in Nat
    BY <1>3
  <2>2. F[n + 1] = F[n] + ps[n + 1].Counter
    BY <1>1, <2>1
  <2> QED BY <2>1, <2>2
<1>4. Nat \subseteq S
  <2> HIDE DEF S
  <2> QED BY <1>2, <1>3, SetInduction
<1>5. \A n \in 0..Len(ps) : F[n] \in Nat
  BY <1>4
<1>6. ASSUME NEW n \in 1..Len(ps) PROVE F[n - 1] <= F[n]
  BY <1>1, <1>5, <1>6
<1> QED BY <1>5, <1>6 DEF F

(* One worker without failed calls: the server has applied every snapshot   *)
(* up to the last one received, but for one that is being sent, each once   *)
(* if no request was given up on.                                           *)
Acked == IF Sending(1) /\ 1 \notin answered THEN taken - 1 ELSE taken

PollInv ==
    RateLimit = 1 /\ failed = {} =>
        /\ pollCount >= TotalsSum(produced)[Acked]
        /\ abandoned = {} => pollCount = TotalsSum(produced)[Acked]

LEMMA PollStep ==
  ASSUME PInv, PollInv, [PipelineNext]_pipelineVars
  PROVE  PollInv'
<1> SUFFICES ASSUME RateLimit = 1, failed' = {}
             PROVE  /\ pollCount' >= TotalsSum(produced')[Acked']
                    /\ abandoned' = {} => pollCount' = TotalsSum(produced')[Acked']
  BY DEF PollInv
<1> DEFINE Sum == TotalsSum(produced)
           Goal == /\ pollCount' >= TotalsSum(produced')[Acked']
                   /\ abandoned' = {} => pollCount' = TotalsSum(produced')[Acked']
<1>1. 1 \in Workers /\ \A w \in Workers : w = 1
  BY DEF Workers
<1>2. /\ taken \in Nat /\ pollCount \in Nat /\ Len(produced) \in Nat /\ taken <= Len(produced)
      /\ \A i \in 1..Len(produced) : produced[i].Counter \in Nat
  <2>1. taken \in Nat /\ Len(produced) \in Nat /\ Len(jobs) \in Nat
    BY DEF PInv, IInv, TypeOK
  <2>2. pollCount \in Nat
    BY DEF PInv, PipelineTypeOK
  <2>3. taken <= Len(produced)
    BY <2>1 DEF PInv, IInv, NoBatchLost
  <2>4. \A i \in 1..Len(produced) : produced[i] \in Batches
    BY ElementOfSeq DEF PInv, IInv, TypeOK
  <2> QED BY <2>1, <2>2, <2>3, <2>4 DEF Batches
<1>3. ASSUME failed = {}
      PROVE  /\ pollCount >= Sum[Acked]
             /\ abandoned = {} => pollCount = Sum[Acked]
  BY <1>3 DEF PollInv
<1>4. Sending(1) => taken \in 1..Len(produced) /\ workerBatch[1].id = taken /\ workerBatch[1] = produced[taken]
  <2>1. Sending(1) => workerBatch[1].id = taken /\ workerBatch[1] = produced[taken]
    BY <1>1 DEF PInv, OneWorkerInv, OriginInv
  <2>2. Sending(1) => taken \in 1..taken
    BY <1>1, <2>1 DEF PInv, IInv, ReceivedInv
  <2> QED BY <1>2, <2>1, <2>2
<1>5. /\ \A n \in 0..Len(produced) : Sum[n] \in Nat
      /\ \A n \in 1..Len(produced) : Sum[n - 1] <= Sum[n] /\ Sum[n] = Sum[n - 1] + produced[n].Counter
  BY <1>2, TotalsSumNat, TotalsSumStep
<1>6. Acked \in 0..Len(produced)
  BY <1>2, <1>4 DEF Acked
<1> HIDE DEF Sum
<1>7. CASE UpdateBatch(1)
  <2>1. /\ Sending(1) /\ 1 \notin answered /\ 1 \in answered'
        /\ pollCount' = pollCount + workerBatch[1].Counter
        /\ UNCHANGED <<pcWorker, taken, failed, produced, abandoned>>
    BY <1>7 DEF UpdateBatch, Apply, Sending, vars, workerVars, reportVars, networkVars
  <2>2. Acked = taken - 1 /\ Acked' = taken
    BY <2>1 DEF Acked, Sending
  <2>3. Sum[taken] = Sum[taken - 1] + workerBatch[1].Counter /\ workerBatch[1].Counter \in Nat
    BY <1>2, <1>4, <1>5, <2>1
  <2>4. pollCount >= Sum[taken - 1] /\ (abandoned = {} => pollCount = Sum[taken - 1])
    BY <1>3, <2>1, <2>2
  <2>5. Sum[taken - 1] \in Nat
    BY <1>5, <1>6, <2>2
  <2>6. pollCount' >= Sum[taken] /\ (abandoned' = {} => pollCount' = Sum[taken])
    BY <1>2, <2>1, <2>3, <2>4, <2>5
  <2> QED BY <2>1, <2>2, <2>6 DEF Sum
<1>8. CASE Retry(1)
  <2>1. /\ Sending(1) /\ 1 \notin answered'
        /\ UNCHANGED <<pcWorker, taken, failed, produced, pollCount>>
        /\ 1 \in answered => abandoned' # {}
        /\ abandoned' = {} => abandoned = {}
    BY <1>8 DEF Retry, GiveUp, Sending, vars, workerVars, reportVars, networkVars, serverVars
  <2>2. Acked' = taken - 1 /\ Acked = IF 1 \in answered THEN taken ELSE taken - 1
    BY <2>1 DEF Acked, Sending
  <2>3. Sum[taken - 1] <= Sum[taken] /\ Sum[taken] \in Nat /\ Sum[taken - 1] \in Nat
    <3>1. taken \in 1..Len(produced) /\ taken - 1 \in 0..Len(produced) /\ taken \in 0..Len(produced)
      BY <1>2, <1>4, <2>1
    <3> QED BY <1>5, <3>1
  <2>4. pollCount' >= Sum[Acked'] /\ (abandoned' = {} => pollCount' = Sum[Acked'])
    BY <1>2, <1>3, <2>1, <2>2, <2>3
  <2> QED BY <2>1, <2>4 DEF Sum
<1>9. CASE Sent(1)
  <2>1. /\ ~Sending(1)' /\ 1 \in answered
        /\ UNCHANGED <<taken, failed, produced, pollCount, abandoned>>
    BY <1>1, <1>9 DEF Sent, Forget, WorkerSent, WorkerNext, PInv, IInv, TypeOK, Sending, reportVars,
       serverVars, networkVars
  <2>2. Acked = taken /\ Acked' = taken
    BY <2>1 DEF Acked
  <2> QED BY <1>3, <2>1, <2>2 DEF Sum
<1>10. CASE Failed(1)
  <2>1. failed' # {}
    BY <1>10 DEF Failed, WorkerFailed
  <2> QED BY <2>1
<1>11. ASSUME NEW x \in late, UpdateBatchLate(x) PROVE Goal
  <2>1. /\ pollCount' = pollCount + x[1].Counter /\ x[1].Counter \in Nat /\ abandoned' # {}
        /\ UNCHANGED <<pcWorker, taken, failed, produced, answered>>
    BY <1>11 DEF UpdateBatchLate, Apply, vars, workerVars, reportVars, senderVars, PInv, OriginInv,
       PipelineTypeOK, Batches
  <2>2. Acked' = Acked /\ pollCount >= Sum[Acked] /\ Sum[Acked] \in Nat
    BY <1>3, <1>5, <1>6, <2>1 DEF Acked, Sending
  <2>3. pollCount' >= Sum[Acked']
    BY <1>2, <2>1, <2>2
  <2> QED BY <2>1, <2>3 DEF Sum
<1>12. ASSUME UNCHANGED <<serverVars, senderVars, networkVars>>, [Next]_vars,
              UNCHANGED <<delivered, failed>>
       PROVE  Goal
  <2>1. /\ UNCHANGED <<pollCount, abandoned, answered>>
        /\ pollCount >= Sum[Acked] /\ (abandoned = {} => pollCount = Sum[Acked])
    BY <1>3, <1>12 DEF serverVars, senderVars, networkVars
  <2>2. TotalsSum(produced')[Acked] = Sum[Acked]
    <3>1. /\ Len(produced') \in Nat /\ Len(produced) <= Len(produced')
          /\ \A i \in 1..Len(produced) : produced'[i] = produced[i]
      BY <1>12, HistoryStep DEF PInv, IInv
    <3>2. \A n \in 0..Len(produced) : TotalsSum(produced')[n] = TotalsSum(produced)[n]
      BY <1>2, <3>1, TotalsSumGrows
    <3> QED BY <1>6, <3>2 DEF Sum
  <2>3. Acked' = Acked
    <3>1. CASE WorkerReceive(1)
      <4>1. taken' = taken + 1 /\ Sending(1)' /\ ~Sending(1)
        BY <1>1, <3>1, ReceiveEffect DEF PInv
      <4>2. 1 \notin answered'
        BY <2>1, <4>1 DEF PInv, OneWorkerInv
      <4> QED BY <1>2, <4>1, <4>2 DEF Acked
    <3>2. CASE ~WorkerReceive(1)
      <4>1. taken' = taken /\ (Sending(1)' => Sending(1))
        BY <1>1, <1>12, <3>2, HeldStep DEF PInv
      <4>2. ASSUME Sending(1), ~Sending(1)' PROVE FALSE
        <5>1. taken \in 1..taken /\ workerBatch[1].id = taken /\ ~Finished(taken)
          BY <1>1, <4>2 DEF PInv, OneWorkerInv, IInv, ReceivedInv
        <5>2. ReceivedInv'
          BY <1>12, IInvStep DEF PInv, IInv
        <5>3. ~Finished(taken)' /\ taken' \in 1..taken'
          BY <1>12, <4>1, <5>1 DEF Finished
        <5>4. \E w \in Workers : Sending(w)'
          BY <4>1, <5>2, <5>3 DEF ReceivedInv, Finished
        <5> QED BY <1>1, <4>2, <5>4
      <4> QED BY <2>1, <4>1, <4>2 DEF Acked
    <3> QED BY <3>1, <3>2
  <2> QED BY <2>1, <2>2, <2>3
<1> QED BY <1>1, <1>7, <1>8, <1>9, <1>10, <1>11, <1>12, ServerSees

LEMMA PollInvHolds == PipelineSpec => []PollInv
<1>1. PipelineInit => PollInv
  <2> SUFFICES ASSUME PipelineInit, RateLimit = 1 PROVE PollInv
    BY DEF PollInv
  <2>1. /\ produced = <<>> /\ taken = 0 /\ pollCount = 0 /\ ~Sending(1)
    BY DEF PipelineInit, Init, Sending, Workers
  <2>2. Len(<<>>) \in Nat /\ Acked = 0
    BY <2>1 DEF Acked
  <2> QED BY <2>1, <2>2, TotalsSumStep DEF PollInv
<1> QED BY <1>1, PollStep, PInvHolds, PTL DEF PipelineSpec

(* What PollCount ends up as: the sum of the running totals of all          *)
(* snapshots, and not the number of polls that convertToModelMetrics and    *)
(* AckCounter were meant to make of it.  It is more than that sum only if   *)
(* SendBatch gave up on a request and sent its batch again.                 *)
PollCountIsSumOfTotals ==
    Stopped /\ RateLimit = 1 /\ failed = {} =>
        /\ pollCount >= TotalsSum(produced)[Len(produced)]
        /\ abandoned = {} => pollCount = TotalsSum(produced)[Len(produced)]

(* After a run of the agent with one worker in which every call succeeded,  *)
(* MemStorage's PollCount is at least that sum, and exactly that sum if no  *)
(* request timed out, for any number of polls, reports and retries.         *)
THEOREM PollCountAddsTotals == PipelineSpec => []PollCountIsSumOfTotals
<1>1. ASSUME PInv, PollInv, Stopped, RateLimit = 1, failed = {}
      PROVE  Acked = Len(produced)
  <2>1. delivered = 1..Len(produced) /\ produced # <<>>
    BY <1>1, StoppedMeansDrained DEF PInv, IInv, DrainedAtStop
  <2>2. Len(produced) \in Nat /\ Len(produced) > 0 /\ taken \in Nat /\ Len(jobs) \in Nat
    BY <1>1, <2>1, EmptySeq DEF PInv, IInv, TypeOK
  <2>3. taken = Len(produced)
    <3>1. Len(produced) \in delivered
      BY <2>1, <2>2
    <3>2. Len(produced) <= taken
      BY <1>1, <2>2, <3>1 DEF PInv, IInv, ReceivedInv
    <3>3. taken <= Len(produced)
      BY <1>1, <2>2 DEF PInv, IInv, NoBatchLost
    <3> QED BY <2>2, <3>2, <3>3
  <2>4. ~Sending(1)
    BY <1>1 DEF Stopped, Sending, Workers
  <2> QED BY <2>3, <2>4 DEF Acked
<1>2. PInv /\ PollInv => PollCountIsSumOfTotals
  BY <1>1 DEF PollCountIsSumOfTotals, PollInv
<1> QED BY <1>2, PInvHolds, PollInvHolds, PTL
=============================================================================
