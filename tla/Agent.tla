------------------------------- MODULE Agent -------------------------------
(***************************************************************************)
(* The metrics agent of internal/agent: two collecting goroutines, one     *)
(* reporting goroutine and a pool of RateLimit workers, started by         *)
(* Agent.Run and joined by its WaitGroup.                                  *)
(*                                                                         *)
(* The gauges are abstracted to the number of the sample they were taken   *)
(* from: a snapshot is consistent when all gauges written by one call of   *)
(* the collector carry the same number.  A batch carries the position of   *)
(* its snapshot in the history "produced" as id.                           *)
(***************************************************************************)
EXTENDS Naturals, Sequences, FiniteSets

CONSTANTS
    RateLimit,   \* size of the worker pool and capacity of the jobs channel
    MaxPolls,    \* bound: calls of Collect
    MaxExtra,    \* bound: successful calls of CollectExtra
    MaxReports   \* bound: snapshots taken on a tick (the final flush is extra)

\* NewWithSender ends the process when rateLimit <= 0.
ASSUME RateLimitAssumption == RateLimit \in Nat \ {0}
ASSUME BoundsAssumption ==
    /\ MaxPolls \in Nat
    /\ MaxExtra \in Nat
    /\ MaxReports \in Nat

VARIABLES
    ctxDone,     \* the context of Run has been cancelled
    mu,          \* holder of Collector.mu: "free", "collect" or "extra"
    Counter,     \* Collector.Counter, the number of polls
    Runtime,     \* sample number of the runtime gauges of Collect
    Memory,      \* sample number of TotalMemory and FreeMemory
    CPU,         \* sample number of the CPUutilization gauges
    pcCollect,   \* where runCollect is
    pcExtra,     \* where runCollectExtra is
    pcReport,    \* where runReport is
    pending,     \* the batch runReport has converted and not pushed yet
    jobs,        \* the buffered channel
    closed,      \* jobs has been closed
    pcWorker,    \* where each worker is
    workerBatch, \* the batch each worker is sending
    produced,    \* history: every batch made by runReport, in order
    taken,       \* history: how many batches the workers have received
    delivered,   \* history: ids for which SendBatch returned nil
    failed,      \* history: ids for which SendBatch returned an error
    flushes,     \* history: number of final flushes pushed
    atCancel     \* history: the polls the final flush owes at the cancellation

metrics       == <<Counter, Runtime, Memory, CPU>>
collectorVars == <<mu, metrics, pcCollect, pcExtra>>
reportVars    == <<pcReport, pending, closed, produced, flushes>>
workerVars    == <<pcWorker, workerBatch, taken, delivered, failed>>
vars == <<ctxDone, atCancel, jobs, collectorVars, reportVars, workerVars>>

Workers == 1..RateLimit

Batches == [id: Nat, Counter: Nat, Runtime: Nat, Memory: Nat, CPU: Nat]
NoBatch == [id |-> 0, Counter |-> 0, Runtime |-> 0, Memory |-> 0, CPU |-> 0]

-----------------------------------------------------------------------------
(* NewCollector, NewWithSender and the start of Run: the jobs channel is    *)
(* empty, runCollect is about to collect for the first time.                *)
Init ==
    /\ ctxDone = FALSE
    /\ atCancel = 0
    /\ mu = "free"
    /\ Counter = 0 /\ Runtime = 0 /\ Memory = 0 /\ CPU = 0
    /\ pcCollect = "collect"
    /\ pcExtra = "select"
    /\ pcReport = "select"
    /\ pending = NoBatch
    /\ jobs = <<>>
    /\ closed = FALSE
    /\ pcWorker = [w \in Workers |-> "recv"]
    /\ workerBatch = [w \in Workers |-> NoBatch]
    /\ produced = <<>>
    /\ taken = 0
    /\ delivered = {}
    /\ failed = {}
    /\ flushes = 0

\* MUTANT of Cancel: Run closes jobs itself as soon as the signal arrives.
CancelCloses ==
    /\ ~ctxDone
    /\ ctxDone' = TRUE
    /\ closed' = TRUE
    /\ atCancel' = IF pcReport = "push" THEN pending.Counter ELSE Counter
    /\ UNCHANGED <<jobs, collectorVars, pcReport, pending, produced, flushes, workerVars>>

\* The signal: main cancels the context handed to Run.
Cancel ==
    /\ ~ctxDone
    /\ ctxDone' = TRUE
    /\ atCancel' = IF pcReport = "push" THEN pending.Counter ELSE Counter
    /\ UNCHANGED <<jobs, collectorVars, reportVars, workerVars>>

-----------------------------------------------------------------------------
(* runCollect and Collect.  The mutex is held over the writes of the gauges *)
(* and the increment of the counter, which are separate steps.              *)

CollectTick ==
    /\ pcCollect = "select"
    /\ Counter < MaxPolls
    /\ pcCollect' = "collect"
    /\ UNCHANGED <<ctxDone, atCancel, mu, metrics, pcExtra, jobs, reportVars, workerVars>>

CollectLock ==
    /\ pcCollect = "collect"
    /\ mu = "free"
    /\ mu' = "collect"
    /\ pcCollect' = "gauges"
    /\ UNCHANGED <<ctxDone, atCancel, metrics, pcExtra, jobs, reportVars, workerVars>>

CollectGauges ==
    /\ pcCollect = "gauges"
    /\ Runtime' = Runtime + 1
    /\ pcCollect' = "counter"
    /\ UNCHANGED <<ctxDone, atCancel, Counter, Memory, CPU, mu, pcExtra, jobs, reportVars, workerVars>>

CollectCounter ==
    /\ pcCollect = "counter"
    /\ Counter' = Counter + 1
    /\ mu' = "free"
    /\ pcCollect' = "select"
    /\ UNCHANGED <<ctxDone, atCancel, Runtime, Memory, CPU, pcExtra, jobs, reportVars, workerVars>>

CollectStop ==
    /\ pcCollect = "select"
    /\ ctxDone
    /\ pcCollect' = "done"
    /\ UNCHANGED <<ctxDone, atCancel, mu, metrics, pcExtra, jobs, reportVars, workerVars>>

-----------------------------------------------------------------------------
(* runCollectExtra and CollectExtra.  A failing gopsutil call returns before *)
(* the mutex is taken and leaves the gauges alone.                           *)

ExtraTick ==
    /\ pcExtra = "select"
    /\ CPU < MaxExtra
    /\ pcExtra' = "collect"
    /\ UNCHANGED <<ctxDone, atCancel, mu, metrics, pcCollect, jobs, reportVars, workerVars>>

ExtraFails ==
    /\ pcExtra = "collect"
    /\ pcExtra' = "select"
    /\ UNCHANGED <<ctxDone, atCancel, mu, metrics, pcCollect, jobs, reportVars, workerVars>>

ExtraLock ==
    /\ pcExtra = "collect"
    /\ mu = "free"
    /\ mu' = "extra"
    /\ pcExtra' = "memory"
    /\ UNCHANGED <<ctxDone, atCancel, metrics, pcCollect, jobs, reportVars, workerVars>>

ExtraMemory ==
    /\ pcExtra = "memory"
    /\ Memory' = Memory + 1
    /\ pcExtra' = "cpu"
    /\ UNCHANGED <<ctxDone, atCancel, Counter, Runtime, CPU, mu, pcCollect, jobs, reportVars, workerVars>>

ExtraCPU ==
    /\ pcExtra = "cpu"
    /\ CPU' = CPU + 1
    /\ mu' = "free"
    /\ pcExtra' = "select"
    /\ UNCHANGED <<ctxDone, atCancel, Counter, Runtime, Memory, pcCollect, jobs, reportVars, workerVars>>

ExtraStop ==
    /\ pcExtra = "select"
    /\ ctxDone
    /\ pcExtra' = "done"
    /\ UNCHANGED <<ctxDone, atCancel, mu, metrics, pcCollect, jobs, reportVars, workerVars>>

-----------------------------------------------------------------------------
(* runReport.  "select" is the outer select, "push" the inner one.          *)

\* convertToModelMetrics: every gauge present, and PollCount with the counter.
convertToModelMetrics(n) ==
    [id |-> n, Counter |-> Counter, Runtime |-> Runtime,
     Memory |-> Memory, CPU |-> CPU]

ReportTick ==
    /\ pcReport = "select"
    /\ Len(produced) < MaxReports
    /\ pcReport' = "tick"
    /\ UNCHANGED <<ctxDone, atCancel, jobs, pending, closed, produced, flushes,
                   collectorVars, workerVars>>

ReportStop ==
    /\ pcReport = "select"
    /\ ctxDone
    /\ pcReport' = "stop"
    /\ UNCHANGED <<ctxDone, atCancel, jobs, pending, closed, produced, flushes,
                   collectorVars, workerVars>>

\* The body of GetSnapshot once it may run, in either branch of the select.
TakeSnapshot(from, to) ==
    LET b == convertToModelMetrics(Len(produced) + 1)
    IN  /\ pcReport = from
        /\ pending' = b
        /\ produced' = Append(produced, b)
        /\ pcReport' = to
        /\ UNCHANGED <<ctxDone, atCancel, jobs, closed, flushes, collectorVars, workerVars>>

\* MUTANT of GetSnapshot: the copy is made without taking Collector.mu.
GetSnapshotUnlocked(from, to) == TakeSnapshot(from, to)

\* MUTANT of GetSnapshot: the mutex is taken and never released.
GetSnapshotKeepsLock(from, to) ==
    LET b == convertToModelMetrics(Len(produced) + 1)
    IN  /\ pcReport = from
        /\ mu = "free"
        /\ mu' = "report"
        /\ pending' = b
        /\ produced' = Append(produced, b)
        /\ pcReport' = to
        /\ UNCHANGED <<ctxDone, atCancel, jobs, closed, flushes, metrics, pcCollect, pcExtra,
                       workerVars>>

GetSnapshot(from, to) == mu = "free" /\ TakeSnapshot(from, to)

ReportSnapshot == GetSnapshot("tick", "push")

\* MUTANT of ReportFinalSnapshot: the last batch is pushed again, without a new snapshot.
ReportFinalSnapshotReuses ==
    IF produced = <<>> THEN GetSnapshot("stop", "flush")
    ELSE /\ pcReport = "stop"
         /\ pending' = produced[Len(produced)]
         /\ pcReport' = "flush"
         /\ UNCHANGED <<ctxDone, atCancel, jobs, closed, produced, flushes, collectorVars,
                        workerVars>>

ReportFinalSnapshot == GetSnapshot("stop", "flush")

\* MUTANT of Push: the capacity of the channel is not respected.
PushUnbounded(from, to) ==
    /\ pcReport = from
    /\ jobs' = Append(jobs, pending)
    /\ pending' = NoBatch
    /\ pcReport' = to
    /\ UNCHANGED <<ctxDone, atCancel, closed, produced, collectorVars, workerVars>>

\* jobs <- metrics: blocks while the buffer is full.
Push(from, to) ==
    /\ pcReport = from
    /\ Len(jobs) < RateLimit
    /\ jobs' = Append(jobs, pending)
    /\ pending' = NoBatch
    /\ pcReport' = to
    /\ UNCHANGED <<ctxDone, atCancel, closed, produced, collectorVars, workerVars>>

ReportPush == Push("push", "select") /\ UNCHANGED flushes

\* MUTANT of ReportPushCancelled: the pending batch is dropped and the outer select takes over.
ReportPushDropped ==
    /\ pcReport = "push"
    /\ ctxDone
    /\ pcReport' = "select"
    /\ pending' = NoBatch
    /\ UNCHANGED <<ctxDone, atCancel, jobs, closed, produced, flushes, collectorVars, workerVars>>

\* The ctx.Done() branch of the inner select keeps the batch it already has.
ReportPushCancelled ==
    /\ pcReport = "push"
    /\ ctxDone
    /\ pcReport' = "flush"
    /\ UNCHANGED <<ctxDone, atCancel, jobs, pending, closed, produced, flushes,
                   collectorVars, workerVars>>

ReportFlush == Push("flush", "return") /\ flushes' = flushes + 1

\* The deferred close(jobs), after runReport has returned.
ReportClose ==
    /\ pcReport = "return"
    /\ closed' = TRUE
    /\ pcReport' = "done"
    /\ UNCHANGED <<ctxDone, atCancel, jobs, pending, produced, flushes, collectorVars, workerVars>>

-----------------------------------------------------------------------------
(* worker: range jobs, until the channel is closed and empty.               *)

WorkerReceive(w) ==
    /\ pcWorker[w] = "recv"
    /\ jobs # <<>>
    /\ jobs' = Tail(jobs)
    /\ workerBatch' = [workerBatch EXCEPT ![w] = Head(jobs)]
    /\ pcWorker' = [pcWorker EXCEPT ![w] = "send"]
    /\ taken' = taken + 1
    /\ UNCHANGED <<ctxDone, atCancel, delivered, failed, collectorVars, reportVars>>

\* The worker forgets its batch whatever SendBatch answered.
WorkerNext(w) ==
    /\ pcWorker[w] = "send"
    /\ pcWorker' = [pcWorker EXCEPT ![w] = "recv"]
    /\ workerBatch' = [workerBatch EXCEPT ![w] = NoBatch]
    /\ UNCHANGED <<ctxDone, atCancel, jobs, taken, collectorVars, reportVars>>

WorkerSent(w) ==
    /\ WorkerNext(w)
    /\ delivered' = delivered \cup {workerBatch[w].id}
    /\ UNCHANGED failed

\* MUTANT of WorkerFailed: a failed batch goes to the end of the queue, once, through a
\* goroutine of its own that does not hold the worker back.
WorkerFailedRequeuesLater(w) ==
    /\ WorkerNext(w) \/ /\ workerBatch[w].id \notin failed
                         /\ pcWorker[w] = "send"
                         /\ jobs' = Append(jobs, workerBatch[w])
                         /\ pcWorker' = [pcWorker EXCEPT ![w] = "recv"]
                         /\ workerBatch' = [workerBatch EXCEPT ![w] = NoBatch]
                         /\ UNCHANGED <<ctxDone, atCancel, taken, collectorVars, reportVars>>
    /\ failed' = failed \cup {workerBatch[w].id}
    /\ UNCHANGED delivered

\* The error is logged and the batch is gone.
WorkerFailed(w) ==
    /\ WorkerNext(w)
    /\ failed' = failed \cup {workerBatch[w].id}
    /\ UNCHANGED delivered

\* MUTANT of WorkerExit: the worker also leaves its loop when the context is cancelled.
WorkerExitOnCancel(w) ==
    /\ pcWorker[w] = "recv"
    /\ ctxDone \/ (closed /\ jobs = <<>>)
    /\ pcWorker' = [pcWorker EXCEPT ![w] = "exited"]
    /\ UNCHANGED <<ctxDone, atCancel, jobs, workerBatch, taken, delivered, failed,
                   collectorVars, reportVars>>

WorkerExit(w) ==
    /\ pcWorker[w] = "recv"
    /\ closed
    /\ jobs = <<>>
    /\ pcWorker' = [pcWorker EXCEPT ![w] = "exited"]
    /\ UNCHANGED <<ctxDone, atCancel, jobs, workerBatch, taken, delivered, failed,
                   collectorVars, reportVars>>

-----------------------------------------------------------------------------
\* wg.Wait() returns: every goroutine Run has started is done.
Stopped ==
    /\ pcCollect = "done"
    /\ pcExtra = "done"
    /\ pcReport = "done"
    /\ \A w \in Workers : pcWorker[w] = "exited"

\* After Run has returned the process ends.
Terminated == Stopped /\ UNCHANGED vars

Collecting == CollectTick \/ CollectLock \/ CollectGauges \/ CollectCounter \/ CollectStop
CollectingExtra ==
    ExtraTick \/ ExtraFails \/ ExtraLock \/ ExtraMemory \/ ExtraCPU \/ ExtraStop
Reporting ==
    \/ ReportTick \/ ReportStop \/ ReportSnapshot \/ ReportFinalSnapshot
    \/ ReportPush \/ ReportPushCancelled \/ ReportFlush \/ ReportClose
Working(w) == WorkerReceive(w) \/ WorkerSent(w) \/ WorkerFailed(w) \/ WorkerExit(w)

Next ==
    \/ Cancel
    \/ Collecting
    \/ CollectingExtra
    \/ Reporting
    \/ \E w \in Workers : Working(w)
    \/ Terminated

Spec == Init /\ [][Next]_vars

(* Every goroutine keeps running, sync.Mutex does not starve a waiter and   *)
(* select chooses uniformly among its ready cases: the steps that take the  *)
(* mutex and the ctx.Done() branches get strong fairness.                   *)
LocalFairness ==
    /\ WF_vars(Collecting) /\ SF_vars(CollectLock) /\ SF_vars(CollectStop)
    /\ WF_vars(CollectingExtra) /\ SF_vars(ExtraLock) /\ SF_vars(ExtraStop)
    /\ WF_vars(Reporting) /\ SF_vars(ReportStop)
    /\ SF_vars(ReportSnapshot) /\ SF_vars(ReportFinalSnapshot)

\* The two collecting goroutines run, whatever the others do.
CollectorsRun == WF_vars(Collecting) /\ SF_vars(CollectLock) /\ WF_vars(CollectingExtra)
PollingSpec == Spec /\ CollectorsRun

\* SendBatch always returns: the client has a timeout and retries are bounded.
SendFairness == \A w \in Workers : WF_vars(Working(w))

-----------------------------------------------------------------------------
TypeOK ==
    /\ ctxDone \in BOOLEAN
    /\ atCancel \in Nat
    /\ mu \in {"free", "collect", "extra"}
    /\ Counter \in Nat /\ Runtime \in Nat /\ Memory \in Nat /\ CPU \in Nat
    /\ pcCollect \in {"select", "collect", "gauges", "counter", "done"}
    /\ pcExtra \in {"select", "collect", "memory", "cpu", "done"}
    /\ pcReport \in {"select", "tick", "push", "stop", "flush", "return", "done"}
    /\ pending \in Batches
    /\ jobs \in Seq(Batches)
    /\ closed \in BOOLEAN
    /\ pcWorker \in [Workers -> {"recv", "send", "exited"}]
    /\ workerBatch \in [Workers -> Batches]
    /\ produced \in Seq(Batches)
    /\ taken \in Nat
    /\ delivered \in SUBSET Nat
    /\ failed \in SUBSET Nat
    /\ flushes \in Nat

(* A batch is one moment of the collector: all gauges of a collection are   *)
(* from the same call and PollCount is the number of that call, although    *)
(* GetSnapshot runs while Collect and CollectExtra are half way through.    *)
SnapshotConsistent ==
    \A i \in 1..Len(produced) :
        /\ produced[i].Runtime = produced[i].Counter
        /\ produced[i].Memory = produced[i].CPU

HasPending == pcReport \in {"push", "flush"}

(* Every snapshot runReport takes is received by a worker exactly once and  *)
(* in the order of the snapshots: what is neither received nor buffered is  *)
(* the one batch waiting at the inner select or at the flush.               *)
NoBatchLost ==
    /\ Len(produced) = taken + Len(jobs) + (IF HasPending THEN 1 ELSE 0)
    /\ \A i \in 1..Len(jobs) : jobs[i] = produced[taken + i]
    /\ HasPending => pending = produced[Len(produced)]

(* A batch a worker has received is being sent by exactly one worker or     *)
(* SendBatch has returned for it, once.                                     *)
ReceivedOnce ==
    LET Sending == {w \in Workers : pcWorker[w] = "send"}
    IN  /\ 1..taken = delivered \cup failed \cup {workerBatch[w].id : w \in Sending}
        /\ delivered \cap failed = {}
        /\ \A w \in Sending :
              /\ workerBatch[w].id \notin delivered \cup failed
              /\ \A v \in Sending : workerBatch[v].id = workerBatch[w].id => v = w

(* Nothing is sent on a closed channel and jobs is closed once: while       *)
(* runReport can still push, or close, the channel is open.  Either would   *)
(* be a panic of the whole agent.                                           *)
ChannelOpenWhileUsed == closed <=> pcReport = "done"

(* The final flush is pushed exactly once, whichever of the two ctx.Done()  *)
(* branches of runReport is taken, and never before the cancellation.       *)
FlushedOnce ==
    /\ flushes = IF pcReport \in {"return", "done"} THEN 1 ELSE 0
    /\ flushes = 1 => ctxDone

(* The order of a shutdown: cancellation, the one flush, the one close.     *)
ShutdownOrder == ChannelOpenWhileUsed /\ FlushedOnce

(* When Run returns, every snapshot taken since the start, the final flush  *)
(* included, has had its delivery attempt.                                  *)
DrainedAtStop == Stopped => delivered \cup failed = 1..Len(produced) /\ produced # <<>>

(* The final flush holds everything that was polled before the              *)
(* cancellation.  The exception is a reporter that the cancellation finds   *)
(* at the inner select: it may flush the older batch it has in hand, and    *)
(* what was polled since then is not sent.                                  *)
FinalFlushIsFresh == Stopped => produced[Len(produced)].Counter >= atCancel

(* Graceful shutdown ends: once cancelled, Run returns, provided that every *)
(* call of SendBatch does.  Neither is ever undone, so this is the same as  *)
(* ctxDone leading to Stopped.                                              *)
ShutdownCompletes == SendFairness => []<>(ctxDone => Stopped)

(* A server that never answers stops the reports and not the polls: they go *)
(* on with a full channel and a blocked reporter, and need only the two     *)
(* collectors to run.                                                       *)
PollingContinues == <>(ctxDone \/ Counter = MaxPolls)

(* The abstract agent of Delivery, read off this state.                     *)
Promise == INSTANCE Delivery WITH
    made    <- Len(produced),
    started <- taken,
    stopped <- Stopped

(* The goroutines, the channel with its close and the worker pool implement *)
(* the delivery that Delivery promises: every snapshot is attempted once,   *)
(* oldest first, and a slow server cannot make the agent hoard them.        *)
ImplementsDelivery == Promise!Spec
=============================================================================
