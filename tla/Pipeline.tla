------------------------------ MODULE Pipeline ------------------------------
(***************************************************************************)
(* The agent and the server together: what the server knows of PollCount   *)
(* and of the gauges after the batches the workers send have been applied  *)
(* by UpdateMetricsBatch and MemStorage.UpdateBatch.                       *)
(*                                                                         *)
(* SendBatch makes up to Retries + 1 attempts.  An attempt that timed out, *)
(* or whose connection broke, may have been applied, may still be applied  *)
(* at any later time, even after Run has returned, or is lost.  Sender has *)
(* the attempts in detail.                                                 *)
(***************************************************************************)
EXTENDS Agent

CONSTANTS
    Retries     \* how often SendBatch tries again: 3 over HTTP, 0 over gRPC

ASSUME RetriesAssumption == Retries \in Nat

VARIABLES
    pollCount,  \* the server's counter PollCount
    gauges,     \* the batch that wrote the server's gauges last
    answered,   \* the workers whose current attempt the server has applied
    attempt,    \* how often each worker has tried its batch again
    late,       \* requests given up on that are still under way, as <<batch, attempt>>
    abandoned   \* history: ids of the batches with a request given up on

serverVars == <<pollCount, gauges>>
senderVars == <<answered, attempt>>
networkVars == <<late, abandoned>>
pipelineVars == <<vars, serverVars, senderVars, networkVars>>

PipelineInit ==
    /\ Init
    /\ pollCount = 0
    /\ gauges = NoBatch
    /\ answered = {}
    /\ attempt = [w \in Workers |-> 0]
    /\ late = {}
    /\ abandoned = {}

\* MUTANT of Apply: a batch is only applied when it is newer.
ApplyIfNewer(b) ==
    IF b.Counter > gauges.Counter
    THEN gauges' = b /\ pollCount' = pollCount + b.Counter
    ELSE UNCHANGED serverVars

\* MemStorage.UpdateBatch: every gauge is replaced and the delta of PollCount
\* is added, under one lock.
Apply(b) ==
    /\ gauges' = b
    /\ pollCount' = pollCount + b.Counter

\* The server applies the current attempt of a worker.
UpdateBatch(w) ==
    /\ pcWorker[w] = "send"
    /\ w \notin answered
    /\ Apply(workerBatch[w])
    /\ answered' = answered \cup {w}
    /\ UNCHANGED <<vars, attempt, networkVars>>

\* The server applies a request whose client has gone.
UpdateBatchLate(x) ==
    /\ Apply(x[1])
    /\ late' = late \ {x}
    /\ UNCHANGED <<vars, senderVars, abandoned>>

\* The client stops waiting for the answer to its current attempt.
GiveUp(w) ==
    /\ abandoned' = abandoned \cup {workerBatch[w].id}
    /\ late' = IF w \in answered THEN late ELSE late \cup {<<workerBatch[w], attempt[w]>>}

\* A timeout, and retry.Do runs sendBatch again.  One that came before there
\* was a connection leaves no request behind.
Retry(w) ==
    /\ pcWorker[w] = "send"
    /\ attempt[w] < Retries
    /\ attempt' = [attempt EXCEPT ![w] = @ + 1]
    /\ GiveUp(w) \/ (w \notin answered /\ UNCHANGED networkVars)
    /\ answered' = answered \ {w}
    /\ UNCHANGED <<vars, serverVars>>

\* The worker is done with its batch.
Forget(w) ==
    /\ answered' = answered \ {w}
    /\ attempt' = [attempt EXCEPT ![w] = 0]
    /\ UNCHANGED serverVars

\* SendBatch returns nil only when its last attempt was applied.
Sent(w) ==
    /\ w \in answered
    /\ WorkerSent(w)
    /\ Forget(w)
    /\ UNCHANGED networkVars

\* SendBatch returns an error: the last attempt was given up on, or was not
\* sent, or was answered with another status than 200.
Failed(w) ==
    /\ WorkerFailed(w)
    /\ Forget(w)
    /\ GiveUp(w) \/ UNCHANGED networkVars

AgentStep ==
    /\ \/ Cancel \/ Collecting \/ CollectingExtra \/ Reporting
       \/ \E w \in Workers : WorkerReceive(w) \/ WorkerExit(w)
       \/ Terminated
    /\ UNCHANGED <<serverVars, senderVars, networkVars>>

PipelineNext ==
    \/ AgentStep
    \/ \E w \in Workers : UpdateBatch(w) \/ Retry(w) \/ Sent(w) \/ Failed(w)
    \/ \E x \in late : UpdateBatchLate(x)

\* The server may never answer a request, so nothing is assumed of Sent and
\* Failed, nor of the requests under way.
PipelineSpec == PipelineInit /\ [][PipelineNext]_pipelineVars /\ LocalFairness
-----------------------------------------------------------------------------
(* The gauges the server shows are one moment of the agent, and with one    *)
(* worker that moment only advances, except that a request the agent gave   *)
(* up on may take it back to its own batch.                                 *)
ServerAdvances ==
    [][RateLimit = 1 =>
         \/ gauges'.id >= gauges.id /\ gauges'.Counter >= gauges.Counter
         \/ gauges'.id \in abandoned]_pipelineVars

(* With one worker and no failed call the server ends up with the agent's   *)
(* last snapshot, or with a batch that SendBatch has sent again after it    *)
(* had given up on a request: that request may arrive last.                 *)
FinalSnapshotArrives ==
    Stopped /\ RateLimit = 1 /\ failed = {} =>
        gauges = produced[Len(produced)] \/ gauges.id \in abandoned

(* PollCount "grows by 1 with every update of the runtime metrics", and     *)
(* AckCounter subtracts from the next report what was uploaded: the server  *)
(* never counts more polls than the agent has made.                         *)
PollCountIsPolls == pollCount <= Counter
=============================================================================
