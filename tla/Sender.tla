------------------------------- MODULE Sender -------------------------------
(***************************************************************************)
(* One worker's calls of BatchSender.SendBatch against a server that may   *)
(* be slow: the HTTP Sender with retry.Do, or the GRPCSender without it.   *)
(* A client that gives up on an attempt does not take the request back:    *)
(* the server may still apply it later.  The batches are numbered in the   *)
(* order of the calls.                                                     *)
(***************************************************************************)
EXTENDS Naturals, FiniteSets

CONSTANTS
    Delays,     \* how many intervals retry.Do has, 3 in the code
    MaxCalls    \* bound: calls of SendBatch

ASSUME NumbersAssumption == Delays \in Nat /\ MaxCalls \in Nat

VARIABLES
    transport,  \* "http" (Sender) or "grpc" (GRPCSender), from the configuration
    pc,         \* of the call: "idle", "attempt", "wait" or "backoff"
    batch,      \* the number of the current or last call
    attempt,    \* the number of its current or last attempt
    failure,    \* what ended the last attempt
    results,    \* what the calls have returned: "none", "ok" or "error"
    network,    \* requests under way, as <<batch, attempt>>
    reply,      \* the answer on the client's connection: "none", "ok", "status"
    applied,    \* history: the requests the server has applied
    timeouts,   \* history: how many attempts of each batch timed out
    abandoned,  \* history: batches with a request the client gave up on
    newest      \* history: the newest batch applied so far

clientVars  == <<transport, pc, batch, attempt, failure, results>>
networkVars == <<network, reply>>
historyVars == <<applied, timeouts, abandoned, newest>>
vars == <<clientVars, networkVars, historyVars>>

Calls == 1..MaxCalls
\* MUTANT of MaxAttempts: the gRPC call is retried as well.
MaxAttemptsAlways == Delays + 1

\* DoWithDelays makes len(ivs) + 1 attempts; GRPCSender does not retry.
MaxAttempts == IF transport = "http" THEN Delays + 1 ELSE 1
Attempts == 1..(Delays + 1)
Outcomes == {"none", "ok", "status", "timeout", "dialTimeout", "refused", "reset", "build"}

\* How often the server has applied batch b.
Times(b) == Cardinality({x \in applied : x[1] = b})

-----------------------------------------------------------------------------
Init ==
    /\ transport \in {"http", "grpc"}
    /\ pc = "idle"
    /\ batch = 0
    /\ attempt = 0
    /\ failure = "none"
    /\ results = [b \in Calls |-> "none"]
    /\ network = {}
    /\ reply = "none"
    /\ applied = {}
    /\ timeouts = [b \in Calls |-> 0]
    /\ abandoned = {}
    /\ newest = 0

\* SendBatch is called with the next batch.
SendBatch ==
    /\ pc = "idle"
    /\ batch < MaxCalls
    /\ batch' = batch + 1
    /\ attempt' = 1
    /\ failure' = "none"
    /\ pc' = "attempt"
    /\ UNCHANGED <<transport, results, networkVars, historyVars>>

\* isRetriableHTTPError: a url.Error that is a timeout or temporary.  A refused
\* or reset connection is neither, and a status or a body that cannot be built
\* is no url.Error.
isRetriable(f) == f \in {"timeout", "dialTimeout"}

\* SendBatch returns.
Return(result) ==
    /\ results' = [results EXCEPT ![batch] = result]
    /\ pc' = "idle"

\* retrygo.Do after an attempt that ended with f.
Conclude(f) ==
    /\ failure' = f
    /\ IF isRetriable(f) /\ attempt < MaxAttempts
       THEN pc' = "backoff" /\ UNCHANGED results
       ELSE Return(IF f = "ok" THEN "ok" ELSE "error")
    /\ UNCHANGED <<transport, batch, attempt>>

\* MUTANT of Backoff: the attempts are not counted.
BackoffNotCounted ==
    /\ pc = "backoff"
    /\ pc' = "attempt"
    /\ UNCHANGED <<transport, batch, attempt, failure, results, networkVars, historyVars>>

\* The delay is over, fn runs again from the start.
Backoff ==
    /\ pc = "backoff"
    /\ attempt' = attempt + 1
    /\ pc' = "attempt"
    /\ UNCHANGED <<transport, batch, failure, results, networkVars, historyVars>>

\* The request is not sent: it cannot be built, or there is no connection.
NotSent ==
    /\ pc = "attempt"
    /\ \E f \in {"build", "refused", "dialTimeout"} : Conclude(f)
    /\ UNCHANGED <<networkVars, historyVars>>

\* MUTANT of Request: the answer is not waited for.
RequestForget ==
    /\ pc = "attempt"
    /\ network' = network \cup {<<batch, attempt>>}
    /\ Conclude("ok")
    /\ UNCHANGED <<reply, historyVars>>

\* httpClient.Do has written the request.
Request ==
    /\ pc = "attempt"
    /\ network' = network \cup {<<batch, attempt>>}
    /\ pc' = "wait"
    /\ UNCHANGED <<transport, batch, attempt, failure, results, reply, historyVars>>

\* MUTANT of Reply: the status code is not looked at.
ReplyAnyStatus ==
    /\ pc = "wait"
    /\ reply # "none"
    /\ Conclude("ok")
    /\ reply' = "none"
    /\ UNCHANGED <<network, historyVars>>

\* The answer to the current attempt arrives; only status 200 is a success.
Reply ==
    /\ pc = "wait"
    /\ reply # "none"
    /\ Conclude(reply)
    /\ reply' = "none"
    /\ UNCHANGED <<network, historyVars>>

\* The client closes the connection: an answer is not read any more, and a
\* request that is still under way stays there.
GiveUp(f) ==
    /\ pc = "wait"
    /\ Conclude(f)
    /\ reply' = "none"
    /\ abandoned' = abandoned \cup {batch}
    /\ UNCHANGED <<network, applied, newest>>

\* http.Client.Timeout, or the deadline of the RPC.
Timeout == GiveUp("timeout") /\ timeouts' = [timeouts EXCEPT ![batch] = @ + 1]

\* The connection breaks while the client waits.
Reset == GiveUp("reset") /\ UNCHANGED timeouts

-----------------------------------------------------------------------------
(* The server: UpdateMetricsBatch or UpdateMetrics.  It applies the whole   *)
(* batch and answers 200, or changes nothing and answers with an error.     *)

\* The answer gets to the client only if it still waits for this request.
Answer(x, s) ==
    /\ x \in network
    /\ network' = network \ {x}
    /\ reply' = IF pc = "wait" /\ x = <<batch, attempt>> THEN s ELSE reply

ServerApplies(x) ==
    /\ Answer(x, "ok")
    /\ applied' = applied \cup {x}
    /\ newest' = IF x[1] > newest THEN x[1] ELSE newest
    /\ UNCHANGED <<clientVars, timeouts, abandoned>>

ServerRefuses(x) ==
    /\ Answer(x, "status")
    /\ UNCHANGED <<clientVars, historyVars>>

\* The request never gets to the server.
Lost(x) ==
    /\ x \in network
    /\ network' = network \ {x}
    /\ UNCHANGED <<clientVars, reply, historyVars>>

\* All calls have returned and no request is under way any more.
Finished ==
    /\ pc = "idle"
    /\ batch = MaxCalls
    /\ network = {}
    /\ UNCHANGED vars

Client == SendBatch \/ Backoff \/ NotSent \/ Request \/ Reply \/ Timeout \/ Reset
Server == \E x \in network : ServerApplies(x) \/ ServerRefuses(x) \/ Lost(x)

Next == Client \/ Server \/ Finished

Spec == Init /\ [][Next]_vars

\* The client's timer fires and its goroutine runs; the server owes nothing.
FairSpec == Spec /\ WF_vars(Client)
-----------------------------------------------------------------------------
TypeOK ==
    /\ transport \in {"http", "grpc"}
    /\ pc \in {"idle", "attempt", "wait", "backoff"}
    /\ batch \in 0..MaxCalls
    /\ attempt \in 0..MaxAttempts
    /\ failure \in Outcomes
    /\ results \in [Calls -> {"none", "ok", "error"}]
    /\ network \in SUBSET (Calls \X Attempts)
    /\ reply \in {"none", "ok", "status"}
    /\ applied \in SUBSET (Calls \X Attempts)
    /\ timeouts \in [Calls -> Nat]
    /\ abandoned \in SUBSET Calls
    /\ newest \in 0..MaxCalls

(* A nil error of SendBatch means that the server has applied the batch.    *)
OkMeansApplied == \A b \in Calls : results[b] = "ok" => Times(b) >= 1

(* The server may apply requests of a batch more than once only because of  *)
(* attempts that timed out: no other failure makes the HTTP client send     *)
(* again, and over gRPC each batch is applied at most once, timeouts        *)
(* included.  How often one applied request is added is the storage's       *)
(* affair: a database may commit it twice without any timeout of the client *)
(* (DBStorage).                                                             *)
DuplicatesNeedTimeouts ==
    \A b \in Calls : Times(b) <= 1 + (IF transport = "http" THEN timeouts[b] ELSE 0)

(* An older batch is only applied after a newer one, and overwrites its     *)
(* gauges, when the client gave up on a request of the older batch.         *)
StaleOnlyIfAbandoned ==
    [][\A x \in applied' \ applied : x[1] < newest => x[1] \in abandoned]_vars

(* Every call of SendBatch returns, whatever the server does.               *)
CallsReturn == \A b \in Calls : batch = b ~> results[b] # "none"
=============================================================================
