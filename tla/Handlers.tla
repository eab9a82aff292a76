------------------------------ MODULE Handlers ------------------------------
(***************************************************************************)
(* What the update endpoints do to the metrics themselves: the checks of   *)
(* the handlers and of MetricService, MemStorage or the rows of            *)
(* PostgreSQL, the read-back of POST /update, and around it the audit      *)
(* events and the shutdown of Audit.                                       *)
(*                                                                         *)
(* A metric of a request is a record of id, mtype and val: the field that  *)
(* its type looks at, None when it is missing or does not parse.  Floats   *)
(* are integers without bounds here; counters are -Half .. Half - 1.  The  *)
(* storage is one function from <<mtype, id>>, for the two maps of         *)
(* MemStorage or the primary key of the table.                             *)
(***************************************************************************)
EXTENDS Audit, Integers, SequencesExt

CONSTANTS
    Scenarios,  \* the contents of the requests: functions from Requests
    Half,       \* half the values of int64 and BIGINT, 2^63 there
    None

ASSUME HalfAssumption == Half \in Nat \ {0}
ASSUME NoneAssumption == None \notin Int

\* model.Metrics
Metric == [mtype : STRING, id : STRING, val : Int \cup {None}]

ASSUME ScenariosAssumption ==
    \A b \in Scenarios, r \in Requests : b[r].metrics \in Seq(Metric)

VARIABLES
    backend,  \* "mem" (the file-backed one included) or "db"
    body,     \* of each request: its endpoint (kind) and its metrics
    store,    \* the metrics
    outcome,  \* of the storage call of each request: "none", "ok" or "error"
    answer,   \* the metric POST /update answers with
    log       \* history: the requests applied, in the order of the storage

dataVars == <<backend, body, store, outcome, answer, log>>
handlerVars == <<vars, dataVars>>

Gauge == "gauge"
Counter == "counter"

Int64 == (-Half) .. (Half - 1)
\* Signed addition in Go wraps around.
Wrap(n) == ((n + Half) % (2 * Half)) - Half

Key(m) == <<m.mtype, m.id>>
Lookup(s, k) == IF k \in DOMAIN s THEN s[k] ELSE None
Known(m) == m.mtype \in {Gauge, Counter}

-----------------------------------------------------------------------------
(* The storages.                                                            *)

\* UpdateGauge replaces, UpdateCounter adds to what is there or to zero; the
\* database adds without wrapping around, or reports the overflow.
UpdateOne(b, s, m) ==
    LET old == IF Key(m) \in DOMAIN s THEN s[Key(m)] ELSE 0
        sum == IF b = "mem" THEN Wrap(old + m.val) ELSE old + m.val
    IN  [k \in DOMAIN s \cup {Key(m)} |->
            IF k # Key(m) THEN s[k] ELSE IF m.mtype = Gauge THEN m.val ELSE sum]

\* One round of the loop over a batch, which skips the metrics of another
\* type and those without a value.
BatchRound(b, s, m) == IF Known(m) /\ m.val # None THEN UpdateOne(b, s, m) ELSE s

\* The storage after each round.
Rounds(b, s, ms) ==
    LET after[n \in 0..Len(ms)] == IF n = 0 THEN s ELSE BatchRound(b, after[n - 1], ms[n])
    IN  after

UpdateBatch(b, s, ms) == Rounds(b, s, ms)[Len(ms)]

\* bigint out of range, at any statement of the transaction.
Overflows(s, ms) ==
    /\ backend = "db"
    /\ \E n \in 0..Len(ms) :
          LET t == Rounds(backend, s, ms)[n]
          IN  \E k \in DOMAIN t : k[1] = Counter /\ t[k] \notin Int64

\* Snapshot: every metric, in the order of Go's maps, which is any order.
Snapshot(s) == {[mtype |-> k[1], id |-> k[2], val |-> s[k]] : k \in DOMAIN s}

\* MUTANT of Load: metrics without a name are left out.
LoadNamed(ms) == UpdateBatch(backend, <<>>, SelectSeq(ms, LAMBDA m : m.id # ""))

\* Load replays the file into an empty storage with UpdateGauge and UpdateCounter.
Load(ms) == UpdateBatch(backend, <<>>, ms)

-----------------------------------------------------------------------------
(* The checks before the storage is called.                                 *)

\* Decode and ParseInt refuse a counter that is not an int64.
Decodes(m) == m.val # None /\ m.mtype = Counter => m.val \in Int64

\* The getters of a protobuf message return 0 for a field that is not set.
FromProto(m) == [m EXCEPT !.val = IF @ = None THEN 0 ELSE @]

Metrics(r) ==
    IF body[r].kind = "rpc"
    THEN [i \in DOMAIN body[r].metrics |-> FromProto(body[r].metrics[i])]
    ELSE body[r].metrics

\* UpdateMetric and UpdateMetricJSON take one complete metric with a name;
\* UpdateMetricsBatch looks at none of them and MetricsServer at the types.
\* An empty batch is answered with success but never reaches the storage.
Accepted(r) ==
    LET b == body[r]
    IN  /\ b.metrics # <<>>
        /\ \A i \in DOMAIN b.metrics :
            LET m == b.metrics[i]
            IN  /\ Decodes(m)
                /\ b.kind \in {"text", "json"} => m.id # "" /\ Known(m) /\ m.val # None
                /\ b.kind = "rpc" => Known(m)

-----------------------------------------------------------------------------
HandlersInit ==
    /\ Init
    /\ backend \in {"mem", "db"}
    /\ body \in Scenarios
    /\ store = <<>>
    /\ outcome = [r \in Requests |-> "none"]
    /\ answer = [r \in Requests |-> None]
    /\ log = <<>>

Storing(r) == Alive /\ pc[r] = "handle" /\ outcome[r] = "none" /\ Accepted(r)

\* MUTANT of StoreFails: the statements before the failing one are not rolled back.
StoreFailsHalfway(r) ==
    /\ Storing(r)
    /\ backend = "db"
    /\ outcome' = [outcome EXCEPT ![r] = "error"]
    /\ store' = UpdateBatch(backend, store, SubSeq(Metrics(r), 1, 1))
    /\ UNCHANGED <<vars, backend, body, answer, log>>

\* An error of the database, an overflow or any other; the transaction is
\* rolled back.  A commit whose answer is lost is the business of DBStorage.
StoreFails(r) ==
    /\ Storing(r)
    /\ backend = "db"
    /\ outcome' = [outcome EXCEPT ![r] = "error"]
    /\ UNCHANGED <<vars, backend, body, store, answer, log>>

\* The storage call of an accepted request: under the lock of MemStorage, or
\* one statement or transaction.
Store(r) ==
    /\ Storing(r)
    /\ ~Overflows(store, Metrics(r))
    /\ outcome' = [outcome EXCEPT ![r] = "ok"]
    /\ store' = UpdateBatch(backend, store, Metrics(r))
    /\ log' = Append(log, r)
    /\ UNCHANGED <<vars, backend, body, answer>>

\* The request ends without an event: refused, or not stored, or stored but
\* not read back.
Refuse(r) ==
    /\ \/ ~Accepted(r)
       \/ outcome[r] = "error"
       \/ outcome[r] = "ok" /\ body[r].kind = "json" /\ backend = "db"
    /\ Reject(r)
    /\ UNCHANGED dataVars

\* MUTANT of ReadBack: the answer is the metric of the request.
ReadBackEcho(r) ==
    answer' = IF body[r].kind = "json"
              THEN [answer EXCEPT ![r] = body[r].metrics[1].val] ELSE answer

\* UpdateMetricJSON asks the storage again for what it answers.
ReadBack(r) ==
    answer' = IF body[r].kind = "json"
              THEN [answer EXCEPT ![r] = Lookup(store, Key(body[r].metrics[1]))]
              ELSE answer

Finish(r) ==
    /\ outcome[r] = "ok"
    /\ Update(r)
    /\ ReadBack(r)
    /\ UNCHANGED <<backend, body, store, outcome, log>>

HandleRequest(r) ==
    Store(r) \/ StoreFails(r) \/ Refuse(r) \/ Finish(r) \/ (Respond(r) /\ UNCHANGED dataVars)

HandlersNext ==
    \/ \E r \in Requests :
          \/ HandleRequest(r)
          \/ (Receive(r) \/ Notify(r)) /\ UNCHANGED dataVars
    \/ (Signal \/ Main \/ Terminated) /\ UNCHANGED dataVars

(* Handlers and main keep running (to leave "handle" a request has to get   *)
(* through Store); an observer may hang and requests need not come.         *)
HandlersSpec == HandlersInit /\ [][HandlersNext]_handlerVars /\ HandlerFairness
-----------------------------------------------------------------------------
\* The metrics of the first n applied requests, in order.
Applied(n) == FlattenSeq([i \in 1..n |-> Metrics(log[i])])

\* Where a sequence of metrics has a value for one of them.
Updates(ms, k) == {i \in DOMAIN ms : Key(ms[i]) = k /\ ms[i].val # None}

\* The sum of those values, over each beginning of the sequence.
Sums(ms, k) ==
    LET sum[n \in 0..Len(ms)] ==
            IF n = 0 THEN 0
            ELSE sum[n - 1] + (IF n \in Updates(ms, k) THEN ms[n].val ELSE 0)
    IN  sum

\* What a metric is after n requests: a gauge is the last value, a counter the
\* sum of all deltas, reduced once to its width in memory.
Value(n, k) ==
    LET ms == Applied(n)
        us == Updates(ms, k)
        total == Sums(ms, k)[Len(ms)]
    IN  IF us = {} THEN None
        ELSE IF k[1] = Gauge THEN ms[Max(us)].val
        ELSE IF backend = "mem" THEN Wrap(total) ELSE total

Keys == UNION {{k \in {Key(body[r].metrics[i]) : i \in DOMAIN body[r].metrics} :
                    k[1] \in {Gauge, Counter}} : r \in Requests}

(* Whatever the order of the requests, their endpoints and the metrics that *)
(* are skipped, every metric is what the updates applied so far make it: no *)
(* update is lost, doubled or half applied, and an overflow that the        *)
(* database refuses leaves no trace of the whole batch.                     *)
StoreMatchesLog ==
    /\ \A k \in Keys : Lookup(store, k) = Value(Len(log), k)
    /\ DOMAIN store \subseteq Keys

(* The answer of POST /update contains its own update: it is the value of   *)
(* the metric at some moment after it was applied, although other requests  *)
(* change the metric between the update and the read.                       *)
AnswerIncludesUpdate ==
    \A r \in Requests :
        answer[r] # None =>
            \E i \in 1..Len(log) : log[i] = r /\
                \E n \in i..Len(log) : answer[r] = Value(n, Key(body[r].metrics[1]))

(* A snapshot read back by Load is the storage again, in whatever order the *)
(* metrics were written, with gauges and counters of the same name, wrapped *)
(* counters and metrics without a name.                                     *)
LoadRestores ==
    \A ms \in SetToSeqs(Snapshot(store)) : Load(ms) = store
=============================================================================
