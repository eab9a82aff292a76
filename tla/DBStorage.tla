----------------------------- MODULE DBStorage -----------------------------
(***************************************************************************)
(* The update handlers of the server on top of DBStorage: concurrent       *)
(* transactions on the metrics table, run through retry.Do and the         *)
(* connection pool of database/sql.  A batch upserts its rows in the order *)
(* of the request, which the agent leaves to Go's map iteration.           *)
(*                                                                         *)
(* PostgreSQL is external: a row lock is held from the upsert to the end   *)
(* of the transaction, a waiter on a cycle of waits is aborted, and the    *)
(* answer to a commit can be lost after the commit.                        *)
(***************************************************************************)
EXTENDS Naturals, Sequences, FiniteSets, SequencesExt

CONSTANTS
    Handlers,      \* the requests
    Rows,          \* the keys (id, mtype) of the table
    Batch,         \* the rows of each request, in the order of the request
    Singles,       \* the requests of POST /update: UpdateCounter and GetMetric
    Free,          \* no handler
    MaxOpenConns,  \* db.Config, 25 in the code
    Delays,        \* how many intervals retry.Do has, 3 in the code
    MaxFaults      \* bound: database errors other than deadlocks

ASSUME BatchAssumption ==
    /\ Batch \in [Handlers -> Seq(Rows)]
    /\ \A h \in Handlers : Batch[h] # <<>>
    /\ Singles \subseteq Handlers
    /\ \A h \in Singles : Len(Batch[h]) = 1
ASSUME FreeAssumption == Free \notin Handlers
ASSUME NumbersAssumption ==
    MaxOpenConns \in Nat \ {0} /\ Delays \in Nat /\ MaxFaults \in Nat

VARIABLES
    pc,         \* of the handler: "begin", "exec", "commit", "rollback", "read",
                \* "backoff" or "done"
    op,         \* where the function given to retry.Do starts: "begin" or "read"
    attempt,    \* the number of the current attempt of retry.Do
    next,       \* the index of the next metric of the batch
    err,        \* the error of the last attempt, "nil" without one
    locks,      \* who holds the lock of a row
    conns,      \* the handlers that hold a connection of the pool
    table,      \* how often the delta of a request has been added to a row
    seen,       \* how often GetMetric saw the request's own delta
    ambiguous,  \* history: class 08 answers to a commit
    faults      \* history: database errors so far

handlerVars == <<pc, op, attempt, next, err>>
dbVars == <<locks, conns, table>>
vars == <<handlerVars, dbVars, seen, ambiguous, faults>>

\* "class08" carries a SQLSTATE of class 08; "other" is any other error: another
\* SQLSTATE, a broken connection without one, or the cancelled request context.
Faults == {"class08", "other"}

Init ==
    /\ pc = [h \in Handlers |-> "begin"]
    /\ op = [h \in Handlers |-> "begin"]
    /\ attempt = [h \in Handlers |-> 1]
    /\ next = [h \in Handlers |-> 1]
    /\ err = [h \in Handlers |-> "nil"]
    /\ locks = [r \in Rows |-> Free]
    /\ conns = {}
    /\ table = [r \in Rows |-> [h \in Handlers |-> 0]]
    /\ seen = [h \in Handlers |-> 0]
    /\ ambiguous = [h \in Handlers |-> 0]
    /\ faults = 0

-----------------------------------------------------------------------------
(* retry.Do                                                                 *)

\* MUTANT of isRetriablePgError: every error is retried.
RetryAllErrors(e) == e # "nil"

isRetriablePgError(e) == e = "class08"

\* An attempt has failed: another one after a pause, or the error is returned.
Conclude(h, e) ==
    /\ err' = [err EXCEPT ![h] = e]
    /\ pc' = [pc EXCEPT ![h] =
                IF isRetriablePgError(e) /\ attempt[h] <= Delays THEN "backoff" ELSE "done"]
    /\ UNCHANGED <<op, attempt, next>>

\* The update has succeeded: UpdateMetricJSON goes on to read the metric back.
Succeed(h) ==
    /\ err' = [err EXCEPT ![h] = "nil"]
    /\ IF h \in Singles
       THEN /\ pc' = [pc EXCEPT ![h] = "read"]
            /\ op' = [op EXCEPT ![h] = "read"]
            /\ attempt' = [attempt EXCEPT ![h] = 1]
       ELSE pc' = [pc EXCEPT ![h] = "done"] /\ UNCHANGED <<op, attempt>>
    /\ UNCHANGED next

Backoff(h) ==
    /\ pc[h] = "backoff"
    /\ pc' = [pc EXCEPT ![h] = op[h]]
    /\ attempt' = [attempt EXCEPT ![h] = @ + 1]
    /\ next' = [next EXCEPT ![h] = 1]
    /\ UNCHANGED <<op, err, dbVars, seen, ambiguous, faults>>

-----------------------------------------------------------------------------
(* The transaction                                                          *)

\* The rows the request writes.
Written(h) == ToSet(Batch[h])

\* The row of the next statement.
Target(h) == Batch[h][next[h]]

\* The end of a transaction gives back its locks and its connection.
Release(h) ==
    /\ locks' = [r \in Rows |-> IF locks[r] = h THEN Free ELSE locks[r]]
    /\ conns' = conns \ {h}

\* The deltas of the request become visible.
Apply(h) ==
    table' = [r \in Rows |->
                IF r \in Written(h) THEN [table[r] EXCEPT ![h] = @ + 1] ELSE table[r]]

Fault == faults < MaxFaults /\ faults' = faults + 1

\* BeginTx, or the statement of UpdateCounter, gets a connection.
Begin(h) ==
    /\ pc[h] = "begin"
    /\ Cardinality(conns) < MaxOpenConns
    /\ pc' = [pc EXCEPT ![h] = "exec"]
    /\ conns' = conns \cup {h}
    /\ UNCHANGED <<op, attempt, next, err, locks, table, seen, ambiguous, faults>>

BeginFails(h, e) ==
    /\ pc[h] = "begin"
    /\ Fault
    /\ Conclude(h, e)
    /\ UNCHANGED <<dbVars, seen, ambiguous>>

\* MUTANT of Exec: the upsert is run outside the transaction.
ExecAutocommit(h) ==
    /\ pc[h] = "exec"
    /\ h \notin Singles
    /\ locks[Target(h)] = Free
    /\ table' = [table EXCEPT ![Target(h)][h] = @ + 1]
    /\ next' = [next EXCEPT ![h] = @ + 1]
    /\ pc' = [pc EXCEPT ![h] = IF next[h] = Len(Batch[h]) THEN "commit" ELSE "exec"]
    /\ UNCHANGED <<op, attempt, err, locks, conns, seen, ambiguous, faults>>

\* One upsert of UpdateBatch; it waits while another transaction has the row.
Exec(h) ==
    /\ pc[h] = "exec"
    /\ h \notin Singles
    /\ locks[Target(h)] \in {Free, h}
    /\ locks' = [locks EXCEPT ![Target(h)] = h]
    /\ next' = [next EXCEPT ![h] = @ + 1]
    /\ pc' = [pc EXCEPT ![h] = IF next[h] = Len(Batch[h]) THEN "commit" ELSE "exec"]
    /\ UNCHANGED <<op, attempt, err, conns, table, seen, ambiguous, faults>>

\* MUTANT of ExecSingle: the transaction of the statement is never committed.
ExecSingleUncommitted(h) ==
    /\ pc[h] = "exec"
    /\ h \in Singles
    /\ locks[Target(h)] = Free
    /\ Release(h)
    /\ Succeed(h)
    /\ UNCHANGED <<table, seen, ambiguous, faults>>

\* The upsert of UpdateCounter, which commits by itself.
ExecSingle(h) ==
    /\ pc[h] = "exec"
    /\ h \in Singles
    /\ locks[Target(h)] = Free
    /\ Apply(h)
    /\ Release(h)
    /\ Succeed(h)
    /\ UNCHANGED <<seen, ambiguous, faults>>

\* The statement fails: UpdateBatch returns the error and the deferred Rollback runs.
Abort(h, e) ==
    /\ pc[h] = "exec"
    /\ pc' = [pc EXCEPT ![h] = "rollback"]
    /\ err' = [err EXCEPT ![h] = e]
    /\ UNCHANGED <<op, attempt, next, dbVars, seen, ambiguous>>

ExecFails(h, e) == Fault /\ Abort(h, e)

\* h waits for a lock of g.
WaitsFor(h, g) == pc[h] = "exec" /\ g # h /\ locks[Target(h)] = g

\* h is on a cycle of waits, which PostgreSQL breaks with 40P01.
InCycle(h) ==
    \E S \in SUBSET Handlers :
        /\ h \in S
        /\ \A g \in S : (\E k \in S : WaitsFor(g, k)) /\ (\E k \in S : WaitsFor(k, g))

Deadlock(h) == InCycle(h) /\ Abort(h, "deadlock") /\ UNCHANGED faults

\* MUTANT of Rollback: no deferred Rollback on the error path.
RollbackSkipped(h) ==
    /\ pc[h] = "rollback"
    /\ Conclude(h, err[h])
    /\ UNCHANGED <<dbVars, seen, ambiguous, faults>>

Rollback(h) ==
    /\ pc[h] = "rollback"
    /\ Release(h)
    /\ Conclude(h, err[h])
    /\ UNCHANGED <<table, seen, ambiguous, faults>>

Commit(h) ==
    /\ pc[h] = "commit"
    /\ Apply(h)
    /\ Release(h)
    /\ Succeed(h)
    /\ UNCHANGED <<seen, ambiguous, faults>>

\* MUTANT of CommitFails: the error of Commit is dropped.
CommitFailsIgnored(h, e, done) ==
    /\ pc[h] = "commit" \/ (pc[h] = "exec" /\ h \in Singles /\ locks[Target(h)] = Free)
    /\ Fault
    /\ IF done THEN Apply(h) ELSE UNCHANGED table
    /\ Release(h)
    /\ Succeed(h)
    /\ ambiguous' = [ambiguous EXCEPT ![h] = @ + (IF e = "class08" THEN 1 ELSE 0)]
    /\ UNCHANGED seen

\* Commit, or the statement that commits by itself, returns an error; the
\* transaction may be committed all the same.  The deferred Rollback is a no-op.
CommitFails(h, e, done) ==
    /\ pc[h] = "commit" \/ (pc[h] = "exec" /\ h \in Singles /\ locks[Target(h)] = Free)
    /\ Fault
    /\ IF done THEN Apply(h) ELSE UNCHANGED table
    /\ Release(h)
    /\ Conclude(h, e)
    /\ ambiguous' = [ambiguous EXCEPT ![h] = @ + (IF e = "class08" THEN 1 ELSE 0)]
    /\ UNCHANGED seen

-----------------------------------------------------------------------------
(* GetMetric after the update: any error it ends with is "not found", which *)
(* UpdateMetricJSON answers with 500.                                       *)

GetMetric(h) ==
    /\ pc[h] = "read"
    /\ Cardinality(conns) < MaxOpenConns
    /\ seen' = [seen EXCEPT ![h] = table[Batch[h][1]][h]]
    /\ pc' = [pc EXCEPT ![h] = "done"]
    /\ err' = [err EXCEPT ![h] = "nil"]
    /\ UNCHANGED <<op, attempt, next, dbVars, ambiguous, faults>>

GetMetricFails(h, e) ==
    /\ pc[h] = "read"
    /\ Fault
    /\ Conclude(h, e)
    /\ UNCHANGED <<dbVars, seen, ambiguous>>

-----------------------------------------------------------------------------
Answered == \A h \in Handlers : pc[h] = "done"

Terminated == Answered /\ UNCHANGED vars

Step(h) ==
    \/ Begin(h) \/ Exec(h) \/ ExecSingle(h) \/ Commit(h) \/ Rollback(h)
    \/ Backoff(h) \/ GetMetric(h) \/ Deadlock(h)

Fails(h) ==
    \E e \in Faults :
        \/ BeginFails(h, e) \/ ExecFails(h, e) \/ GetMetricFails(h, e)
        \/ \E done \in BOOLEAN : CommitFails(h, e, done)

Next == (\E h \in Handlers : Step(h) \/ Fails(h)) \/ Terminated

Spec == Init /\ [][Next]_vars

(* A goroutine that can go on does.  No fairness between the waiters of a   *)
(* row or of the pool is needed: every step takes a request nearer its end. *)
FairSpec == Spec /\ \A h \in Handlers : WF_vars(Step(h))

-----------------------------------------------------------------------------
TypeOK ==
    /\ pc \in [Handlers -> {"begin", "exec", "commit", "rollback", "read", "backoff", "done"}]
    /\ op \in [Handlers -> {"begin", "read"}]
    /\ attempt \in [Handlers -> 1..(Delays + 1)]
    /\ next \in [Handlers -> Nat]
    /\ err \in [Handlers -> Faults \cup {"nil", "deadlock"}]
    /\ locks \in [Rows -> Handlers \cup {Free}]
    /\ conns \in SUBSET Handlers
    /\ table \in [Rows -> [Handlers -> Nat]]
    /\ seen \in [Handlers -> Nat]
    /\ ambiguous \in [Handlers -> Nat]
    /\ faults \in Nat

(* A batch is applied to all of its rows or to none of them, however often  *)
(* it is retried and whichever of its statements fails or is a deadlock's   *)
(* victim.                                                                  *)
BatchAtomic ==
    \A h \in Handlers : \A r, s \in Written(h) : table[r][h] = table[s][h]

(* The 200 of an update means that every row of it has been committed.      *)
OkMeansCommitted ==
    \A h \in Handlers : pc[h] = "done" /\ err[h] = "nil" => \A r \in Written(h) : table[r][h] >= 1

(* A delta is added twice only if a commit was answered with a connection   *)
(* exception and retried, once more at most for each such answer.           *)
DuplicatesNeedAmbiguity ==
    \A h \in Handlers : \A r \in Rows : table[r][h] <= ambiguous[h] + 1

(* POST /update answers with a value that contains the request's own delta, *)
(* although the read is a second query on another connection.               *)
ReadsOwnWrite ==
    \A h \in Singles : pc[h] = "done" /\ err[h] = "nil" => seen[h] >= 1

(* Every request is answered: row deadlocks are broken, retries end and a   *)
(* pool smaller than the number of requests comes round to everyone.        *)
RequestsAnswered == <>Answered
=============================================================================
