# Verification of the metrics agent and server

TLA+ models of the agent (`src/cmd/agent`, `src/internal/agent`) and of the server
(`src/cmd/server` and the packages below `src/internal`), checked with TLC on small instances.
Nearly all safety properties are also proved with TLAPS, for every value of the constants, and so are the
two refinements (section 5). `PROJECT.json` holds the same information for tools: components, runs, the mutants
that show each property can fail, the correspondence of definitions to source lines, findings,
hazards and theorems.

## 1. The system

The **agent** samples runtime, memory and CPU metrics, takes a snapshot of them at every report
tick and hands the snapshot, as one batch, to a pool of workers that send it over HTTP or gRPC.
The **server** authenticates and decodes a request, applies it to a storage (memory, memory with a
file, or PostgreSQL), optionally emits an audit event, and answers.

| component | state | operations | talks to | what is hard |
|---|---|---|---|---|
| agent (`agent.go`, `collector.go`) | gauges and counter under `Collector.mu`; the channel `jobs`; the context; a WaitGroup | `Collect`, `CollectExtra`, `GetSnapshot`, `runReport`, `worker`, `Run` | sender, through `BatchSender` | four kinds of goroutine, two nested selects, close of a channel others use, shutdown that has to drain |
| senders and retry (`sender.go`, `grpc_sender.go`, `pkg/retry`) | the attempt in progress | `SendBatch`, `retry.Do` | server, over the network | timeouts that say nothing about what the server did, retries, late requests |
| middleware (`internal/middleware`, the gRPC interceptor) | request and response on their way | subnet check, decryption, gunzip, signature, and compression and signing of the answer | handlers | the order of the layers, on both sides and in both directions, for every configuration |
| handlers and service (`handler.go`, `grpcserver/server.go`, `service/metrics.go`) | none of their own | validate, update, `notifyUpdate`, `emitAudit`, answer | storage, audit | error paths between the steps |
| memory storage (`storage.go`) | gauges, counters under a lock | `UpdateGauge`, `UpdateCounter`, `UpdateBatch`, `Snapshot`, reads | | |
| file storage (`filestorage.go`) | the mutex of `Save`, the file | `Save`, `Load`, `StartPeriodicSave`, `SaveOnUpdate`, `Close` | memory storage, the file system | concurrent saves, a write that truncates first, crash, restart, a saver nobody waits for |
| database storage (`db.go`) | rows, connections | upserts in a transaction, reads, retries | PostgreSQL | deadlocks between batches, commits whose answer is lost, leaks of locks and connections |
| audit (`internal/audit`) | the observers, the open file | `Notify`, `Close` | file, URL | goroutines that outlive the request, failing and hanging observers |
| server main (`cmd/server/main.go`) | context, errgroup | start, signal, shutdown with a budget, final save, close | all of the above | the order of the shutdown |
| configuration (`internal/config`) | the configuration under construction | `extractConfigPath`, the file, `fs.Parse`, the environment | both mains | the path is found apart from the flags; three sources per option; truncated durations |
| reset generator (`cmd/reset`) | the sources, `reset.gen.go` of each package | `Run`, `generatePackage`, `resetField` | the Go tool chain | it reads its own last output; packages depend on each other |
| object pool (`pkg/pool`) | the objects and who has them | `Get`, `Put` | generated `Reset` methods | an object shared over time by several goroutines |
| linter, key files, migrations, generated code | | | | see section 8 |

What makes each part correct, in one line each: a batch is one moment of the collector and is
attempted exactly once, shutdown included; a `nil` from `SendBatch` means applied and only
timeouts can duplicate; fitting configurations always understand each other and others never do;
an acknowledged update is in every complete file from then on, as far as the store interval promises; a batch in the database is
all or nothing; audit never delays the answer and one observer never hides an event from another; a
configuration is what its sources say in the order of their rank; a start that fails costs no stored
metrics outside the cases of section 6; generated files compile, or break in a way that is named, are complete, and pooled objects come back clean.
The list of hazards in `PROJECT.json` refines this with the line where each one bites.

## 2. Modules

| module | models | composition |
|---|---|---|
| `Agent` | `Agent.Run` with its goroutines, `Collector`, the channel | |
| `Pipeline` | the agent, the attempts of `SendBatch` and the server's `UpdateBatch` | extends `Agent`; its worker steps are joined with steps of the server |
| `Sender` | `Sender.SendBatch`, `GRPCSender.SendBatch`, `retry.Do`, network, server | |
| `Delivery` | abstract: snapshots attempted once, in order, by a bounded number of requests | implemented by `Agent` (`ImplementsDelivery`) |
| `Middleware` | `newRequest`, the chain of `newRouter`, the interceptor | |
| `FileStorage` | handlers on `FileBackedStorage`, periodic saver, `main`, crash and restart | |
| `DurableStore` | abstract: apply, persist, acknowledge, stop, recover, each in one step | implemented by `FileStorage` (`ImplementsDurableStore`) |
| `Handlers` | the four updating endpoints, `MetricService`, the content of memory or table, `Load` | extends `Audit`; the steps of a handler are joined with storage calls |
| `Config` | `ParseAgentConfig`, `ParseServerConfig`, the agent's start | |
| `Startup` | the server's `main` up to serving, and its end | extends `Config` |
| `ResetGen` | `generate.Run` between changes of the sources | |
| `Pool` | `Pool.Get` and `Put` in a program built from them | extends `ResetGen` |
| `DBStorage` | handlers on `DBStorage`, `retry.Do`, pool, row locks | |
| `Audit` | `emitAudit`, `Publisher`, observers, `main` | |
| `SenderProofs`, `MiddlewareProofs`, `FileStorageProofs`, `DBStorageProofs` | the theorems about the component | extend its module |
| `AgentProofs`, `HandlersProofs` | the theorems about `Agent` and `Pipeline`, and about `Audit` and `Handlers` | extend `Pipeline` and `Handlers` |
| `StartupProofs`, `PoolProofs` | the theorems about `Config` and `Startup`, and about `ResetGen` and `Pool` | extend `Startup` and `Pool` |
| `MC*` | the instances for TLC | extend the component's module |

Definitions called `MUTANT of X` stand before `X`: each is the definition with one plausible mistake,
used to show that a property can be violated. They are part of no specification.

### Agent

`mu` is `Collector.mu`; `Counter` is the poll counter; the gauges are abstracted to the number of
the sample that wrote them (`Runtime` for those of `Collect`, `Memory` and `CPU` for the two groups of
`CollectExtra`), so that a torn snapshot is one whose numbers disagree. The writes inside a critical section
are separate steps. `pcReport` distinguishes the outer select ("select"), the moment after a tick or
after `ctx.Done()` and before the snapshot ("tick", "stop"), the inner select ("push") and the final,
unconditional send ("flush"). When several cases of a select are ready each may be chosen, so the
reporter may go on with ticks after the cancellation. `close(jobs)` is a step after the reporter's return, as
the deferred call is. A worker receives while there is something to receive and leaves when the channel is closed and empty.
`produced`, `taken`, `delivered`, `failed`, `flushes` and `atCancel` are history variables that no guard
of the code's actions reads, apart from the bound `MaxReports`.

### Pipeline

Adds the server's view and what lies between. `pollCount` grows by the delta of each batch, `gauges` is the batch that wrote
last. `SendBatch` makes up to `Retries + 1` attempts (`attempt`); it returns nil only after its last attempt has been
applied. `GiveUp` is a timeout or a broken connection: unless the server has applied the request already, it is added to `late`,
from where it may be applied at any later time, after newer batches and even after `Run` has returned, or never. A
batch may so be applied several times although `SendBatch` finally returned nil. `abandoned` has the batches with such a request.

### Sender

One worker's calls in order. `transport` is chosen once: HTTP retries what `isRetriable` accepts
through `retry.Do`, gRPC makes one attempt. An attempt ends because the request could not be built or the
connection could not be made, with an answer, with a timeout, or with a broken connection. After a timeout the request
stays in `network` and may still be applied, refused or lost, in any order with later requests.
The pauses of `retry.Do` have no length.

### Middleware

A body is the sequence of its encodings, outermost first. The agent's body is compressed, then
encrypted; its signature is of the plain body. The chain is walked inwards, one middleware per step,
and outwards again from wherever a middleware answers. Cryptography is exact: only what was encoded under a key
can be decoded with it.

### FileStorage

Within one life of the process `MemStorage` only accumulates, so its content is identified by the set of
requests applied. `Save` is four steps (lock, marshal, open with truncation, write and unlock) and
two error exits; its callers are every handler (store interval 0), the periodic goroutine and `main` in `Close`.
`main` goes from the signal to "closing" when all handlers have finished or when its budget of five seconds is
used up, saves, and ends the process with whatever is still running. `Crash` may happen at any
time; `Restart` loads the file, or goes on empty when the file is missing, torn or unreadable.
A request in `NonFinite` sets a gauge that `encoding/json` refuses.

### DBStorage

A request begins a transaction (taking one of `MaxOpenConns` connections), upserts its rows in request
order, each taking the row's lock, and commits; a failure rolls back. `table[r][h]` counts how often request `h` has been
added to row `r`. A statement of `POST /update` commits by itself and is followed by `GetMetric`. Errors are
those of class 08, which `isRetriablePgError` accepts, and all others; an error in answer to a commit leaves open
whether it happened. PostgreSQL aborts a waiter on a cycle of waits.
PostgreSQL itself (`WaitsFor`, `InCycle`, `Apply`) is external and modelled from how the code depends on it.

### Audit

A request's event is handed by a goroutine of its own to the observers in order. A failing call is
logged and the next observer is called. `main` closes the publisher after the handlers and exits without waiting for
these goroutines. gRPC requests start none.

### Handlers

What `FileStorage` and `DBStorage` abstract to "request r has been applied" is spelled out here: a
metric is a type, a name and a value or its absence; counters are `-Half .. Half - 1` (`Half` is 2^63 in the code) and wrap in memory,
while the database refuses an overflow and with it the whole batch. The storage is one function from type and name;
`Rounds` is the storage after each round of the loop over a batch.
The checks differ by endpoint: the ones for a single metric refuse what a batch skips in silence, and
over gRPC a missing value has become 0. `Store` (one lock or one transaction) and the read-back in `Finish` are
separate steps, so other requests come between them. In the database a call may fail at any time, the
read-back too, which leaves an update applied and answered with 500. `log` is the order in which
the storage applied the requests; the reference `Value` computes from it what a metric has to be.

### Config and Startup

The raw arguments are tokens (dashes, name, value after "=" or none). `extractConfigPath` is an operator over all of them; `ParseFlag` is
one round of the flag package, which takes the next argument as a value whatever it looks like, stops at the first word
and ends the process on an error. The file gives defaults, the environment comes last. `AgentStarts` has the fatal check of the rate limit and
the panic of `time.NewTicker`. An interval becomes a duration by a multiplication with `time.Second` that wraps around in 64 bits
(`Duration`): above 9223372036 seconds it can be negative, or short. `Startup` goes on with the server: database, file or memory; `Load`, which
may also fail on a good file (a read error is a warning); the steps that may end the process; the two listeners, of which the failing HTTP one
goes through `g.Wait` and the final save, and the failing gRPC one does not. `Save` is two steps, the truncation and the write, which may fail; its
callers are the periodic saver, a synchronous request and `Close`, and the process may end in between. The file is abstracted to whether it
holds what was stored before the start. All options of a program are rows of one table (`Options`), so that a mistake in the code of
a single option is compared with the source by hand, when the table is written, and not by the model checker.

### ResetGen and Pool

A field is of a kind that is reset in place, of one that no rule covers, or a struct, of any type, its own included. It may be embedded, and it may be
one that no statement compiles for (`ok`: blank fields, `unsafe.Pointer`). `Promotes` has Go's rule for embedded methods: the shallowest
`Reset`, if it is the only one at its depth. `WithReset` is what `types.NewMethodSet` finds, own methods and promoted ones. A generated method is the
set of its statements. `Loads` is `packages.Load`: the package and what it imports have to compile *with
the old generated file*. `Run` is one step per package, in either order of their names. Between two Runs a developer may change marks, fields and
methods and delete generated files. `Pool` builds the program once everything compiles, and lets goroutines
`Get`, fill and `Put` objects; `Put` is `Reset` and then the hand-over. An object is the tree of the structs in it down to `Depth`: pointers
are not nil and do not lead back. `Runs` follows the calls of `Reset` down the tree, through promoted methods too.

## 3. Runs

| run | what it shows | bounds | states |
|---|---|---|---|
| `agent` | snapshots are never torn, no batch is lost, `jobs` is closed once and after its last send, everything attempted when `Run` returns, the flush is as fresh as the reporter allows; the agent implements `Delivery`; polling goes on although sends never return | 2 workers, 2 polls, 1 extra sample, 3 reports and the flush | 1 390 286 |
| `pipeline` | with one worker only a request that was given up on takes the server back to an older sample, or keeps the last snapshot from being what it shows; `Run` returns if sends return | 1 worker, 2 polls, 1 report and the flush, 1 retry | 88 998 |
| `pipeline_poll_count` | *violation*: the server's `PollCount` exceeds the polls | 1 worker, 2 polls, 2 reports | |
| `sender` | success means applied; duplicates need HTTP timeouts; an old batch overtakes only after being given up; calls return | both transports, 3 delays as in the code, 2 calls | 420 701 |
| `storage` | acknowledged means in every complete file (sync); a clean exit is complete; saves never regress; failing saves block nobody; what was missed is saved later (periodic); the process ends although handlers hang; the server implements `DurableStore` | all three modes, 2 requests, one of them non-finite, 1 file error, 2 restarts | 83 461 |
| `storage_torn_exit` | *violation*: a clean exit can leave a truncated file | 1 request, no errors | |
| `handlers` | the metrics are what the applied requests make them; `POST /update` answers with its own update in it; `Load` restores a snapshot in any order; every observer is tried; answers are not delayed | 4 sets of 3 concurrent requests on both storages, counters from -8 to 7, 2 observers, 1 failure | 180 586 |
| `audit_exit` | *violation*: a graceful exit can lose events | 2 HTTP and 1 gRPC requests, no failures | |
| `db` | batches are atomic, success means committed, duplicates need a lost commit answer, own writes are read, everyone is answered | 2 batches in opposite orders and 1 update, 2 rows, 2 connections, 3 delays as in the code, 4 errors | 410 440 |
| `middleware` | handled exactly if the configurations fit, with the plain body; untrusted requests cost no decoding; signed answers verify | 2 signing keys, 2 key pairs, 3 addresses | 42 310 |
| `config` | environment over flag over file over default; the file named is the file read; a ticker panics only for an interval below a second or too long for a duration; a failing start keeps the stored metrics, four named cases excepted | both programs, up to 3 arguments, files and environments good and bad; 3 nanoseconds in a second and 11-bit integers, so that intervals wrap to negative and to short durations | 875 720 |
| `reset` | a Run without error leaves packages that compile or are broken in one of the named ways, and nothing to generate where no method came too late; pooled objects are clean | 5 structs in 2 packages, one of them recursive, one with embedded structs, one generic; both orders, 2 changes, depth 2, 1 object, 2 goroutines | 1 004 113 |

**Why the bounds are enough.** In `Agent` two workers and two buffer slots give reordering and a full
channel, and the fourth snapshot (the flush) meets it. In `Pipeline` two
snapshots are the least in which a late request takes the server back, and one retry the least in which a batch arrives twice although its call succeeded. `Sender` and `DBStorage` have the code's number of attempts, and errors enough to use them up;
two batches are the least in which one can overtake, and two in opposite orders the smallest deadlock, with
a third request competing for two connections. In `FileStorage` two handlers, the saver and `main` are all
the kinds of caller `Save` has, and a second restart follows a crash of the restarted process. In `Handlers`
the deltas are chosen so that sums leave the range of the counters in some orders and in all, in single updates and in the middle of a batch. In
`Middleware` two keys tell "equal", "different" and "not configured" apart. In `Config` three arguments are the
least in which the flag for the file is the value of another flag and has a value of its own. In `ResetGen` a
struct holds itself, one of its own package and one of another, and the former embeds one of each: the least in which a method is promoted,
hidden, ambiguous, and comes too late within one package. Two changes are a mark removed and any other, and depth 2 is the object inside
an object inside an object. One object is enough for two goroutines to compete for it. The theorems of section 5 have no bounds.

**Deadlock.** `CHECK_DEADLOCK FALSE` is set in the configurations of `db` and `pipeline` only: their liveness
properties (every request is answered, `Run` returns) are stronger than the absence of deadlock, and are to
be the ones that report it. The other runs have an explicit `Terminated` or `Finished` step for the states
in which the program has ended, and any other state without successor is an error.

## 4. Fairness

- *Goroutines run.* Weak fairness of each goroutine's steps.
- *`sync.Mutex` does not starve* (its starvation mode hands the lock over) and *select chooses uniformly*
  among ready cases: strong fairness of the steps that take a mutex and of the `ctx.Done()` branches.
- *Sends return*: `SendFairness`, only as the hypothesis of `ShutdownCompletes`. HTTP clients and
  RPCs have a timeout and attempts are bounded, which is what `CallsReturn` establishes in `Sender`, there
  without any assumption about the server. `Pipeline` itself assumes only `LocalFairness`, that of the agent's own goroutines.
- *Collectors run*: `CollectorsRun`, all that the run `agent` and `PollingContinues` assume: reporter, workers and server may
  stand still for ever.
- *Observers return*: `ObserverFairness`, only as the hypothesis of `EveryObserverTried` (the HTTP observer
  has a timeout). `ResponseNotBlocked` does without it.
- *The server's process*: `ProcessFairness` covers saver, `main` and every `Save` once it has begun, including that the budget of the
  shutdown fires. Handlers may hang outside `Save`; only `RequestsAnswered` assumes that they run (`HandlerFairness`, its hypothesis).
- *Handlers* in `handlers`: the handlers and `main` keep running; observers may hang.
- *Database*: weak fairness of a request's steps suffices because every step brings it nearer its end.

Signals, requests, crashes, restarts, errors and lost messages are never fair.

## 5. Theorems

Checked by TLAPS for every value of the constants that satisfies the assumptions named in the modules:

- `Agent`, `Pipeline`: `RateLimit` is a positive natural number (`NewWithSender` ends the process for any other), and the bounds and the number of retries are natural numbers.
- `Sender`: the numbers of delays and calls are natural numbers.
- `FileStorage`: requests are distinct from the other actors and `NonFinite` is a set of them. The mode of saving is part of the initial state.
- `DBStorage`: a request has at least one row (handler and service keep empty batches from the storage), a single update exactly one, and the pool at least one connection.
- `Middleware`: keys, key pairs, "no key" and "gzip" are different things, and a signature is never mistaken for no signature.
- `Config`, `Startup`: the arguments are a finite sequence, and values are texts (a spelling and the number it reads as); nothing is assumed
  about what they are. A second has some nanoseconds, and the built-in intervals fit a duration.
- `ResetGen`, `Pool`: there are finitely many structs and at least one; they hold and embed one another in any way, themselves
  included, and objects are nested to any depth; the pool's element type is one of the structs and goroutines have names of their own.
- `Audit`, `Handlers`: the observers are none, the file, the URL, or both in this order (as `main` subscribes them), and a request comes through HTTP or
  gRPC; `Half` is a positive natural number, a missing value is not a number, and a request carries a finite sequence of metrics,
  of any types, names and values.

Hardly any of the properties is inductive alone; each module first states a strengthening that is.

**`AgentProofs`.**
- `LockInv`: the mutex is held exactly during the writes, and sample numbers differ only between the two
  writes of their writer. A snapshot needs the free mutex, so it sees equal numbers: `SnapshotsAreConsistent`.
- `ReporterInv`: the last steps of the reporter come after the cancellation and with a batch made. With
  `ShutdownOrder` (`ChannelOpenWhileUsed` and `FlushedOnce`) it is inductive: `ChannelClosedOnce`.
- `IdInv`: a batch's id is its place in `produced`. With `NoBatchLost`, the buffer is the part of
  `produced` that begins after the `taken` first: `NoBatchIsLost`. Hence the next batch received has id `taken + 1`, which nobody else has.
- `ReceivedInv`, the pointwise form of `ReceivedOnce`, and `ExitInv`: a worker only leaves a closed, empty
  channel. When all have left, `taken = Len(produced)` and nobody is sending: `ShutdownDrains`.
- `FreshInv`: the poll counter never goes back, so a snapshot after the cancellation has everything; a
  reporter that holds a batch at that moment owes that batch only: `FlushIsFresh`.
- `DeliveryImplemented`: snapshots, attempts and ends of attempts are read off `produced`, `taken`, `delivered` and
  `failed`. The backlog is bounded by `CapacityInv`; the requests in flight are, because the unfinished ids map one to one into the
  workers (`InFlightBound`); attempts are in order by `ReceivedInv`; after `Run` has returned nothing moves (`StoppedIsFinal`).
- A step of the pipeline is a step of the agent (`PipelineRunsAgent`), so the agent's invariant holds there.
  `OriginInv` adds that later snapshots have counted no fewer polls, that what workers hold, what is still under way and what the server shows are
  snapshots, and that what is under way belongs to a batch in `abandoned`; `OneWorkerInv` that with one worker the batch held is the newest
  received, and the one the server shows once it has answered, or the server shows an abandoned one. Hence `ServerNeverGoesBack` (a statement about
  steps) and `FinalSnapshotIsShown`, both with the exception of requests given up on.
- `PollInv`: with one worker and no failed call `pollCount` is at least the sum of the running totals of the batches acknowledged, and exactly
  this sum if nothing was given up on. At the end that is all of them: `PollCountAddsTotals`, the least size of the error of section 6.1, to which
  retried timeouts add their duplicates.

**`SenderProofs`.** `CallInv` ties attempts to the places of the call; `OrderInv`: nothing is under way for calls to come;
`OkInv`: an answer 200 stands for this attempt's request, applied: `NilErrorMeansApplied`. `NetworkInv`: a request under way is the
one the client waits for, or of an abandoned batch: `StaleWasAbandoned`. `CountInv` counts the requests of a batch that
have been or can still be applied, one for each timeout that was retried and one more, which the current attempt
has not made before it waits: `DuplicatesWereTimedOut`.

**`FileStorageProofs`.**
- `PlaceInv` and `MutexInv`: exactly the holder of the mutex is between marshalling and writing.
- `GrowthInv`: a snapshot under way lies between what was last saved and what is in memory. So a save
  replaces the saved set by a superset: `DiskOnlyGrows`, a statement about steps.
- `DiskInv`: a complete file is the last save, and a handler back from its own save is in it: `SyncIsDurable`.
- `CloseInv`: after a drained shutdown memory stands still, so main's snapshot, and any later one of the saver's,
  is all of memory: `CleanExitSaves`.
- `AnswerInv`: a handler about to answer has its update in memory and, in sync mode, saved or its save failed;
  a successful `Close` has saved everything. With the others it maps every step, crash and restart included, to a
  step of `DurableStore` or to none: `DurableStoreImplemented`.

**`DBStorageProofs`.** `ControlInv` relates place, attempt and statement of one request. `TableInv` says what the request has in the table: nothing
outside its rows, the same in each of them, and no more than its ambiguous commits, plus one once the update is
over: `BatchesAreAtomic`, `AnswersAreCommitted`, `DuplicatesWereAmbiguous`. `SeenInv` gives `UpdatesAreRead`. A request changes
its own part only (`OtherHandlers`), so one handler at a time is enough. `LocksAndConnectionsReturned`: a held
lock and a taken connection belong to a transaction in progress, on every path out of one, and the pool is never overdrawn.

**`MiddlewareProofs`.** `BodyInv` says how the body is encoded and what has been checked at each place of the chain; `AcceptInv` that on
the way back the handler has had the request exactly if the configurations fit: `AgentsAreServed`. `TrustInv`: behind
the first place the caller is trusted, and an untrusted one has cost nothing: `SubnetGoesFirst`. `ResponseInv`: the answer
is signed before it is compressed: `ResponsesVerify`.

**`StartupProofs`.** `GivenInv` and `ValueInv`: which source each option has its value from after each round of parsing; at the end that is
`SourcesInOrder`. `ConfigFlagInv`: the flag package and `extractConfigPath` read the flag's value in the same place: `NamedFileIsRead`.
`IntInv` and `PanicInv`: an interval whose duration is not positive is not positive itself or wraps around, and what wins is positive and fits unless it was
written otherwise: `PanicsAreMeant`.
`StorageInv`: a server that was to restore a file of stored metrics has them in memory or has failed to load them; what it writes back is what it has in
memory, so that they are missing from the file only after a failed load or write, or during a save: `FailedStartIsHarmless`.

**`PoolProofs`.** Promotion is not monotone: a method that is added can hide or make ambiguous what was promoted before, and one that is removed can
uncover another. `MethodsFrom` says that a struct's method depends on nothing but the methods declared for it and for the structs it embeds; so a file that is written gives a method
only to its own structs and to those that embed one of its package (`GainedFrom`). `FilesInv`: since the last change of the sources each file of a package that `Run` has
been at was written with some set of methods, which is within the methods there are and those lost since, and misses only those that
came later (`Late`); after a second Run, in which every file declares what it declared before, it misses none. `CallsInv`: also a file left as it was names fields there
are. Together: `RunsSettle`. `PoolInv`: an object in use belongs to one goroutine, and one in the pool holds what `Reset` leaves. `LeftIsOutside`:
on the way to a field that the rules reach every struct has a `Reset` of its own and each calls the next, at any depth, so that what is left is what no
rule covers: `PoolIsClean`.

**`HandlersProofs`.** What a loop leaves is a recursive function here, and what it computes for every length is proved by induction.
The induction theorems of the library take an operator, which the provers cannot instantiate; `SetInduction` says the same for a set
(a set of naturals with 0 that is closed under the successor has them all) and follows from the well-foundedness of `<`. For each
recursive function there is a lemma that says what it is from one index to the next (`RoundsStep`, `SumsStep`, `FlattenStep`).
- `BatchInTwo`: a batch is the same as its two parts one after the other. So the storage is at any time one batch of all
  the metrics applied so far, on an empty storage; that is `StoreInv`, and with `LogInv` (who is in `log`) and `AnswerInv` the inductive `HInv`.
- `BatchAgrees`: a batch on an empty storage leaves what the reference `Value` says, the last gauge and the sum of the deltas; that sums may be
  wrapped after each round or once at the end is `WrapAdds`. A database that has refused every overflow has nothing to wrap: `MetricsMatchLog`, `AnswersIncludeUpdates`.
- `SnapshotOrder` and `ReplayRestores`: a snapshot, in whatever order, has each metric once and within its range, so replaying it
  restores it: `SnapshotsRestore`.
- The parts of `HInv` that are not about values are `AppliedOnceAndInRange`. Lost answers of a commit are left to `DBStorage`.
- `AInv`: the goroutine of a request has tried exactly the observers before its place (`OrderInv`), it was started
  exactly if an HTTP update has got past the storage (`StartedInv`), and an observer that was tried without a failure has the event unless the file
  had been closed (`ReceivedInv`): `EventsInOrder`, the safety part of `EveryObserverTried`. It says why `audit_exit` can be violated: only by a goroutine
  that is not that far, or a closed file.
- `HandlersRunAudit`: the handlers' steps are steps of `Audit`, so `AInv` holds with the data too. With `StoredInv` (a request that emits or answers
  has been stored) this gives `EventsWereApplied`.

`TypeCorrect` is a theorem of its own for `Agent`, `Sender`, `FileStorage` and `Handlers`; elsewhere the types are part of the invariants.

**Only model-checked.** Liveness (TLAPS 1.4.5 has no support for fairness and `ENABLED`): `ShutdownCompletes`, `PollingContinues`,
`CallsReturn`, `RequestsAnswered`, `EventuallySaved`, `ShutdownExits`, `EveryObserverTried` and `ResponseNotBlocked`. Every safety property of a passing run is a theorem.

## 6. Where code and documentation disagree

Shown by a run:
1. `pipeline_poll_count`: the running total is sent as a delta with every report, and `AckCounter`, which
   would subtract it, is never called. The server's `PollCount` is too high from the second report on;
   `PollCountAddsTotals` says what it is at the end.
2. `storage_torn_exit`: nobody waits for the periodic goroutine. Its select may choose a tick that is ready at the same time as the
   cancelled context, or it may be waiting for the mutex since before the cancellation, while `Close` saves. It then truncates
   the file and the process ends before it has written.
3. `audit_exit`: the goroutines of `Notify` are not waited for. An acknowledged update may be missing from
   the audit file after a graceful exit.

Part of the models and of the wording of the properties, without a run of its own:
- the flush is older than the cancellation if the cancellation finds the reporter at the inner select
  (the exception in `FinalFlushIsFresh`);
- a response timeout is retried although the batch may have been applied (`sender.go:69` speaks of
  connection errors), so counters can be added twice: `DuplicatesNeedTimeouts` bounds how often a
  batch is applied (a database can add an applied batch twice without any timeout of the client, by a lost commit answer: `DBStorage`);
- a request that timed out may arrive after newer ones and take the server's gauges back, with one worker too and even
  when every call of `SendBatch` returned nil (the exceptions in `ServerAdvances` and `FinalSnapshotArrives`);
- a crash, a fatal error or the exit between the truncation and the write of a save loses the file, acknowledged updates included (`SyncAckedOnDisk`
  speaks of complete files);
- a refused connection is not retried although `src/README.md:377` names this case;
- one non-finite gauge makes all later saves fail (the exception in `EventuallySaved`);
- a gRPC update emits no audit event (`src/README.md:439` makes no difference; `EventsWereApplied` shows events of HTTP updates only);
- the victim of a database deadlock gets an error, because only class 08 is retried;
- a failing `GetMetric` turns an update that has been applied into status 500;
- `--c` is a flag for the flag package and nothing to `extractConfigPath`, the first of several `-c` counts and not
  the last, and an argument that is the value of another flag is taken for the flag (the conditions in `ConfigFileHonoured`);
- a sub-second interval in the file panics the agent (`PanicIsMeant`) and makes the server save synchronously;
- an interval above 9223372036 seconds wraps around as a duration: `-p 10000000000` panics the agent, and a store interval
  of that length the server's saver;
- with Restore off, or after a good file that `Load` could not read (only a warning), a server that cannot listen still writes its
  empty storage over the file (the exceptions in `FailedStartKeepsFile`);
- the warning of a failed database connection announces memory storage (`main.go:109`), and file storage comes first;
- the generator can break a package without an error (`Broken`): a marked generic struct gets a receiver without its type
  parameters, one with a `Reset` of its own gets a second, blank fields and `unsafe.Pointer` get assignments that do not compile, and a
  method that another file calls disappears with its mark, or when it becomes ambiguous;
- one Run is not always enough, although `TestRun_WritesFileAndIsIdempotent` shows it for one package: not across
  packages, and not within one where a struct holds an unmarked one that embeds a marked one (`Late`);
- pointers to slices and maps keep their content, although `src/README.md` has "all non-nil pointers" reset by the same rules.

## 7. Plan

Done: all modules of section 2 with their runs, the two abstract specifications with their refinements checked
and proved, and the proofs of section 5, which cover every safety property of the passing runs.

Left:
1. Leaner proofs: lemmas for the case splits that `TypeStep` and its neighbours repeat.
2. The liveness properties, with a prover that supports fairness.
3. `Handlers` on the steps of `DBStorage`: one specification in which rows have values and a commit's answer can be lost.

## 8. Not modelled

- *Read endpoints*, the HTML page and `ping` change no state; `GetMetric` is modelled where `POST /update` uses it.
- *`SendMetrics`* (one request per metric) is not called by the program.
- *`sync.Pool`, the flag package, the Go compiler, PostgreSQL* and the network are external: modelled from how
  the code depends on them.
- *The linter* analyses Go syntax trees and has no state to explore.
- *Key files, migrations, build information, generated protobuf code*: reading, constants, embedded SQL and generated text.
- *Conversions of protobuf messages* (`FromProto`): `Handlers` takes its result as given, so that no property covers a mistake in it.
- *Errors of the file system in the generator*, the content of hand-written code other than a `Reset`, and objects whose pointers are
  nil where a method is promoted through them, or lead back to the object: `Reset` of a cyclic object does not return.
- *Logging* and the wording of messages.
- *Time*: tickers, pauses and budgets are events that may come at any moment.
