-------------------------- MODULE DBStorageProofs --------------------------
(***************************************************************************)
(* Proofs about DBStorage for every set of requests, every table, every    *)
(* pool and every number of retries and faults.  A request only depends on *)
(* the others through row locks and connections, so the inductive          *)
(* invariant speaks of one request at a time: where it is, which part of   *)
(* the two calls of retry.Do it is in, and how often its deltas have been  *)
(* committed until then.                                                   *)
(***************************************************************************)
EXTENDS DBStorage, FiniteSetTheorems, TLAPS

(* The request is inside a transaction.                                     *)
InTransaction(h) == pc[h] \in {"exec", "commit", "rollback"}

(* The update has not returned yet: its function may be run once more.      *)
Updating(h) == pc[h] \in {"begin", "exec", "commit", "rollback"} \/ (pc[h] = "backoff" /\ op[h] = "begin")

(* The update has been acknowledged to the handler.                         *)
Updated(h) == op[h] = "read" \/ (pc[h] = "done" /\ err[h] = "nil")

(* The control of one request.                                              *)
ControlInv(h) ==
    /\ pc[h] = "backoff" => attempt[h] <= Delays
    /\ pc[h] = "rollback" => err[h] # "nil"
    /\ pc[h] = "read" => op[h] = "read"
    /\ pc[h] = "begin" => next[h] = 1
    /\ pc[h] = "exec" => next[h] \in 1..Len(Batch[h])
    /\ op[h] = "read" => h \in Singles /\ pc[h] \in {"read", "backoff", "done"}

(* What the request has in the table: nothing outside its rows, the same in *)
(* each of them, and no more than the ambiguous commits of the attempts     *)
(* that are over, plus one for the attempt that ended the update.           *)
TableInv(h) ==
    /\ \A r \in Rows \ Written(h) : table[r][h] = 0
    /\ \A r, s \in Written(h) : table[r][h] = table[s][h]
    /\ \A r \in Rows : table[r][h] <= ambiguous[h] + (IF Updating(h) THEN 0 ELSE 1)
    /\ Updated(h) => \A r \in Written(h) : table[r][h] >= 1

(* A single update answers 200 with a value it has read.                    *)
SeenInv(h) == h \in Singles /\ pc[h] = "done" /\ err[h] = "nil" => seen[h] >= 1

HandlerInv == \A h \in Handlers : ControlInv(h) /\ TableInv(h) /\ SeenInv(h)

(* Row locks and connections belong to transactions, on every path out of   *)
(* one: an error before the first statement, a failed statement, a          *)
(* deadlock, a failed commit.  The pool never hands out more than it has.   *)
NothingLeaks ==
    /\ \A r \in Rows : locks[r] # Free => InTransaction(locks[r])
    /\ \A h \in Handlers : h \in conns <=> InTransaction(h)
    /\ IsFiniteSet(conns) /\ Cardinality(conns) <= MaxOpenConns

-----------------------------------------------------------------------------
(* The rows of a request are rows of the table, and it has at least one.    *)
LEMMA WrittenRows ==
  ASSUME NEW h \in Handlers
  PROVE  /\ Written(h) \subseteq Rows
         /\ Batch[h][1] \in Written(h)
         /\ Len(Batch[h]) \in Nat /\ Len(Batch[h]) >= 1
         /\ \A i \in 1..Len(Batch[h]) : Batch[h][i] \in Rows
BY BatchAssumption DEF Written, ToSet

(* What a commit adds: one in each row of the request, and only for it.     *)
LEMMA ApplyEffect ==
  ASSUME TypeOK, NEW g \in Handlers, Apply(g)
  PROVE  /\ table' \in [Rows -> [Handlers -> Nat]]
         /\ \A r \in Written(g) : table'[r][g] = table[r][g] + 1
         /\ \A r \in Rows \ Written(g) : table'[r] = table[r]
         /\ \A r \in Rows, h \in Handlers \ {g} : table'[r][h] = table[r][h]
BY WrittenRows DEF Apply, TypeOK

(* A step leaves the request h where it is.                                 *)
Unmoved(h) ==
    /\ pc'[h] = pc[h] /\ op'[h] = op[h] /\ attempt'[h] = attempt[h] /\ next'[h] = next[h]
    /\ err'[h] = err[h] /\ seen'[h] = seen[h] /\ ambiguous'[h] = ambiguous[h]
    /\ \A r \in Rows : table'[r][h] = table[r][h]

(* A request's step leaves the others where they are.                       *)
LEMMA OtherHandlers ==
  ASSUME TypeOK, NEW g \in Handlers, Step(g) \/ Fails(g), NEW h \in Handlers \ {g}
  PROVE  Unmoved(h)
<1> USE DEF TypeOK, Unmoved
<1>1. CASE Begin(g) \/ Exec(g) \/ Rollback(g) \/ Backoff(g) \/ GetMetric(g) \/ Deadlock(g)
  BY <1>1 DEF Begin, Exec, Rollback, Backoff, GetMetric, Deadlock, Abort, Conclude, dbVars
<1>2. CASE ExecSingle(g) \/ Commit(g)
  BY <1>2, ApplyEffect DEF ExecSingle, Commit, Succeed
<1>3. ASSUME NEW e \in Faults, BeginFails(g, e) \/ ExecFails(g, e) \/ GetMetricFails(g, e)
      PROVE  Unmoved(h)
  BY <1>3 DEF BeginFails, ExecFails, GetMetricFails, Abort, Conclude, dbVars
<1>4. ASSUME NEW e \in Faults, NEW done \in BOOLEAN, CommitFails(g, e, done)
      PROVE  Unmoved(h)
  <2>1. \A r \in Rows : table'[r][h] = table[r][h]
    BY <1>4, ApplyEffect DEF CommitFails
  <2> QED BY <1>4, <2>1 DEF CommitFails, Conclude
<1> QED BY <1>1, <1>2, <1>3, <1>4 DEF Step, Fails

-----------------------------------------------------------------------------
(* Every step keeps every variable in its type.                             *)
LEMMA TypeStep ==
  ASSUME TypeOK, \A h \in Handlers : ControlInv(h), [Next]_vars PROVE TypeOK'
<1> USE NumbersAssumption
<1>1. ASSUME NEW g \in Handlers, Step(g) PROVE TypeOK'
  <2>1. CASE Begin(g)
    BY <2>1 DEF Begin, TypeOK
  <2>2. CASE Exec(g)
    <3>1. locks' \in [Rows -> Handlers \cup {Free}]
      BY <2>2 DEF Exec, TypeOK
    <3>2. pc' \in [Handlers -> {"begin", "exec", "commit", "rollback", "read", "backoff", "done"}]
      BY <2>2 DEF Exec, TypeOK
    <3>3. next' \in [Handlers -> Nat]
      BY <2>2 DEF Exec, TypeOK
    <3> QED BY <2>2, <3>1, <3>2, <3>3 DEF Exec, TypeOK
  <2>3. CASE ExecSingle(g) \/ Commit(g)
    <3>1. Apply(g) /\ Release(g) /\ Succeed(g) /\ UNCHANGED <<seen, ambiguous, faults>>
      BY <2>3 DEF ExecSingle, Commit
    <3>2. table' \in [Rows -> [Handlers -> Nat]]
      BY <3>1, ApplyEffect
    <3>3. locks' \in [Rows -> Handlers \cup {Free}] /\ conns' \in SUBSET Handlers
      BY <3>1 DEF Release, TypeOK
    <3>4. /\ pc' \in [Handlers -> {"begin", "exec", "commit", "rollback", "read", "backoff", "done"}]
          /\ op' \in [Handlers -> {"begin", "read"}]
          /\ attempt' \in [Handlers -> 1..(Delays + 1)]
      <4>1. CASE g \in Singles
        <5>1. /\ pc' = [pc EXCEPT ![g] = "read"] /\ op' = [op EXCEPT ![g] = "read"]
              /\ attempt' = [attempt EXCEPT ![g] = 1]
          BY <3>1, <4>1 DEF Succeed
        <5>2. 1 \in 1..(Delays + 1)
          OBVIOUS
        <5>3. attempt' \in [Handlers -> 1..(Delays + 1)]
          BY <5>1, <5>2 DEF TypeOK
        <5> QED BY <5>1, <5>3 DEF TypeOK
      <4>2. CASE g \notin Singles
        BY <3>1, <4>2 DEF Succeed, TypeOK
      <4> QED BY <4>1, <4>2
    <3>5. next' = next /\ err' \in [Handlers -> Faults \cup {"nil", "deadlock"}]
      BY <3>1 DEF Succeed, TypeOK
    <3> QED BY <3>1, <3>2, <3>3, <3>4, <3>5 DEF TypeOK
  <2>4. CASE Rollback(g)
    BY <2>4 DEF Rollback, Release, Conclude, TypeOK
  <2>5. CASE Backoff(g)
    <3>1. attempt[g] <= Delays /\ attempt[g] \in 1..(Delays + 1)
      BY <2>5 DEF Backoff, ControlInv, TypeOK
    <3>2. attempt' \in [Handlers -> 1..(Delays + 1)]
      BY <2>5, <3>1 DEF Backoff, TypeOK
    <3> QED BY <2>5, <3>2 DEF Backoff, dbVars, TypeOK
  <2>6. CASE GetMetric(g)
    <3>1. table[Batch[g][1]][g] \in Nat
      BY WrittenRows DEF TypeOK
    <3> QED BY <2>6, <3>1 DEF GetMetric, dbVars, TypeOK
  <2>7. CASE Deadlock(g)
    BY <2>7 DEF Deadlock, Abort, dbVars, TypeOK
  <2> QED BY <1>1, <2>1, <2>2, <2>3, <2>4, <2>5, <2>6, <2>7 DEF Step
<1>2. ASSUME NEW g \in Handlers, NEW e \in Faults,
             BeginFails(g, e) \/ ExecFails(g, e) \/ GetMetricFails(g, e)
      PROVE  TypeOK'
  <2>1. CASE BeginFails(g, e) \/ GetMetricFails(g, e)
    BY <1>2, <2>1 DEF BeginFails, GetMetricFails, Fault, Conclude, dbVars, TypeOK
  <2>2. CASE ExecFails(g, e)
    BY <1>2, <2>2 DEF ExecFails, Fault, Abort, Conclude, dbVars, TypeOK
  <2> QED BY <1>2, <2>1, <2>2
<1>3. ASSUME NEW g \in Handlers, NEW e \in Faults, NEW done \in BOOLEAN, CommitFails(g, e, done)
      PROVE  TypeOK'
  <2>1. table' \in [Rows -> [Handlers -> Nat]]
    BY <1>3, ApplyEffect DEF CommitFails, TypeOK
  <2>2. ambiguous' \in [Handlers -> Nat]
    BY <1>3 DEF CommitFails, TypeOK
  <2> QED BY <1>3, <2>1, <2>2 DEF CommitFails, Fault, Release, Conclude, TypeOK
<1>4. CASE UNCHANGED vars
  BY <1>4 DEF vars, handlerVars, dbVars, TypeOK
<1> QED BY <1>1, <1>2, <1>3, <1>4 DEF Next, Fails, Terminated

(* The control of the request that takes a step.                            *)
LEMMA ControlStep ==
  ASSUME TypeOK, NEW g \in Handlers, ControlInv(g), Step(g) \/ Fails(g)
  PROVE  ControlInv(g)'
<1> USE DEF TypeOK, ControlInv
<1>1. CASE Begin(g) \/ Backoff(g) \/ GetMetric(g) \/ Deadlock(g)
  BY <1>1, WrittenRows DEF Begin, Backoff, GetMetric, Deadlock, Abort
<1>2. CASE Exec(g)
  BY <1>2, WrittenRows DEF Exec
<1>3. CASE ExecSingle(g) \/ Commit(g)
  BY <1>3 DEF ExecSingle, Commit, Succeed
<1>4. CASE Rollback(g)
  BY <1>4 DEF Rollback, Conclude
<1>5. ASSUME NEW e \in Faults, BeginFails(g, e) \/ ExecFails(g, e) \/ GetMetricFails(g, e)
      PROVE  ControlInv(g)'
  BY <1>5 DEF BeginFails, ExecFails, GetMetricFails, Abort, Conclude, Faults
<1>6. ASSUME NEW e \in Faults, NEW done \in BOOLEAN, CommitFails(g, e, done)
      PROVE  ControlInv(g)'
  BY <1>6 DEF CommitFails, Conclude
<1> QED BY <1>1, <1>2, <1>3, <1>4, <1>5, <1>6 DEF Step, Fails

(* What the request that takes a step has in the table afterwards.          *)
LEMMA TableStep ==
  ASSUME TypeOK, NEW g \in Handlers, ControlInv(g), TableInv(g), Step(g) \/ Fails(g)
  PROVE  TableInv(g)'
<1>1. /\ ambiguous[g] \in Nat /\ \A r \in Rows : table[r][g] \in Nat
      /\ Written(g) \subseteq Rows /\ Written(g)' = Written(g)
  BY WrittenRows DEF TypeOK, Written
<1>2. ASSUME UNCHANGED <<table, ambiguous>>, Updating(g)' => Updating(g), Updated(g)' => Updated(g)
      PROVE  TableInv(g)'
  BY <1>1, <1>2 DEF TableInv
<1>3. CASE Begin(g) \/ Exec(g) \/ Rollback(g) \/ Backoff(g) \/ GetMetric(g) \/ Deadlock(g)
  BY <1>2, <1>3 DEF Begin, Exec, Rollback, Backoff, GetMetric, Deadlock, Abort, Conclude, dbVars,
     TypeOK, ControlInv, Updating, Updated
<1>4. ASSUME NEW e \in Faults, BeginFails(g, e) \/ ExecFails(g, e) \/ GetMetricFails(g, e)
      PROVE  TableInv(g)'
  BY <1>2, <1>4 DEF BeginFails, ExecFails, GetMetricFails, Abort, Conclude, dbVars, Faults,
     TypeOK, ControlInv, Updating, Updated
<1>5. CASE ExecSingle(g) \/ Commit(g)
  <2>1. Updating(g) /\ ~Updating(g)' /\ ambiguous'[g] = ambiguous[g] /\ Apply(g)
    BY <1>5 DEF ExecSingle, Commit, Succeed, Updating, TypeOK
  <2> QED BY <1>1, <2>1, ApplyEffect DEF TableInv
<1>6. ASSUME NEW e \in Faults, NEW done \in BOOLEAN, CommitFails(g, e, done) PROVE TableInv(g)'
  <2>1. /\ Updating(g) /\ ~Updated(g)'
        /\ Updating(g)' => e = "class08"
        /\ ambiguous'[g] = ambiguous[g] + (IF e = "class08" THEN 1 ELSE 0)
    BY <1>6 DEF CommitFails, Conclude, isRetriablePgError, Faults, TypeOK, ControlInv, Updating, Updated
  <2>2. CASE Apply(g)
    BY <1>1, <2>1, <2>2, ApplyEffect DEF TableInv
  <2>3. CASE UNCHANGED table
    BY <1>1, <2>1, <2>3 DEF TableInv
  <2> QED BY <1>6, <2>2, <2>3 DEF CommitFails
<1> QED BY <1>3, <1>4, <1>5, <1>6 DEF Step, Fails

(* The read-back of the request that takes a step.                          *)
LEMMA SeenStep ==
  ASSUME TypeOK, NEW g \in Handlers, ControlInv(g), TableInv(g), SeenInv(g), Step(g) \/ Fails(g)
  PROVE  SeenInv(g)'
<1> USE DEF TypeOK, SeenInv
<1>1. CASE GetMetric(g)
  <2>1. Updated(g) /\ Batch[g][1] \in Written(g)
    BY <1>1, WrittenRows DEF GetMetric, ControlInv, Updated
  <2>2. table[Batch[g][1]][g] >= 1
    BY <2>1 DEF TableInv
  <2> QED BY <1>1, <2>2 DEF GetMetric
<1>2. CASE Begin(g) \/ Exec(g) \/ Rollback(g) \/ Backoff(g) \/ Deadlock(g)
  BY <1>2 DEF Begin, Exec, Rollback, Backoff, Deadlock, Abort, Conclude, ControlInv
<1>3. CASE ExecSingle(g) \/ Commit(g)
  BY <1>3 DEF ExecSingle, Commit, Succeed
<1>4. ASSUME NEW e \in Faults, BeginFails(g, e) \/ ExecFails(g, e) \/ GetMetricFails(g, e)
      PROVE  SeenInv(g)'
  BY <1>4 DEF BeginFails, ExecFails, GetMetricFails, Abort, Conclude, Faults
<1>5. ASSUME NEW e \in Faults, NEW done \in BOOLEAN, CommitFails(g, e, done) PROVE SeenInv(g)'
  BY <1>5 DEF CommitFails, Conclude, Faults
<1> QED BY <1>1, <1>2, <1>3, <1>4, <1>5 DEF Step, Fails

(* A step of one request keeps the invariant of all of them.                *)
LEMMA HandlerStep == ASSUME TypeOK, HandlerInv, [Next]_vars PROVE HandlerInv'
<1>1. ASSUME NEW h \in Handlers, Unmoved(h) PROVE ControlInv(h)' /\ TableInv(h)' /\ SeenInv(h)'
  <2>1. Written(h) \subseteq Rows
    BY WrittenRows
  <2> QED BY <1>1, <2>1 DEF HandlerInv, Unmoved, ControlInv, TableInv, SeenInv, Updating, Updated, Written
<1>2. ASSUME NEW g \in Handlers, Step(g) \/ Fails(g) PROVE HandlerInv'
  <2>1. ControlInv(g)' /\ TableInv(g)' /\ SeenInv(g)'
    BY <1>2, ControlStep, TableStep, SeenStep DEF HandlerInv
  <2>2. \A h \in Handlers \ {g} : Unmoved(h)
    BY <1>2, OtherHandlers
  <2> QED BY <1>1, <2>1, <2>2 DEF HandlerInv
<1>3. CASE UNCHANGED vars
  BY <1>1, <1>3 DEF vars, handlerVars, dbVars, Unmoved, HandlerInv
<1> QED BY <1>2, <1>3 DEF Next, Terminated

-----------------------------------------------------------------------------
(* Who holds what after a step of a request.                                *)
LEMMA LeakStep ==
  ASSUME TypeOK, \A h \in Handlers : ControlInv(h), NothingLeaks, [Next]_vars
  PROVE  NothingLeaks'
<1> USE DEF InTransaction
<1>1. ASSUME NEW g \in Handlers, UNCHANGED <<locks, conns>>,
             InTransaction(g)' <=> InTransaction(g),
             \A h \in Handlers \ {g} : pc'[h] = pc[h]
      PROVE  NothingLeaks'
  <2>1. \A h \in Handlers : InTransaction(h)' <=> InTransaction(h)
    BY <1>1
  <2>2. \A r \in Rows : locks[r] # Free => locks[r] \in Handlers
    BY DEF TypeOK
  <2> HIDE DEF InTransaction
  <2>3. /\ \A r \in Rows : locks'[r] # Free => InTransaction(locks[r])'
        /\ \A h \in Handlers : h \in conns' <=> InTransaction(h)'
    BY <1>1, <2>1, <2>2 DEF NothingLeaks
  <2> QED BY <1>1, <2>3 DEF NothingLeaks
<1>2. ASSUME NEW g \in Handlers, Release(g), ~InTransaction(g)',
             \A h \in Handlers \ {g} : pc'[h] = pc[h]
      PROVE  NothingLeaks'
  <2>1. \A r \in Rows : locks'[r] # Free => locks'[r] = locks[r] /\ locks'[r] \in Handlers \ {g}
    BY <1>2 DEF Release, TypeOK
  <2>2. conns' \in SUBSET conns /\ \A h \in Handlers : h \in conns' <=> h \in conns /\ h # g
    BY <1>2 DEF Release
  <2>3. IsFiniteSet(conns') /\ Cardinality(conns') <= MaxOpenConns
    <3>1. IsFiniteSet(conns) /\ Cardinality(conns) \in Nat /\ Cardinality(conns) <= MaxOpenConns
      BY FS_CardinalityType DEF NothingLeaks
    <3>2. IsFiniteSet(conns') /\ Cardinality(conns') <= Cardinality(conns)
      BY <2>2, <3>1, FS_Subset
    <3>3. Cardinality(conns') \in Nat
      BY <3>2, FS_CardinalityType
    <3> QED BY <3>1, <3>2, <3>3, NumbersAssumption
  <2> QED BY <1>2, <2>1, <2>2, <2>3 DEF NothingLeaks
<1>3. ASSUME NEW g \in Handlers, Step(g) \/ Fails(g)
      PROVE  NothingLeaks'
  <2>0. \A h \in Handlers \ {g} : pc'[h] = pc[h]
    BY <1>3, OtherHandlers DEF Unmoved
  <2>1. CASE Begin(g)
    <3>1. /\ conns' = conns \cup {g} /\ locks' = locks
          /\ InTransaction(g)' /\ Cardinality(conns) < MaxOpenConns
      BY <2>1 DEF Begin, TypeOK
    <3>2. IsFiniteSet(conns) /\ Cardinality(conns) \in Nat
      BY FS_CardinalityType DEF NothingLeaks
    <3>3. /\ IsFiniteSet(conns \cup {g})
          /\ \/ Cardinality(conns \cup {g}) = Cardinality(conns)
             \/ Cardinality(conns \cup {g}) = Cardinality(conns) + 1
      BY <3>2, FS_AddElement
    <3>4. IsFiniteSet(conns') /\ Cardinality(conns') <= MaxOpenConns
      BY <3>1, <3>2, <3>3, NumbersAssumption
    <3>5. \A r \in Rows : locks'[r] # Free => InTransaction(locks[r])'
      BY <2>0, <3>1 DEF NothingLeaks, TypeOK
    <3> QED BY <2>0, <3>1, <3>4, <3>5 DEF NothingLeaks
  <2>2. CASE Exec(g)
    <3>1. conns' = conns /\ InTransaction(g)' /\ InTransaction(g)
      BY <2>2 DEF Exec, TypeOK
    <3>2. \A r \in Rows : locks'[r] = locks[r] \/ locks'[r] = g
      BY <2>2 DEF Exec, TypeOK
    <3>3. \A r \in Rows : locks'[r] # Free => InTransaction(locks[r])'
      BY <2>0, <3>1, <3>2 DEF NothingLeaks, TypeOK
    <3> QED BY <2>0, <3>1, <3>3 DEF NothingLeaks
  <2>3. CASE ExecSingle(g) \/ Commit(g)
    BY <1>2, <2>0, <2>3 DEF ExecSingle, Commit, Succeed, TypeOK
  <2>4. CASE Rollback(g)
    BY <1>2, <2>0, <2>4 DEF Rollback, Conclude, TypeOK
  <2>5. CASE Backoff(g) \/ GetMetric(g) \/ Deadlock(g)
    BY <1>1, <2>0, <2>5 DEF Backoff, GetMetric, Deadlock, Abort, dbVars, TypeOK
  <2>6. ASSUME NEW e \in Faults, BeginFails(g, e) \/ ExecFails(g, e) \/ GetMetricFails(g, e)
        PROVE  NothingLeaks'
    BY <1>1, <2>0, <2>6 DEF BeginFails, ExecFails, GetMetricFails, Abort, Conclude, dbVars, TypeOK
  <2>7. ASSUME NEW e \in Faults, NEW done \in BOOLEAN, CommitFails(g, e, done)
        PROVE  NothingLeaks'
    BY <1>2, <2>0, <2>7 DEF CommitFails, Conclude, TypeOK
  <2> QED BY <1>3, <2>1, <2>2, <2>3, <2>4, <2>5, <2>6, <2>7 DEF Step, Fails
<1>4. CASE UNCHANGED vars
  BY <1>4 DEF vars, handlerVars, dbVars, NothingLeaks
<1> QED BY <1>3, <1>4 DEF Next, Terminated

-----------------------------------------------------------------------------
(* The requests before their first step.                                    *)
LEMMA Initially == Init => TypeOK /\ HandlerInv /\ NothingLeaks
<1> SUFFICES ASSUME Init PROVE TypeOK /\ HandlerInv /\ NothingLeaks
  OBVIOUS
<1> USE NumbersAssumption
<1>1. TypeOK
  BY DEF Init, TypeOK
<1>2. HandlerInv
  BY WrittenRows DEF Init, HandlerInv, ControlInv, TableInv, SeenInv, Updating, Updated
<1>3. NothingLeaks
  BY FS_EmptySet DEF Init, NothingLeaks, InTransaction
<1> QED BY <1>1, <1>2, <1>3

(* The types and the invariant of each request hold in every reachable      *)
(* state.                                                                   *)
LEMMA HandlersCorrect == Spec => [](TypeOK /\ HandlerInv)
<1>1. TypeOK /\ HandlerInv /\ [Next]_vars => TypeOK' /\ HandlerInv'
  BY TypeStep, HandlerStep DEF HandlerInv
<1> QED BY Initially, <1>1, PTL DEF Spec

(* All or nothing: no failed statement, deadlock, retry or lost answer to a *)
(* commit leaves a batch in some of its rows only.                          *)
THEOREM BatchesAreAtomic == Spec => []BatchAtomic
<1>1. HandlerInv => BatchAtomic
  BY DEF HandlerInv, TableInv, BatchAtomic
<1> QED BY <1>1, HandlersCorrect, PTL

(* A 200 is never given for an update that is not in the table.             *)
THEOREM AnswersAreCommitted == Spec => []OkMeansCommitted
<1>1. HandlerInv => OkMeansCommitted
  BY DEF HandlerInv, TableInv, Updated, OkMeansCommitted
<1> QED BY <1>1, HandlersCorrect, PTL

(* retry.Do adds a delta again only after a commit that was answered with a *)
(* connection exception.                                                    *)
THEOREM DuplicatesWereAmbiguous == Spec => []DuplicatesNeedAmbiguity
<1>1. TypeOK /\ HandlerInv => DuplicatesNeedAmbiguity
  BY DEF TypeOK, HandlerInv, TableInv, DuplicatesNeedAmbiguity
<1> QED BY <1>1, HandlersCorrect, PTL

(* The value POST /update answers with contains the update.                 *)
THEOREM UpdatesAreRead == Spec => []ReadsOwnWrite
<1>1. HandlerInv => ReadsOwnWrite
  BY BatchAssumption DEF HandlerInv, SeenInv, ReadsOwnWrite
<1> QED BY <1>1, HandlersCorrect, PTL

(* No path through UpdateBatch and retry.Do keeps a row lock or a           *)
(* connection of the pool after its transaction.                            *)
THEOREM LocksAndConnectionsReturned == Spec => []NothingLeaks
<1>1. TypeOK /\ HandlerInv /\ NothingLeaks /\ [Next]_vars => NothingLeaks'
  BY LeakStep DEF HandlerInv
<1> QED BY <1>1, Initially, HandlersCorrect, PTL DEF Spec
=============================================================================
