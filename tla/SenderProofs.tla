---------------------------- MODULE SenderProofs ----------------------------
(***************************************************************************)
(* Proofs about Sender for every number of delays and of calls.  What the  *)
(* client believes about a request has to be tied to where that request    *)
(* is: the inductive invariant follows each one from the moment it is      *)
(* written, through the network, to the moment the server has applied it.  *)
(***************************************************************************)
EXTENDS Sender, FiniteSetTheorems, TLAPS

(* The requests of batch b that the server has applied or may still apply. *)
Sent(b) == {x \in network \cup applied : x[1] = b}

(* The call: a running one has made an attempt, a backoff has one left, and *)
(* an answer is only there for a client that waits.                         *)
CallInv ==
    /\ pc # "idle" => batch \in Calls /\ attempt >= 1
    /\ pc = "backoff" => attempt < MaxAttempts
    /\ reply # "none" => pc = "wait"

(* Nothing is sent, applied or timed out for a call that is still to come.  *)
OrderInv ==
    /\ \A x \in network \cup applied : x[1] <= batch
    /\ newest <= batch

(* The answer 200 is only given, and only reported, for an applied request. *)
OkInv ==
    /\ reply = "ok" => <<batch, attempt>> \in applied
    /\ \A b \in Calls : results[b] = "ok" => \E x \in applied : x[1] = b

(* A request under way is the one the client waits for, without an answer   *)
(* yet, or one of a batch it has given up on.                               *)
NetworkInv ==
    \A x \in network :
        x[1] \in abandoned \/ (pc = "wait" /\ reply = "none" /\ x = <<batch, attempt>>)

(* How many requests of a batch there may be: one for each attempt that     *)
(* timed out and was retried, and one more, which the current attempt has   *)
(* not made before it waits.                                                *)
Retried(b) == IF transport = "http" THEN timeouts[b] ELSE 0
CountInv ==
    \A b \in Calls :
        Cardinality(Sent(b))
          <= Retried(b) + (IF b = batch /\ pc \in {"attempt", "backoff"} THEN 0 ELSE 1)

-----------------------------------------------------------------------------
(* An attempt that ends, however it ends, either goes on to a backoff it    *)
(* has an attempt left for, or returns the result of this batch.            *)
LEMMA ConcludeEffect ==
  ASSUME TypeOK, CallInv, pc # "idle", NEW f \in Outcomes \ {"none"}, Conclude(f)
  PROVE  /\ UNCHANGED <<transport, batch, attempt>>
         /\ failure' \in Outcomes
         /\ results' \in [Calls -> {"none", "ok", "error"}]
         /\ pc' \in {"idle", "backoff"}
         /\ pc' = "backoff" => isRetriable(f) /\ attempt < MaxAttempts /\ UNCHANGED results
         /\ \A b \in Calls : results'[b] = "ok" => results[b] = "ok" \/ (b = batch /\ f = "ok")
BY DEF Conclude, Return, TypeOK, CallInv, isRetriable

(* Every step keeps every variable in its type.                             *)
LEMMA TypeStep == ASSUME TypeOK, CallInv, [Next]_vars PROVE TypeOK' /\ CallInv'
<1> USE NumbersAssumption
<1>1. MaxAttempts \in Nat /\ MaxAttempts >= 1 /\ MaxAttempts <= Delays + 1
  BY DEF MaxAttempts, TypeOK
<1>2. CASE SendBatch
  BY <1>1, <1>2 DEF SendBatch, TypeOK, CallInv, Calls, Outcomes, MaxAttempts, networkVars, historyVars
<1>3. CASE Backoff
  BY <1>1, <1>3 DEF Backoff, TypeOK, CallInv, MaxAttempts, networkVars, historyVars
<1>4. CASE NotSent
  <2>1. PICK f \in {"build", "refused", "dialTimeout"} : Conclude(f)
    BY <1>4 DEF NotSent
  <2>2. f \in Outcomes \ {"none"}
    BY DEF Outcomes
  <2> QED BY <1>1, <1>4, <2>1, <2>2, ConcludeEffect
       DEF NotSent, TypeOK, CallInv, MaxAttempts, networkVars, historyVars
<1>5. CASE Request
  <2>1. <<batch, attempt>> \in Calls \X Attempts
    BY <1>1, <1>5 DEF Request, TypeOK, CallInv, Attempts
  <2> QED BY <1>1, <1>5, <2>1 DEF Request, TypeOK, CallInv, MaxAttempts, historyVars
<1>6. CASE Reply
  <2>1. reply \in Outcomes \ {"none"} /\ Conclude(reply) /\ pc # "idle"
    BY <1>6 DEF Reply, Outcomes, TypeOK
  <2> QED BY <1>1, <1>6, <2>1, ConcludeEffect DEF Reply, TypeOK, CallInv, MaxAttempts, historyVars
<1>7. ASSUME NEW f \in {"timeout", "reset"}, GiveUp(f), timeouts' \in [Calls -> Nat]
      PROVE  TypeOK' /\ CallInv'
  <2>1. f \in Outcomes \ {"none"} /\ Conclude(f) /\ pc # "idle"
    BY <1>7 DEF GiveUp, Outcomes
  <2> QED BY <1>1, <1>7, <2>1, ConcludeEffect DEF GiveUp, TypeOK, CallInv, MaxAttempts
<1>8. CASE Timeout
  <2>1. timeouts' \in [Calls -> Nat]
    BY <1>8 DEF Timeout, GiveUp, TypeOK, CallInv
  <2> QED BY <1>7, <1>8, <2>1 DEF Timeout
<1>9. CASE Reset
  BY <1>7, <1>9 DEF Reset, TypeOK
<1>10. ASSUME NEW x \in network, ServerApplies(x) \/ ServerRefuses(x) \/ Lost(x)
       PROVE  TypeOK' /\ CallInv'
  <2>1. x \in Calls \X Attempts /\ x[1] \in 1..MaxCalls
    BY DEF TypeOK, Calls
  <2>2. CASE ServerApplies(x)
    BY <2>1, <2>2 DEF ServerApplies, Answer, clientVars, TypeOK, CallInv, MaxAttempts
  <2>3. CASE ServerRefuses(x)
    BY <2>1, <2>3 DEF ServerRefuses, Answer, clientVars, historyVars, TypeOK, CallInv, MaxAttempts
  <2>4. CASE Lost(x)
    BY <2>1, <2>4 DEF Lost, clientVars, historyVars, TypeOK, CallInv, MaxAttempts
  <2> QED BY <1>10, <2>2, <2>3, <2>4
<1>11. CASE UNCHANGED vars
  BY <1>11 DEF vars, clientVars, networkVars, historyVars, TypeOK, CallInv, MaxAttempts
<1> QED BY <1>2, <1>3, <1>4, <1>5, <1>6, <1>8, <1>9, <1>10, <1>11
     DEF Next, Client, Server, Finished

(* A sender that has not been called yet.                                   *)
LEMMA TypeInit == Init => TypeOK /\ CallInv
BY NumbersAssumption DEF Init, TypeOK, CallInv, MaxAttempts, Outcomes

(* The variables have their types in every reachable state; in particular   *)
(* no call makes more attempts than its transport allows.                   *)
THEOREM TypeCorrect == Spec => []TypeOK
<1>1. TypeOK /\ CallInv /\ [Next]_vars => TypeOK' /\ CallInv'
  BY TypeStep
<1> QED BY TypeInit, <1>1, PTL DEF Spec

-----------------------------------------------------------------------------
(* What a step of the client or of the server does to a request: it is      *)
(* written once, it leaves the network for good, and only a request that    *)
(* was under way is applied.                                                *)
LEMMA RequestMoves ==
  ASSUME TypeOK, CallInv, [Next]_vars
  PROVE  /\ network' \subseteq network \/ Request
         /\ applied' = applied \/ \E x \in network : ServerApplies(x)
         /\ network' \cup applied' \subseteq network \cup applied \/ Request
BY DEF Next, Client, Server, SendBatch, Backoff, NotSent, Request, Reply, Timeout, Reset, GiveUp,
   ServerApplies, ServerRefuses, Answer, Lost, Finished, vars, networkVars, historyVars

(* The calls are made one after the other.                                  *)
LEMMA OrderStep ==
  ASSUME TypeOK, CallInv, OrderInv, [Next]_vars PROVE OrderInv'
<1> USE DEF OrderInv
<1>1. batch \in Nat /\ newest \in Nat
  BY NumbersAssumption DEF TypeOK
<1>2. \A x \in network \cup applied : x \in Calls \X Attempts /\ x[1] \in Nat
  BY NumbersAssumption DEF TypeOK, Calls
<1>3. CASE SendBatch
  BY <1>1, <1>2, <1>3 DEF SendBatch, networkVars, historyVars
<1>4. CASE Request
  <2>1. /\ batch' = batch /\ newest' = newest
        /\ network' \cup applied' = network \cup applied \cup {<<batch, attempt>>}
    BY <1>4 DEF Request, historyVars
  <2> QED BY <1>1, <2>1
<1>5. ASSUME NEW x \in network, ServerApplies(x) PROVE OrderInv'
  BY <1>1, <1>2, <1>5 DEF ServerApplies, Answer, clientVars
<1>6. CASE /\ batch' = batch /\ newest' = newest
           /\ network' \cup applied' \subseteq network \cup applied
  BY <1>6
<1>7. CASE Backoff \/ NotSent \/ Reply \/ Timeout \/ Reset
  BY <1>6, <1>7 DEF Backoff, NotSent, Reply, Timeout, Reset, GiveUp, Conclude, networkVars, historyVars
<1>8. ASSUME NEW x \in network, ServerRefuses(x) \/ Lost(x) PROVE OrderInv'
  BY <1>6, <1>8 DEF ServerRefuses, Lost, Answer, clientVars, historyVars
<1>9. CASE UNCHANGED vars
  BY <1>6, <1>9 DEF vars, clientVars, networkVars, historyVars
<1> QED BY <1>3, <1>4, <1>5, <1>7, <1>8, <1>9 DEF Next, Client, Server, Finished

(* A success is only reported for what the server has applied.              *)
LEMMA OkStep ==
  ASSUME TypeOK, CallInv, OkInv, [Next]_vars PROVE OkInv'
<1>1. applied \subseteq applied'
  BY RequestMoves DEF ServerApplies
<1>2. ASSUME UNCHANGED results PROVE \A b \in Calls : results'[b] = "ok" => \E x \in applied' : x[1] = b
  BY <1>1, <1>2 DEF OkInv
<1>3. CASE SendBatch \/ Backoff
  BY <1>2, <1>3 DEF SendBatch, Backoff, networkVars, historyVars, OkInv, CallInv
<1>4. CASE Request
  BY <1>1, <1>2, <1>4 DEF Request, OkInv
<1>5. CASE NotSent
  <2>1. PICK f \in {"build", "refused", "dialTimeout"} : Conclude(f)
    BY <1>5 DEF NotSent
  <2>2. f \in Outcomes \ {"none"} /\ f # "ok" /\ pc # "idle" /\ reply' = reply /\ reply # "ok"
    BY <1>5 DEF NotSent, Outcomes, networkVars, CallInv
  <2> QED BY <1>1, <2>1, <2>2, ConcludeEffect DEF OkInv
<1>6. CASE Reply
  <2>1. reply \in Outcomes \ {"none"} /\ Conclude(reply) /\ pc # "idle" /\ reply' = "none"
    BY <1>6 DEF Reply, Outcomes, TypeOK
  <2>2. reply = "ok" => \E x \in applied : x[1] = batch
    BY DEF OkInv
  <2> QED BY <1>1, <2>1, <2>2, ConcludeEffect DEF OkInv
<1>7. CASE Timeout \/ Reset
  <2>1. PICK f \in {"timeout", "reset"} : Conclude(f) /\ pc # "idle" /\ reply' = "none"
    BY <1>7 DEF Timeout, Reset, GiveUp
  <2>2. f \in Outcomes \ {"none"} /\ f # "ok"
    BY DEF Outcomes
  <2> QED BY <1>1, <2>1, <2>2, ConcludeEffect DEF OkInv
<1>8. ASSUME NEW x \in network, ServerApplies(x) \/ ServerRefuses(x) \/ Lost(x) PROVE OkInv'
  BY <1>1, <1>2, <1>8 DEF ServerApplies, ServerRefuses, Lost, Answer, clientVars, OkInv
<1>9. CASE UNCHANGED vars
  BY <1>9 DEF vars, clientVars, networkVars, historyVars, OkInv
<1> QED BY <1>3, <1>4, <1>5, <1>6, <1>7, <1>8, <1>9 DEF Next, Client, Server, Finished

(* The sets that are counted are finite.                                    *)
LEMMA SentFinite ==
  ASSUME TypeOK, NEW b
  PROVE  /\ IsFiniteSet(Sent(b)) /\ Cardinality(Sent(b)) \in Nat
         /\ IsFiniteSet({x \in applied : x[1] = b})
         /\ Times(b) \in Nat /\ Times(b) <= Cardinality(Sent(b))
<1>1. IsFiniteSet(Calls) /\ IsFiniteSet(Attempts)
  BY FS_Interval, NumbersAssumption DEF Calls, Attempts
<1>2. IsFiniteSet(Calls \X Attempts)
  BY <1>1, FS_Product
<1>3. Sent(b) \in SUBSET (Calls \X Attempts)
  BY DEF Sent, TypeOK
<1>4. IsFiniteSet(Sent(b))
  BY <1>2, <1>3, FS_Subset
<1>5. {x \in applied : x[1] = b} \in SUBSET Sent(b)
  BY DEF Sent
<1> QED BY <1>4, <1>5, FS_Subset, FS_CardinalityType DEF Times

(* A nil error of SendBatch is true: for every number of attempts and every *)
(* order of timeouts, late requests and answers.                            *)
THEOREM NilErrorMeansApplied == Spec => []OkMeansApplied
<1>1. Init => OkInv
  BY DEF Init, OkInv
<1>2. TypeOK /\ CallInv /\ OkInv /\ [Next]_vars => TypeOK' /\ CallInv' /\ OkInv'
  BY TypeStep, OkStep
<1>3. ASSUME TypeOK, OkInv PROVE OkMeansApplied
  <2> SUFFICES ASSUME NEW b \in Calls, results[b] = "ok" PROVE Times(b) >= 1
    BY DEF OkMeansApplied
  <2>1. {x \in applied : x[1] = b} # {}
    BY <1>3 DEF OkInv
  <2>2. Times(b) # 0
    BY <1>3, <2>1, SentFinite, FS_EmptySet DEF Times
  <2>3. Times(b) \in Nat
    BY <1>3, SentFinite
  <2> QED BY <2>2, <2>3
<1> QED BY <1>1, <1>2, <1>3, TypeInit, PTL DEF Spec

-----------------------------------------------------------------------------
(* A request that is under way and that nobody waits for is known to be     *)
(* abandoned.                                                               *)
LEMMA NetworkStep ==
  ASSUME TypeOK, CallInv, NetworkInv, [Next]_vars PROVE NetworkInv'
<1> USE DEF NetworkInv
<1>1. CASE SendBatch \/ Backoff \/ NotSent
  BY <1>1 DEF SendBatch, Backoff, NotSent, Conclude, networkVars, historyVars
<1>2. CASE Request
  BY <1>2 DEF Request, historyVars, CallInv
<1>3. CASE Reply
  BY <1>3 DEF Reply, historyVars
<1>4. CASE Timeout \/ Reset
  BY <1>4 DEF Timeout, Reset, GiveUp
<1>5. ASSUME NEW x \in network, ServerApplies(x) PROVE NetworkInv'
  BY <1>5 DEF ServerApplies, Answer, clientVars
<1>6. ASSUME NEW x \in network, ServerRefuses(x) PROVE NetworkInv'
  BY <1>6 DEF ServerRefuses, Answer, clientVars, historyVars
<1>7. ASSUME NEW x \in network, Lost(x) PROVE NetworkInv'
  BY <1>7 DEF Lost, clientVars, historyVars
<1>8. CASE UNCHANGED vars
  BY <1>8 DEF vars, clientVars, networkVars, historyVars
<1> QED BY <1>1, <1>2, <1>3, <1>4, <1>5, <1>6, <1>7, <1>8 DEF Next, Client, Server, Finished

(* A gauge is never taken back to an older value behind the client's back:  *)
(* a batch applied after a newer one is one whose request it gave up on.    *)
THEOREM StaleWasAbandoned == Spec => StaleOnlyIfAbandoned
<1> DEFINE Inv == TypeOK /\ CallInv /\ OrderInv /\ NetworkInv
<1>1. Init => Inv
  BY TypeInit DEF Init, OrderInv, NetworkInv
<1>2. Inv /\ [Next]_vars => Inv'
  BY TypeStep, OrderStep, NetworkStep
<1>3. ASSUME Inv, [Next]_vars
      PROVE  [\A x \in applied' \ applied : x[1] < newest => x[1] \in abandoned]_vars
  <2> SUFFICES ASSUME NEW x \in applied' \ applied, x[1] < newest PROVE x[1] \in abandoned
    OBVIOUS
  <2>1. x \in network
    BY <1>3, RequestMoves DEF ServerApplies
  <2>2. x[1] < batch
    <3>1. x[1] \in Nat /\ newest \in Nat /\ batch \in Nat
      BY <1>3, <2>1, NumbersAssumption DEF TypeOK, Calls
    <3> QED BY <1>3, <3>1 DEF OrderInv
  <2>3. x # <<batch, attempt>>
    BY <1>3, <2>2, NumbersAssumption DEF TypeOK
  <2> QED BY <1>3, <2>1, <2>3 DEF NetworkInv
<1> QED BY <1>1, <1>2, <1>3, PTL DEF Spec, StaleOnlyIfAbandoned

-----------------------------------------------------------------------------
(* Writing a request adds at most one to those of its batch; no other step  *)
(* adds any.                                                                *)
LEMMA SentStep ==
  ASSUME TypeOK, CallInv, [Next]_vars, NEW b \in Calls
  PROVE  /\ Cardinality(Sent(b)') \in Nat
         /\ Request /\ b = batch => Cardinality(Sent(b)') <= Cardinality(Sent(b)) + 1
         /\ ~(Request /\ b = batch) => Cardinality(Sent(b)') <= Cardinality(Sent(b))
<1>1. IsFiniteSet(Sent(b)) /\ Cardinality(Sent(b)) \in Nat
  BY SentFinite
<1>2. CASE Request /\ b = batch
  <2>1. Sent(b)' = Sent(b) \cup {<<batch, attempt>>}
    BY <1>2 DEF Request, historyVars, Sent
  <2>2. \/ Cardinality(Sent(b) \cup {<<batch, attempt>>}) = Cardinality(Sent(b))
        \/ Cardinality(Sent(b) \cup {<<batch, attempt>>}) = Cardinality(Sent(b)) + 1
    BY <1>1, FS_AddElement
  <2> QED BY <1>1, <1>2, <2>1, <2>2
<1>3. CASE ~(Request /\ b = batch)
  <2>1. Sent(b)' \in SUBSET Sent(b)
    <3>1. CASE Request
      BY <1>3, <3>1 DEF Request, historyVars, Sent
    <3>2. CASE network' \cup applied' \subseteq network \cup applied
      BY <3>2 DEF Sent
    <3> QED BY <3>1, <3>2, RequestMoves
  <2> QED BY <1>1, <1>3, <2>1, FS_Subset, FS_CardinalityType
<1> QED BY <1>2, <1>3

(* There is at most one request more than there were retried timeouts.      *)
LEMMA CountStep ==
  ASSUME TypeOK, CallInv, OrderInv, CountInv, [Next]_vars PROVE CountInv'
<1> SUFFICES ASSUME NEW b \in Calls
             PROVE  Cardinality(Sent(b)') <= Retried(b)' +
                      (IF b = batch' /\ pc' \in {"attempt", "backoff"} THEN 0 ELSE 1)
  BY DEF CountInv
<1> DEFINE before == Cardinality(Sent(b))
           after  == Cardinality(Sent(b)')
<1>1. before \in Nat /\ after \in Nat /\ Retried(b) \in Nat /\ Retried(b)' \in Nat
  BY SentFinite, SentStep, TypeStep DEF Retried, TypeOK
<1>2. before <= Retried(b) + (IF b = batch /\ pc \in {"attempt", "backoff"} THEN 0 ELSE 1)
  BY DEF CountInv
<1>3. /\ Request /\ b = batch => after <= before + 1
      /\ ~(Request /\ b = batch) => after <= before
  BY SentStep
<1> HIDE DEF before, after
<1>4. CASE SendBatch
  <2>1. b = batch' => Sent(b) = {}
    BY <1>4, NumbersAssumption DEF SendBatch, OrderInv, Sent, TypeOK, Calls
  <2>2. b = batch' => before = 0
    BY <2>1, FS_EmptySet DEF before
  <2>3. Retried(b)' = Retried(b) /\ ~Request /\ pc = "idle"
    BY <1>4 DEF SendBatch, Request, Retried, historyVars
  <2>4. after <= before
    BY <1>3, <2>3
  <2>5. CASE b = batch'
    BY <1>1, <2>2, <2>4, <2>5 DEF after
  <2>6. CASE b # batch'
    BY <1>1, <1>2, <2>3, <2>4, <2>6 DEF after
  <2> QED BY <2>5, <2>6 DEF after
<1>5. CASE Backoff
  <2>1. after <= before /\ Retried(b)' = Retried(b) /\ batch' = batch /\ pc = "backoff"
    BY <1>3, <1>5 DEF Backoff, Request, Retried, historyVars
  <2> QED BY <1>1, <1>2, <2>1 DEF after
<1>6. CASE NotSent
  <2>1. /\ after <= before /\ Retried(b)' = Retried(b) /\ batch' = batch
        /\ pc = "attempt" /\ pc' # "wait" /\ pc' # "attempt"
    BY <1>6, <1>3 DEF NotSent, Request, Conclude, Return, Retried, networkVars, historyVars
  <2> QED BY <1>1, <1>2, <2>1 DEF after
<1>7. CASE Request
  <2>1. Retried(b)' = Retried(b) /\ batch' = batch /\ pc = "attempt" /\ pc' = "wait"
    BY <1>7 DEF Request, Retried, historyVars
  <2> QED BY <1>1, <1>2, <1>3, <1>7, <2>1 DEF after
<1>8. CASE Reply
  <2>1. /\ ~Request /\ Retried(b)' = Retried(b) /\ batch' = batch
        /\ pc = "wait" /\ pc' # "backoff" /\ pc' # "attempt"
    BY <1>8 DEF Reply, Conclude, Return, isRetriable, Request, Retried, historyVars, TypeOK
  <2> QED BY <1>1, <1>2, <1>3, <2>1 DEF after
<1>9. CASE Reset
  <2>1. /\ ~Request /\ Retried(b)' = Retried(b) /\ batch' = batch
        /\ pc = "wait" /\ pc' # "backoff" /\ pc' # "attempt"
    BY <1>9 DEF Reset, GiveUp, Conclude, Return, isRetriable, Request, Retried
  <2> QED BY <1>1, <1>2, <1>3, <2>1 DEF after
<1>10. CASE Timeout
  <2>1. ~Request /\ batch' = batch /\ transport' = transport /\ pc = "wait" /\ pc' # "attempt"
    BY <1>10 DEF Timeout, GiveUp, Conclude, Return, Request
  <2>2. b = batch => timeouts'[b] = timeouts[b] + 1
    BY <1>10 DEF Timeout, TypeOK
  <2>3. b # batch => timeouts'[b] = timeouts[b]
    BY <1>10 DEF Timeout, TypeOK
  <2>4. pc' = "backoff" => transport = "http"
    <3>1. pc' = "backoff" => attempt < MaxAttempts
      BY <1>10 DEF Timeout, GiveUp, Conclude, Return
    <3>2. attempt \in Nat /\ attempt >= 1
      BY <2>1, NumbersAssumption DEF CallInv, TypeOK, MaxAttempts
    <3> QED BY <3>1, <3>2 DEF MaxAttempts, TypeOK
  <2>5. CASE b # batch
    BY <1>1, <1>2, <1>3, <2>1, <2>3, <2>5 DEF Retried, after
  <2>6. CASE b = batch /\ pc' = "backoff"
    BY <1>1, <1>2, <1>3, <2>1, <2>2, <2>4, <2>6 DEF Retried, after
  <2>7. CASE b = batch /\ pc' # "backoff"
    <3>1. Retried(b) <= Retried(b)'
      BY <1>1, <2>1, <2>2, <2>7 DEF Retried
    <3> QED BY <1>1, <1>2, <1>3, <2>1, <2>7, <3>1 DEF after
  <2> QED BY <2>5, <2>6, <2>7
<1>11. ASSUME UNCHANGED <<clientVars, timeouts>>
       PROVE  after <= Retried(b)' + (IF b = batch' /\ pc' \in {"attempt", "backoff"} THEN 0 ELSE 1)
  <2>1. ~Request /\ Retried(b)' = Retried(b) /\ batch' = batch /\ pc' = pc
    BY <1>11 DEF Request, Retried, clientVars
  <2> QED BY <1>1, <1>2, <1>3, <2>1
<1>12. CASE UNCHANGED vars
  BY <1>11, <1>12 DEF vars, historyVars, after
<1>13. ASSUME NEW x \in network, ServerApplies(x) \/ ServerRefuses(x) \/ Lost(x)
       PROVE  UNCHANGED <<clientVars, timeouts>>
  BY <1>13 DEF ServerApplies, ServerRefuses, Lost, historyVars
<1> QED BY <1>4, <1>5, <1>6, <1>7, <1>8, <1>9, <1>10, <1>11, <1>12, <1>13
     DEF Next, Client, Server, Finished, after

(* Why the server may apply a batch twice: only an attempt that timed out   *)
(* and was retried, and never over gRPC, whatever the network does.         *)
THEOREM DuplicatesWereTimedOut == Spec => []DuplicatesNeedTimeouts
<1> DEFINE Inv == TypeOK /\ CallInv /\ OrderInv /\ CountInv
<1>1. Init => Inv
  <2> SUFFICES ASSUME Init PROVE Inv
    OBVIOUS
  <2>1. \A b \in Calls : Sent(b) = {} /\ Retried(b) = 0
    BY DEF Init, Sent, Retried
  <2>2. CountInv
    BY <2>1, FS_EmptySet DEF CountInv, Init
  <2> QED BY TypeInit, <2>2 DEF Init, OrderInv
<1>2. Inv /\ [Next]_vars => Inv'
  BY TypeStep, OrderStep, CountStep
<1>3. ASSUME Inv PROVE DuplicatesNeedTimeouts
  <2> SUFFICES ASSUME NEW b \in Calls
               PROVE  Times(b) <= 1 + (IF transport = "http" THEN timeouts[b] ELSE 0)
    BY DEF DuplicatesNeedTimeouts
  <2>1. Times(b) \in Nat /\ Cardinality(Sent(b)) \in Nat /\ Times(b) <= Cardinality(Sent(b))
    BY <1>3, SentFinite
  <2>2. Retried(b) \in Nat /\ Cardinality(Sent(b)) <= Retried(b) + 1
    BY <1>3, <2>1 DEF CountInv, Retried, TypeOK
  <2> QED BY <2>1, <2>2 DEF Retried
<1> QED BY <1>1, <1>2, <1>3, PTL DEF Spec
=============================================================================
