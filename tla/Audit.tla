------------------------------- MODULE Audit -------------------------------
(***************************************************************************)
(* The audit trail of the server: handlers that emit an event after a      *)
(* successful update, the goroutines that hand it to the observers one     *)
(* after the other (Publisher.Notify), and the shutdown, in which main     *)
(* closes the publisher and ends without waiting for those goroutines.     *)
(* A request stands for its event.  Storage is left to FileStorage.        *)
(***************************************************************************)
EXTENDS Naturals, Sequences, FiniteSets

CONSTANTS
    HTTPRequests,  \* updates that come through the router
    GRPCRequests,  \* updates that come through MetricsServer
    Observers,     \* the configured observers in order: "file" and "url"
    MaxFailures    \* bound: calls of Receive that fail

ASSUME RequestsAssumption == HTTPRequests \cap GRPCRequests = {}
ASSUME ObserversAssumption == Observers \in {<<>>, <<"file">>, <<"url">>, <<"file", "url">>}
ASSUME FailuresAssumption == MaxFailures \in Nat

VARIABLES
    status,    \* of the process: "running", "stopping", "closing", "closed", "down"
    drained,   \* Shutdown has waited for every handler
    pc,        \* where each handler is
    notify,    \* the observer Notify calls next for a request, 0: no goroutine
    received,  \* what each observer has taken
    tried,     \* history: what each observer has been called with
    failures   \* history: failing calls of Receive

vars == <<status, drained, pc, notify, received, tried, failures>>

Requests == HTTPRequests \cup GRPCRequests
Sinks == {"file", "url"}
Alive == status # "down"
InFlight(r) == pc[r] \in {"handle", "respond"}
Drained == \A r \in Requests : ~InFlight(r)
\* The goroutine of r has an observer left to call.
Notifying(r) == notify[r] \in 1..Len(Observers)

-----------------------------------------------------------------------------
Init ==
    /\ status = "running"
    /\ drained = FALSE
    /\ pc = [r \in Requests |-> "new"]
    /\ notify = [r \in Requests |-> 0]
    /\ received = [o \in Sinks |-> {}]
    /\ tried = [o \in Sinks |-> {}]
    /\ failures = 0

Receive(r) ==
    /\ status = "running"
    /\ pc[r] = "new"
    /\ pc' = [pc EXCEPT ![r] = "handle"]
    /\ UNCHANGED <<status, drained, notify, received, tried, failures>>

\* emitAudit starts a goroutine when there is a publisher; buildAuditPublisher
\* returns none without observers, and MetricsServer does not know about it.
emitAudit(r) ==
    notify' = IF r \in HTTPRequests /\ Observers # <<>>
              THEN [notify EXCEPT ![r] = 1] ELSE notify

\* The update fails: an error is answered and nothing is emitted.
Reject(r) ==
    /\ Alive
    /\ pc[r] = "handle"
    /\ pc' = [pc EXCEPT ![r] = "rejected"]
    /\ UNCHANGED <<status, drained, notify, received, tried, failures>>

\* The update has succeeded.
Update(r) ==
    /\ Alive
    /\ pc[r] = "handle"
    /\ emitAudit(r)
    /\ pc' = [pc EXCEPT ![r] = "respond"]
    /\ UNCHANGED <<status, drained, received, tried, failures>>

\* MUTANT of Respond: the handler calls Notify itself and waits for it.
RespondAfterNotify(r) ==
    /\ Alive
    /\ pc[r] = "respond"
    /\ ~Notifying(r)
    /\ pc' = [pc EXCEPT ![r] = "acked"]
    /\ UNCHANGED <<status, drained, notify, received, tried, failures>>

Respond(r) ==
    /\ Alive
    /\ pc[r] = "respond"
    /\ pc' = [pc EXCEPT ![r] = "acked"]
    /\ UNCHANGED <<status, drained, notify, received, tried, failures>>

-----------------------------------------------------------------------------
(* Publisher.Notify: the observers in order, an error is only logged.       *)

\* FileObserver cannot write any more once Close has been called.
CanReceive(o) == o = "url" \/ status # "closed"

NotifyOk(r) ==
    LET o == Observers[notify[r]]
    IN  /\ Alive
        /\ Notifying(r)
        /\ CanReceive(o)
        /\ received' = [received EXCEPT ![o] = @ \cup {r}]
        /\ tried' = [tried EXCEPT ![o] = @ \cup {r}]
        /\ notify' = [notify EXCEPT ![r] = @ + 1]
        /\ UNCHANGED <<status, drained, pc, failures>>

\* MUTANT of NotifyFails: Notify returns at the first error.
NotifyFailsReturns(r) ==
    LET o == Observers[notify[r]]
    IN  /\ Alive
        /\ Notifying(r)
        /\ failures < MaxFailures
        /\ failures' = failures + 1
        /\ tried' = [tried EXCEPT ![o] = @ \cup {r}]
        /\ notify' = [notify EXCEPT ![r] = Len(Observers) + 1]
        /\ UNCHANGED <<status, drained, pc, received>>

\* A write or a POST fails: time-out, status other than 2xx, a full disk.
NotifyFails(r) ==
    LET o == Observers[notify[r]]
    IN  /\ Alive
        /\ Notifying(r)
        /\ failures < MaxFailures
        /\ failures' = failures + 1
        /\ tried' = [tried EXCEPT ![o] = @ \cup {r}]
        /\ notify' = [notify EXCEPT ![r] = @ + 1]
        /\ UNCHANGED <<status, drained, pc, received>>

\* The file handle is closed: the write is an error and the next one is called.
NotifyClosed(r) ==
    LET o == Observers[notify[r]]
    IN  /\ Alive
        /\ Notifying(r)
        /\ ~CanReceive(o)
        /\ tried' = [tried EXCEPT ![o] = @ \cup {r}]
        /\ notify' = [notify EXCEPT ![r] = @ + 1]
        /\ UNCHANGED <<status, drained, pc, received, failures>>

-----------------------------------------------------------------------------
(* main: Shutdown, g.Wait, the storage's Close, the deferred Close of the   *)
(* publisher, the end of the process.                                       *)

Signal ==
    /\ status = "running"
    /\ status' = "stopping"
    /\ UNCHANGED <<drained, pc, notify, received, tried, failures>>

\* All handlers are done, or the budget of five seconds is used up.
WaitReturns ==
    /\ status = "stopping"
    /\ status' = "closing"
    /\ drained' = Drained
    /\ UNCHANGED <<pc, notify, received, tried, failures>>

PublisherClose ==
    /\ status = "closing"
    /\ status' = "closed"
    /\ UNCHANGED <<drained, pc, notify, received, tried, failures>>

Exit ==
    /\ status = "closed"
    /\ status' = "down"
    /\ pc' = [r \in Requests |-> IF InFlight(r) THEN "lost" ELSE pc[r]]
    /\ UNCHANGED <<drained, notify, received, tried, failures>>

Terminated == status = "down" /\ UNCHANGED vars

Handle(r) == Reject(r) \/ Update(r) \/ Respond(r)
Notify(r) == NotifyOk(r) \/ NotifyFails(r) \/ NotifyClosed(r)
Main == WaitReturns \/ PublisherClose \/ Exit

Next ==
    \/ \E r \in Requests : Receive(r) \/ Handle(r) \/ Notify(r)
    \/ Signal
    \/ Main
    \/ Terminated

Spec == Init /\ [][Next]_vars

\* An observer may hang: nothing is assumed of the goroutines of Notify.
HandlerFairness == WF_vars(Main) /\ \A r \in Requests : WF_vars(Handle(r))

\* Every call of an observer returns.
ObserverFairness == \A r \in Requests : WF_vars(Notify(r))
-----------------------------------------------------------------------------
(* A stalled audit endpoint cannot block the response: every request is     *)
(* answered even when no call of an observer ever returns.                  *)
ResponseNotBlocked ==
    \A r \in Requests : pc[r] = "handle" ~> pc[r] \in {"acked", "rejected", "lost"}

(* One failing observer does not keep the event from the others: after a    *)
(* successful update every configured observer is called, or the process    *)
(* has ended, provided that the calls of observers return.                  *)
EveryObserverTried ==
    ObserverFairness => \A r \in HTTPRequests, i \in 1..Len(Observers) :
        pc[r] = "acked" ~> r \in tried[Observers[i]] \/ status = "down"

(* "After the successful processing an audit event is sent to all available *)
(* receivers": it is when the process ends after a drained shutdown and no  *)
(* observer has failed.                                                     *)
AuditedAtExit ==
    status = "down" /\ drained /\ failures = 0 =>
        \A r \in HTTPRequests, i \in 1..Len(Observers) :
            pc[r] = "acked" => r \in received[Observers[i]]
=============================================================================
