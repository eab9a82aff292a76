------------------------------ MODULE Delivery ------------------------------
(***************************************************************************)
(* What the agent promises about its snapshots, without goroutines or      *)
(* channels: they are attempted in the order they were made, each exactly  *)
(* once, by at most RateLimit requests at a time, a slow server holds up   *)
(* the making of new ones, and the agent stops after the last attempt.     *)
(***************************************************************************)
EXTENDS Naturals, FiniteSets

CONSTANT RateLimit

VARIABLES
    made,       \* the number of snapshots made
    started,    \* how many of them have a request, the oldest ones
    delivered,  \* those whose request succeeded
    failed,     \* those that were given up
    stopped     \* the agent has returned

vars == <<made, started, delivered, failed, stopped>>

Finished == delivered \cup failed

Init ==
    /\ made = 0 /\ started = 0
    /\ delivered = {} /\ failed = {}
    /\ stopped = FALSE

\* One snapshot waits outside the queue of RateLimit that have no request yet.
Make ==
    /\ ~stopped
    /\ made - started <= RateLimit
    /\ made' = made + 1
    /\ UNCHANGED <<started, delivered, failed, stopped>>

Begin ==
    /\ started < made
    /\ started - Cardinality(Finished) < RateLimit
    /\ started' = started + 1
    /\ UNCHANGED <<made, delivered, failed, stopped>>

Deliver(n) ==
    /\ n \notin Finished
    /\ delivered' = delivered \cup {n}
    /\ UNCHANGED <<made, started, failed, stopped>>

GiveUp(n) ==
    /\ n \notin Finished
    /\ failed' = failed \cup {n}
    /\ UNCHANGED <<made, started, delivered, stopped>>

Stop ==
    /\ ~stopped
    /\ made > 0
    /\ Finished = 1..made
    /\ stopped' = TRUE
    /\ UNCHANGED <<made, started, delivered, failed>>

Next == Make \/ Begin \/ (\E n \in 1..started : Deliver(n) \/ GiveUp(n)) \/ Stop

Spec == Init /\ [][Next]_vars
=============================================================================
