----------------------------- MODULE MCHandlers -----------------------------
(* Model-checking instance of Handlers.                                     *)
EXTENDS Handlers

CONSTANTS h1, h2, g1

HTTP == {h1, h2}
GRPC == {g1}
Both == <<"file", "url">>

M(t, i, v) == [mtype |-> t, id |-> i, val |-> v]
Body(k, ms) == [kind |-> k, metrics |-> ms]
Three(a, b, c) == (h1 :> a) @@ (h2 :> b) @@ (g1 :> c)

\* With Half = 8 counters are -8 .. 7.
Bodies == {
    \* three counters whose sum overflows in every order
    Three(Body("json", <<M(Counter, "a", 5)>>), Body("text", <<M(Counter, "a", 6)>>),
          Body("rpc", <<M(Counter, "a", -7), M(Gauge, "a", 1), M(Counter, "a", None)>>)),
    \* one name for a gauge and a counter, read back under concurrent updates
    Three(Body("json", <<M(Gauge, "a", 1)>>), Body("json", <<M(Counter, "a", 2)>>),
          Body("rpc", <<M(Gauge, "a", 2), M(Counter, "a", 2), M(Gauge, "a", None)>>)),
    \* a batch that overflows half way, one with metrics that are skipped
    Three(Body("batch", <<M(Gauge, "a", 3), M(Counter, "a", 6), M(Counter, "a", 6)>>),
          Body("batch", <<M("other", "a", 1), M(Gauge, "", 4), M(Counter, "a", None)>>),
          Body("rpc", <<M(Counter, "a", 1), M("other", "a", 1)>>)),
    \* requests that are refused, and an empty batch
    Three(Body("json", <<M(Counter, "a", None)>>), Body("text", <<M(Counter, "a", 9)>>),
          Body("rpc", <<>>))}
=============================================================================
