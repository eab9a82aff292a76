----------------------------- MODULE Middleware -----------------------------
(***************************************************************************)
(* One request from newRequest of the agent, or from another client,       *)
(* through the chain of middlewares that newRouter builds, to the handler, *)
(* and its response back through the chain in the opposite order; for gRPC *)
(* the interceptor in front of UpdateMetrics.  Every combination of the    *)
(* two sides' configurations is an initial state.                          *)
(*                                                                         *)
(* A body is the sequence of its encodings, the outermost first: <<>> is   *)
(* the plain body, <<"gzip">> a compressed one and <<p, "gzip">> an        *)
(* envelope under key pair p.  RSA-OAEP with AES-GCM, HMAC and gzip are     *)
(* taken as exact: only what was encoded can be decoded.                   *)
(***************************************************************************)
EXTENDS Naturals, Sequences

CONSTANTS
    Keys,      \* signing keys
    KeyPairs,  \* RSA key pairs
    None       \* not configured, or a header that is not set

\* hash.Sign: the signature of a body under a key.
Sign(body, key) == <<body, key>>

ASSUME NamesAssumption ==
    /\ None \notin Keys \cup KeyPairs
    /\ \A k \in Keys : Sign(<<>>, k) # None
    /\ "gzip" \notin KeyPairs

VARIABLES
    agent,    \* the client: its transport, key, pubKey and address
    server,   \* key, privKey and subnet of the server
    req,      \* the request on its way: body and headers
    resp,     \* the response on its way: status, body and signature
    way,      \* "build", "in", "out" or "done"
    pos,      \* the middleware that is next
    handled,  \* the bodies that handlers have been given
    work      \* history: the middlewares that have worked on the request's body

vars == <<agent, server, req, resp, way, pos, handled, work>>

Agents == [transport: {"http", "plain", "grpc"}, key: Keys \cup {None},
           pubKey: KeyPairs \cup {None}, ip: {"inside", "outside", None}]
Servers == [key: Keys \cup {None}, privKey: KeyPairs \cup {None}, subnet: BOOLEAN]

NoResponse == [status |-> 0, body |-> <<>>, hash |-> None]
NoRequest == [body |-> <<>>, gzip |-> FALSE, acceptGzip |-> FALSE, encrypted |-> FALSE,
              hash |-> None, realIP |-> None]

\* MUTANT of Chain: the subnet is checked last.
ChainSubnetLast == IF agent.transport = "grpc" THEN <<"interceptor">>
                   ELSE <<"crypto", "gzip", "hash", "subnet">>

\* MUTANT of Chain: signatures are of the compressed bodies.
ChainHashBeforeGzip == IF agent.transport = "grpc" THEN <<"interceptor">>
                       ELSE <<"subnet", "crypto", "hash", "gzip">>

\* The middlewares in the order of newRouter; the interceptor for gRPC.
Chain == IF agent.transport = "grpc" THEN <<"interceptor">>
         ELSE <<"subnet", "crypto", "gzip", "hash">>

Init ==
    /\ agent \in Agents
    /\ server \in Servers
    /\ req = NoRequest
    /\ resp = NoResponse
    /\ way = "build"
    /\ pos = 1
    /\ handled = <<>>
    /\ work = {}

-----------------------------------------------------------------------------
(* The client                                                               *)

\* crypto.Encrypt, when a public key is configured.
Encrypt(body) == IF agent.pubKey = None THEN body ELSE <<agent.pubKey>> \o body

\* MUTANT of newRequest: the signature is of the bytes that are sent.
newRequestSignsSent ==
    /\ agent.transport = "http"
    /\ LET body == Encrypt(<<"gzip">>)
       IN  req' = [body |-> body, gzip |-> TRUE, acceptGzip |-> TRUE,
                   encrypted |-> agent.pubKey # None,
                   hash |-> IF agent.key = None THEN None ELSE Sign(body, agent.key),
                   realIP |-> agent.ip]

\* The agent's HTTP request: compressed, then encrypted; the signature is of
\* the plain body.
newRequest ==
    /\ agent.transport = "http"
    /\ req' = [body |-> Encrypt(<<"gzip">>), gzip |-> TRUE, acceptGzip |-> TRUE,
               encrypted |-> agent.pubKey # None,
               hash |-> IF agent.key = None THEN None ELSE Sign(<<>>, agent.key),
               realIP |-> agent.ip]

\* The agent's RPC: neither signed nor encrypted.
newRPC ==
    /\ agent.transport = "grpc"
    /\ req' = [NoRequest EXCEPT !.realIP = agent.ip]

\* Another HTTP client: a plain body, signed or not, any Accept-Encoding.
PlainRequest ==
    /\ agent.transport = "plain"
    /\ \E accept \in BOOLEAN, signed \in BOOLEAN :
          req' = [NoRequest EXCEPT
                    !.acceptGzip = accept, !.realIP = agent.ip,
                    !.hash = IF signed /\ agent.key # None THEN Sign(<<>>, agent.key) ELSE None]

Build ==
    /\ way = "build"
    /\ newRequest \/ newRPC \/ PlainRequest
    /\ way' = "in"
    /\ UNCHANGED <<agent, server, resp, pos, handled, work>>

-----------------------------------------------------------------------------
(* The middlewares on the way in                                            *)

At(m) == way = "in" /\ pos <= Len(Chain) /\ Chain[pos] = m

Pass == way' = "in" /\ pos' = pos + 1 /\ UNCHANGED resp

\* http.Error goes out through the middlewares outside this one.
Reject(status) ==
    /\ resp' = [resp EXCEPT !.status = status]
    /\ way' = "out"
    /\ pos' = pos - 1

TrustedSubnetMiddleware ==
    /\ At("subnet")
    /\ IF server.subnet /\ req.realIP # "inside" THEN Reject(403) ELSE Pass
    /\ UNCHANGED <<agent, server, req, handled, work>>

\* The same for an RPC; 403 stands for PermissionDenied.
TrustedSubnetInterceptor ==
    /\ At("interceptor")
    /\ IF server.subnet /\ req.realIP # "inside" THEN Reject(403) ELSE Pass
    /\ UNCHANGED <<agent, server, req, handled, work>>

\* crypto.Decrypt and what the middleware does with its result.
Decrypt ==
    IF req.body # <<>> /\ Head(req.body) = server.privKey
    THEN req' = [req EXCEPT !.body = Tail(@), !.encrypted = FALSE] /\ Pass
    ELSE Reject(400) /\ UNCHANGED req

CryptoMiddleware ==
    /\ At("crypto")
    /\ IF server.privKey = None \/ ~req.encrypted
       THEN Pass /\ UNCHANGED <<req, work>>
       ELSE Decrypt /\ work' = work \cup {"crypto"}
    /\ UNCHANGED <<agent, server, handled>>

\* gzip.NewReader on the request's body.
Gunzip ==
    IF req.body # <<>> /\ Head(req.body) = "gzip"
    THEN req' = [req EXCEPT !.body = Tail(@)] /\ Pass
    ELSE Reject(400) /\ UNCHANGED req

GzipMiddleware ==
    /\ At("gzip")
    /\ IF req.gzip
       THEN Gunzip /\ work' = work \cup {"gzip"}
       ELSE Pass /\ UNCHANGED <<req, work>>
    /\ UNCHANGED <<agent, server, handled>>

HashMiddleware ==
    /\ At("hash")
    /\ IF server.key # None /\ req.hash # None /\ req.hash # Sign(req.body, server.key)
       THEN Reject(400) ELSE Pass
    /\ work' = IF server.key = None THEN work ELSE work \cup {"hash"}
    /\ UNCHANGED <<agent, server, req, handled>>

\* The handler reads the body and answers.
Handler ==
    /\ way = "in"
    /\ pos = Len(Chain) + 1
    /\ handled' = Append(handled, req.body)
    /\ \E status \in {200, 400, 404, 500} : resp' = [resp EXCEPT !.status = status]
    /\ way' = "out"
    /\ pos' = Len(Chain)
    /\ UNCHANGED <<agent, server, req, work>>

-----------------------------------------------------------------------------
(* The middlewares on the way out                                           *)

Leaving(m) == way = "out" /\ pos >= 1 /\ Chain[pos] = m

Out == pos' = pos - 1 /\ UNCHANGED <<agent, server, req, way, handled, work>>

\* hashResponseWriter.flush.
HashFlush ==
    /\ Leaving("hash")
    /\ resp' = IF server.key = None THEN resp
               ELSE [resp EXCEPT !.hash = Sign(resp.body, server.key)]
    /\ Out

\* gzipResponseWriter, closed when the inner handler returns.
GzipClose ==
    /\ Leaving("gzip")
    /\ resp' = IF req.acceptGzip THEN [resp EXCEPT !.body = <<"gzip">> \o @] ELSE resp
    /\ Out

PassOut ==
    /\ Leaving("subnet") \/ Leaving("crypto") \/ Leaving("interceptor")
    /\ UNCHANGED resp
    /\ Out

Responded ==
    /\ way = "out"
    /\ pos = 0
    /\ way' = "done"
    /\ UNCHANGED <<agent, server, req, resp, pos, handled, work>>

Terminated == way = "done" /\ UNCHANGED vars

Next ==
    \/ Build \/ TrustedSubnetMiddleware \/ TrustedSubnetInterceptor
    \/ CryptoMiddleware \/ GzipMiddleware \/ HashMiddleware
    \/ Handler \/ HashFlush \/ GzipClose \/ PassOut \/ Responded \/ Terminated

Spec == Init /\ [][Next]_vars

-----------------------------------------------------------------------------
Bodies == {<<>>, <<"gzip">>} \cup {<<p, "gzip">> : p \in KeyPairs}
Hashes == {Sign(body, key) : body \in Bodies, key \in Keys} \cup {None}

TypeOK ==
    /\ agent \in Agents
    /\ server \in Servers
    /\ req \in [body: Bodies, gzip: BOOLEAN, acceptGzip: BOOLEAN, encrypted: BOOLEAN,
                hash: Hashes, realIP: {"inside", "outside", None}]
    /\ resp \in [status: {0, 200, 400, 403, 404, 500}, body: {<<>>, <<"gzip">>}, hash: Hashes]
    /\ way \in {"build", "in", "out", "done"}
    /\ pos \in 0..(Len(Chain) + 1)
    /\ handled \in Seq(Bodies) /\ Len(handled) <= 1
    /\ work \subseteq {"crypto", "gzip", "hash"}

\* The two sides' configurations fit: what the agent encrypts or signs is for
\* this server, and its address is trusted.
Trusted == server.subnet => agent.ip = "inside"
Matching ==
    /\ Trusted
    /\ agent.transport = "http" =>
        /\ agent.pubKey \in {None, server.privKey}
        /\ None \in {agent.key, server.key} \/ agent.key = server.key

(* An agent's request reaches the handler exactly when the configurations   *)
(* of the two sides fit, once and with the body that the agent meant: a     *)
(* fitting pair is never turned away by the order of compression,           *)
(* encryption and signature, any other always is, and no handler is given   *)
(* an encoded body.                                                         *)
AcceptedIffMatching ==
    way = "done" /\ agent.transport # "plain" =>
        handled = IF Matching THEN << <<>> >> ELSE <<>>

(* "trustedSubnet first so we reject untrusted callers before doing any     *)
(* crypto or hashing work": no middleware has touched the body by then.     *)
UntrustedUntouched == ~Trusted /\ way # "build" => work = {} /\ handled = <<>>

\* A body without its Content-Encoding.
Decoded(body) == IF body # <<>> /\ Head(body) = "gzip" THEN Tail(body) ELSE body

(* A signed response verifies for a client that undoes Content-Encoding, as *)
(* the request's signature does for the server.                             *)
ResponseVerifies ==
    way = "done" /\ resp.hash # None => resp.hash = Sign(Decoded(resp.body), server.key)
=============================================================================
