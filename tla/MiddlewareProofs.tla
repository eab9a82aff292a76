-------------------------- MODULE MiddlewareProofs --------------------------
(***************************************************************************)
(* Proofs about Middleware for any signing keys and key pairs.  The        *)
(* inductive invariant says, for every place in the chain, how the body is *)
(* encoded there and what has been checked before: that is why the order   *)
(* of the chain in newRouter is the only one that fits newRequest.         *)
(***************************************************************************)
EXTENDS Middleware, SequenceTheorems, TLAPS

Addresses == {"inside", "outside", None}

(* What the steps need to know of the types.                                *)
ShapeInv ==
    /\ agent \in Agents
    /\ server \in Servers
    /\ req \in [body: Seq(KeyPairs \cup {"gzip"}), gzip: BOOLEAN, acceptGzip: BOOLEAN,
                encrypted: BOOLEAN, hash: Hashes, realIP: Addresses]
    /\ DOMAIN resp = {"status", "body", "hash"}
    /\ way \in {"build", "in", "out", "done"}
    /\ pos \in Nat

(* The places of a request on its way in and out.                           *)
PlaceInv ==
    /\ way = "build" => pos = 1
    /\ way = "in" => pos \in 1..(Len(Chain) + 1)
    /\ way = "out" => pos <= Len(Chain)

(* Behind the subnet check the caller is trusted, and an untrusted one has  *)
(* cost nothing.                                                            *)
TrustInv ==
    /\ way # "build" => req.realIP = agent.ip
    /\ way = "in" => handled = <<>>
    /\ way = "build" \/ (way = "in" /\ pos = 1) => work = {} /\ handled = <<>>
    /\ way = "in" /\ pos > 1 => Trusted
    /\ ~Trusted => work = {} /\ handled = <<>>

(* What the agent encrypts is for this server; what it signs, too.          *)
PairFits == agent.pubKey \in {None, server.privKey}
KeyFits == None \in {agent.key, server.key} \/ agent.key = server.key

(* What the agent sends, and its signature.                                 *)
Envelope == Encrypt(<<"gzip">>)
Signature == IF agent.key = None THEN None ELSE Sign(<<>>, agent.key)

(* The body of the agent's HTTP request at each place of the chain: under   *)
(* its encryption in front of the decryption, compressed in front of the    *)
(* decompression unless it could not be decrypted, plain behind that.       *)
BodyInv ==
    way = "in" /\ agent.transport = "http" =>
        /\ req.hash = Signature
        /\ req.gzip = TRUE
        /\ pos <= 2 => req.body = Envelope
                       /\ req.encrypted = (agent.pubKey # None)
        /\ pos = 3 => req.body = IF PairFits THEN <<"gzip">> ELSE Envelope
        /\ pos >= 4 => req.body = <<>> /\ PairFits
        /\ pos >= 5 => KeyFits

RPCInv == way = "in" /\ agent.transport = "grpc" => req.body = <<>>

(* Once the request has turned round, the handler has had it or not.        *)
AcceptInv ==
    way \in {"out", "done"} /\ agent.transport # "plain" =>
        handled = IF Matching THEN << <<>> >> ELSE <<>>

(* The response is signed before it is compressed.                          *)
ResponseInv ==
    /\ resp.body \in {<<>>, <<"gzip">>}
    /\ resp.hash \in {None, Sign(<<>>, server.key)}
    /\ way \in {"build", "in"} \/ (way = "out" /\ pos >= 3) => resp.body = <<>>

Inv == ShapeInv /\ PlaceInv /\ TrustInv /\ BodyInv /\ RPCInv /\ AcceptInv /\ ResponseInv

-----------------------------------------------------------------------------
(* The chain has one element for an RPC and four for an HTTP request; a     *)
(* middleware works at one place only.                                      *)
LEMMA Places ==
    ASSUME pos \in Nat, PlaceInv
    PROVE  /\ agent.transport = "grpc" => Len(Chain) = 1
           /\ agent.transport # "grpc" => Len(Chain) = 4
           /\ At("subnet") \/ Leaving("subnet") => agent.transport # "grpc" /\ pos = 1
           /\ At("crypto") \/ Leaving("crypto") => agent.transport # "grpc" /\ pos = 2
           /\ At("gzip") \/ Leaving("gzip") => agent.transport # "grpc" /\ pos = 3
           /\ At("hash") \/ Leaving("hash") => agent.transport # "grpc" /\ pos = 4
           /\ At("interceptor") \/ Leaving("interceptor") => agent.transport = "grpc" /\ pos = 1
<1>1. CASE agent.transport = "grpc"
  <2>1. Chain = <<"interceptor">>
    BY <1>1 DEF Chain
  <2>2. Len(Chain) = 1 /\ Chain[1] = "interceptor"
    BY <2>1
  <2> QED BY <1>1, <2>2 DEF At, Leaving, PlaceInv
<1>2. CASE agent.transport # "grpc"
  <2>1. Chain = <<"subnet", "crypto", "gzip", "hash">>
    BY <1>2 DEF Chain
  <2>2. /\ Len(Chain) = 4
        /\ Chain[1] = "subnet" /\ Chain[2] = "crypto" /\ Chain[3] = "gzip" /\ Chain[4] = "hash"
    BY <2>1
  <2>3. \A m : At(m) \/ Leaving(m) => pos \in {1, 2, 3, 4} /\ Chain[pos] = m
    BY <2>2 DEF At, Leaving, PlaceInv
  <2> QED BY <1>2, <2>2, <2>3
<1> QED BY <1>1, <1>2

(* What decryption and decompression find in a body: the outermost encoding *)
(* and the rest.                                                            *)
LEMMA Encodings ==
    /\ <<"gzip">> # <<>> /\ Head(<<"gzip">>) = "gzip" /\ Tail(<<"gzip">>) = <<>>
    /\ \A p : LET b == <<p>> \o <<"gzip">>
              IN  b # <<>> /\ Head(b) = p /\ Tail(b) = <<"gzip">>
<1>1. <<"gzip">> # <<>> /\ Head(<<"gzip">>) = "gzip" /\ Tail(<<"gzip">>) = <<>>
  OBVIOUS
<1>2. ASSUME NEW p PROVE <<p>> \o <<"gzip">> = <<p, "gzip">>
  <2> DEFINE S == {p, "gzip"}
             b == <<p>> \o <<"gzip">>
  <2>1. <<p>> \in Seq(S) /\ <<"gzip">> \in Seq(S) /\ <<p, "gzip">> \in Seq(S)
    OBVIOUS
  <2>2. b \in Seq(S) /\ Len(b) = 2
    BY <2>1
  <2>3. b[1] = p /\ b[2] = "gzip"
    BY <2>1
  <2>4. Len(<<p, "gzip">>) = 2 /\ \A i \in 1..2 : b[i] = <<p, "gzip">>[i]
    BY <2>3
  <2> HIDE DEF S, b
  <2>5. b = <<p, "gzip">>
    BY <2>1, <2>2, <2>4, SeqEqual
  <2> QED BY <2>5 DEF b
<1>3. ASSUME NEW p PROVE <<p, "gzip">> # <<>> /\ Head(<<p, "gzip">>) = p /\ Tail(<<p, "gzip">>) = <<"gzip">>
  OBVIOUS
<1> QED BY <1>1, <1>2, <1>3

-----------------------------------------------------------------------------
(* The invariant holds when nothing has been sent yet.                      *)
LEMMA InvInit == Init => Inv
<1> SUFFICES ASSUME Init PROVE Inv
  OBVIOUS
<1>1. ShapeInv
  BY DEF Init, ShapeInv, NoRequest, NoResponse, Hashes, Addresses
<1>2. PlaceInv /\ TrustInv /\ BodyInv /\ RPCInv /\ AcceptInv /\ ResponseInv
  BY DEF Init, PlaceInv, TrustInv, BodyInv, RPCInv, AcceptInv, ResponseInv, NoResponse
<1> QED BY <1>1, <1>2 DEF Inv

(* The configurations of the two sides never change, nor what follows from  *)
(* them.                                                                    *)
LEMMA Configured ==
    ASSUME UNCHANGED <<agent, server>>
    PROVE  /\ Chain' = Chain /\ Trusted' = Trusted /\ Matching' = Matching
           /\ PairFits' = PairFits /\ KeyFits' = KeyFits
           /\ Envelope' = Envelope /\ Signature' = Signature
BY DEF Chain, Trusted, Matching, PairFits, KeyFits, Envelope, Encrypt, Signature, Sign

(* The request that a client builds.                                        *)
LEMMA BuildStep == Inv /\ Build => Inv'
<1> SUFFICES ASSUME Inv, Build PROVE Inv'
  OBVIOUS
<1> USE DEF Inv
<1>1. UNCHANGED <<agent, server, resp, pos, handled, work>> /\ way = "build" /\ way' = "in"
  BY DEF Build
<1>2. /\ req' \in [body: Seq(KeyPairs \cup {"gzip"}), gzip: BOOLEAN, acceptGzip: BOOLEAN,
                   encrypted: BOOLEAN, hash: Hashes, realIP: Addresses]
      /\ req'.realIP = agent.ip
  <2>1. agent.ip \in Addresses /\ agent.key \in Keys \cup {None} /\ agent.pubKey \in KeyPairs \cup {None}
    BY DEF ShapeInv, Agents, Addresses
  <2>2. \A k \in Keys : Sign(<<>>, k) \in Hashes
    BY DEF Hashes, Bodies
  <2>3. None \in Hashes
    BY DEF Hashes
  <2>4. <<>> \in Seq(KeyPairs \cup {"gzip"}) /\ Encrypt(<<"gzip">>) \in Seq(KeyPairs \cup {"gzip"})
    <3>1. <<>> \in Seq(KeyPairs \cup {"gzip"}) /\ <<"gzip">> \in Seq(KeyPairs \cup {"gzip"})
      OBVIOUS
    <3>2. agent.pubKey # None => <<agent.pubKey>> \in Seq(KeyPairs \cup {"gzip"})
      BY <2>1
    <3>3. agent.pubKey # None => <<agent.pubKey>> \o <<"gzip">> \in Seq(KeyPairs \cup {"gzip"})
      BY <3>1, <3>2, ConcatProperties
    <3> QED BY <3>1, <3>3 DEF Encrypt
  <2>5. CASE newRequest
    BY <2>1, <2>2, <2>3, <2>4, <2>5 DEF newRequest
  <2>6. CASE newRPC
    BY <2>1, <2>3, <2>4, <2>6 DEF newRPC, NoRequest
  <2>7. CASE PlainRequest
    BY <2>1, <2>2, <2>3, <2>4, <2>7 DEF PlainRequest, NoRequest
  <2> QED BY <2>5, <2>6, <2>7 DEF Build
<1>3. pos = 1
  BY <1>1 DEF PlaceInv
<1>4. ShapeInv' /\ PlaceInv'
  BY <1>1, <1>2, <1>3, Places, Configured DEF ShapeInv, PlaceInv
<1>5. TrustInv'
  BY <1>1, <1>2, <1>3, Configured DEF TrustInv
<1>6. BodyInv'
  <2> SUFFICES ASSUME agent.transport = "http" PROVE BodyInv'
    BY <1>1 DEF BodyInv
  <2>1. newRequest
    BY DEF Build, newRPC, PlainRequest
  <2>2. /\ req'.hash = Signature
        /\ req'.gzip = TRUE
        /\ req'.body = Envelope
        /\ req'.encrypted = (agent.pubKey # None)
    BY <2>1 DEF newRequest, Envelope, Signature
  <2> QED BY <1>1, <1>3, <2>2, Configured DEF BodyInv
<1>7. RPCInv'
  BY <1>1 DEF RPCInv, Build, newRequest, newRPC, PlainRequest, NoRequest
<1>8. AcceptInv' /\ ResponseInv'
  BY <1>1 DEF AcceptInv, ResponseInv
<1> QED BY <1>4, <1>5, <1>6, <1>7, <1>8

(* The check of the subnet, in front of everything else.                    *)
LEMMA SubnetStep == Inv /\ (TrustedSubnetMiddleware \/ TrustedSubnetInterceptor) => Inv'
<1> SUFFICES ASSUME Inv, TrustedSubnetMiddleware \/ TrustedSubnetInterceptor PROVE Inv'
  OBVIOUS
<1> USE DEF Inv
<1>1. UNCHANGED <<agent, server, req, handled, work>>
  BY DEF TrustedSubnetMiddleware, TrustedSubnetInterceptor
<1>2. way = "in" /\ pos = 1
  BY Places DEF ShapeInv, TrustedSubnetMiddleware, TrustedSubnetInterceptor, At
<1>3. IF Trusted THEN Pass ELSE Reject(403)
  BY <1>2 DEF TrustedSubnetMiddleware, TrustedSubnetInterceptor, TrustInv, Trusted,
              ShapeInv, Servers
<1>4. Len(Chain) \in {1, 4}
  BY Places DEF ShapeInv
<1>5. CASE Trusted
  <2>1. way' = "in" /\ pos' = 2 /\ UNCHANGED resp
    BY <1>2, <1>3, <1>5 DEF Pass
  <2>2. ShapeInv' /\ PlaceInv'
    <3>1. ShapeInv'
      BY <1>1, <2>1 DEF ShapeInv
    <3>2. Chain' = Chain
      BY <1>1, Configured
    <3> QED BY <1>4, <2>1, <3>1, <3>2 DEF PlaceInv
  <2>3. TrustInv' /\ AcceptInv'
    BY <1>1, <1>2, <1>5, <2>1, Configured DEF TrustInv, AcceptInv
  <2>4. BodyInv' /\ RPCInv'
    BY <1>1, <1>2, <2>1, Configured DEF BodyInv, RPCInv
  <2>5. ResponseInv'
    BY <1>1, <1>2, <2>1 DEF ResponseInv, Sign
  <2> QED BY <2>2, <2>3, <2>4, <2>5
<1>6. CASE ~Trusted
  <2>1. way' = "out" /\ pos' = 0 /\ resp' = [resp EXCEPT !.status = 403]
    BY <1>2, <1>3, <1>6 DEF Reject
  <2>2. ShapeInv' /\ PlaceInv'
    BY <1>1, <1>4, <2>1, Configured DEF ShapeInv, PlaceInv
  <2>3. TrustInv' /\ AcceptInv'
    BY <1>1, <1>2, <1>6, <2>1, Configured DEF TrustInv, AcceptInv, Matching
  <2>4. BodyInv' /\ RPCInv'
    BY <2>1 DEF BodyInv, RPCInv
  <2>5. ResponseInv'
    BY <1>1, <1>2, <2>1 DEF ResponseInv, ShapeInv, Sign
  <2> QED BY <2>2, <2>3, <2>4, <2>5
<1> QED BY <1>5, <1>6

(* A middleware behind the check of the subnet turns the request away.      *)
LEMMA RejectStep ==
    ASSUME Inv, way = "in", pos \in {2, 3, 4}, ~Matching \/ agent.transport = "plain",
           NEW status \in {400, 403}, Reject(status),
           UNCHANGED <<agent, server, req, handled>>
    PROVE  Inv'
<1> USE DEF Inv
<1>1. way' = "out" /\ pos' = pos - 1 /\ resp' = [resp EXCEPT !.status = status]
  BY DEF Reject
<1>2. ShapeInv' /\ PlaceInv'
  BY <1>1, Configured DEF ShapeInv, PlaceInv
<1>3. TrustInv' /\ AcceptInv'
  BY <1>1, Configured DEF TrustInv, AcceptInv
<1>4. BodyInv' /\ RPCInv'
  BY <1>1 DEF BodyInv, RPCInv
<1>5. ResponseInv'
  BY <1>1 DEF ResponseInv, ShapeInv, Sign
<1> QED BY <1>2, <1>3, <1>4, <1>5

(* A middleware behind the check of the subnet passes the request on: what  *)
(* is left to show is the body in front of the next one.                    *)
LEMMA PassStep ==
    ASSUME Inv, way = "in", pos \in {2, 3, 4}, agent.transport # "grpc", Pass, ShapeInv', BodyInv',
           UNCHANGED <<agent, server, handled>>, req'.realIP = req.realIP
    PROVE  Inv'
<1> USE DEF Inv
<1>1. way' = "in" /\ pos' = pos + 1 /\ UNCHANGED resp
  BY DEF Pass
<1>2. PlaceInv'
  <2>1. Len(Chain) = 4 /\ Chain' = Chain
    BY Places, Configured DEF ShapeInv
  <2>2. pos' \in 1..5
    BY <1>1
  <2> QED BY <1>1, <2>1, <2>2 DEF PlaceInv
<1>3. TrustInv' /\ AcceptInv' /\ RPCInv'
  BY <1>1, Configured DEF TrustInv, AcceptInv, RPCInv
<1>4. ResponseInv'
  BY <1>1 DEF ResponseInv, Sign
<1> QED BY <1>2, <1>3, <1>4

(* Decryption takes off the agent's encryption, if it was for this server.  *)
LEMMA CryptoStep == Inv /\ CryptoMiddleware => Inv'
<1> SUFFICES ASSUME Inv, CryptoMiddleware PROVE Inv'
  OBVIOUS
<1> USE DEF Inv
<1>1. UNCHANGED <<agent, server, handled>>
  BY DEF CryptoMiddleware
<1>2. way = "in" /\ pos = 2 /\ agent.transport # "grpc"
  BY Places DEF ShapeInv, CryptoMiddleware, At
<1>3. agent.transport = "http" =>
          req.body = Envelope /\ req.encrypted = (agent.pubKey # None)
  BY <1>2 DEF BodyInv
<1>4. /\ agent.pubKey = None => Envelope = <<"gzip">>
      /\ agent.pubKey # None => /\ Envelope # <<>> /\ Head(Envelope) = agent.pubKey
                                /\ Tail(Envelope) = <<"gzip">>
  BY Encodings DEF Envelope, Encrypt
<1>5. CASE server.privKey = None \/ ~req.encrypted
  <2>1. Pass /\ UNCHANGED req
    BY <1>5 DEF CryptoMiddleware
  <2>2. ShapeInv'
    BY <1>1, <1>2, <2>1 DEF ShapeInv, Pass
  <2>3. agent.transport = "http" => req.body = IF PairFits THEN <<"gzip">> ELSE Envelope
    BY <1>3, <1>4, <1>5 DEF PairFits
  <2>4. BodyInv'
    BY <1>1, <1>2, <2>1, <2>3, Configured DEF BodyInv, Pass
  <2> QED BY <1>1, <1>2, <2>1, <2>2, <2>4, PassStep
<1>6. CASE server.privKey # None /\ req.encrypted
  <2>1. Decrypt
    BY <1>6 DEF CryptoMiddleware
  <2>2. CASE req.body # <<>> /\ Head(req.body) = server.privKey
    <3>1. Pass /\ req' = [req EXCEPT !.body = Tail(@), !.encrypted = FALSE]
      BY <2>1, <2>2 DEF Decrypt
    <3>2. Tail(req.body) \in Seq(KeyPairs \cup {"gzip"})
      BY <2>2, HeadTailProperties DEF ShapeInv
    <3>3. ShapeInv'
      <4> DEFINE R == [body: Seq(KeyPairs \cup {"gzip"}), gzip: BOOLEAN, acceptGzip: BOOLEAN,
                       encrypted: BOOLEAN, hash: Hashes, realIP: Addresses]
      <4>1. [req EXCEPT !.body = Tail(req.body)] \in R
        BY <3>2 DEF ShapeInv
      <4>2. req' \in R
        BY <3>1, <4>1
      <4> QED BY <1>1, <1>2, <3>1, <4>2 DEF ShapeInv, Pass
    <3>4. req'.body = Tail(req.body) /\ req'.hash = req.hash /\ req'.gzip = req.gzip
          /\ req'.realIP = req.realIP
      BY <3>1 DEF ShapeInv
    <3>5. agent.transport = "http" => PairFits /\ Tail(req.body) = <<"gzip">>
      BY <1>3, <1>4, <1>6, <2>2 DEF PairFits
    <3>6. BodyInv'
      BY <1>1, <1>2, <3>1, <3>4, <3>5, Configured DEF BodyInv, Pass
    <3> QED BY <1>1, <1>2, <3>1, <3>3, <3>4, <3>6, PassStep
  <2>3. CASE ~(req.body # <<>> /\ Head(req.body) = server.privKey)
    <3>1. Reject(400) /\ UNCHANGED req
      BY <2>1, <2>3 DEF Decrypt
    <3>2. agent.transport = "http" => agent.pubKey \notin {None, server.privKey}
      BY <1>3, <1>4, <1>6, <2>3
    <3>3. ~Matching \/ agent.transport = "plain"
      BY <1>2, <3>2 DEF Matching, ShapeInv, Agents
    <3> QED BY <1>1, <1>2, <3>1, <3>3, RejectStep
  <2> QED BY <2>2, <2>3
<1> QED BY <1>5, <1>6 DEF ShapeInv

(* Decompression finds a compressed body, or one that is still encrypted.   *)
LEMMA GzipStep == Inv /\ GzipMiddleware => Inv'
<1> SUFFICES ASSUME Inv, GzipMiddleware PROVE Inv'
  OBVIOUS
<1> USE DEF Inv
<1>1. UNCHANGED <<agent, server, handled>>
  BY DEF GzipMiddleware
<1>2. way = "in" /\ pos = 3 /\ agent.transport # "grpc"
  BY Places DEF ShapeInv, GzipMiddleware, At
<1>3. agent.transport = "http" =>
          req.gzip = TRUE /\ req.body = IF PairFits THEN <<"gzip">> ELSE Envelope
  BY <1>2 DEF BodyInv
<1>4. ~PairFits => Envelope # <<>> /\ Head(Envelope) # "gzip"
  <2>1. ~PairFits => agent.pubKey \in KeyPairs
    BY DEF PairFits, ShapeInv, Agents
  <2> QED BY <2>1, Encodings, NamesAssumption DEF Envelope, Encrypt, PairFits
<1>5. CASE ~req.gzip
  <2>1. Pass /\ UNCHANGED req
    BY <1>5 DEF GzipMiddleware
  <2>2. ShapeInv'
    BY <1>1, <1>2, <2>1 DEF ShapeInv, Pass
  <2>3. BodyInv'
    BY <1>1, <1>3, <1>5 DEF BodyInv
  <2> QED BY <1>1, <1>2, <2>1, <2>2, <2>3, PassStep
<1>6. CASE req.gzip
  <2>1. Gunzip
    BY <1>6 DEF GzipMiddleware
  <2>2. CASE req.body # <<>> /\ Head(req.body) = "gzip"
    <3>1. Pass /\ req' = [req EXCEPT !.body = Tail(@)]
      BY <2>1, <2>2 DEF Gunzip
    <3>2. Tail(req.body) \in Seq(KeyPairs \cup {"gzip"})
      BY <2>2, HeadTailProperties DEF ShapeInv
    <3>3. ShapeInv'
      BY <1>1, <1>2, <3>1, <3>2 DEF ShapeInv, Pass
    <3>4. req'.body = Tail(req.body) /\ req'.hash = req.hash /\ req'.gzip = req.gzip
          /\ req'.realIP = req.realIP
      BY <3>1 DEF ShapeInv
    <3>5. agent.transport = "http" => PairFits /\ Tail(req.body) = <<>>
      BY <1>3, <1>4, <2>2, Encodings
    <3>6. BodyInv'
      BY <1>1, <1>2, <3>1, <3>4, <3>5, Configured DEF BodyInv, Pass
    <3> QED BY <1>1, <1>2, <3>1, <3>3, <3>4, <3>6, PassStep
  <2>3. CASE ~(req.body # <<>> /\ Head(req.body) = "gzip")
    <3>1. Reject(400) /\ UNCHANGED req
      BY <2>1, <2>3 DEF Gunzip
    <3>2. agent.transport = "http" => ~PairFits
      BY <1>3, <2>3, Encodings
    <3>3. ~Matching \/ agent.transport = "plain"
      BY <1>2, <3>2 DEF Matching, PairFits, ShapeInv, Agents
    <3> QED BY <1>1, <1>2, <3>1, <3>3, RejectStep
  <2> QED BY <2>2, <2>3
<1> QED BY <1>5, <1>6 DEF ShapeInv

(* The signature is compared with that of the plain body.                   *)
LEMMA HashStep == Inv /\ HashMiddleware => Inv'
<1> SUFFICES ASSUME Inv, HashMiddleware PROVE Inv'
  OBVIOUS
<1> USE DEF Inv
<1>1. UNCHANGED <<agent, server, req, handled>>
  BY DEF HashMiddleware
<1>2. way = "in" /\ pos = 4 /\ agent.transport # "grpc"
  BY Places DEF ShapeInv, HashMiddleware, At
<1>3. agent.transport = "http" => req.hash = Signature /\ req.body = <<>> /\ PairFits
  BY <1>2 DEF BodyInv
<1> DEFINE Wrong == server.key # None /\ req.hash # None /\ req.hash # Sign(req.body, server.key)
<1>4. agent.transport = "http" => (Wrong <=> ~KeyFits)
  <2>1. agent.key \in Keys \cup {None}
    BY DEF ShapeInv, Agents
  <2>2. agent.key # None => Sign(<<>>, agent.key) # None
    BY <2>1, NamesAssumption
  <2>3. Sign(<<>>, agent.key) = Sign(<<>>, server.key) <=> agent.key = server.key
    BY DEF Sign
  <2> QED BY <1>3, <2>2, <2>3 DEF Signature, KeyFits
<1>5. CASE Wrong
  <2>1. Reject(400)
    BY <1>5 DEF HashMiddleware
  <2>2. ~Matching \/ agent.transport = "plain"
    BY <1>2, <1>4, <1>5 DEF Matching, KeyFits, ShapeInv, Agents
  <2> QED BY <1>1, <1>2, <2>1, <2>2, RejectStep
<1>6. CASE ~Wrong
  <2>1. Pass
    BY <1>6 DEF HashMiddleware
  <2>2. ShapeInv'
    BY <1>1, <1>2, <2>1 DEF ShapeInv, Pass
  <2>3. BodyInv'
    BY <1>1, <1>2, <1>4, <1>6, <2>1, Configured DEF BodyInv, Pass
  <2> QED BY <1>1, <1>2, <2>1, <2>2, <2>3, PassStep
<1> QED BY <1>5, <1>6

(* The handler is given a request that has passed every check.              *)
LEMMA HandlerStep == Inv /\ Handler => Inv'
<1> SUFFICES ASSUME Inv, Handler PROVE Inv'
  OBVIOUS
<1> USE DEF Inv
<1>1. UNCHANGED <<agent, server, req, work>> /\ way = "in" /\ way' = "out"
      /\ pos = Len(Chain) + 1 /\ pos' = Len(Chain) /\ handled' = Append(handled, req.body)
  BY DEF Handler
<1>2. agent.transport = "grpc" => Len(Chain) = 1
  BY Places DEF ShapeInv
<1>3. agent.transport # "grpc" => Len(Chain) = 4
  BY Places DEF ShapeInv
<1>4. PICK status : resp' = [resp EXCEPT !.status = status]
  BY DEF Handler
<1>5. handled = <<>> /\ Trusted
  BY <1>1, <1>2, <1>3 DEF TrustInv
<1>6. agent.transport # "plain" => Matching /\ req.body = <<>>
  <2>1. CASE agent.transport = "grpc"
    BY <1>1, <1>5, <2>1 DEF Matching, RPCInv
  <2>2. CASE agent.transport = "http"
    <3>1. pos = 5
      <4>1. Len(Chain) = 4
        BY <1>3, <2>2
      <4> QED BY <1>1, <4>1
    <3>2. req.body = <<>> /\ PairFits /\ KeyFits
      BY <1>1, <2>2, <3>1 DEF BodyInv
    <3> QED BY <1>5, <3>2 DEF Matching, PairFits, KeyFits
  <2> QED BY <2>1, <2>2 DEF ShapeInv, Agents
<1>7. ShapeInv' /\ PlaceInv'
  <2>1. Chain' = Chain
    BY <1>1, Configured
  <2>2. Len(Chain) \in Nat
    BY <1>2, <1>3
  <2> QED BY <1>1, <1>4, <2>1, <2>2 DEF ShapeInv, PlaceInv
<1>8. TrustInv'
  BY <1>1, <1>5, Configured DEF TrustInv
<1>9. AcceptInv'
  <2>1. Append(<<>>, <<>>) = << <<>> >>
    OBVIOUS
  <2> QED BY <1>1, <1>5, <1>6, <2>1, Configured DEF AcceptInv
<1>10. BodyInv' /\ RPCInv'
  BY <1>1 DEF BodyInv, RPCInv
<1>11. ResponseInv'
  BY <1>1, <1>4 DEF ResponseInv, ShapeInv, Sign
<1> QED BY <1>7, <1>8, <1>9, <1>10, <1>11

(* On the way out only the response changes: signed first, then compressed. *)
LEMMA OutStep == Inv /\ (HashFlush \/ GzipClose \/ PassOut \/ Responded) => Inv'
<1> SUFFICES ASSUME Inv, HashFlush \/ GzipClose \/ PassOut \/ Responded PROVE Inv'
  OBVIOUS
<1> USE DEF Inv
<1>1. UNCHANGED <<agent, server, req, handled, work>> /\ way = "out"
  BY DEF HashFlush, GzipClose, PassOut, Responded, Out, Leaving
<1>2. /\ way' \in {"out", "done"}
      /\ pos' \in Nat /\ pos' <= pos /\ (way' = "out" => pos' = pos - 1)
  BY DEF HashFlush, GzipClose, PassOut, Responded, Out, Leaving, ShapeInv
<1>3. DOMAIN resp' = {"status", "body", "hash"}
  BY DEF HashFlush, GzipClose, PassOut, Responded, ShapeInv
<1>4. ShapeInv' /\ PlaceInv'
  <2>1. Chain' = Chain /\ Len(Chain) \in Nat
    BY <1>1, Configured, Places DEF ShapeInv
  <2> QED BY <1>1, <1>2, <1>3, <2>1 DEF ShapeInv, PlaceInv
<1>5. TrustInv' /\ AcceptInv'
  BY <1>1, <1>2, Configured DEF TrustInv, AcceptInv
<1>6. BodyInv' /\ RPCInv'
  BY <1>2 DEF BodyInv, RPCInv
<1>7. ResponseInv'
  <2>1. CASE HashFlush
    <3>1. pos = 4
      BY <2>1, Places DEF HashFlush, ShapeInv
    <3>2. resp.body = <<>>
      BY <1>1, <3>1 DEF ResponseInv
    <3> QED BY <1>1, <1>2, <2>1, <3>1, <3>2 DEF HashFlush, ResponseInv, ShapeInv, Sign
  <2>2. CASE GzipClose
    <3>1. pos = 3
      BY <2>2, Places DEF GzipClose, ShapeInv
    <3>2. resp.body = <<>> /\ <<"gzip">> \o <<>> = <<"gzip">>
      BY <1>1, <3>1, ConcatEmptySeq DEF ResponseInv
    <3>3. resp'.body \in {<<>>, <<"gzip">>} /\ resp'.hash = resp.hash
      BY <2>2, <3>2 DEF GzipClose, ShapeInv
    <3>4. ~(way' = "out" /\ pos' >= 3)
      BY <1>2, <3>1
    <3> QED BY <1>1, <1>2, <3>3, <3>4 DEF ResponseInv, Sign
  <2>3. CASE PassOut \/ Responded
    <3>1. UNCHANGED resp
      BY <2>3 DEF PassOut, Responded
    <3>2. way' = "out" /\ pos' >= 3 => pos >= 3
      BY <1>2 DEF ShapeInv
    <3> QED BY <1>1, <1>2, <3>1, <3>2 DEF ResponseInv, Sign
  <2> QED BY <2>1, <2>2, <2>3
<1> QED BY <1>4, <1>5, <1>6, <1>7

(* The inductive invariant holds in every state of a request's way.         *)
LEMMA InvHolds == Spec => []Inv
<1>1. Inv /\ [Next]_vars => Inv'
  <2> SUFFICES ASSUME Inv, [Next]_vars PROVE Inv'
    OBVIOUS
  <2>1. CASE UNCHANGED vars
    <3>1. UNCHANGED <<agent, server, req, resp, way, pos, handled, work>>
      BY <2>1 DEF vars
    <3>2. ShapeInv' /\ PlaceInv'
      BY <3>1, Configured DEF Inv, ShapeInv, PlaceInv
    <3>3. TrustInv' /\ AcceptInv'
      BY <3>1, Configured DEF Inv, TrustInv, AcceptInv
    <3>4. BodyInv' /\ RPCInv'
      BY <3>1, Configured DEF Inv, BodyInv, RPCInv
    <3>5. ResponseInv'
      BY <3>1 DEF Inv, ResponseInv, Sign
    <3> QED BY <3>2, <3>3, <3>4, <3>5 DEF Inv
  <2> QED BY <2>1, BuildStep, SubnetStep, CryptoStep, GzipStep, HashStep, HandlerStep, OutStep
          DEF Next, Terminated
<1> QED BY <1>1, InvInit, PTL DEF Spec

(* For any keys, key pairs and addresses, the agent's request reaches the   *)
(* handler if and only if the configurations of agent and server fit, and   *)
(* it does so once and decoded.                                             *)
THEOREM AgentsAreServed == Spec => []AcceptedIffMatching
<1>1. Inv => AcceptedIffMatching
  BY DEF Inv, AcceptInv, AcceptedIffMatching
<1> QED BY <1>1, InvHolds, PTL

(* A caller from outside the trusted subnet is turned away before any       *)
(* middleware has worked on the body, over HTTP and over gRPC.              *)
THEOREM SubnetGoesFirst == Spec => []UntrustedUntouched
<1>1. Inv => UntrustedUntouched
  BY DEF Inv, TrustInv, UntrustedUntouched
<1> QED BY <1>1, InvHolds, PTL

(* The signature of a response is the one of its decompressed body under    *)
(* the server's key, whichever middleware or handler wrote it.              *)
THEOREM ResponsesVerify == Spec => []ResponseVerifies
<1>1. Inv => ResponseVerifies
  <2>1. Decoded(<<>>) = <<>> /\ Decoded(<<"gzip">>) = <<>>
    BY Encodings DEF Decoded
  <2> QED BY <2>1 DEF Inv, ResponseInv, ResponseVerifies
<1> QED BY <1>1, InvHolds, PTL
=============================================================================
