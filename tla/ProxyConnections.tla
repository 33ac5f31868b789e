-------------------------- MODULE ProxyConnections --------------------------
(***************************************************************************)
(* The public side of the proxy (rust_proxy/src/main.rs): serve_public     *)
(* accepts connections under a limited number of permits, each is a task   *)
(* that does the TLS handshake, reads one request (keep-alive is off) and  *)
(* answers it itself or forwards it over the Unix socket to FastAPI, whose *)
(* admission checks (server/app.py, server/client_identity.py) are here    *)
(* too.  The connection to the upstream is driven by a task of its own,    *)
(* which lives until the public side has dropped its ends.                 *)
(*                                                                         *)
(* A header field is a name with the set of the origins of its values:     *)
(* "client", "proxy", "upstream" or a client identity.                     *)
(***************************************************************************)
EXTENDS Naturals, FiniteSets

CONSTANTS
    Connections,     \* the TCP connections of a run
    MaxConnections,  \* MAX_PUBLIC_CONNECTIONS
    Identities,      \* SPKI hashes of the client certificates
    Requests,        \* requests that clients send
    Answers          \* responses of the upstream: [headers, tokens]

ASSUME ConnectionsFinite == IsFiniteSet(Connections)
ASSUME MaxConnectionsNat == MaxConnections \in Nat \ {0}

IdentityHeader == "x-vvv-client-spki-sha256"
HopByHop == {"connection", "keep-alive", "transfer-encoding", "te", "trailer", "trailers",
             "upgrade", "proxy-authorization", "proxy-authenticate", "proxy-connection"}
Injected == {"host", "x-forwarded-for", "x-real-ip", "x-forwarded-proto"}
SecurityHeaders == {"strict-transport-security", "x-content-type-options",
                    "x-frame-options", "referrer-policy"}
HeaderNames == HopByHop \cup Injected \cup SecurityHeaders
                   \cup {IdentityHeader, "authorization", "content-length", "server", "set-cookie"}

\* What a request and an answer consist of; tokens are the names that their
\* Connection header lists, tooLong is a Content-Length above max_body_size.
Request == [path : {"/health", "/v1/transcribe", "/v1/queue/status", "/"},
            method : {"GET", "HEAD", "POST"}, tooLong : BOOLEAN,
            headers : SUBSET HeaderNames, tokens : SUBSET HeaderNames]
Answer == [headers : SUBSET HeaderNames, tokens : SUBSET HeaderNames]

ASSUME RequestsTyped == Requests \subseteq Request /\ Answers \subseteq Answer

NoHeaders == [n \in HeaderNames |-> {}]
Headers == [HeaderNames -> SUBSET ({"client", "proxy", "upstream"} \cup Identities)]

VARIABLES
    phase,      \* serve_public: "serving", "draining" or "stopped"
    permits,    \* free permits of the semaphore
    conn,       \* where the task of each connection is
    identity,   \* {identity of the client certificate}, {} before the handshake
    request,    \* {the request} once one is to be forwarded
    upstream,   \* its connection to the upstream: "none", "open", "closing", "closed"
    peer,       \* who is at the other end of that
    forwarded,  \* headers of the request as sent upstream
    response,   \* headers of the response as sent to the client
    sock        \* what is at the socket path: "improper" (nothing, a symlink, a wrong owner
                \* or mode), or a proper socket of the "expected" or of an "other" peer

local == <<identity, request, peer, forwarded, response>>
vars == <<phase, permits, conn, upstream, sock, local>>

Places == {"handshake", "reading", "connecting", "sending", "replying"}
Live == {c \in Connections : conn[c] \in Places}

ProxyTypeOK ==
    /\ phase \in {"serving", "draining", "stopped"}
    /\ permits \in 0 .. MaxConnections
    /\ conn \in [Connections -> {"absent", "ended"} \cup Places]
    /\ identity \in [Connections -> SUBSET Identities]
    /\ request \in [Connections -> SUBSET Requests]
    /\ upstream \in [Connections -> {"none", "open", "closing", "closed"}]
    /\ peer \in [Connections -> {"none", "expected", "other"}]
    /\ forwarded \in [Connections -> Headers]
    /\ response \in [Connections -> Headers]
    /\ sock \in {"improper", "expected", "other"}

Init ==
    /\ phase = "serving"
    /\ permits = MaxConnections
    /\ conn = [c \in Connections |-> "absent"]
    /\ identity = [c \in Connections |-> {}]
    /\ request = [c \in Connections |-> {}]
    /\ upstream = [c \in Connections |-> "none"]
    /\ peer = [c \in Connections |-> "none"]
    /\ forwarded = [c \in Connections |-> NoHeaders]
    /\ response = [c \in Connections |-> NoHeaders]
    /\ sock \in {"improper", "expected"}

Goto(c, place) == conn' = [conn EXCEPT ![c] = place]

\* Definitions named Bug... are faulty variants of the one that follows them.

\* As if the driving task held an end of its own.
BugKeepsOpen(c) == UNCHANGED upstream

\* The proxy's ends of the upstream connection are dropped.
Release(c) == upstream' = [upstream EXCEPT ![c] = IF @ = "open" THEN "closing" ELSE @]

-----------------------------------------------------------------------------
(* Headers.                                                                *)

\* As if the proxy stripped after it had injected.
BugStripLast(r, id) ==
    [n \in HeaderNames |->
        IF n \in HopByHop \cup r.tokens \cup {"content-length"} THEN {}
        ELSE IF n = IdentityHeader THEN {id}
        ELSE IF n \in Injected THEN {"proxy"}
        ELSE IF n \in r.headers THEN {"client"} ELSE {}]

\* What http_proxy sends upstream: end-to-end fields of the client are copied, then
\* the proxy's own are set, each in place of whatever the client sent.
UpstreamHeaders(r, id) ==
    LET kept == r.headers \ (HopByHop \cup r.tokens \cup {IdentityHeader, "content-length"})
    IN  [n \in HeaderNames |->
            IF n = IdentityHeader THEN {id}
            ELSE IF n \in Injected THEN {"proxy"}
            ELSE IF n \in kept THEN {"client"} ELSE {}]

BugPolicyFirst(a) ==
    [n \in HeaderNames |->
        IF n \in a.headers \ (HopByHop \cup a.tokens \cup {"content-length", "server"})
        THEN {"upstream"} ELSE IF n \in SecurityHeaders THEN {"proxy"} ELSE {}]

\* What the client gets of an answer; the security headers are set last.
ResponseHeaders(a) ==
    LET kept == a.headers \ (HopByHop \cup a.tokens \cup {"content-length", "server"})
    IN  [n \in HeaderNames |->
            IF n \in SecurityHeaders THEN {"proxy"}
            ELSE IF n \in kept THEN {"upstream"} ELSE {}]

\* text_response and local_health_response.
LocalResponse == [n \in HeaderNames |-> IF n \in SecurityHeaders THEN {"proxy"} ELSE {}]

\* FastAPI: RequireHTTPSMiddleware, then require_client_identity with its one value.
Admits(h, id) == h["x-forwarded-proto"] = {"proxy"} /\ h[IdentityHeader] = {id}

\* proxy_handler_inner and the first checks of http_proxy: what goes upstream.
Forwards(r) ==
    /\ r.headers \cap {"authorization", "upgrade"} = {}
    /\ <<r.method, r.path>> \in {<<"POST", "/v1/transcribe">>, <<"GET", "/v1/queue/status">>}
    /\ ~r.tooLong

-----------------------------------------------------------------------------
(* serve_public and the life of a connection.                              *)

BugNoLimit(c) ==
    /\ phase = "serving"
    /\ conn[c] = "absent"
    /\ permits' = permits - 1
    /\ Goto(c, "handshake")
    /\ UNCHANGED <<phase, upstream, sock, local>>

\* Without a permit the accepted stream is dropped.
Accept(c) ==
    /\ phase = "serving"
    /\ conn[c] = "absent"
    /\ permits' = IF permits > 0 THEN permits - 1 ELSE permits
    /\ Goto(c, IF permits > 0 THEN "handshake" ELSE "ended")
    /\ UNCHANGED <<phase, upstream, sock, local>>

BugEndsWithPermit(c) ==
    /\ Goto(c, "ended")
    /\ Release(c)
    /\ identity' = [identity EXCEPT ![c] = {}]
    /\ request' = [request EXCEPT ![c] = {}]
    /\ peer' = [peer EXCEPT ![c] = "none"]
    /\ forwarded' = [forwarded EXCEPT ![c] = NoHeaders]
    /\ response' = [response EXCEPT ![c] = NoHeaders]
    /\ UNCHANGED <<phase, sock, permits>>

\* The task of the connection returns: its permit and everything else it owns is
\* dropped, and with it the proxy's ends of the upstream connection.
Ends(c) ==
    /\ Goto(c, "ended")
    /\ permits' = permits + 1
    /\ Release(c)
    /\ identity' = [identity EXCEPT ![c] = {}]
    /\ request' = [request EXCEPT ![c] = {}]
    /\ peer' = [peer EXCEPT ![c] = "none"]
    /\ forwarded' = [forwarded EXCEPT ![c] = NoHeaders]
    /\ response' = [response EXCEPT ![c] = NoHeaders]
    /\ UNCHANGED <<phase, sock>>

HandshakeDone(c) ==
    /\ conn[c] = "handshake"
    /\ \E id \in Identities : identity' = [identity EXCEPT ![c] = {id}]
    /\ Goto(c, "reading")
    /\ UNCHANGED <<phase, permits, upstream, sock, request, peer, forwarded, response>>

\* Handshake refused or timed out, no identity; header read timeout, bad request head.
NoRequest(c) == conn[c] \in {"handshake", "reading"} /\ Ends(c)

\* The client goes away; hyper drops the handler wherever it is.
ClientGone(c) == conn[c] \in Places /\ Ends(c)

\* A request that is not forwarded is answered here.
RequestAnswered(c) ==
    /\ conn[c] = "reading"
    /\ \E r \in Requests : ~Forwards(r)
    /\ response' = [response EXCEPT ![c] = LocalResponse]
    /\ Goto(c, "replying")
    /\ UNCHANGED <<phase, permits, upstream, sock, identity, request, peer, forwarded>>

\* http_proxy up to the connect: validate_upstream_socket_path has to approve.
RequestTaken(c) ==
    /\ conn[c] = "reading"
    /\ \E r \in Requests : Forwards(r) /\ request' = [request EXCEPT ![c] = {r}]
    /\ IF sock \in {"expected", "other"}
       THEN Goto(c, "connecting") /\ UNCHANGED response
       ELSE Goto(c, "replying") /\ response' = [response EXCEPT ![c] = LocalResponse]
    /\ UNCHANGED <<phase, permits, upstream, sock, identity, peer, forwarded>>

\* 502: connect refused or timed out, or another peer than the expected one.
\* 500: a panic caught in proxy_handler.
BadGateway(c) ==
    /\ conn[c] \in {"connecting", "sending"}
    /\ response' = [response EXCEPT ![c] = LocalResponse]
    /\ Goto(c, "replying")
    /\ Release(c)
    /\ UNCHANGED <<phase, permits, sock, identity, request, peer, forwarded>>

\* Who answers at the path now, which may have changed since it was validated.
PeerAt(s) == IF s = "improper" THEN {"expected", "other"} ELSE {s}

\* The request is sent to the peer that was connected.
SendsTo(c, p) ==
    /\ conn[c] = "connecting"
    /\ peer' = [peer EXCEPT ![c] = p]
    /\ \E r \in request[c], id \in identity[c] :
          forwarded' = [forwarded EXCEPT ![c] = UpstreamHeaders(r, id)]
    /\ upstream' = [upstream EXCEPT ![c] = "open"]
    /\ Goto(c, "sending")
    /\ UNCHANGED <<phase, permits, sock, identity, request, response>>

BugAnyPeer(c) == \E p \in PeerAt(sock) : SendsTo(c, p)

\* verify_upstream_peer lets only the expected peer pass.
Connect(c) == "expected" \in PeerAt(sock) /\ SendsTo(c, "expected")

UpstreamAnswers(c) ==
    /\ conn[c] = "sending"
    /\ \E a \in Answers : response' = [response EXCEPT ![c] = ResponseHeaders(a)]
    /\ Goto(c, "replying")
    /\ UNCHANGED <<phase, permits, upstream, sock, identity, request, peer, forwarded>>

\* The response is complete and the connection, without keep-alive, is closed.
ReplySent(c) == conn[c] = "replying" /\ Ends(c)

\* The task that drives the upstream connection sees both ends dropped.
UpstreamCloses(c) ==
    /\ upstream[c] = "closing"
    /\ upstream' = [upstream EXCEPT ![c] = "closed"]
    /\ UNCHANGED <<phase, permits, conn, sock, local>>

-----------------------------------------------------------------------------
(* Shutdown, and the environment.                                          *)

ShutdownSignal ==
    /\ phase = "serving"
    /\ phase' = "draining"
    /\ UNCHANGED <<permits, conn, upstream, sock, local>>

\* All tasks were joined, or after 10 s the remaining ones are aborted.
Stop ==
    /\ phase = "draining"
    /\ phase' = "stopped"
    /\ permits' = MaxConnections
    /\ conn' = [c \in Connections |-> IF c \in Live THEN "ended" ELSE conn[c]]
    /\ upstream' = [c \in Connections |-> IF upstream[c] = "open" THEN "closing" ELSE upstream[c]]
    /\ identity' = [c \in Connections |-> {}]
    /\ request' = [c \in Connections |-> {}]
    /\ peer' = [c \in Connections |-> "none"]
    /\ forwarded' = [c \in Connections |-> NoHeaders]
    /\ response' = [c \in Connections |-> NoHeaders]
    /\ UNCHANGED sock

\* The backend starts, stops, or something else takes its path.
SocketChanges ==
    /\ sock' \in {"improper", "expected", "other"}
    /\ UNCHANGED <<phase, permits, conn, upstream, local>>

-----------------------------------------------------------------------------
Handle(c) == \/ HandshakeDone(c)
             \/ NoRequest(c)
             \/ RequestAnswered(c)
             \/ RequestTaken(c)
             \/ Connect(c)
             \/ BadGateway(c)
             \/ UpstreamAnswers(c)
             \/ ReplySent(c)

Next == \/ \E c \in Connections : Accept(c) \/ Handle(c) \/ ClientGone(c) \/ UpstreamCloses(c)
        \/ ShutdownSignal
        \/ Stop
        \/ SocketChanges

Spec == Init /\ [][Next]_vars

\* tokio polls the task of an upstream connection that has lost its other ends.
\* Nothing makes a client read or FastAPI answer: there is no other fairness.
FairSpec == Spec /\ \A c \in Connections : WF_vars(UpstreamCloses(c))

-----------------------------------------------------------------------------
(* Safety.                                                                 *)

\* Permits are neither lost nor doubled on any way a connection may end: together
\* with the connections in service they always make up MAX_PUBLIC_CONNECTIONS.
PermitsAccounted == permits + Cardinality(Live) = MaxConnections

\* Whatever a client puts into its headers, including a Connection header that names
\* the proxy's own fields, and whatever has happened at the socket path since it was
\* validated: what leaves the proxy goes to the expected peer and passes FastAPI's
\* checks, and it does so as the owner of this connection's certificate.
ForwardedAsOwner ==
    \A c \in Connections : upstream[c] = "open" =>
        /\ peer[c] = "expected"
        /\ \E id \in identity[c] : Admits(forwarded[c], id)

\* No field that concerns one hop only gets to the other side, in either direction,
\* no end-to-end field of the client is lost, and the proxy's security policy wins.
HeadersEndToEnd ==
    \A c \in Connections :
        /\ \A n \in HopByHop : forwarded[c][n] = {} /\ response[c][n] = {}
        /\ upstream[c] = "open" =>
              \A r \in request[c] :
                  \A n \in r.headers \ (HopByHop \cup Injected \cup r.tokens) :
                      n \notin {IdentityHeader, "content-length"} => forwarded[c][n] = {"client"}
        /\ conn[c] = "replying" => \A n \in SecurityHeaders : response[c][n] = {"proxy"}

-----------------------------------------------------------------------------
(* Liveness.                                                               *)

\* When a forwarded request is over for the proxy, be it that the client is gone, that
\* the upstream failed or that a shutdown aborted the connection, FastAPI gets to see
\* its connection closed, which is what ends the event stream there.
UpstreamLearns == \A c \in Connections :
    (upstream[c] # "none" /\ conn[c] = "ended") ~> upstream[c] = "closed"
=============================================================================
