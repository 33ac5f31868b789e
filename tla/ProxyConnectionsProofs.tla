----------------------- MODULE ProxyConnectionsProofs -----------------------
(***************************************************************************)
(* Safety of ProxyConnections for any number of connections, permits,      *)
(* identities and for any set of requests and answers.                     *)
(***************************************************************************)
EXTENDS ProxyConnections, FiniteSetTheorems, TLAPS

\* The upstream connection of a request is open only while its handler or its
\* response lives; without this a later step of the connection could change the
\* identity or the request beside it.  And a connection has one request.
OpenInService == \A c \in Connections :
    /\ upstream[c] = "open" => conn[c] \in {"sending", "replying"}
    /\ \A r, s \in request[c] : r = s

\* The invariant that every step keeps.
ProxyInv == /\ ProxyTypeOK
            /\ PermitsAccounted
            /\ OpenInService
            /\ ForwardedAsOwner
            /\ HeadersEndToEnd

-----------------------------------------------------------------------------
(* Headers.                                                                *)

USE DEF HeaderNames, HopByHop, Injected, SecurityHeaders, IdentityHeader

\* What http_proxy sends upstream is admitted by FastAPI as this identity, carries no
\* hop-by-hop field, and still has every end-to-end field of the client.
LEMMA UpstreamHeadersRight ==
    ASSUME NEW r \in Request, NEW id \in Identities
    PROVE  /\ UpstreamHeaders(r, id) \in Headers
           /\ Admits(UpstreamHeaders(r, id), id)
           /\ \A n \in HopByHop : UpstreamHeaders(r, id)[n] = {}
           /\ \A n \in r.headers \ (HopByHop \cup Injected \cup r.tokens) :
                 n \notin {IdentityHeader, "content-length"}
                     => UpstreamHeaders(r, id)[n] = {"client"}
  <1>1. UpstreamHeaders(r, id) \in Headers
    BY DEF UpstreamHeaders, Headers
  <1>2. Admits(UpstreamHeaders(r, id), id)
    BY DEF UpstreamHeaders, Admits
  <1>3. \A n \in HopByHop : UpstreamHeaders(r, id)[n] = {}
    BY DEF UpstreamHeaders
  <1>4. r.headers \subseteq HeaderNames
    BY DEF Request
  <1>5. \A n \in r.headers \ (HopByHop \cup Injected \cup r.tokens) :
            n \notin {IdentityHeader, "content-length"} => UpstreamHeaders(r, id)[n] = {"client"}
    BY <1>4 DEF UpstreamHeaders
  <1> QED
    BY <1>1, <1>2, <1>3, <1>5

\* Whatever the upstream answered, the proxy's security headers win and no hop-by-hop
\* field gets through.
LEMMA ResponseHeadersRight ==
    ASSUME NEW a \in Answer
    PROVE  /\ ResponseHeaders(a) \in Headers
           /\ \A n \in HopByHop : ResponseHeaders(a)[n] = {}
           /\ \A n \in SecurityHeaders : ResponseHeaders(a)[n] = {"proxy"}
  BY DEF ResponseHeaders, Headers

\* So do the proxy's own responses, and the initial value has no field at all.
LEMMA LocalHeadersRight ==
    /\ LocalResponse \in Headers
    /\ NoHeaders \in Headers
    /\ \A n \in HopByHop : LocalResponse[n] = {} /\ NoHeaders[n] = {}
    /\ \A n \in SecurityHeaders : LocalResponse[n] = {"proxy"}
  BY DEF LocalResponse, NoHeaders, Headers

HIDE DEF HeaderNames, HopByHop, Injected, SecurityHeaders, IdentityHeader

-----------------------------------------------------------------------------
(* Permits.                                                                *)

\* The connections in service are finitely many and stay so in any step.
LEMMA LiveFinite == /\ IsFiniteSet(Live) /\ Cardinality(Live) \in Nat
                    /\ IsFiniteSet(Live') /\ Cardinality(Live') \in Nat
  BY ConnectionsFinite, FS_Subset, FS_CardinalityType, Live \subseteq Connections,
     Live' \subseteq Connections DEF Live

\* Moving a connection changes the number in service by what its place changes.
LEMMA GotoCounts ==
    ASSUME NEW c \in Connections, NEW place \in {"absent", "ended"} \cup Places,
           ProxyTypeOK, Goto(c, place)
    PROVE  /\ conn[c] \in Places /\ place \in Places => Cardinality(Live') = Cardinality(Live)
           /\ conn[c] \notin Places /\ place \notin Places => Cardinality(Live') = Cardinality(Live)
           /\ conn[c] \in Places /\ place = "ended" => Cardinality(Live') = Cardinality(Live) - 1
           /\ conn[c] \notin Places /\ place \in Places => Cardinality(Live') = Cardinality(Live) + 1
  <1>1. (conn[c] \in Places <=> place \in Places) => Live' = Live
    BY DEF ProxyTypeOK, Goto, Live
  <1>2. conn[c] \in Places /\ place = "ended" => Live' = Live \ {c} /\ c \in Live
    BY DEF ProxyTypeOK, Goto, Live, Places
  <1>3. conn[c] \notin Places /\ place \in Places => Live' = Live \cup {c} /\ c \notin Live
    BY DEF ProxyTypeOK, Goto, Live
  <1>4. Cardinality(Live \ {c}) = IF c \in Live THEN Cardinality(Live) - 1 ELSE Cardinality(Live)
    BY LiveFinite, FS_RemoveElement
  <1>5. Cardinality(Live \cup {c}) = IF c \in Live THEN Cardinality(Live) ELSE Cardinality(Live) + 1
    BY LiveFinite, FS_AddElement
  <1> QED
    BY <1>1, <1>2, <1>3, <1>4, <1>5

-----------------------------------------------------------------------------
(* The inductive invariant.                                                *)

\* The initial states satisfy the invariant.
LEMMA InitProxy == Init => ProxyInv
  <1> SUFFICES ASSUME Init PROVE ProxyInv
    OBVIOUS
  <1>1. Live = {}
    BY DEF Init, Live, Places
  <1>2. PermitsAccounted
    BY <1>1, FS_EmptySet, MaxConnectionsNat DEF Init, PermitsAccounted
  <1>3. ProxyTypeOK
    BY LocalHeadersRight, MaxConnectionsNat DEF Init, ProxyTypeOK, Places
  <1>4. OpenInService /\ ForwardedAsOwner
    BY DEF Init, OpenInService, ForwardedAsOwner
  <1>5. HeadersEndToEnd
    BY LocalHeadersRight DEF Init, HeadersEndToEnd
  <1> QED
    BY <1>2, <1>3, <1>4, <1>5 DEF ProxyInv

\* A connection in service that ends gives back its permit and closes its upstream half.
LEMMA EndsProxy ==
    ASSUME ProxyInv, NEW c \in Connections, conn[c] \in Places, Ends(c)
    PROVE  ProxyInv'
  <1> USE DEF ProxyInv, Ends
  <1>1. PermitsAccounted'
    BY GotoCounts, LiveFinite, MaxConnectionsNat DEF ProxyTypeOK, PermitsAccounted, Places
  <1>2. permits' \in 0 .. MaxConnections
    BY <1>1, LiveFinite, MaxConnectionsNat DEF ProxyTypeOK, PermitsAccounted
  <1>3. ProxyTypeOK'
    BY <1>2, LocalHeadersRight DEF ProxyTypeOK, Goto, Release
  <1>4. OpenInService' /\ ForwardedAsOwner'
    BY DEF ProxyTypeOK, Goto, Release, OpenInService, ForwardedAsOwner
  <1>5. HeadersEndToEnd'
    BY LocalHeadersRight DEF ProxyTypeOK, Goto, Release, HeadersEndToEnd
  <1> QED
    BY <1>1, <1>3, <1>4, <1>5

\* A new connection takes a permit or is dropped.
LEMMA AcceptProxy ==
    ASSUME ProxyInv, NEW c \in Connections, Accept(c)
    PROVE  ProxyInv'
  <1> USE DEF ProxyInv, Accept, local
  <1>1. PermitsAccounted'
    <2>1. CASE permits > 0
      BY <2>1, GotoCounts, LiveFinite, MaxConnectionsNat DEF ProxyTypeOK, PermitsAccounted, Places
    <2>2. CASE ~(permits > 0)
      BY <2>2, GotoCounts, LiveFinite, MaxConnectionsNat DEF ProxyTypeOK, PermitsAccounted, Places
    <2> QED
      BY <2>1, <2>2
  <1>2. ProxyTypeOK'
    BY MaxConnectionsNat DEF ProxyTypeOK, Goto, Places
  <1>3. OpenInService' /\ ForwardedAsOwner'
    BY DEF ProxyTypeOK, Goto, OpenInService, ForwardedAsOwner
  <1>4. HeadersEndToEnd'
    BY DEF ProxyTypeOK, Goto, HeadersEndToEnd
  <1> QED
    BY <1>1, <1>2, <1>3, <1>4

\* A step of the handler moves its connection from place to place in service.
LEMMA HandleProxy ==
    ASSUME ProxyInv, NEW c \in Connections, Handle(c)
    PROVE  ProxyInv'
  <1> USE DEF ProxyInv
  <1>1. CASE HandshakeDone(c)
    <2> USE <1>1 DEF HandshakeDone
    <2>1. ProxyTypeOK'
      BY DEF ProxyTypeOK, Goto, Places
    <2>2. PermitsAccounted'
      BY GotoCounts DEF PermitsAccounted, Places
    <2>3. OpenInService' /\ ForwardedAsOwner'
      BY DEF ProxyTypeOK, Goto, OpenInService, ForwardedAsOwner
    <2>4. HeadersEndToEnd'
      BY DEF ProxyTypeOK, Goto, HeadersEndToEnd
    <2> QED
      BY <2>1, <2>2, <2>3, <2>4
  <1>2. CASE NoRequest(c) \/ ReplySent(c)
    BY <1>2, EndsProxy DEF NoRequest, ReplySent, Places
  <1>3. CASE RequestAnswered(c)
    <2> USE <1>3 DEF RequestAnswered
    <2>1. ProxyTypeOK'
      BY LocalHeadersRight DEF ProxyTypeOK, Goto, Places
    <2>2. PermitsAccounted'
      BY GotoCounts DEF PermitsAccounted, Places
    <2>3. OpenInService' /\ ForwardedAsOwner'
      BY DEF ProxyTypeOK, Goto, OpenInService, ForwardedAsOwner
    <2>4. HeadersEndToEnd'
      BY LocalHeadersRight DEF ProxyTypeOK, Goto, HeadersEndToEnd
    <2> QED
      BY <2>1, <2>2, <2>3, <2>4
  <1>4. CASE RequestTaken(c)
    <2> USE <1>4 DEF RequestTaken
    <2>1. ProxyTypeOK'
      BY LocalHeadersRight DEF ProxyTypeOK, Goto, Places
    <2>2. PermitsAccounted'
      BY GotoCounts DEF PermitsAccounted, Places
    <2>3. OpenInService' /\ ForwardedAsOwner'
      BY DEF ProxyTypeOK, Goto, OpenInService, ForwardedAsOwner
    <2>4. HeadersEndToEnd'
      BY LocalHeadersRight DEF ProxyTypeOK, Goto, HeadersEndToEnd, OpenInService
    <2> QED
      BY <2>1, <2>2, <2>3, <2>4
  <1>5. CASE Connect(c)
    <2> USE <1>5 DEF Connect, SendsTo
    <2>0. PICK r \in request[c], id \in identity[c] :
              forwarded' = [forwarded EXCEPT ![c] = UpstreamHeaders(r, id)]
      OBVIOUS
    <2>1. r \in Request /\ id \in Identities
      BY RequestsTyped DEF ProxyTypeOK
    <2>2. ProxyTypeOK'
      BY <2>0, <2>1, UpstreamHeadersRight DEF ProxyTypeOK, Goto, Places
    <2>3. PermitsAccounted'
      BY GotoCounts DEF PermitsAccounted, Places
    <2>4. OpenInService' /\ ForwardedAsOwner'
      BY <2>0, <2>1, UpstreamHeadersRight DEF ProxyTypeOK, Goto, OpenInService, ForwardedAsOwner
    <2>5. HeadersEndToEnd'
      BY <2>0, <2>1, UpstreamHeadersRight DEF ProxyTypeOK, Goto, HeadersEndToEnd, OpenInService
    <2> QED
      BY <2>2, <2>3, <2>4, <2>5
  <1>6. CASE BadGateway(c)
    <2> USE <1>6 DEF BadGateway
    <2>1. ProxyTypeOK'
      BY LocalHeadersRight DEF ProxyTypeOK, Goto, Release, Places
    <2>2. PermitsAccounted'
      BY GotoCounts DEF PermitsAccounted, Places
    <2>3. OpenInService' /\ ForwardedAsOwner'
      BY DEF ProxyTypeOK, Goto, Release, OpenInService, ForwardedAsOwner
    <2>4. HeadersEndToEnd'
      BY LocalHeadersRight DEF ProxyTypeOK, Goto, Release, HeadersEndToEnd
    <2> QED
      BY <2>1, <2>2, <2>3, <2>4
  <1>7. CASE UpstreamAnswers(c)
    <2> USE <1>7 DEF UpstreamAnswers
    <2>0. PICK a \in Answers : response' = [response EXCEPT ![c] = ResponseHeaders(a)]
      OBVIOUS
    <2>1. a \in Answer
      BY RequestsTyped
    <2>2. ProxyTypeOK'
      BY <2>0, <2>1, ResponseHeadersRight DEF ProxyTypeOK, Goto, Places
    <2>3. PermitsAccounted'
      BY GotoCounts DEF PermitsAccounted, Places
    <2>4. OpenInService' /\ ForwardedAsOwner'
      BY DEF ProxyTypeOK, Goto, OpenInService, ForwardedAsOwner
    <2>5. HeadersEndToEnd'
      BY <2>0, <2>1, ResponseHeadersRight DEF ProxyTypeOK, Goto, HeadersEndToEnd
    <2> QED
      BY <2>2, <2>3, <2>4, <2>5
  <1> QED
    BY <1>1, <1>2, <1>3, <1>4, <1>5, <1>6, <1>7 DEF Handle

\* Every step of the proxy, its clients and the socket path keeps the invariant.
LEMMA StepProxy == ProxyInv /\ [Next]_vars => ProxyInv'
  <1> SUFFICES ASSUME ProxyInv, [Next]_vars PROVE ProxyInv'
    OBVIOUS
  <1>1. ASSUME NEW c \in Connections, Accept(c) PROVE ProxyInv'
    BY <1>1, AcceptProxy
  <1>2. ASSUME NEW c \in Connections, Handle(c) PROVE ProxyInv'
    BY <1>2, HandleProxy
  <1>3. ASSUME NEW c \in Connections, ClientGone(c) PROVE ProxyInv'
    BY <1>3, EndsProxy DEF ClientGone
  <1> USE DEF ProxyInv, local
  <1>4. ASSUME NEW c \in Connections, UpstreamCloses(c) PROVE ProxyInv'
    <2> USE <1>4 DEF UpstreamCloses
    <2>1. ProxyTypeOK' /\ Live' = Live
      BY DEF ProxyTypeOK, Live
    <2>2. OpenInService' /\ ForwardedAsOwner' /\ HeadersEndToEnd'
      BY DEF ProxyTypeOK, OpenInService, ForwardedAsOwner, HeadersEndToEnd
    <2> QED
      BY <2>1, <2>2 DEF PermitsAccounted
  <1>5. CASE ShutdownSignal \/ SocketChanges \/ UNCHANGED vars
    <2>1. UNCHANGED <<permits, conn, upstream, local>>
      BY <1>5 DEF ShutdownSignal, SocketChanges, vars
    <2>2. ProxyTypeOK'
      BY <1>5, <2>1 DEF ProxyTypeOK, ShutdownSignal, SocketChanges, vars
    <2>3. Live' = Live
      BY <2>1 DEF Live
    <2>4. OpenInService' /\ ForwardedAsOwner' /\ HeadersEndToEnd'
      BY <2>1 DEF OpenInService, ForwardedAsOwner, HeadersEndToEnd
    <2> QED
      BY <2>1, <2>2, <2>3, <2>4 DEF PermitsAccounted
  <1>6. CASE Stop
    <2> USE <1>6 DEF Stop
    <2>1. Live' = {}
      BY DEF ProxyTypeOK, Live, Places
    <2>2. PermitsAccounted'
      BY <2>1, FS_EmptySet, MaxConnectionsNat DEF PermitsAccounted
    <2>3. ProxyTypeOK'
      BY LocalHeadersRight, MaxConnectionsNat DEF ProxyTypeOK
    <2>4. OpenInService' /\ ForwardedAsOwner'
      BY DEF ProxyTypeOK, OpenInService, ForwardedAsOwner
    <2>5. HeadersEndToEnd'
      BY LocalHeadersRight, <2>1 DEF ProxyTypeOK, HeadersEndToEnd, Live, Places
    <2> QED
      BY <2>2, <2>3, <2>4, <2>5
  <1> QED
    BY <1>1, <1>2, <1>3, <1>4, <1>5, <1>6 DEF Next

-----------------------------------------------------------------------------
(* Theorems.                                                               *)

\* The invariant holds in every reachable state.
THEOREM ProxyInvariance == Spec => []ProxyInv
  BY InitProxy, StepProxy, PTL DEF Spec

\* For any number of connections and permits, no way a connection may end (time-outs,
\* errors, a client that leaves, an aborted drain) loses or doubles a permit.
THEOREM PermitsAreAccounted == Spec => []PermitsAccounted
  <1>1. ProxyInv => PermitsAccounted
    BY DEF ProxyInv
  <1> QED
    BY <1>1, ProxyInvariance, PTL

\* Whatever requests clients send, what goes upstream is admitted there as its owner's.
THEOREM AlwaysAsOwner == Spec => []ForwardedAsOwner
  <1>1. ProxyInv => ForwardedAsOwner
    BY DEF ProxyInv
  <1> QED
    BY <1>1, ProxyInvariance, PTL

\* Whatever requests and answers there are, hop-by-hop fields stay on their hop and
\* the proxy's security headers win.
THEOREM AlwaysEndToEnd == Spec => []HeadersEndToEnd
  <1>1. ProxyInv => HeadersEndToEnd
    BY DEF ProxyInv
  <1> QED
    BY <1>1, ProxyInvariance, PTL

\* Type correctness: in particular the counters stay within their bounds, so that no
\* permit is created, and no connection is in a place the handler does not have.
THEOREM ProxyTyped == Spec => []ProxyTypeOK
  <1>1. ProxyInv => ProxyTypeOK
    BY DEF ProxyInv
  <1> QED
    BY <1>1, ProxyInvariance, PTL
=============================================================================
