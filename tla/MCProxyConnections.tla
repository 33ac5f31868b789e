------------------------- MODULE MCProxyConnections -------------------------
(* Instances of ProxyConnections for TLC.                                  *)
EXTENDS ProxyConnections, TLC

Plain == [path |-> "/v1/transcribe", method |-> "POST", tooLong |-> FALSE,
          headers |-> {"content-length"}, tokens |-> {}]

\* One request per answer of the proxy itself.
LocalRequests ==
    {[Plain EXCEPT !.headers = @ \cup {"authorization"}],
     [Plain EXCEPT !.path = "/health", !.method = "GET"],
     [Plain EXCEPT !.headers = @ \cup {"upgrade"}],
     [Plain EXCEPT !.method = "GET"],
     [Plain EXCEPT !.path = "/"],
     [Plain EXCEPT !.tooLong = TRUE]}

\* A client that sets fields of each kind and one that also names them, the proxy's
\* own included, in its Connection header.
ForwardedRequests ==
    LET sent == {"connection", "keep-alive", "set-cookie", "x-forwarded-proto", IdentityHeader}
    IN  {[Plain EXCEPT !.path = "/v1/queue/status", !.method = "GET", !.headers = sent],
         [Plain EXCEPT !.headers = @ \cup sent,
                       !.tokens = {"set-cookie", "x-forwarded-proto", IdentityHeader}]}

MCRequests == LocalRequests \cup ForwardedRequests

MCAnswers ==
    {[headers |-> {"server", "content-length", "set-cookie", "connection",
                   "keep-alive", "x-frame-options"}, tokens |-> t] :
        t \in {{}, {"set-cookie", "referrer-policy"}}}
=============================================================================
