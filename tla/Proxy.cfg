SPECIFICATION FairSpec
CONSTANTS
    Connections = {c1, c2, c3}
    MaxConnections = 2
    Identities = {i1, i2}
    Requests <- MCRequests
    Answers <- MCAnswers
INVARIANTS
    ProxyTypeOK
    PermitsAccounted
    ForwardedAsOwner
    HeadersEndToEnd
PROPERTIES
    UpstreamLearns
