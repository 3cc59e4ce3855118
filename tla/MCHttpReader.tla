--------------------------- MODULE MCHttpReader ---------------------------
\* A connection that carries requests of every kind the parser tells apart.
EXTENDS HttpReader

LOCAL Req(method, path, query, version, headers, body) ==
    [line |-> [method |-> method, path |-> path, query |-> query, version |-> version],
     headers |-> headers, body |-> body]

Host  == <<"Host", "localhost">>
Bytes == <<<<"byte", "x">>, <<"byte", "y">>>>

\* GET requests with each outcome, both versions, and malformed lines.
Gets ==
    {Req("GET", "p", "stored", "1.1", <<Host>>, <<>>),
     Req("GET", "p", "stored", "1.1", <<<<"Connection", "close">>>>, <<>>),
     Req("DELETE", "p", "absent", "1.0", <<Host>>, <<>>),
     Req("GET", "p", "junk", "1.0", <<<<"Connection", "Keep-Alive">>>>, <<>>),
     Req("GET", "p", "malformed", "2.0", <<Host>>, <<>>),
     Req("GET", "p", "stored", "2.0", <<Host>>, <<>>),
     Req("PATCH", "p", "stored", "1.1", <<Host>>, <<>>)}

\* Requests with bodies, without headers, with malformed headers.
Others ==
    {Req("POST", "p", "stored", "1.1", <<<<"Content-Length", 1>>>>, SubSeq(Bytes, 1, 1)),
     Req("PUT", "p", "nokey", "1.1", <<Host, <<"Content-Length", 2>>>>, Bytes),
     Req("POST", "p", "stored", "1.1", <<Host>>, <<>>),
     Req("POST", "p", "stored", "1.1", <<<<"Content-Length", Invalid>>>>, <<>>),
     Req("GET", "p", "stored", "1.1", <<<<"Content-Length", 1>>>>, SubSeq(Bytes, 2, 2)),
     Req("GET", "p", "stored", "1.1", <<<<"malformed", "">>>>, <<>>),
     Req("GET", "p", "stored", "1.1", <<>>, <<>>)}

AllRequests == Gets \cup Others
=============================================================================
