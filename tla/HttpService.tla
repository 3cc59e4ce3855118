---------------------------- MODULE HttpService ----------------------------
(***************************************************************************)
(* What one connection of the key-value HTTP server promises its client:   *)
(* requests are answered one by one, in order, each with the status and    *)
(* the content its own text calls for, and the connection stays open       *)
(* exactly when the request allows it.  There is no parser and no buffer   *)
(* here; HttpReader, which has both, implements this specification.        *)
(*                                                                         *)
(* A request is its start line, its header lines and its body.  `trusted`  *)
(* says that nothing has happened yet that releases the server from the    *)
(* promise; once it is FALSE only the shape of the answers is promised.    *)
(***************************************************************************)
EXTENDS Integers, Sequences

CONSTANTS
    Requests,       \* the requests a client may send
    MaxRequests,    \* bound: requests on one connection
    InitialBuffer   \* size of the read buffer of a new connection

VARIABLES sent, answers, open, trusted

vars == <<sent, answers, open, trusted>>

-----------------------------------------------------------------------------
(* Requests and their text, in symbols.  A start line, a header line and a *)
(* byte of a body are one symbol each, the terminators are two.            *)

CRLF       == <<<<"CR">>, <<"LF">>>>
Line(v)    == <<"line", v>>
Field(h)   == <<"header", h>>

\* The text of request r: a start line, header lines, an empty line, a body.
Text(r) ==
    <<Line(r.line)>> \o CRLF
      \o [i \in 1 .. 3 * Len(r.headers) |->
            IF i % 3 = 1 THEN Field(r.headers[(i + 2) \div 3])
            ELSE CRLF[IF i % 3 = 2 THEN 1 ELSE 2]]
      \o CRLF \o r.body

Has(headers, h) == \E i \in 1 .. Len(headers) : headers[i] = h
Named(headers, n) == {i \in 1 .. Len(headers) : headers[i][1] = n}

\* The methods whose body is read.
WithBody == {"POST", "PUT"}

-----------------------------------------------------------------------------
\* The status a well-formed request is answered with: 200 for a stored key,
\* 404 for one that is not stored, 400 if no number is asked for.
LookupStatus(query) ==
    CASE query = "stored" -> 200 [] query = "absent" -> 404 [] OTHER -> 400

\* The status the text of r calls for: 0 stands for "the callback decides".
SyntaxStatus(r) ==
    CASE \/ r.line.method \notin {"GET", "DELETE"} \cup WithBody
         \/ r.line.path = "empty" \/ r.line.query = "malformed" -> 400
      [] r.line.version \notin {"1.0", "1.1"} -> 505
      [] Named(r.headers, "malformed") # {} -> 400
      [] OTHER -> 0

\* HTTP/1.1 connections persist unless closed, HTTP/1.0 ones only on request.
Persists(r) ==
    /\ SyntaxStatus(r) = 0
    /\ IF r.line.version = "1.1" THEN ~Has(r.headers, <<"Connection", "close">>)
       ELSE Has(r.headers, <<"Connection", "Keep-Alive">>)

\* The answer to r: the status, and what the callback was given.
Reply(r) ==
    IF SyntaxStatus(r) # 0 THEN [status |-> SyntaxStatus(r)]
    ELSE [status |-> LookupStatus(r.line.query), method |-> r.line.method,
          path |-> r.line.path,
          body |-> IF r.line.method \in WithBody THEN r.body ELSE <<>>,
          keep |-> r.line.version = "1.0" /\ Persists(r)]

\* Request i is not longer than the buffer was when it arrived.
Fits(i) ==
    \/ Len(Text(sent[i])) <= InitialBuffer
    \/ \E j \in 1 .. i - 1 : Len(Text(sent[i])) <= Len(Text(sent[j]))

\* The answers to request i.  The path of a request that outgrows the buffer may
\* be garbage.
Replies(i) ==
    LET a == Reply(sent[i]) IN
    {a} \cup {[b EXCEPT !.path = "garbage"] :
                 b \in {c \in {a} : "path" \in DOMAIN c /\ ~Fits(i)}}

-----------------------------------------------------------------------------
Init ==
    /\ sent = <<>>
    /\ answers = <<>>
    /\ open = TRUE
    /\ trusted = TRUE

Send(r) ==
    /\ Len(sent) < MaxRequests
    /\ sent' = Append(sent, r)
    /\ UNCHANGED <<answers, open>>

\* The next request is answered; the connection persists if its text says so.
Answer ==
    LET i == Len(answers) + 1 IN
    /\ open
    /\ i <= Len(sent)
    /\ \E a \in Replies(i) : answers' = Append(answers, a)
    /\ open' = Persists(sent[i])
    /\ UNCHANGED sent

\* The connection ends: end of stream, reset, timeout or an exception.
Close ==
    /\ open
    /\ ~open'
    /\ UNCHANGED <<sent, answers>>

\* Without trust: answers are still appended one by one while the connection
\* is open.
Untrusted ==
    /\ ~trusted'
    /\ open' => open
    /\ Len(answers') <= Len(answers) + 1
    /\ SubSeq(answers', 1, Len(answers)) = answers
    /\ answers' # answers => open
    /\ \/ sent' = sent
       \/ \E r \in Requests : sent' = Append(sent, r)

Next ==
    /\ trusted' => trusted
    /\ \/ \E r \in Requests : Send(r)
       \/ Answer \/ Close \/ Untrusted

Spec == Init /\ [][Next]_vars
=============================================================================
