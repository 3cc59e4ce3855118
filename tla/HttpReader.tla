----------------------------- MODULE HttpReader -----------------------------
(***************************************************************************)
(* One connection of the key-value HTTP server, from the bytes its client  *)
(* sends to the answers: ConnectionHandler::readRequest with its buffer,   *)
(* HttpRequestParser, the callback, and the loop of operator().  HttpWorker*)
(* models the same handler from outside (descriptors, coroutines, events)  *)
(* and leaves the bytes out.                                               *)
(*                                                                         *)
(* The stream is a sequence of symbols (module HttpService), read in       *)
(* pieces of any size.  Three things happen to it that a reader of the     *)
(* code has to argue about: the parser is shown one symbol more than was   *)
(* read, the buffer keeps what earlier requests left in it, and it moves   *)
(* when it grows.                                                          *)
(***************************************************************************)
EXTENDS Integers, Sequences

CONSTANTS
    Requests,       \* the requests a client may send
    MaxRequests,    \* bound: requests on one connection
    InitialBuffer   \* initial_buffer_size, in symbols

ASSUME HttpReaderAssumption ==
    /\ MaxRequests \in Nat /\ InitialBuffer \in Nat \ {0}
    /\ \A r \in Requests : /\ Len(r.headers) \in Nat
                           /\ r.body \in Seq({r.body[i] : i \in 1 .. Len(r.body)})

VARIABLES
    sent,       \* the requests sent so far
    answers,    \* the answers written so far
    inq,        \* symbols received and not yet read
    peer,       \* what the socket knows of the client
    read_buff,  \* read_buff_
    read_idx,   \* read_idx of readRequest()
    parser,     \* the HttpRequestParser of readRequest()
    pc,         \* where the handler is
    short,      \* history: a read stopped one symbol before a request's end
    ahead       \* history: a request was sent before the last was answered

stream == <<sent, inq, peer, ahead>>
vars   == <<stream, answers, read_buff, read_idx, parser, pc, short>>

\* How operator() ends: end of stream, another return, an exception.
Ended == pc \in {"eof", "closed", "raised"}

\* headers_.find(): insert() kept the first header of a name.
Value(headers, name, default) ==
    LET at == {i \in 1 .. Len(headers) : headers[i][1] = name}
    IN  IF at = {} THEN default
        ELSE headers[CHOOSE i \in at : \A j \in at : i <= j][2]

Absent  == -2       \* no Content-Length
Invalid == -1       \* a Content-Length that is not a number

\* The client sends a body its method and its headers do not announce.
Misframed(r) ==
    LET length == Value(r.headers, "Content-Length", Absent) IN
    r.body # <<>> /\ (r.line.method \in {"GET", "DELETE"} \/ length # Len(r.body))

\* Nothing has put the handler out of step with the stream.
InStep ==
    /\ ~short
    /\ ~ahead
    /\ \A i \in 1 .. Len(sent) : ~Misframed(sent[i])

Service == INSTANCE HttpService WITH open <- ~Ended, trusted <- InStep

-----------------------------------------------------------------------------
(* HttpRequestParser.                                                      *)

NUL     == <<"NUL">>
CRLF    == Service!CRLF
npos    == -1
Thrown  == 500      \* status: an exception operator() does not catch

NewParser ==
    [state |-> "READING_REQUEST_LINE", parsed_total |-> 0, line |-> <<>>,
     path |-> "unset", headers |-> <<>>, body_length |-> 0, body |-> <<>>, status |-> 0]

\* string_view::find: how many symbols precede the first occurrence.
Find(s, pattern) ==
    LET at == {i \in 0 .. Len(s) - Len(pattern) :
                  SubSeq(s, i + 1, i + Len(pattern)) = pattern}
    IN  IF at = {} THEN npos ELSE CHOOSE i \in at : \A j \in at : i <= j

\* string_view::remove_prefix.
From(s, n) == SubSeq(s, n + 1, Len(s))

\* What parse_url() throws: a query parameter without '=', an empty path.
UrlStatus(line) ==
    IF line.query = "malformed" \/ line.path = "empty" THEN 400 ELSE 0

\* What parse_start_line() throws, 0 if nothing: the request token is looked at
\* first, then the target, then the version.
StartLineStatus(s) ==
    IF Len(s) # 1 \/ s[1][1] # "line" THEN 400
    ELSE LET line == s[1][2] IN
         CASE line.method \notin {"GET", "POST", "DELETE", "PUT"} -> 400
           [] UrlStatus(line) # 0 -> UrlStatus(line)
           [] line.version \notin {"1.0", "1.1"} -> 505
           [] OTHER -> 0

\* parse() in READING_REQUEST_LINE.  path_ is a view into the buffer.
ParseLine(p, message) ==
    LET end  == Find(message, CRLF)
        line == SubSeq(message, 1, end)
    IN  IF p.state # "READING_REQUEST_LINE" \/ end = npos THEN p
        ELSE IF StartLineStatus(line) # 0
        THEN [p EXCEPT !.state = "ERROR", !.status = StartLineStatus(line)]
        ELSE [p EXCEPT !.state = "READING_HEADERS", !.parsed_total = end + 2,
                       !.line = line[1][2], !.path = "view"]

\* parse_headers(): every line up to the empty one is a header with a colon.
HeadersParse(s) ==
    /\ Len(s) % 3 = 0
    /\ \A i \in 1 .. Len(s) :
          CASE i % 3 = 1 -> s[i][1] = "header" /\ s[i][2][1] # "malformed"
            [] i % 3 = 2 -> s[i] = CRLF[1]
            [] OTHER     -> s[i] = CRLF[2]

HeadersSkipSearched(p, message) ==   \* mutant: what was searched is not searched again
    IF p.state # "READING_HEADERS" THEN p
    ELSE IF Find(message, CRLF \o CRLF) = npos
    THEN [p EXCEPT !.parsed_total = @ + Len(message)]
    ELSE [p EXCEPT !.state = "DONE"]

\* parse() in READING_HEADERS; std::stoull throws std::invalid_argument.
ParseHeaders(p, message) ==
    LET end     == Find(message, CRLF \o CRLF)
        lines   == SubSeq(message, 1, end + 2)
        headers == [i \in 1 .. Len(lines) \div 3 |-> lines[3 * i - 2][2]]
        length  == Value(headers, "Content-Length", Absent)
    IN  IF p.state # "READING_HEADERS" \/ end = npos THEN p
        ELSE IF ~HeadersParse(lines) THEN [p EXCEPT !.state = "ERROR", !.status = 400]
        ELSE IF p.line.method \in {"GET", "DELETE"} \/ length = Absent
        THEN [p EXCEPT !.headers = headers, !.state = "DONE"]
        ELSE IF length = Invalid
        THEN [p EXCEPT !.state = "ERROR", !.status = Thrown]
        ELSE [p EXCEPT !.headers = headers, !.state = "READING_BODY",
                       !.body_length = length, !.parsed_total = @ + end + 4]

\* parse() in READING_BODY.
ParseBody(p, message) ==
    IF p.state # "READING_BODY" \/ Len(message) < p.body_length THEN p
    ELSE [p EXCEPT !.state = "DONE", !.body = SubSeq(message, 1, p.body_length)]

\* HttpRequestParser::parse.
Parse(p, message) ==
    LET p1 == ParseLine(p, From(message, p.parsed_total))
        p2 == ParseHeaders(p1, From(message, p1.parsed_total))
    IN  ParseBody(p2, From(message, p2.parsed_total))

-----------------------------------------------------------------------------
(* The callback and operator().                                            *)

\* HttpKVStoreServer::serveRequest: the status for a query.
ServeStatus(query) ==
    CASE query = "nokey"  -> 400     \* getQueryParameter("key") is empty
      [] query = "junk"   -> 400     \* std::from_chars fails
      [] query = "absent" -> 404     \* KVStore::get returns nothing
      [] query = "stored" -> 200

KeepAliveSwapped(p) ==   \* mutant: the versions are swapped
    LET connection == Value(p.headers, "Connection", "none") IN
    IF p.line.version = "1.1" THEN connection # "Keep-Alive" ELSE connection = "close"

\* shouldCloseAfterResponse().
ShouldClose(p) ==
    LET connection == Value(p.headers, "Connection", "none") IN
    IF p.line.version = "1.0" THEN connection # "Keep-Alive" ELSE connection = "close"

\* The paths the callback may see.  buildRequest() copies path_: a view into the
\* buffer as it was before it grew reads freed memory.
BuiltPaths(p) == {p.line.path} \cup {g \in {"garbage"} : p.path = "dangling"}

\* What the callback is given and answers, with the header operator() adds.
Responses(p) ==
    {[status |-> ServeStatus(p.line.query), method |-> p.line.method, path |-> path,
      body |-> p.body, keep |-> p.line.version = "1.0" /\ ~ShouldClose(p)] :
        path \in BuiltPaths(p)}

\* writeResponse(): fails on a connection the client has reset.
Write(response, close) ==
    IF peer = "rst" THEN pc' \in {"closed", "raised"} /\ UNCHANGED answers
    ELSE /\ answers' = Append(answers, response)
         /\ pc' = IF close THEN "closed" ELSE "read"

FinishKeepsTotal(p) ==   \* mutant: the parser is not a new one
    /\ CASE p.status = 0      -> \E r \in Responses(p) : Write(r, ShouldClose(p))
         [] p.status = Thrown -> pc' = "raised" /\ UNCHANGED answers
         [] OTHER             -> Write([status |-> p.status], TRUE)
    /\ read_idx' = 0
    /\ parser' = [NewParser EXCEPT !.parsed_total = p.parsed_total]

\* A request is read: it is served, and the next one is read into the same
\* buffer from its beginning, or a parse error is answered, or an exception
\* leaves operator().
Finish(p) ==
    /\ CASE p.status = 0      -> \E r \in Responses(p) : Write(r, ShouldClose(p))
         [] p.status = Thrown -> pc' = "raised" /\ UNCHANGED answers
         [] OTHER             -> Write([status |-> p.status], TRUE)
    /\ read_idx' = 0
    /\ parser' = NewParser

GrowsLate(buff, idx) == idx > Len(buff)   \* mutant: the full buffer does not grow

\* The test for a full buffer.
Full(buff, idx) == idx >= Len(buff)

\* The end of an iteration of readRequest(): the first idx symbols of the buffer
\* have been read, parse() is shown one more, and a full buffer is doubled, which
\* moves it.
Iterate(buff, idx) ==
    \E p \in {Parse(parser, SubSeq(Append(buff, NUL), 1, idx + 1))} :
      IF p.state \in {"DONE", "ERROR"}
      THEN Finish(p) /\ read_buff' = buff
      ELSE /\ read_idx' = idx
           /\ pc' = "read"
           /\ IF Full(buff, idx)
              THEN /\ read_buff' = buff \o [i \in 1 .. Len(buff) |-> NUL]
                   /\ parser' = [p EXCEPT !.path = IF @ = "view" THEN "dangling" ELSE @]
              ELSE read_buff' = buff /\ parser' = p
           /\ UNCHANGED answers

\* The request being read ends one symbol after idx.
OneShort(idx) ==
    /\ Len(answers) < Len(sent)
    /\ idx = Len(Service!Text(sent[Len(answers) + 1])) - 1

\* read() returns n symbols.
ReadSome(n) ==
    /\ pc = "read"
    /\ n <= Len(read_buff) - read_idx
    /\ Iterate(SubSeq(read_buff, 1, read_idx) \o SubSeq(inq, 1, n)
                 \o From(read_buff, read_idx + n), read_idx + n)
    /\ inq' = From(inq, n)
    /\ short' = (short \/ OneShort(read_idx + n))
    /\ UNCHANGED <<sent, peer, ahead>>

\* read() fails with EAGAIN: yield().
ReadAgain ==
    /\ pc = "read"
    /\ inq = <<>>
    /\ peer = "open"
    /\ read_idx < Len(read_buff)
    /\ pc' = "wait"
    /\ UNCHANGED <<stream, answers, read_buff, read_idx, parser, short>>

\* The worker resumes the coroutine, which goes on to parse() what it had.
Resume ==
    /\ pc = "wait"
    /\ inq # <<>> \/ peer # "open"
    /\ Iterate(read_buff, read_idx)
    /\ UNCHANGED <<stream, short>>

\* The worker resumes the coroutine because the connection has timed out:
\* TimeoutException, whatever has arrived meanwhile.
Timeout ==
    /\ pc = "wait"
    /\ pc' = "closed"
    /\ UNCHANGED <<stream, answers, read_buff, read_idx, parser, short>>

\* read() returns 0: the end of the stream, or no room was offered.
ReadEof ==
    /\ pc = "read"
    /\ (inq = <<>> /\ peer = "fin") \/ read_idx = Len(read_buff)
    /\ pc' = "eof"
    /\ UNCHANGED <<stream, answers, read_buff, read_idx, parser, short>>

\* read() fails with ECONNRESET: ReadingException leaves operator().
ReadFails ==
    /\ pc = "read"
    /\ inq = <<>>
    /\ peer = "rst"
    /\ pc' = "raised"
    /\ UNCHANGED <<stream, answers, read_buff, read_idx, parser, short>>

-----------------------------------------------------------------------------
(* The client.                                                             *)

Send(r) ==
    /\ peer = "open"
    /\ ~Ended
    /\ Len(sent) < MaxRequests
    /\ sent' = Append(sent, r)
    /\ inq' = inq \o Service!Text(r)
    /\ ahead' = (ahead \/ Len(answers) < Len(sent))
    /\ UNCHANGED <<peer, answers, read_buff, read_idx, parser, pc, short>>

HangUp ==
    /\ peer = "open"
    /\ ~Ended
    /\ peer' \in {"fin", "rst"}
    /\ UNCHANGED <<sent, inq, ahead, answers, read_buff, read_idx, parser, pc, short>>

-----------------------------------------------------------------------------
Init ==
    /\ sent = <<>> /\ answers = <<>> /\ inq = <<>> /\ peer = "open"
    /\ read_buff = [i \in 1 .. InitialBuffer |-> NUL]
    /\ read_idx = 0
    /\ parser = NewParser
    /\ pc = "read"
    /\ short = FALSE /\ ahead = FALSE

Handler ==
    \/ \E n \in 1 .. Len(inq) : ReadSome(n)
    \/ ReadAgain \/ Resume \/ ReadEof \/ ReadFails

Next ==
    \/ Handler
    \/ Timeout
    \/ \E r \in Requests : Send(r)
    \/ HangUp

Spec == Init /\ [][Next]_vars

\* The worker resumes a coroutine whose descriptor is ready, and a coroutine
\* runs on.  Nothing is assumed of the client, or of timeouts.
FairSpec == Spec /\ WF_vars(Handler)

-----------------------------------------------------------------------------
\* Types; what the parser has consumed lies within what it was shown, so that
\* no remove_prefix() leaves the message.
TypeOK ==
    /\ Len(sent) <= MaxRequests
    /\ peer \in {"open", "fin", "rst"}
    /\ pc \in {"read", "wait", "eof", "closed", "raised"}
    /\ parser.state \in {"READING_REQUEST_LINE", "READING_HEADERS", "READING_BODY"}
    /\ parser.path \in {"unset", "view", "dangling"}
    /\ parser.parsed_total <= read_idx + 1
    /\ read_idx <= Len(read_buff)

\* The handler takes the end of a stream for one only when the client has shut
\* its side down: read() is never offered a full buffer, at any size.
EofIsReal == pc = "eof" => peer = "fin"

\* The answers are the ones HttpService promises, in order, with the keep-alive
\* decision of each request, as long as no read stopped one symbol before the
\* end of a request, no request was sent ahead, and every body was announced.
ServicePromise == Service!Spec

\* A request with at least one header that is received completely is answered,
\* or its connection ends, as long as the handler is in step.
Answered ==
    \A i \in 1 .. MaxRequests :
      (InStep /\ Len(sent) >= i /\ sent[i].headers # <<>>)
        ~> (Len(answers) >= i \/ Ended \/ ~InStep)
=============================================================================
