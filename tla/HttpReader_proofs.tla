------------------------- MODULE HttpReader_proofs -------------------------
(***************************************************************************)
(* The buffer of one HTTP connection, for every set of requests, every     *)
(* initial size and every way the stream is cut into reads: the parser     *)
(* never skips past what it was shown, and read() is never offered a full  *)
(* buffer, so that its 0 always is the end of the stream.                  *)
(***************************************************************************)
EXTENDS HttpReader, FiniteSetTheorems, SequenceTheorems, TLAPS

\* The symbols the text of a request is made of.
SymbolsOf(r) ==
    {Service!Line(r.line)} \cup {Service!Field(r.headers[k]) : k \in 1 .. Len(r.headers)}
      \cup {r.body[i] : i \in 1 .. Len(r.body)}
Symbols == {NUL, CRLF[1], CRLF[2]} \cup UNION {SymbolsOf(r) : r \in Requests}

Reading == {"READING_REQUEST_LINE", "READING_HEADERS", "READING_BODY"}
Paths   == {"unset", "view", "dangling"}

\* A parser that has consumed at most n symbols.
ParserOK(p, n) ==
    /\ DOMAIN p = DOMAIN NewParser
    /\ p.state \in Reading \cup {"DONE", "ERROR"}
    /\ p.path \in Paths
    /\ p.parsed_total \in Nat /\ p.parsed_total <= n

\* The buffer: it holds the first read_idx symbols of a request, and there is
\* room for one more whenever read() is about to be called.
BufferOK ==
    /\ read_buff \in Seq(Symbols) /\ Len(read_buff) > 0
    /\ read_idx \in Nat /\ read_idx <= Len(read_buff)
    /\ pc \in {"read", "wait"} => read_idx < Len(read_buff)

\* The inductive invariant.
IInv ==
    /\ sent \in Seq(Requests) /\ Len(sent) <= MaxRequests
    /\ inq \in Seq(Symbols)
    /\ peer \in {"open", "fin", "rst"}
    /\ pc \in {"read", "wait", "eof", "closed", "raised"}
    /\ BufferOK
    /\ ParserOK(parser, read_idx + 1) /\ parser.state \in Reading
    /\ EofIsReal

-----------------------------------------------------------------------------
(* Sequences of symbols.                                                   *)

\* A nonempty set of numbers has a least one: the intervals 0 .. i are finite
\* sets, which strict inclusion orders well.
LEMMA LeastNatural ==
    ASSUME NEW T, T \subseteq Nat, T # {}
    PROVE  \E i \in T : \A j \in T : i <= j
  <1>1. PICK U : U = {0 .. i : i \in T}
    OBVIOUS
  <1>2. U \subseteq FiniteSubsetsOf(Nat) /\ U # {}
    <2>1. ASSUME NEW i \in T PROVE 0 .. i \in FiniteSubsetsOf(Nat)
      BY FS_Interval DEF FiniteSubsetsOf
    <2> QED
      BY <1>1, <2>1
  <1>3. PICK X \in U : \A Y \in U : <<Y, X>> \notin StrictSubsetOrdering(Nat)
    <2>1. IsWellFoundedOn(StrictSubsetOrdering(Nat), FiniteSubsetsOf(Nat))
      BY FS_StrictSubsetOrderingWellFounded
    <2> QED
      BY <1>2, <2>1, WFMin
  <1>4. PICK i \in T : X = 0 .. i
    BY <1>1
  <1>5. ASSUME NEW j \in T, j < i PROVE FALSE
    <2>1. 0 .. j \in U /\ 0 .. j \in SUBSET Nat /\ X \in SUBSET Nat
      BY <1>1, <1>2 DEF FiniteSubsetsOf
    <2>2. 0 .. j \subseteq X
      BY <1>4, <1>5
    <2>3. 0 .. j # X
      <3>1. i \in X /\ i \notin 0 .. j
        BY <1>4, <1>5
      <3> QED
        BY <3>1
    <2>4. <<0 .. j, X>> \in StrictSubsetOrdering(Nat)
      BY <2>1, <2>2, <2>3 DEF StrictSubsetOrdering
    <2> QED
      BY <1>3, <2>1, <2>4
  <1> QED
    BY <1>5

\* string_view::find returns npos, or a place where the pattern fits.
LEMMA FindFits ==
    ASSUME NEW s, Len(s) \in Nat, NEW pattern, Len(pattern) \in Nat
    PROVE  \/ Find(s, pattern) = npos
           \/ Find(s, pattern) \in Nat /\ Find(s, pattern) + Len(pattern) <= Len(s)
  <1>1. PICK at : at = {i \in 0 .. Len(s) - Len(pattern) :
                           SubSeq(s, i + 1, i + Len(pattern)) = pattern}
    OBVIOUS
  <1>2. Find(s, pattern) = IF at = {} THEN npos ELSE CHOOSE i \in at : \A j \in at : i <= j
    BY <1>1 DEF Find
  <1>3. CASE at = {}
    BY <1>2, <1>3
  <1>4. CASE at # {}
    <2>1. at \subseteq Nat
      BY <1>1
    <2>2. \E i \in at : \A j \in at : i <= j
      BY <1>4, <2>1, LeastNatural
    <2>3. Find(s, pattern) \in at
      BY <1>2, <1>4, <2>2
    <2>4. Find(s, pattern) \in 0 .. Len(s) - Len(pattern)
      BY <1>1, <2>3
    <2> QED
      BY <2>4
  <1> QED
    BY <1>3, <1>4

\* remove_prefix(n) leaves the rest.
LEMMA FromSeq ==
    ASSUME NEW S, NEW s \in Seq(S), NEW n \in Nat, n <= Len(s)
    PROVE  From(s, n) \in Seq(S) /\ Len(From(s, n)) = Len(s) - n
  <1>1. Len(s) \in Nat /\ \A i \in n + 1 .. Len(s) : s[i] \in S
    OBVIOUS
  <1>2. /\ SubSeq(s, n + 1, Len(s)) \in Seq(S)
        /\ Len(SubSeq(s, n + 1, Len(s))) =
             IF n + 1 <= Len(s) THEN Len(s) - (n + 1) + 1 ELSE 0
    BY <1>1, SubSeqProperties
  <1> QED
    BY <1>1, <1>2 DEF From

\* The first n symbols.
LEMMA PrefixSeq ==
    ASSUME NEW S, NEW s \in Seq(S), NEW n \in Nat, n <= Len(s)
    PROVE  SubSeq(s, 1, n) \in Seq(S) /\ Len(SubSeq(s, 1, n)) = n
  <1>1. \A i \in 1 .. n : s[i] \in S
    OBVIOUS
  <1> QED
    BY <1>1, SubSeqProperties

\* The text of a request is a sequence of symbols.
LEMMA TextSeq ==
    ASSUME NEW r \in Requests
    PROVE  Service!Text(r) \in Seq(Symbols)
  <1>1. Len(r.headers) \in Nat /\ r.body \in Seq({r.body[i] : i \in 1 .. Len(r.body)})
    BY HttpReaderAssumption
  <1>2. SymbolsOf(r) \subseteq Symbols /\ CRLF[1] \in Symbols /\ CRLF[2] \in Symbols
    BY DEF Symbols
  <1>3. r.body \in Seq(Symbols)
    <2>1. {r.body[i] : i \in 1 .. Len(r.body)} \subseteq Symbols
      BY <1>2 DEF SymbolsOf
    <2> QED
      BY <1>1, <2>1, SeqMonotonic
  <1>4. CRLF \in Seq(Symbols)
    BY <1>2 DEF CRLF, Service!CRLF
  <1>5. <<Service!Line(r.line)>> \in Seq(Symbols)
    BY <1>2 DEF SymbolsOf
  <1>6. [i \in 1 .. 3 * Len(r.headers) |->
            IF i % 3 = 1 THEN Service!Field(r.headers[(i + 2) \div 3])
            ELSE CRLF[IF i % 3 = 2 THEN 1 ELSE 2]] \in Seq(Symbols)
    <2>1. ASSUME NEW i \in 1 .. 3 * Len(r.headers), i % 3 = 1
          PROVE  Service!Field(r.headers[(i + 2) \div 3]) \in Symbols
      <3>1. (i + 2) \div 3 \in 1 .. Len(r.headers)
        BY <1>1
      <3> QED
        BY <1>2, <3>1 DEF SymbolsOf
    <2>2. \A i \in 1 .. 3 * Len(r.headers) :
             (IF i % 3 = 1 THEN Service!Field(r.headers[(i + 2) \div 3])
              ELSE CRLF[IF i % 3 = 2 THEN 1 ELSE 2]) \in Symbols
      BY <1>2, <2>1
    <2>3. 3 * Len(r.headers) \in Nat
      BY <1>1
    <2> QED
      BY <2>2, <2>3
  <1> QED
    BY <1>3, <1>4, <1>5, <1>6 DEF Service!Text, CRLF

-----------------------------------------------------------------------------
(* HttpRequestParser.                                                      *)

\* The fields of a parser.
LEMMA ParserFields ==
    DOMAIN NewParser = {"state", "parsed_total", "line", "path", "headers", "body_length",
                        "body", "status"}
  BY DEF NewParser

\* The start line is consumed with its CRLF, which the message holds.
LEMMA ParseLineFits ==
    ASSUME NEW n \in Nat, NEW p, ParserOK(p, n), NEW message,
           Len(message) = n - p.parsed_total, p.state \in Reading
    PROVE  ParserOK(ParseLine(p, message), n)
  <1>1. /\ p.parsed_total \in Nat /\ p.parsed_total <= n /\ Len(message) \in Nat
        /\ DOMAIN p = DOMAIN NewParser /\ p.path \in Paths
    BY DEF ParserOK
  <1>2. PICK end : end = Find(message, CRLF)
    OBVIOUS
  <1>3. end = npos \/ (end \in Nat /\ end + 2 <= Len(message))
    <2>1. Len(CRLF) = 2
      BY DEF CRLF, Service!CRLF
    <2>2. PICK pattern : pattern = CRLF /\ Len(pattern) = 2
      BY <2>1
    <2>3. Len(pattern) \in Nat
      BY <2>2
    <2>4. \/ Find(message, pattern) = npos
          \/ /\ Find(message, pattern) \in Nat
             /\ Find(message, pattern) + Len(pattern) <= Len(message)
      BY <1>1, <2>3, FindFits
    <2> QED
      BY <1>2, <2>2, <2>4
  <1>4. CASE p.state # "READING_REQUEST_LINE" \/ end = npos
    BY <1>2, <1>4 DEF ParseLine
  <1>5. CASE p.state = "READING_REQUEST_LINE" /\ end # npos
    <2>1. PICK line, status : line = SubSeq(message, 1, end) /\ status = StartLineStatus(line)
      OBVIOUS
    <2>2. CASE status # 0
      <3>1. ParseLine(p, message) = [p EXCEPT !.state = "ERROR", !.status = status]
        BY <1>2, <1>5, <2>1, <2>2 DEF ParseLine
      <3> QED
        BY <1>1, <1>5, <3>1, ParserFields DEF ParserOK
    <2>3. CASE status = 0
      <3>1. ParseLine(p, message) =
              [p EXCEPT !.state = "READING_HEADERS", !.parsed_total = end + 2,
                        !.line = line[1][2], !.path = "view"]
        BY <1>2, <1>5, <2>1, <2>3 DEF ParseLine
      <3>2. end + 2 \in Nat /\ end + 2 <= n
        BY <1>1, <1>3, <1>5
      <3> QED
        BY <1>1, <1>5, <3>1, <3>2, ParserFields DEF ParserOK, Reading, Paths
    <2> QED
      BY <2>2, <2>3
  <1> QED
    BY <1>4, <1>5

\* The headers are consumed with the empty line, which the message holds.
LEMMA ParseHeadersFits ==
    ASSUME NEW n \in Nat, NEW p, ParserOK(p, n), NEW message,
           Len(message) = n - p.parsed_total
    PROVE  ParserOK(ParseHeaders(p, message), n)
  <1>1. /\ p.parsed_total \in Nat /\ p.parsed_total <= n /\ Len(message) \in Nat
        /\ DOMAIN p = DOMAIN NewParser /\ p.path \in Paths
    BY DEF ParserOK
  <1>2. PICK end : end = Find(message, CRLF \o CRLF)
    OBVIOUS
  <1>3. end = npos \/ (end \in Nat /\ end + 4 <= Len(message))
    <2>1. Len(CRLF \o CRLF) = 4
      BY DEF CRLF, Service!CRLF
    <2>2. PICK pattern : pattern = CRLF \o CRLF /\ Len(pattern) = 4
      BY <2>1
    <2>3. Len(pattern) \in Nat
      BY <2>2
    <2>4. \/ Find(message, pattern) = npos
          \/ /\ Find(message, pattern) \in Nat
             /\ Find(message, pattern) + Len(pattern) <= Len(message)
      BY <1>1, <2>3, FindFits
    <2> QED
      BY <1>2, <2>2, <2>4
  <1>4. CASE p.state # "READING_HEADERS" \/ end = npos
    BY <1>2, <1>4 DEF ParseHeaders
  <1>5. CASE p.state = "READING_HEADERS" /\ end # npos
    <2>1. PICK lines, headers, length :
            /\ lines = SubSeq(message, 1, end + 2)
            /\ headers = [i \in 1 .. Len(lines) \div 3 |-> lines[3 * i - 2][2]]
            /\ length = Value(headers, "Content-Length", Absent)
      OBVIOUS
    <2>2. ParseHeaders(p, message) =
            IF ~HeadersParse(lines) THEN [p EXCEPT !.state = "ERROR", !.status = 400]
            ELSE IF p.line.method \in {"GET", "DELETE"} \/ length = Absent
            THEN [p EXCEPT !.headers = headers, !.state = "DONE"]
            ELSE IF length = Invalid
            THEN [p EXCEPT !.state = "ERROR", !.status = Thrown]
            ELSE [p EXCEPT !.headers = headers, !.state = "READING_BODY",
                           !.body_length = length, !.parsed_total = @ + end + 4]
      BY <1>2, <1>5, <2>1 DEF ParseHeaders
    <2>3. p.parsed_total + end + 4 \in Nat /\ p.parsed_total + end + 4 <= n
      BY <1>1, <1>3, <1>5
    <2>4. ParserOK([p EXCEPT !.state = "ERROR", !.status = 400], n)
      BY <1>1, ParserFields DEF ParserOK
    <2>5. ParserOK([p EXCEPT !.headers = headers, !.state = "DONE"], n)
      BY <1>1, ParserFields DEF ParserOK
    <2>6. ParserOK([p EXCEPT !.state = "ERROR", !.status = Thrown], n)
      BY <1>1, ParserFields DEF ParserOK
    <2>7. ParserOK([p EXCEPT !.headers = headers, !.state = "READING_BODY",
                             !.body_length = length, !.parsed_total = @ + end + 4], n)
      BY <1>1, <2>3, ParserFields DEF ParserOK, Reading
    <2> QED
      BY <2>2, <2>4, <2>5, <2>6, <2>7
  <1> QED
    BY <1>4, <1>5

\* The body is looked at without being consumed.
LEMMA ParseBodyFits ==
    ASSUME NEW n \in Nat, NEW p, ParserOK(p, n), NEW message
    PROVE  ParserOK(ParseBody(p, message), n)
  <1>1. CASE p.state # "READING_BODY" \/ Len(message) < p.body_length
    BY <1>1 DEF ParseBody
  <1>2. CASE ~(p.state # "READING_BODY" \/ Len(message) < p.body_length)
    <2>1. PICK body : body = SubSeq(message, 1, p.body_length)
      OBVIOUS
    <2>2. ParseBody(p, message) = [p EXCEPT !.state = "DONE", !.body = body]
      BY <1>2, <2>1 DEF ParseBody
    <2> QED
      BY <2>2, ParserFields DEF ParserOK
  <1> QED
    BY <1>1, <1>2

\* HttpRequestParser::parse consumes no more than it is shown.
LEMMA ParseFits ==
    ASSUME NEW message \in Seq(Symbols), NEW p, ParserOK(p, Len(message)), p.state \in Reading
    PROVE  ParserOK(Parse(p, message), Len(message))
  <1>0. PICK n \in Nat : n = Len(message)
    OBVIOUS
  <1>1. PICK p1 : p1 = ParseLine(p, From(message, p.parsed_total))
    OBVIOUS
  <1>2. ParserOK(p1, n)
    <2>1. p.parsed_total \in Nat /\ p.parsed_total <= n
      BY <1>0 DEF ParserOK
    <2>2. Len(From(message, p.parsed_total)) = n - p.parsed_total
      BY <1>0, <2>1, FromSeq
    <2> QED
      BY <1>0, <1>1, <2>2, ParseLineFits
  <1>3. PICK p2 : p2 = ParseHeaders(p1, From(message, p1.parsed_total))
    OBVIOUS
  <1>4. ParserOK(p2, n)
    <2>1. p1.parsed_total \in Nat /\ p1.parsed_total <= n
      BY <1>2 DEF ParserOK
    <2>2. Len(From(message, p1.parsed_total)) = n - p1.parsed_total
      BY <1>0, <2>1, FromSeq
    <2> QED
      BY <1>2, <1>3, <2>2, ParseHeadersFits
  <1>5. Parse(p, message) = ParseBody(p2, From(message, p2.parsed_total))
    BY <1>1, <1>3 DEF Parse
  <1> QED
    BY <1>0, <1>4, <1>5, ParseBodyFits

-----------------------------------------------------------------------------
(* readRequest().                                                          *)

\* The parser and the buffer after an iteration.
AfterIteration ==
    /\ BufferOK
    /\ ParserOK(parser, read_idx + 1) /\ parser.state \in Reading
    /\ pc \in {"read", "wait", "closed", "raised"}

\* The answer, or the exception, ends the request: the next one starts afresh.
LEMMA FinishStep ==
    ASSUME NEW p, Finish(p)
    PROVE  /\ pc' \in {"read", "closed", "raised"}
           /\ read_idx' = 0 /\ parser' = NewParser
  <1>1. ASSUME NEW response, NEW close, Write(response, close)
        PROVE  pc' \in {"read", "closed", "raised"}
    BY <1>1 DEF Write
  <1>2. CASE p.status = 0
    BY <1>1, <1>2 DEF Finish
  <1>3. CASE p.status = Thrown
    BY <1>3 DEF Finish, Thrown
  <1>4. CASE p.status # 0 /\ p.status # Thrown
    BY <1>1, <1>4 DEF Finish
  <1> QED
    BY <1>2, <1>3, <1>4 DEF Finish

\* A new parser has consumed nothing.
LEMMA NewParserOK ==
    /\ NewParser.state \in Reading
    /\ \A n \in Nat : ParserOK(NewParser, n)
  BY DEF ParserOK, NewParser, Reading, Paths

\* One iteration over a buffer whose first idx symbols have been read.
LEMMA IterateStep ==
    ASSUME IInv, pc \in {"read", "wait"},
           NEW buff \in Seq(Symbols), Len(buff) = Len(read_buff),
           NEW idx \in Nat, read_idx <= idx, idx <= Len(buff), Iterate(buff, idx)
    PROVE  AfterIteration'
  <1>1. /\ Len(buff) \in Nat \ {0} /\ read_idx \in Nat
        /\ ParserOK(parser, read_idx + 1) /\ parser.state \in Reading
    BY DEF IInv, BufferOK
  <1>2. PICK shown : shown = SubSeq(Append(buff, NUL), 1, idx + 1)
    OBVIOUS
  <1>3. shown \in Seq(Symbols) /\ Len(shown) = idx + 1
    <2>1. NUL \in Symbols
      BY DEF Symbols
    <2>2. Append(buff, NUL) \in Seq(Symbols) /\ Len(Append(buff, NUL)) = Len(buff) + 1
      BY <2>1
    <2> QED
      BY <1>1, <1>2, <2>2, PrefixSeq
  <1>4. PICK p : p = Parse(parser, shown)
    OBVIOUS
  <1>5. ParserOK(p, idx + 1)
    <2>1. ParserOK(parser, Len(shown))
      BY <1>1, <1>3 DEF ParserOK
    <2> QED
      BY <1>1, <1>3, <1>4, <2>1, ParseFits
  <1>6. IF p.state \in {"DONE", "ERROR"}
        THEN Finish(p) /\ read_buff' = buff
        ELSE /\ read_idx' = idx /\ pc' = "read"
             /\ IF idx >= Len(buff)
                THEN /\ read_buff' = buff \o [i \in 1 .. Len(buff) |-> NUL]
                     /\ parser' = [p EXCEPT !.path = IF @ = "view" THEN "dangling" ELSE @]
                ELSE read_buff' = buff /\ parser' = p
    BY <1>2, <1>4 DEF Iterate, Full
  <1>7. CASE p.state \in {"DONE", "ERROR"}
    <2>1. /\ pc' \in {"read", "closed", "raised"}
          /\ read_idx' = 0 /\ parser' = NewParser /\ read_buff' = buff
      BY <1>6, <1>7, FinishStep
    <2>2. ParserOK(NewParser, 1) /\ NewParser.state \in Reading
      BY NewParserOK
    <2>3. ParserOK(parser, read_idx + 1)' /\ (parser.state \in Reading)'
      BY <2>1, <2>2
    <2> QED
      BY <1>1, <2>1, <2>3 DEF AfterIteration, BufferOK
  <1>8. CASE p.state \notin {"DONE", "ERROR"} /\ idx >= Len(buff)
    <2>1. /\ read_idx' = idx /\ pc' = "read"
          /\ read_buff' = buff \o [i \in 1 .. Len(buff) |-> NUL]
          /\ parser' = [p EXCEPT !.path = IF @ = "view" THEN "dangling" ELSE @]
      BY <1>6, <1>8
    <2>2. read_buff' \in Seq(Symbols) /\ Len(read_buff') = Len(buff) + Len(buff)
      <3>1. NUL \in Symbols
        BY DEF Symbols
      <3>2. [i \in 1 .. Len(buff) |-> NUL] \in Seq(Symbols)
            /\ Len([i \in 1 .. Len(buff) |-> NUL]) = Len(buff)
        BY <1>1, <3>1
      <3> DEFINE zeros == [i \in 1 .. Len(buff) |-> NUL]
      <3> HIDE DEF zeros
      <3>3. buff \o zeros \in Seq(Symbols) /\ Len(buff \o zeros) = Len(buff) + Len(zeros)
        BY <1>1, <3>2, ConcatProperties DEF zeros
      <3> QED
        BY <2>1, <3>2, <3>3 DEF zeros
    <2>3. ParserOK(parser', idx + 1) /\ parser'.state = p.state
      BY <1>5, <2>1, ParserFields DEF ParserOK, Paths
    <2>4. p.state \in Reading
      BY <1>5, <1>8 DEF ParserOK
    <2> QED
      BY <1>1, <1>8, <2>1, <2>2, <2>3, <2>4 DEF AfterIteration, BufferOK
  <1>9. CASE p.state \notin {"DONE", "ERROR"} /\ ~(idx >= Len(buff))
    <2>1. read_idx' = idx /\ pc' = "read" /\ read_buff' = buff /\ parser' = p
      BY <1>6, <1>9
    <2>2. p.state \in Reading
      BY <1>5, <1>9 DEF ParserOK
    <2>3. ParserOK(parser, read_idx + 1)' /\ (parser.state \in Reading)'
      BY <1>5, <2>1, <2>2
    <2> QED
      BY <1>1, <1>9, <2>1, <2>3 DEF AfterIteration, BufferOK
  <1> QED
    BY <1>7, <1>8, <1>9

\* read() fills the buffer from read_idx on.
LEMMA ReadSomeStep ==
    ASSUME IInv, NEW n \in 1 .. Len(inq), ReadSome(n)
    PROVE  IInv'
  <1>1. /\ pc = "read" /\ n \in Nat /\ n <= Len(inq) /\ n <= Len(read_buff) - read_idx
        /\ inq \in Seq(Symbols) /\ read_buff \in Seq(Symbols)
        /\ read_idx \in Nat /\ read_idx + n <= Len(read_buff) /\ read_idx <= Len(read_buff)
        /\ inq' = From(inq, n) /\ UNCHANGED <<sent, peer, ahead>>
    BY DEF IInv, BufferOK, ReadSome
  <1>2. PICK s1, s2, s3 :
          /\ s1 = SubSeq(read_buff, 1, read_idx) /\ s2 = SubSeq(inq, 1, n)
          /\ s3 = From(read_buff, read_idx + n)
    OBVIOUS
  <1>3. /\ s1 \in Seq(Symbols) /\ Len(s1) = read_idx
        /\ s2 \in Seq(Symbols) /\ Len(s2) = n
        /\ s3 \in Seq(Symbols) /\ Len(s3) = Len(read_buff) - (read_idx + n)
    <2>1. s1 \in Seq(Symbols) /\ Len(s1) = read_idx
      BY <1>1, <1>2, PrefixSeq
    <2>2. s2 \in Seq(Symbols) /\ Len(s2) = n
      BY <1>1, <1>2, PrefixSeq
    <2>3. s3 \in Seq(Symbols) /\ Len(s3) = Len(read_buff) - (read_idx + n)
      BY <1>1, <1>2, FromSeq
    <2> QED
      BY <2>1, <2>2, <2>3
  <1>4. PICK buff : buff = s1 \o s2 \o s3
    OBVIOUS
  <1>5. buff \in Seq(Symbols) /\ Len(buff) = Len(read_buff)
    <2>1. s1 \o s2 \in Seq(Symbols) /\ Len(s1 \o s2) = read_idx + n
      BY <1>3, ConcatProperties
    <2>2. (s1 \o s2) \o s3 \in Seq(Symbols)
          /\ Len((s1 \o s2) \o s3) = Len(s1 \o s2) + Len(s3)
      BY <1>3, <2>1, ConcatProperties
    <2> QED
      BY <1>1, <1>3, <1>4, <2>1, <2>2
  <1>6. Iterate(buff, read_idx + n)
    BY <1>2, <1>4 DEF ReadSome
  <1>7. AfterIteration'
    BY <1>1, <1>5, <1>6, IterateStep
  <1>8. inq' \in Seq(Symbols)
    BY <1>1, FromSeq
  <1> QED
    BY <1>1, <1>7, <1>8 DEF IInv, AfterIteration, EofIsReal

\* A resumed coroutine parses what it had.
LEMMA ResumeStep ==
    ASSUME IInv, Resume
    PROVE  IInv'
  <1>1. /\ pc = "wait" /\ read_buff \in Seq(Symbols) /\ read_idx \in Nat
        /\ read_idx <= Len(read_buff) /\ Iterate(read_buff, read_idx)
        /\ UNCHANGED <<sent, inq, peer>>
    BY DEF IInv, BufferOK, Resume, stream
  <1>2. AfterIteration'
    BY <1>1, IterateStep
  <1> QED
    BY <1>1, <1>2 DEF IInv, AfterIteration, EofIsReal

\* read() returns 0, which a buffer with room takes for the end of the stream.
LEMMA ReadEofStep ==
    ASSUME IInv, ReadEof
    PROVE  IInv'
  <1>1. /\ pc = "read" /\ pc' = "eof"
        /\ UNCHANGED <<stream, answers, read_buff, read_idx, parser, short>>
    BY DEF ReadEof
  <1>2. read_idx < Len(read_buff) /\ read_idx \in Nat /\ Len(read_buff) \in Nat
    BY <1>1 DEF IInv, BufferOK
  <1>3. peer = "fin"
    BY <1>2 DEF ReadEof
  <1> QED
    BY <1>1, <1>3 DEF IInv, BufferOK, EofIsReal, stream

\* Steps that leave the buffer and the parser alone.
LEMMA OtherStep ==
    ASSUME IInv, \/ ReadAgain \/ Timeout \/ ReadFails \/ HangUp \/ UNCHANGED vars
    PROVE  IInv'
  <1>1. UNCHANGED <<sent, inq, read_buff, read_idx, parser>>
    BY DEF ReadAgain, Timeout, ReadFails, HangUp, vars, stream
  <1>2. /\ pc' \in {"read", "wait", "eof", "closed", "raised"}
        /\ pc' \in {"read", "wait"} => pc \in {"read", "wait"}
        /\ peer' \in {"open", "fin", "rst"}
        /\ pc' = "eof" => pc = "eof" /\ peer' = peer
    BY DEF IInv, ReadAgain, Timeout, ReadFails, HangUp, vars, stream, Ended
  <1> QED
    BY <1>1, <1>2 DEF IInv, BufferOK, EofIsReal

\* The client sends a request.
LEMMA SendStep ==
    ASSUME IInv, NEW r \in Requests, Send(r)
    PROVE  IInv'
  <1>1. /\ sent' = Append(sent, r) /\ inq' = inq \o Service!Text(r) /\ Len(sent) < MaxRequests
        /\ UNCHANGED <<peer, read_buff, read_idx, parser, pc>>
    BY DEF Send
  <1>2. inq' \in Seq(Symbols)
    BY <1>1, TextSeq, ConcatProperties DEF IInv
  <1>3. sent' \in Seq(Requests) /\ Len(sent') <= MaxRequests
    BY <1>1, HttpReaderAssumption DEF IInv
  <1> QED
    BY <1>1, <1>2, <1>3 DEF IInv, BufferOK, EofIsReal

-----------------------------------------------------------------------------
(* The theorems.                                                           *)

\* The invariant holds initially.
LEMMA InitInv == Init => IInv
  <1> SUFFICES ASSUME Init PROVE IInv
    OBVIOUS
  <1>1. /\ sent = <<>> /\ inq = <<>> /\ peer = "open" /\ pc = "read"
        /\ read_buff = [i \in 1 .. InitialBuffer |-> NUL] /\ read_idx = 0 /\ parser = NewParser
    BY DEF Init
  <1>2. read_buff \in Seq(Symbols) /\ Len(read_buff) = InitialBuffer
    <2>1. NUL \in Symbols
      BY DEF Symbols
    <2> QED
      BY <1>1, <2>1, HttpReaderAssumption
  <1>3. ParserOK(parser, read_idx + 1) /\ parser.state \in Reading
    BY <1>1, NewParserOK
  <1> QED
    BY <1>1, <1>2, <1>3, HttpReaderAssumption DEF IInv, BufferOK, EofIsReal

\* Every step preserves the invariant.
LEMMA StepInv == IInv /\ [Next]_vars => IInv'
  <1> SUFFICES ASSUME IInv, [Next]_vars PROVE IInv'
    OBVIOUS
  <1>1. CASE Handler
    BY <1>1, ReadSomeStep, ResumeStep, ReadEofStep, OtherStep DEF Handler
  <1>2. CASE Timeout \/ HangUp \/ UNCHANGED vars
    BY <1>2, OtherStep
  <1>3. CASE \E r \in Requests : Send(r)
    BY <1>3, SendStep
  <1> QED
    BY <1>1, <1>2, <1>3 DEF Next

\* The inductive invariant holds in every reachable state.
THEOREM Invariance == Spec => []IInv
  BY InitInv, StepInv, PTL DEF Spec

\* The parser of readRequest() never consumes more than it was shown, however
\* the stream is cut and wherever parsing fails.
THEOREM TypeCorrect == Spec => []TypeOK
  <1>1. IInv => TypeOK
    BY DEF IInv, BufferOK, ParserOK, Reading, Paths, TypeOK
  <1> QED
    BY <1>1, Invariance, PTL

\* The test for a full buffer comes before every read(): the handler takes a
\* connection for closed only when its client has shut its side down.
THEOREM EofCorrect == Spec => []EofIsReal
  <1>1. IInv => EofIsReal
    BY DEF IInv
  <1> QED
    BY <1>1, Invariance, PTL
=============================================================================
