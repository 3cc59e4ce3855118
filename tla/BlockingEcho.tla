---------------------------- MODULE BlockingEcho ----------------------------
(***************************************************************************)
(* tcp::Server and tcp::Connection as the blocking echo server and its     *)
(* clients use them.  The server has one connection object and serves one  *)
(* client at a time; the others wait in the listening socket's queue, where*)
(* they may already have written.  A client writes a line completely before*)
(* it reads any of the echo.  A step is one system call with the           *)
(* computation around it; bytes are counted.                               *)
(*                                                                         *)
(* Neither program catches an exception: one that leaves a member function *)
(* ends the process.                                                       *)
(***************************************************************************)
EXTENDS Integers, Sequences

CONSTANTS
    Clients,        \* the echo clients
    Lines,          \* lengths of the lines on their standard input
    MaxLines,       \* bound: lines a client sends
    SocketBuffer,   \* bytes a connection holds in each direction
    BuffSize,       \* bytes the server reads at once
    None            \* fd_ == FD_CLOSED

ASSUME BlockingEchoAssumption ==
    /\ Lines \subseteq Nat
    /\ MaxLines \in Nat /\ SocketBuffer \in Nat \ {0} /\ BuffSize \in Nat \ {0}
    /\ None \notin Clients

VARIABLES
    spc,        \* where the server is
    con,        \* the client its connection object is open to
    got,        \* bytes read and not yet echoed
    backlog,    \* clients waiting to be accepted
    cpc,        \* where each client is
    line,       \* the length of the line a client is exchanging
    rest,       \* what writeExact() or readExact() still has to transfer
    lines,      \* lines taken from standard input
    up,         \* bytes on their way to the server
    down,       \* bytes on their way to the client
    sock        \* what the server's socket knows of the client

server == <<spc, con, got>>
client == <<cpc, line, rest, lines>>
vars   == <<server, backlog, client, up, down, sock>>

Gone == spc \in {"unbound", "terminated"}     \* the server has ended
InExchange(c) == cpc[c] \in {"write", "read"}

TypeOK ==
    /\ spc \in {"open", "accept", "read", "close", "write", "unbound", "terminated"}
    /\ con \in Clients \cup {None}
    /\ got \in 0 .. BuffSize
    /\ backlog \in Seq(Clients)
    /\ cpc \in [Clients -> {"connect", "line", "write", "read", "done", "failed", "killed"}]
    /\ line \in [Clients -> Lines \cup {0}]
    /\ rest \in [Clients -> Nat] /\ \A c \in Clients : rest[c] <= line[c]
    /\ lines \in [Clients -> 0 .. MaxLines]
    /\ up \in [Clients -> 0 .. SocketBuffer]
    /\ down \in [Clients -> 0 .. SocketBuffer]
    /\ sock \in [Clients -> {"none", "open", "fin", "rst", "closed"}]

Init ==
    /\ spc = "open" /\ con = None /\ got = 0
    /\ backlog = <<>>
    /\ cpc = [c \in Clients |-> "connect"]
    /\ line = [c \in Clients |-> 0]
    /\ rest = [c \in Clients |-> 0]
    /\ lines = [c \in Clients |-> 0]
    /\ up = [c \in Clients |-> 0]
    /\ down = [c \in Clients |-> 0]
    /\ sock = [c \in Clients |-> "none"]

-----------------------------------------------------------------------------
(* The server.                                                             *)

\* Server::Server: an address is bound and listened on, or none is.
Open ==
    /\ spc = "open"
    /\ spc' \in {"accept", "unbound"}
    /\ UNCHANGED <<con, got, backlog, client, up, down, sock>>

\* An exception (or SIGPIPE) ends the server.
Terminate ==
    /\ spc' = "terminated"
    /\ UNCHANGED <<con, got, backlog, client, up, down, sock>>

\* Server::accept, and the move assignment to con: the old connection goes to
\* a temporary, whose destructor closes what is still open.  A client in the queue
\* has been sent nothing, so it may have ended but cannot have reset.
Accept ==
    /\ spc = "accept"
    /\ backlog # <<>>
    /\ con' = Head(backlog)
    /\ sock' = IF con = None THEN sock ELSE [sock EXCEPT ![con] = "closed"]
    /\ backlog' = Tail(backlog)
    /\ spc' = "read"
    /\ UNCHANGED <<got, client, up, down>>

\* Connection::read returns bytes.
Read ==
    /\ spc = "read"
    /\ \E n \in 1 .. up[con] :
          /\ n <= BuffSize
          /\ got' = n
          /\ up' = [up EXCEPT ![con] = @ - n]
    /\ spc' = "write"
    /\ UNCHANGED <<con, backlog, client, down, sock>>

ReadEofIgnored ==   \* mutant: 0 bytes are echoed like any others
    /\ spc = "read"
    /\ up[con] = 0
    /\ sock[con] = "fin"
    /\ UNCHANGED vars

\* read() returns 0; Connection::read goes on to close().
ReadEof ==
    /\ spc = "read"
    /\ up[con] = 0
    /\ sock[con] = "fin"
    /\ spc' = "close"
    /\ UNCHANGED <<con, got, backlog, client, up, down, sock>>

\* read() fails with ECONNRESET.
ReadFails ==
    /\ spc = "read"
    /\ up[con] = 0
    /\ sock[con] = "rst"
    /\ Terminate

\* Connection::close: shutdown() and close().  The program calls accept().
Close ==
    /\ spc = "close"
    /\ sock[con] = "fin"
    /\ sock' = [sock EXCEPT ![con] = "closed"]
    /\ con' = None
    /\ spc' = "accept"
    /\ UNCHANGED <<got, backlog, client, up, down>>

\* Connection::close: shutdown() fails on a socket reset since the read().
CloseFails ==
    /\ spc = "close"
    /\ sock[con] = "rst"
    /\ Terminate

WriteForgets ==   \* mutant: writeExact() takes a short write for a complete one
    /\ spc = "write"
    /\ sock[con] # "rst"
    /\ \E n \in 1 .. got :
          /\ down[con] + n <= SocketBuffer
          /\ down' = [down EXCEPT ![con] = @ + n]
          /\ got' = 0
          /\ spc' = "read"
    /\ UNCHANGED <<con, backlog, client, up, sock>>

\* Connection::writeExact: write() takes what fits, and waits if nothing does.
Write ==
    /\ spc = "write"
    /\ sock[con] # "rst"
    /\ \E n \in 1 .. got :
          /\ down[con] + n <= SocketBuffer
          /\ down' = [down EXCEPT ![con] = @ + n]
          /\ got' = got - n
          /\ spc' = IF got = n THEN "read" ELSE "write"
    /\ UNCHANGED <<con, backlog, client, up, sock>>

\* write() to a reset connection: EPIPE or SIGPIPE.
WriteFails ==
    /\ spc = "write"
    /\ sock[con] = "rst"
    /\ Terminate

-----------------------------------------------------------------------------
(* A client.                                                               *)

\* Connection::Connection(hostname, port): some address accepts.
Connect(c) ==
    /\ cpc[c] = "connect"
    /\ ~Gone /\ spc # "open"
    /\ cpc' = [cpc EXCEPT ![c] = "line"]
    /\ sock' = [sock EXCEPT ![c] = "open"]
    /\ backlog' = Append(backlog, c)
    /\ UNCHANGED <<server, line, rest, lines, up, down>>

\* No address does: SocketOpeningException.
ConnectFails(c) ==
    /\ cpc[c] = "connect"
    /\ Gone \/ spc = "open"
    /\ cpc' = [cpc EXCEPT ![c] = "failed"]
    /\ UNCHANGED <<server, backlog, line, rest, lines, up, down, sock>>

\* std::getline gives a line; an empty one is "exchanged" without a call.
GetLine(c) ==
    /\ cpc[c] = "line"
    /\ lines[c] < MaxLines
    /\ \E n \in Lines :
          /\ line' = [line EXCEPT ![c] = n]
          /\ rest' = [rest EXCEPT ![c] = n]
          /\ cpc' = [cpc EXCEPT ![c] = IF n = 0 THEN "line" ELSE "write"]
    /\ lines' = [lines EXCEPT ![c] = @ + 1]
    /\ UNCHANGED <<server, backlog, up, down, sock>>

\* The client's end of the connection is closed: bytes it has not read turn the
\* end of the stream into a reset.
Hangup(c) ==
    sock' = [sock EXCEPT ![c] = IF @ = "open" THEN (IF down[c] > 0 THEN "rst" ELSE "fin")
                                ELSE @]

\* Standard input ends: main() returns, and ~Connection closes.
EndOfInput(c) ==
    /\ cpc[c] = "line"
    /\ cpc' = [cpc EXCEPT ![c] = "done"]
    /\ Hangup(c)
    /\ UNCHANGED <<server, backlog, line, rest, lines, up, down>>

\* Connection::writeExact.
ClientWrite(c) ==
    /\ cpc[c] = "write"
    /\ ~Gone
    /\ \E n \in 1 .. rest[c] :
          /\ up[c] + n <= SocketBuffer
          /\ up' = [up EXCEPT ![c] = @ + n]
          /\ rest' = [rest EXCEPT ![c] = IF n = @ THEN line[c] ELSE @ - n]
          /\ cpc' = [cpc EXCEPT ![c] = IF n = rest[c] THEN "read" ELSE @]
    /\ UNCHANGED <<server, backlog, line, lines, down, sock>>

ClientReadOnce(c) ==   \* mutant: one read() is taken for the whole line
    /\ cpc[c] = "read"
    /\ \E n \in 1 .. down[c] :
          /\ n <= rest[c]
          /\ down' = [down EXCEPT ![c] = @ - n]
          /\ rest' = [rest EXCEPT ![c] = 0]
          /\ cpc' = [cpc EXCEPT ![c] = "line"]
    /\ UNCHANGED <<server, backlog, line, lines, up, sock>>

\* Connection::readExact.
ClientRead(c) ==
    /\ cpc[c] = "read"
    /\ \E n \in 1 .. down[c] :
          /\ n <= rest[c]
          /\ down' = [down EXCEPT ![c] = @ - n]
          /\ rest' = [rest EXCEPT ![c] = @ - n]
          /\ cpc' = [cpc EXCEPT ![c] = IF n = rest[c] THEN "line" ELSE @]
    /\ UNCHANGED <<server, backlog, line, lines, up, sock>>

\* The server has ended: write() fails, read() fails or finds the end of the
\* stream, which readExact() does not accept.
ExchangeFails(c) ==
    /\ InExchange(c)
    /\ Gone
    /\ cpc' = [cpc EXCEPT ![c] = "failed"]
    /\ UNCHANGED <<server, backlog, line, rest, lines, up, down, sock>>

\* The client is killed.
Kill(c) ==
    /\ cpc[c] = "line" \/ InExchange(c)
    /\ cpc' = [cpc EXCEPT ![c] = "killed"]
    /\ Hangup(c)
    /\ UNCHANGED <<server, backlog, line, rest, lines, up, down>>

\* The client's kernel answers bytes for a connection that is closed with a
\* reset.
ResetBack(c) ==
    /\ sock[c] = "fin"
    /\ down[c] > 0
    /\ sock' = [sock EXCEPT ![c] = "rst"]
    /\ UNCHANGED <<server, backlog, client, up, down>>

-----------------------------------------------------------------------------
EchoServer ==
    \/ Open \/ Accept \/ Read \/ ReadEof \/ ReadFails
    \/ Close \/ CloseFails \/ Write \/ WriteFails

EchoClient(c) ==
    \/ Connect(c) \/ ConnectFails(c) \/ GetLine(c) \/ EndOfInput(c)
    \/ ClientWrite(c) \/ ClientRead(c) \/ ExchangeFails(c)

Next ==
    \/ EchoServer
    \/ \E c \in Clients : EchoClient(c) \/ Kill(c) \/ ResetBack(c)

Spec == Init /\ [][Next]_vars

\* The server runs, and so does each client: its standard input goes on, with a
\* line or with its end.  A kernel answers what it gets for a closed connection.
\* Nothing kills a client or keeps it alive.
FairSpec ==
    /\ Spec
    /\ WF_vars(EchoServer)
    /\ \A c \in Clients : WF_vars(EchoClient(c)) /\ WF_vars(ResetBack(c))

-----------------------------------------------------------------------------
\* The bytes of c in the server, between read() and write().
Held(c) == IF con = c THEN got ELSE 0

\* A client gets its own bytes back, all of them and no others: what it has
\* written and not read is on its way up, in the server, or on its way down,
\* and nothing is left of one line when the next begins.
OwnBytesOnly ==
    ~Gone =>
      \A c \in Clients :
        /\ cpc[c] = "line"  => up[c] + Held(c) + down[c] = 0
        /\ cpc[c] = "write" => up[c] + Held(c) + down[c] = line[c] - rest[c]
        /\ cpc[c] = "read"  => up[c] + Held(c) + down[c] = rest[c]

\* Types and the account of every byte, together.
BytesAccounted == TypeOK /\ OwnBytesOnly

\* Clients that end by themselves never take the server down: an exception ends
\* it only after a client was killed.
ServerOutlivesClients ==
    spc = "terminated" => \E c \in Clients : cpc[c] = "killed"

\* The longest line that is sure to come back: longer ones may fill both
\* directions while the server holds a single byte.
Fit == 2 * SocketBuffer + 1

\* Every client, the ones that wait for others included, gets the line it is
\* exchanging back or fails, if no client has a line that is too long.
LinesComeBack ==
    [](\A c \in Clients : line[c] <= Fit)
      => \A c \in Clients : InExchange(c) ~> ~InExchange(c)
=============================================================================
