------------------------ MODULE BlockingEcho_proofs ------------------------
(***************************************************************************)
(* The blocking echo server, for every number of clients, all lengths of   *)
(* lines and all sizes of buffers: no byte is lost, invented or given to   *)
(* another client, and only a killed client takes the server down.         *)
(***************************************************************************)
EXTENDS BlockingEcho, TLAPS

\* Bytes of c that have left it and have not come back.
Away(c) == up[c] + Held(c) + down[c]

\* The account of every client's bytes.  It does not end with the server, and it
\* covers the clients that have not begun and those that ended by themselves.
Account ==
    \A c \in Clients :
      /\ cpc[c] \in {"line", "done"} => Away(c) = 0
      /\ cpc[c] = "write" => Away(c) = line[c] - rest[c]
      /\ cpc[c] = "read"  => Away(c) = rest[c]
      /\ cpc[c] = "connect" => up[c] = 0 /\ down[c] = 0

\* The server's connection object is open exactly while it serves, and holds bytes
\* only between read() and the last write().
ServerPhase ==
    /\ spc \in {"read", "close", "write"} => con \in Clients
    /\ spc \in {"open", "accept"} => con = None
    /\ spc # "write" /\ ~Gone => got = 0

\* Whoever is served or waits to be has connected.
Connected ==
    /\ \A c \in Clients : con = c => cpc[c] # "connect"
    /\ \A i \in 1 .. Len(backlog) : cpc[backlog[i]] # "connect"

\* The end of a stream comes from a client that has ended, a reset from a killed
\* one.
EndsExplained ==
    \A c \in Clients :
      /\ sock[c] = "fin" => cpc[c] \in {"done", "killed"}
      /\ sock[c] = "rst" => cpc[c] = "killed"

\* The inductive invariant.
Inv ==
    /\ TypeOK
    /\ Account
    /\ ServerPhase
    /\ Connected
    /\ EndsExplained
    /\ ServerOutlivesClients

-----------------------------------------------------------------------------
\* What the types say of one client.
LEMMA TypeFacts ==
    ASSUME TypeOK
    PROVE  /\ SocketBuffer \in Nat /\ BuffSize \in Nat /\ Lines \subseteq Nat
           /\ \A c \in Clients : /\ up[c] \in 0 .. SocketBuffer /\ down[c] \in 0 .. SocketBuffer
                                 /\ up[c] \in Nat /\ down[c] \in Nat
                                 /\ line[c] \in Nat /\ rest[c] \in Nat /\ rest[c] <= line[c]
                                 /\ Held(c) \in Nat
           /\ \A i \in 1 .. Len(backlog) : backlog[i] \in Clients
  <1>1. SocketBuffer \in Nat /\ BuffSize \in Nat /\ Lines \subseteq Nat
    BY BlockingEchoAssumption
  <1>2. /\ up \in [Clients -> 0 .. SocketBuffer] /\ down \in [Clients -> 0 .. SocketBuffer]
        /\ line \in [Clients -> Lines \cup {0}]
        /\ rest \in [Clients -> Nat] /\ \A c \in Clients : rest[c] <= line[c]
        /\ got \in 0 .. BuffSize /\ backlog \in Seq(Clients)
    BY DEF TypeOK
  <1>3. got \in Nat
    BY <1>1, <1>2
  <1>4. \A c \in Clients : Held(c) \in Nat
    BY <1>3 DEF Held
  <1>5. ASSUME NEW c \in Clients PROVE up[c] \in Nat /\ down[c] \in Nat
    <2>1. up[c] \in 0 .. SocketBuffer /\ down[c] \in 0 .. SocketBuffer
      BY <1>2
    <2> QED
      BY <1>1, <2>1
  <1>6. ASSUME NEW c \in Clients PROVE line[c] \in Nat
    <2>1. line[c] \in Lines \/ line[c] = 0
      BY <1>2
    <2>2. CASE line[c] \in Lines
      BY <1>1, <2>2, Zenon
    <2>3. CASE line[c] = 0
      BY <2>3
    <2> QED
      BY <2>1, <2>2, <2>3
  <1> QED
    BY <1>1, <1>2, <1>4, <1>5, <1>6

\* Nothing has happened yet.
LEMMA InitInv == Init => Inv
  <1> SUFFICES ASSUME Init PROVE Inv
    OBVIOUS
  <1> USE BlockingEchoAssumption
  <1>1. TypeOK
    BY DEF Init, TypeOK
  <1>2. ServerPhase /\ Connected /\ EndsExplained /\ ServerOutlivesClients /\ Account
    BY DEF Init, ServerPhase, Connected, EndsExplained, ServerOutlivesClients, Account, Gone
  <1> QED
    BY <1>1, <1>2 DEF Inv

-----------------------------------------------------------------------------
(* The server.                                                             *)

\* Server::Server binds an address or does not.
LEMMA OpenInv == ASSUME Inv, Open PROVE Inv'
  <1>1. TypeOK' /\ ServerPhase' /\ ServerOutlivesClients'
    BY DEF Open, Inv, TypeOK, ServerPhase, ServerOutlivesClients, Gone, client
  <1>2. Account' /\ Connected' /\ EndsExplained'
    BY DEF Open, Inv, Account, Away, Held, Connected, EndsExplained, client
  <1> QED
    BY <1>1, <1>2 DEF Inv

\* An exception ends the server: only where its client was killed.
LEMMA TerminateInv ==
    ASSUME Inv, Terminate, \E c \in Clients : cpc[c] = "killed"
    PROVE  Inv'
  <1>1. TypeOK' /\ ServerPhase' /\ ServerOutlivesClients'
    BY DEF Terminate, Inv, TypeOK, ServerPhase, ServerOutlivesClients, Gone, client
  <1>2. Account' /\ Connected' /\ EndsExplained'
    BY DEF Terminate, Inv, Account, Away, Held, Connected, EndsExplained, client
  <1> QED
    BY <1>1, <1>2 DEF Inv

\* accept() takes a client that has connected; the server holds no bytes.
LEMMA AcceptInv == ASSUME Inv, Accept PROVE Inv'
  <1>1. /\ spc = "accept" /\ spc' = "read" /\ con = None /\ got = 0 /\ got' = 0
        /\ UNCHANGED <<cpc, line, rest, lines, up, down, sock>>
    BY DEF Accept, Inv, ServerPhase, Gone, client
  <1>2. /\ con' = backlog[1] /\ con' \in Clients /\ cpc[con'] # "connect"
        /\ backlog' \in Seq(Clients) /\ Len(backlog') \in Nat
        /\ \A i \in 1 .. Len(backlog') : cpc[backlog'[i]] # "connect"
    BY SMTT(30) DEF Accept, Inv, TypeOK, Connected
  <1>3. TypeOK' /\ ServerPhase' /\ ServerOutlivesClients'
    BY <1>1, <1>2 DEF Inv, TypeOK, ServerPhase, ServerOutlivesClients, Gone
  <1>4. Account'
    BY <1>1 DEF Inv, Account, Away, Held
  <1>5. Connected' /\ EndsExplained'
    BY <1>1, <1>2 DEF Inv, Connected, EndsExplained
  <1> QED
    BY <1>3, <1>4, <1>5 DEF Inv

\* read() moves bytes of the client that is served into the server.
LEMMA ReadInv == ASSUME Inv, Read PROVE Inv'
  <1>1. PICK n \in 1 .. up[con] : n <= BuffSize /\ got' = n /\ up' = [up EXCEPT ![con] = @ - n]
    BY DEF Read
  <1>2. /\ spc = "read" /\ spc' = "write" /\ con \in Clients /\ got = 0
        /\ UNCHANGED <<con, backlog, cpc, line, rest, lines, down, sock>>
        /\ BuffSize \in Nat
    BY BlockingEchoAssumption DEF Read, Inv, ServerPhase, Gone, client
  <1>3. up[con] \in 0 .. SocketBuffer /\ SocketBuffer \in Nat
    BY <1>2, BlockingEchoAssumption DEF Inv, TypeOK
  <1>4. TypeOK'
    <2>1. got' \in 0 .. BuffSize /\ up[con] - n \in 0 .. SocketBuffer
      BY <1>1, <1>2, <1>3
    <2>2. up' \in [Clients -> 0 .. SocketBuffer]
      BY <1>1, <1>2, <2>1 DEF Inv, TypeOK
    <2>3. lines' = lines
      BY DEF Read, client
    <2> QED
      BY <1>2, <2>1, <2>2, <2>3 DEF Inv, TypeOK
  <1>5. ServerPhase' /\ ServerOutlivesClients' /\ Connected' /\ EndsExplained'
    BY <1>2 DEF Inv, ServerPhase, ServerOutlivesClients, Connected, EndsExplained, Gone
  <1>6. Account'
    <2>1. \A c \in Clients : down[c] \in Nat /\ up[c] \in Nat
      BY TypeFacts DEF Inv
    <2>2. ASSUME NEW c \in Clients PROVE Away(c)' = Away(c)
      <3>1. up' = [up EXCEPT ![con] = up[con] - n] /\ DOMAIN up = Clients
        BY <1>1 DEF Inv, TypeOK
      <3>2. n \in Nat /\ up[con] \in Nat
        BY <1>1, <1>3
      <3>3. CASE c = con
        BY <1>1, <1>2, <2>1, <3>1, <3>2, <3>3 DEF Away, Held
      <3>4. CASE c # con
        BY <1>2, <3>1, <3>4 DEF Away, Held
      <3> QED
        BY <3>3, <3>4
    <2>3. con \in Clients /\ cpc[con] # "connect"
      BY <1>2 DEF Inv, Connected
    <2>4. \A c \in Clients : c # con => up'[c] = up[c]
      BY <1>1 DEF Inv, TypeOK
    <2> QED
      BY <1>2, <2>2, <2>3, <2>4 DEF Inv, Account
  <1> QED
    BY <1>4, <1>5, <1>6 DEF Inv

\* The end of the stream, and close(): the server holds nothing.
LEMMA CloseInv == ASSUME Inv, ReadEof \/ Close PROVE Inv'
  <1>1. /\ spc \in {"read", "close"} /\ spc' \in {"close", "accept"} /\ con \in Clients
        /\ got = 0 /\ got' = 0
        /\ UNCHANGED <<backlog, cpc, line, rest, lines, up, down>>
        /\ spc' = "close" => con' = con
        /\ spc' = "accept" => con' = None
    BY DEF ReadEof, Close, Inv, ServerPhase, Gone, client
  <1>2. sock' = sock \/ sock' = [sock EXCEPT ![con] = "closed"]
    BY DEF ReadEof, Close
  <1>3. TypeOK'
    BY <1>1, <1>2 DEF Inv, TypeOK
  <1>4. ServerPhase' /\ ServerOutlivesClients' /\ Connected'
    BY <1>1, BlockingEchoAssumption DEF Inv, ServerPhase, ServerOutlivesClients, Connected, Gone
  <1>5. EndsExplained'
    BY <1>1, <1>2 DEF Inv, TypeOK, EndsExplained
  <1>6. Account'
    BY <1>1 DEF Inv, Account, Away, Held
  <1> QED
    BY <1>3, <1>4, <1>5, <1>6 DEF Inv

\* write() moves bytes of the client that is served out of the server.
LEMMA WriteInv == ASSUME Inv, Write PROVE Inv'
  <1>1. PICK n \in 1 .. got :
           /\ down[con] + n <= SocketBuffer
           /\ down' = [down EXCEPT ![con] = @ + n]
           /\ got' = got - n
           /\ spc' = IF got = n THEN "read" ELSE "write"
    BY DEF Write
  <1>2. /\ spc = "write" /\ con \in Clients /\ got \in 0 .. BuffSize
        /\ UNCHANGED <<con, backlog, cpc, line, rest, lines, up, sock>>
        /\ BuffSize \in Nat /\ SocketBuffer \in Nat
    BY BlockingEchoAssumption DEF Write, Inv, TypeOK, ServerPhase, client
  <1>3. TypeOK'
    BY <1>1, <1>2 DEF Inv, TypeOK
  <1>4. ServerPhase' /\ ServerOutlivesClients' /\ Connected' /\ EndsExplained'
    BY <1>1, <1>2 DEF Inv, ServerPhase, ServerOutlivesClients, Connected, EndsExplained, Gone
  <1>5. Account'
    <2>1. \A c \in Clients : down[c] \in Nat /\ up[c] \in Nat
      BY <1>2 DEF Inv, TypeOK
    <2>2. \A c \in Clients : Away(c)' = Away(c)
      BY <1>1, <1>2, <2>1 DEF Inv, TypeOK, Away, Held
    <2>3. con \in Clients /\ cpc[con] # "connect"
      BY <1>2 DEF Inv, Connected
    <2>4. \A c \in Clients : c # con => down'[c] = down[c]
      BY <1>1 DEF Inv, TypeOK
    <2> QED
      BY <1>2, <2>2, <2>3, <2>4 DEF Inv, Account
  <1> QED
    BY <1>3, <1>4, <1>5 DEF Inv

\* Every step of the server.
LEMMA ServerInv == ASSUME Inv, EchoServer PROVE Inv'
  <1>1. CASE ReadFails \/ CloseFails \/ WriteFails
    <2>1. spc \in {"read", "close", "write"} /\ sock[con] = "rst" /\ Terminate
      BY <1>1 DEF ReadFails, CloseFails, WriteFails
    <2>2. con \in Clients /\ cpc[con] = "killed"
      BY <2>1 DEF Inv, ServerPhase, EndsExplained
    <2> QED
      BY <2>1, <2>2, TerminateInv
  <1> QED
    BY <1>1, OpenInv, AcceptInv, ReadInv, CloseInv, WriteInv DEF EchoServer

-----------------------------------------------------------------------------
(* A client.                                                               *)

\* Connecting queues the client, or fails.
LEMMA ConnectInv ==
    ASSUME Inv, NEW c \in Clients, Connect(c) \/ ConnectFails(c)
    PROVE  Inv'
  <1>1. /\ cpc[c] = "connect" /\ up[c] = 0 /\ down[c] = 0 /\ con # c
        /\ UNCHANGED <<spc, con, got, line, rest, lines, up, down>>
    BY DEF Connect, ConnectFails, Inv, Account, Connected, server
  <1>2. /\ cpc' = [cpc EXCEPT ![c] = "line"]
           /\ sock' = [sock EXCEPT ![c] = "open"]
           /\ backlog' = Append(backlog, c)
        \/ /\ cpc' = [cpc EXCEPT ![c] = "failed"]
           /\ UNCHANGED <<sock, backlog>>
    BY DEF Connect, ConnectFails
  <1>3. /\ \A d \in Clients : d # c => cpc'[d] = cpc[d] /\ sock'[d] = sock[d]
        /\ cpc'[c] \in {"line", "failed"} /\ sock'[c] \in {"open", sock[c]}
        /\ cpc' \in [Clients -> {"connect", "line", "write", "read", "done", "failed", "killed"}]
        /\ sock' \in [Clients -> {"none", "open", "fin", "rst", "closed"}]
    BY <1>2 DEF Inv, TypeOK
  <1>4. /\ backlog' \in Seq(Clients)
        /\ \A i \in 1 .. Len(backlog') : cpc'[backlog'[i]] # "connect"
    <2>1. CASE backlog' = backlog
      BY <1>3, <2>1, TypeFacts DEF Inv, TypeOK, Connected
    <2>2. CASE backlog' = Append(backlog, c)
      <3>1. Len(backlog') = Len(backlog) + 1 /\ Len(backlog) \in Nat
        BY <2>2 DEF Inv, TypeOK
      <3>2. \A i \in 1 .. Len(backlog') :
               \/ i <= Len(backlog) /\ backlog'[i] = backlog[i]
               \/ backlog'[i] = c
        BY <2>2, <3>1 DEF Inv, TypeOK
      <3>3. backlog' \in Seq(Clients)
        BY <2>2 DEF Inv, TypeOK
      <3>4. \A i \in 1 .. Len(backlog) : backlog[i] \in Clients /\ cpc[backlog[i]] # "connect"
        BY TypeFacts DEF Inv, Connected
      <3>5. \A i \in 1 .. Len(backlog) : cpc'[backlog[i]] # "connect"
        BY <1>3, <3>4
      <3>6. cpc'[c] # "connect"
        BY <1>3, <1>1 DEF Inv
      <3> QED
        BY <3>1, <3>2, <3>3, <3>5, <3>6
    <2> QED
      BY <1>2, <2>1, <2>2
  <1>5. TypeOK'
    BY <1>1, <1>3, <1>4 DEF Inv, TypeOK
  <1>6. ServerPhase' /\ ServerOutlivesClients'
    BY <1>1, <1>3 DEF Inv, ServerPhase, ServerOutlivesClients, Gone
  <1>7. Connected' /\ EndsExplained'
    BY <1>1, <1>3, <1>4 DEF Inv, Connected, EndsExplained
  <1>8. Account'
    <2>1. Away(c) = 0 /\ \A d \in Clients : Away(d)' = Away(d)
      BY <1>1 DEF Away, Held
    <2> QED
      BY <1>1, <1>3, <2>1 DEF Inv, Account
  <1> QED
    BY <1>5, <1>6, <1>7, <1>8 DEF Inv

\* A line begins when nothing of the one before it is left.
LEMMA GetLineInv ==
    ASSUME Inv, NEW c \in Clients, GetLine(c)
    PROVE  Inv'
  <1>1. PICK n \in Lines :
           /\ line' = [line EXCEPT ![c] = n]
           /\ rest' = [rest EXCEPT ![c] = n]
           /\ cpc' = [cpc EXCEPT ![c] = IF n = 0 THEN "line" ELSE "write"]
    BY DEF GetLine
  <1>2. /\ cpc[c] = "line" /\ lines[c] < MaxLines /\ lines' = [lines EXCEPT ![c] = @ + 1]
        /\ UNCHANGED <<spc, con, got, backlog, up, down, sock>>
        /\ Lines \subseteq Nat /\ MaxLines \in Nat
    BY BlockingEchoAssumption DEF GetLine, server
  <1>3. TypeOK'
    BY <1>1, <1>2, SMTT(30) DEF Inv, TypeOK
  <1>4. /\ \A d \in Clients : d # c => cpc'[d] = cpc[d] /\ line'[d] = line[d] /\ rest'[d] = rest[d]
        /\ cpc'[c] \in {"line", "write"} /\ line'[c] = n /\ rest'[c] = n /\ n \in Nat
    BY <1>1, <1>2, <1>3 DEF Inv, TypeOK
  <1>5. ServerPhase' /\ ServerOutlivesClients'
    BY <1>2, <1>4 DEF Inv, ServerPhase, ServerOutlivesClients, Gone
  <1>6. Connected' /\ EndsExplained'
    <2>1. \A i \in 1 .. Len(backlog) : backlog[i] \in Clients
      BY DEF Inv, TypeOK
    <2> QED
      BY <1>2, <1>4, <2>1 DEF Inv, Connected, EndsExplained
  <1>7. Account'
    <2>1. Away(c) = 0 /\ \A d \in Clients : Away(d)' = Away(d)
      BY <1>2 DEF Inv, Account, Away, Held
    <2> QED
      BY <1>2, <1>4, <2>1 DEF Inv, Account
  <1> QED
    BY <1>3, <1>5, <1>6, <1>7 DEF Inv

\* A client ends, by itself between two lines or killed at any moment: by itself
\* it leaves no byte behind.
LEMMA EndInv ==
    ASSUME Inv, NEW c \in Clients, EndOfInput(c) \/ Kill(c)
    PROVE  Inv'
  <1>1. /\ cpc[c] \in {"line", "write", "read"}
        /\ \/ cpc' = [cpc EXCEPT ![c] = "done"] /\ cpc[c] = "line"
           \/ cpc' = [cpc EXCEPT ![c] = "killed"]
        /\ UNCHANGED <<spc, con, got, backlog, line, rest, lines, up, down>>
        /\ sock' = [sock EXCEPT ![c] = IF @ = "open" THEN (IF down[c] > 0 THEN "rst" ELSE "fin")
                                       ELSE @]
    BY DEF EndOfInput, Kill, InExchange, Hangup, server
  <1>2. TypeOK'
    BY <1>1 DEF Inv, TypeOK
  <1>3. /\ \A d \in Clients : d # c => cpc'[d] = cpc[d] /\ sock'[d] = sock[d]
        /\ cpc'[c] \in {"done", "killed"}
        /\ cpc'[c] = "done" => cpc[c] = "line"
    BY <1>1 DEF Inv, TypeOK
  <1>4. ServerPhase' /\ ServerOutlivesClients'
    BY <1>1, <1>3 DEF Inv, ServerPhase, ServerOutlivesClients, Gone
  <1>5. Connected'
    <2>1. \A i \in 1 .. Len(backlog) : backlog[i] \in Clients
      BY DEF Inv, TypeOK
    <2> QED
      BY <1>1, <1>3, <2>1 DEF Inv, Connected
  <1>6. \A d \in Clients : Away(d)' = Away(d)
    BY <1>1 DEF Away, Held
  <1>7. Account'
    BY <1>1, <1>3, <1>6 DEF Inv, Account
  <1>8. EndsExplained'
    <2>1. cpc'[c] = "done" => down[c] = 0
      <3>1. cpc[c] = "line" => Away(c) = 0
        BY DEF Inv, Account
      <3>2. up[c] \in Nat /\ down[c] \in Nat /\ Held(c) \in Nat
        BY TypeFacts DEF Inv
      <3>3. Away(c) = 0 => down[c] = 0
        BY <3>2 DEF Away
      <3> QED
        BY <1>3, <3>1, <3>3
    <2>2. /\ sock'[c] = "rst" => sock[c] = "rst" \/ down[c] > 0
      BY <1>1 DEF Inv, TypeOK
    <2>3. sock[c] # "rst"
      BY <1>1 DEF Inv, EndsExplained
    <2> QED
      BY <1>3, <2>1, <2>2, <2>3 DEF Inv, EndsExplained
  <1> QED
    BY <1>2, <1>4, <1>5, <1>7, <1>8 DEF Inv

\* writeExact() and readExact() of the client move its own bytes.
LEMMA ExchangeInv ==
    ASSUME Inv, NEW c \in Clients, ClientWrite(c) \/ ClientRead(c)
    PROVE  Inv'
  <1>0. /\ UNCHANGED <<spc, con, got, backlog, line, lines, sock>>
        /\ cpc[c] \in {"write", "read"}
        /\ SocketBuffer \in Nat /\ BuffSize \in Nat /\ line[c] \in Nat /\ rest[c] \in 0 .. line[c]
        /\ up[c] \in 0 .. SocketBuffer /\ down[c] \in 0 .. SocketBuffer
        /\ Held(c) \in Nat /\ Held(c)' = Held(c)
    <2>1. UNCHANGED <<spc, con, got, backlog, line, lines, sock>> /\ cpc[c] \in {"write", "read"}
      BY DEF ClientWrite, ClientRead, server
    <2> QED
      BY <2>1, TypeFacts DEF Inv, Held
  <1>1. /\ rest'[c] \in 0 .. line[c] /\ up'[c] \in 0 .. SocketBuffer /\ down'[c] \in 0 .. SocketBuffer
        /\ cpc'[c] \in {"line", "write", "read"}
        /\ cpc' = [cpc EXCEPT ![c] = cpc'[c]] /\ rest' = [rest EXCEPT ![c] = rest'[c]]
        /\ up' = [up EXCEPT ![c] = up'[c]] /\ down' = [down EXCEPT ![c] = down'[c]]
        /\ cpc'[c] = "line"  => Away(c)' = 0
        /\ cpc'[c] = "write" => Away(c)' = line[c] - rest'[c]
        /\ cpc'[c] = "read"  => Away(c)' = rest'[c]
    <2>1. CASE ClientWrite(c)
      <3>1. PICK n \in 1 .. rest[c] :
               /\ up[c] + n <= SocketBuffer
               /\ up' = [up EXCEPT ![c] = @ + n]
               /\ rest' = [rest EXCEPT ![c] = IF n = @ THEN line[c] ELSE @ - n]
               /\ cpc' = [cpc EXCEPT ![c] = IF n = rest[c] THEN "read" ELSE @]
        BY <2>1 DEF ClientWrite
      <3>2. cpc[c] = "write" /\ down' = down /\ Away(c) = line[c] - rest[c]
        BY <2>1 DEF ClientWrite, Inv, Account
      <3>3. /\ up'[c] = up[c] + n /\ down'[c] = down[c]
            /\ rest'[c] = IF n = rest[c] THEN line[c] ELSE rest[c] - n
            /\ cpc'[c] = IF n = rest[c] THEN "read" ELSE "write"
        BY <3>1, <3>2 DEF Inv, TypeOK
      <3>4. Away(c)' = Away(c) + n
        BY <1>0, <3>3 DEF Away
      <3>5. /\ cpc' = [cpc EXCEPT ![c] = cpc'[c]] /\ rest' = [rest EXCEPT ![c] = rest'[c]]
            /\ up' = [up EXCEPT ![c] = up'[c]] /\ down' = [down EXCEPT ![c] = down'[c]]
        BY <3>1, <3>2, <3>3 DEF Inv, TypeOK
      <3> QED
        BY <1>0, <3>1, <3>2, <3>3, <3>4, <3>5
    <2>2. CASE ClientRead(c)
      <3>1. PICK n \in 1 .. down[c] :
               /\ n <= rest[c]
               /\ down' = [down EXCEPT ![c] = @ - n]
               /\ rest' = [rest EXCEPT ![c] = @ - n]
               /\ cpc' = [cpc EXCEPT ![c] = IF n = rest[c] THEN "line" ELSE @]
        BY <2>2 DEF ClientRead
      <3>2. cpc[c] = "read" /\ up' = up /\ Away(c) = rest[c]
        BY <2>2 DEF ClientRead, Inv, Account
      <3>3. /\ up'[c] = up[c] /\ down'[c] = down[c] - n
            /\ rest'[c] = rest[c] - n
            /\ cpc'[c] = IF n = rest[c] THEN "line" ELSE "read"
        BY <3>1, <3>2 DEF Inv, TypeOK
      <3>4. Away(c)' = Away(c) - n
        BY <1>0, <3>1, <3>3 DEF Away
      <3>5. /\ cpc' = [cpc EXCEPT ![c] = cpc'[c]] /\ rest' = [rest EXCEPT ![c] = rest'[c]]
            /\ up' = [up EXCEPT ![c] = up'[c]] /\ down' = [down EXCEPT ![c] = down'[c]]
        BY <3>1, <3>2, <3>3 DEF Inv, TypeOK
      <3> QED
        BY <1>0, <3>1, <3>2, <3>3, <3>4, <3>5
    <2> QED
      BY <2>1, <2>2
  <1>2. \A d \in Clients : d # c => /\ cpc'[d] = cpc[d] /\ rest'[d] = rest[d]
                                    /\ up'[d] = up[d] /\ down'[d] = down[d]
    BY <1>1 DEF Inv, TypeOK
  <1>3. TypeOK'
    <2>1. /\ cpc' \in [Clients -> {"connect", "line", "write", "read", "done", "failed", "killed"}]
          /\ up' \in [Clients -> 0 .. SocketBuffer] /\ down' \in [Clients -> 0 .. SocketBuffer]
      <3>1. /\ cpc \in [Clients -> {"connect", "line", "write", "read", "done", "failed", "killed"}]
            /\ up \in [Clients -> 0 .. SocketBuffer] /\ down \in [Clients -> 0 .. SocketBuffer]
        BY DEF Inv, TypeOK
      <3>2. PICK k, u, d :
               /\ k \in {"line", "write", "read"} /\ u \in 0 .. SocketBuffer /\ d \in 0 .. SocketBuffer
               /\ cpc' = [cpc EXCEPT ![c] = k] /\ up' = [up EXCEPT ![c] = u]
               /\ down' = [down EXCEPT ![c] = d]
        BY <1>1
      <3> QED
        BY <3>1, <3>2
    <2>2. rest' \in [Clients -> Nat]
      <3>1. rest'[c] \in Nat
        BY <1>0, <1>1
      <3> QED
        BY <1>1, <3>1 DEF Inv, TypeOK
    <2>3. \A d \in Clients : rest'[d] <= line'[d]
      <3>1. \A d \in Clients : rest[d] <= line[d]
        BY DEF Inv, TypeOK
      <3>2. line' = line /\ rest'[c] <= line[c]
        BY <1>0, <1>1
      <3> QED
        BY <1>2, <3>1, <3>2
    <2> QED
      BY <1>0, <2>1, <2>2, <2>3 DEF Inv, TypeOK
  <1>4. Account'
    <2>1. \A d \in Clients : d # c => Away(d)' = Away(d)
      BY <1>0, <1>2 DEF Away, Held
    <2> QED
      BY <1>0, <1>1, <1>2, <2>1 DEF Inv, Account
  <1>5. ServerPhase' /\ ServerOutlivesClients'
    BY <1>0, <1>1, <1>2 DEF Inv, ServerPhase, ServerOutlivesClients, Gone
  <1>6. Connected' /\ EndsExplained'
    <2>1. \A i \in 1 .. Len(backlog) : backlog[i] \in Clients
      BY DEF Inv, TypeOK
    <2> QED
      BY <1>0, <1>1, <1>2, <2>1 DEF Inv, Connected, EndsExplained
  <1> QED
    BY <1>3, <1>4, <1>5, <1>6 DEF Inv

\* The exchange fails because the server is gone.
LEMMA FailInv ==
    ASSUME Inv, NEW c \in Clients, ExchangeFails(c)
    PROVE  Inv'
  <1>1. /\ cpc[c] \in {"write", "read"} /\ cpc' = [cpc EXCEPT ![c] = "failed"]
        /\ UNCHANGED <<spc, con, got, backlog, line, rest, lines, up, down, sock>>
    BY DEF ExchangeFails, InExchange, server
  <1>2. TypeOK' /\ ServerPhase'
    BY <1>1 DEF Inv, TypeOK, ServerPhase, Gone
  <1>3. cpc'[c] = "failed" /\ \A d \in Clients : d # c => cpc'[d] = cpc[d]
    BY <1>1 DEF Inv, TypeOK
  <1>4. \A d \in Clients : Away(d)' = Away(d)
    BY <1>1 DEF Away, Held
  <1>5. Account' /\ ServerOutlivesClients' /\ EndsExplained'
    BY <1>1, <1>3, <1>4 DEF Inv, Account, ServerOutlivesClients, EndsExplained
  <1>6. Connected'
    <2>1. \A i \in 1 .. Len(backlog) : backlog[i] \in Clients
      BY DEF Inv, TypeOK
    <2> QED
      BY <1>1, <1>3, <2>1 DEF Inv, Connected
  <1> QED
    BY <1>2, <1>5, <1>6 DEF Inv

\* The client's kernel resets a connection only when bytes come for a client that
\* has ended: one that ended by itself gets none.
LEMMA ResetBackInv ==
    ASSUME Inv, NEW c \in Clients, ResetBack(c)
    PROVE  Inv'
  <1>1. /\ sock[c] = "fin" /\ down[c] > 0 /\ sock' = [sock EXCEPT ![c] = "rst"]
        /\ UNCHANGED <<spc, con, got, backlog, cpc, line, rest, lines, up, down>>
    BY DEF ResetBack, server, client
  <1>2. cpc[c] = "killed"
    <2>1. cpc[c] = "done" => Away(c) = 0
      BY DEF Inv, Account
    <2>2. up[c] \in Nat /\ down[c] \in Nat /\ Held(c) \in Nat
      BY TypeFacts DEF Inv
    <2>3. cpc[c] \in {"done", "killed"}
      BY <1>1 DEF Inv, EndsExplained
    <2> QED
      BY <1>1, <2>1, <2>2, <2>3 DEF Away
  <1>3. TypeOK' /\ ServerPhase' /\ Connected' /\ ServerOutlivesClients'
    BY <1>1 DEF Inv, TypeOK, ServerPhase, Connected, ServerOutlivesClients, Gone
  <1>4. Account'
    BY <1>1 DEF Inv, Account, Away, Held
  <1>5. EndsExplained'
    BY <1>1, <1>2 DEF Inv, TypeOK, EndsExplained
  <1> QED
    BY <1>3, <1>4, <1>5 DEF Inv

-----------------------------------------------------------------------------
\* Every step of the server, of a client or of its kernel.
LEMMA NextInv == Inv /\ [Next]_vars => Inv'
  <1> SUFFICES ASSUME Inv, [Next]_vars PROVE Inv'
    OBVIOUS
  <1>1. CASE UNCHANGED vars
    <2>1. TypeOK' /\ ServerPhase' /\ ServerOutlivesClients'
      BY <1>1 DEF vars, server, client, Inv, TypeOK, ServerPhase, ServerOutlivesClients, Gone
    <2>2. Account' /\ Connected' /\ EndsExplained'
      BY <1>1 DEF vars, server, client, Inv, Account, Away, Held, Connected, EndsExplained
    <2> QED
      BY <2>1, <2>2 DEF Inv
  <1>2. ASSUME NEW c \in Clients, EchoClient(c) \/ Kill(c) \/ ResetBack(c)
        PROVE  Inv'
    BY <1>2, ConnectInv, GetLineInv, EndInv, ExchangeInv, FailInv, ResetBackInv DEF EchoClient
  <1> QED
    BY <1>1, <1>2, ServerInv DEF Next

\* The inductive invariant holds in every reachable state.
THEOREM Invariance == Spec => []Inv
  BY InitInv, NextInv, PTL DEF Spec

\* Every client gets back its own bytes, all of them and no others: what it has
\* written and not read back is in one of the two sockets or in the server.
THEOREM AccountCorrect == Spec => []BytesAccounted
  <1>1. Inv => BytesAccounted
    BY DEF Inv, BytesAccounted, OwnBytesOnly, Account, Away
  <1> QED
    BY <1>1, Invariance, PTL

\* An exception ends the server only after a client was killed in an exchange.
THEOREM OutlivesCorrect == Spec => []ServerOutlivesClients
  <1>1. Inv => ServerOutlivesClients
    BY DEF Inv
  <1> QED
    BY <1>1, Invariance, PTL
=============================================================================
