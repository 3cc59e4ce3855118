---------------------------- MODULE ChildProcess ----------------------------
(***************************************************************************)
(* Process objects of one parent, each with two pipes to a child that runs *)
(* the echo program.  The parent is single-threaded and keeps its objects  *)
(* on the stack, so they are destroyed youngest first.  A child forked     *)
(* while older objects are alive inherits the parent's ends of their pipes *)
(* (no descriptor is close-on-exec).  Bytes are counted, not represented.  *)
(*                                                                         *)
(* Exceptions of Process are caught by nobody: they end the parent.        *)
(***************************************************************************)
EXTENDS Integers, FiniteSets

CONSTANTS
    NumProcs,       \* bound: Process objects constructed in one life of the parent
    Messages,       \* lengths of the messages a child may be sent and expected to return
    PipeSize,       \* bytes a pipe holds
    Block,          \* sizeof(buffer) of the echo program
    StdioBuffer     \* bytes buffered by its stdin, and by its stdout

ASSUME ChildProcessAssumption ==
    /\ NumProcs \in Nat /\ Messages \subseteq Nat \ {0} /\ PipeSize \in Nat \ {0}
    /\ Block \in Nat \ {0} /\ StdioBuffer \in Nat /\ StdioBuffer >= Block

Procs  == 1 .. NumProcs     \* the objects, in the order of their construction
Parent == 0

VARIABLES
    main,       \* the parent: "up", or what ended it
    object,     \* object[p]: "none", "open", "destroyed"
    op,         \* the member function the parent is in, and its object
    len,        \* length of the object's message, 0 before writeExact()
    wrote,      \* `total` of writeExact()
    recv,       \* `total` of readExact()
    inPipe,     \* bytes in the pipe to the child's stdin
    inW,        \* processes that hold the writing end of that pipe
    outPipe,    \* bytes in the pipe from the child's stdout
    outR,       \* processes that hold the reading end of that pipe
    child,      \* the child process
    got,        \* bytes the child has read and not yet copied
    out,        \* bytes in its stdout buffer
    eof,        \* feof(stdin)
    flushing    \* fwrite() is writing a full stdout buffer

parentVars == <<main, object, op, len, wrote, recv>>
echoVars   == <<got, out, eof, flushing>>
vars == <<parentVars, inPipe, inW, outPipe, outR, child, echoVars>>

Running == {"born", "run"}

\* Types; no total exceeds the message, no pipe its size.
TypeOK ==
    /\ main \in {"up", "fork", "sigpipe", "eof"}
    /\ object \in [Procs -> {"none", "open", "destroyed"}]
    /\ op \in [kind : {"idle", "write", "read", "wait"}, p : Procs \cup {Parent}]
    /\ len \in [Procs -> Messages \cup {0}]
    /\ wrote \in [Procs -> Nat] /\ \A p \in Procs : wrote[p] <= len[p]
    /\ recv \in [Procs -> Nat] /\ \A p \in Procs : recv[p] <= len[p]
    /\ inPipe \in [Procs -> 0 .. PipeSize]
    /\ inW \in [Procs -> SUBSET (Procs \cup {Parent})]
    /\ outPipe \in [Procs -> 0 .. PipeSize]
    /\ outR \in [Procs -> SUBSET (Procs \cup {Parent})]
    /\ child \in [Procs -> Running \cup {"none", "failed", "killed", "exited"}]
    /\ got \in [Procs -> Nat]
    /\ out \in [Procs -> 0 .. StdioBuffer]
    /\ eof \in [Procs -> BOOLEAN]
    /\ flushing \in [Procs -> BOOLEAN]

Idle == [kind |-> "idle", p |-> Parent]

Init ==
    /\ main = "up"
    /\ object = [p \in Procs |-> "none"]
    /\ op = Idle
    /\ len = [p \in Procs |-> 0]
    /\ wrote = [p \in Procs |-> 0] /\ recv = [p \in Procs |-> 0]
    /\ inPipe = [p \in Procs |-> 0] /\ inW = [p \in Procs |-> {}]
    /\ outPipe = [p \in Procs |-> 0] /\ outR = [p \in Procs |-> {}]
    /\ child = [p \in Procs |-> "none"]
    /\ got = [p \in Procs |-> 0] /\ out = [p \in Procs |-> 0]
    /\ eof = [p \in Procs |-> FALSE] /\ flushing = [p \in Procs |-> FALSE]

Least(m, n) == IF m <= n THEN m ELSE n

Ready   == main = "up" /\ op = Idle
In(k)   == main = "up" /\ op.kind = k
Open(p) == object[p] = "open"

\* Process q ends, and the kernel closes every descriptor it has.
Drop(holders, q) == [p \in Procs |-> holders[p] \ {q}]

\* The parent ends: by SIGPIPE, or by an exception nobody catches.
Die(why) ==
    /\ main' = why
    /\ inW' = Drop(inW, Parent)
    /\ outR' = Drop(outR, Parent)
    /\ UNCHANGED <<object, op, len, wrote, recv, inPipe, outPipe, child, echoVars>>

-----------------------------------------------------------------------------
(* The parent.                                                             *)

ConstructChildKeepsEnds(p) ==   \* mutant: the child does not close parent_write
    /\ Ready
    /\ object[p] = "none"
    /\ \A q \in Procs : q < p => object[q] # "none"
    /\ object' = [object EXCEPT ![p] = "open"]
    /\ child' = [child EXCEPT ![p] = "born"]
    /\ inW' = [q \in Procs |-> IF q = p THEN {Parent, p}
                               ELSE inW[q] \cup {r \in {p} : Parent \in inW[q]}]
    /\ outR' = [q \in Procs |-> IF q = p THEN {Parent}
                                ELSE outR[q] \cup {r \in {p} : Parent \in outR[q]}]
    /\ UNCHANGED <<main, op, len, wrote, recv, inPipe, outPipe, echoVars>>

\* Process::Process(): two pipes, fork(); each side closes the ends of these
\* pipes that belong to the other.  The child also has what the parent holds of
\* older objects.
Construct(p) ==
    /\ Ready
    /\ object[p] = "none"
    /\ \A q \in Procs : q < p => object[q] # "none"
    /\ object' = [object EXCEPT ![p] = "open"]
    /\ child' = [child EXCEPT ![p] = "born"]
    /\ inW' = [q \in Procs |-> IF q = p THEN {Parent}
                               ELSE inW[q] \cup {r \in {p} : Parent \in inW[q]}]
    /\ outR' = [q \in Procs |-> IF q = p THEN {Parent}
                                ELSE outR[q] \cup {r \in {p} : Parent \in outR[q]}]
    /\ UNCHANGED <<main, op, len, wrote, recv, inPipe, outPipe, echoVars>>

\* pipe() or fork() fails.
ConstructFails(p) ==
    /\ Ready
    /\ object[p] = "none"
    /\ Die("fork")

Return ==
    /\ op' = Idle
    /\ UNCHANGED <<main, object, len, wrote, recv, inPipe, inW, outPipe, outR, child, echoVars>>

\* writeExact() of the whole message, once for each object.
CallWrite(p) ==
    /\ Ready
    /\ Open(p)
    /\ Parent \in inW[p]
    /\ len[p] = 0
    /\ \E n \in Messages : len' = [len EXCEPT ![p] = n]
    /\ op' = [kind |-> "write", p |-> p]
    /\ UNCHANGED <<main, object, wrote, recv, inPipe, inW, outPipe, outR, child, echoVars>>

WriteWholeAgain ==   \* mutant: write(data + total, len), not len - total
    LET p == op.p IN
    /\ In("write")
    /\ wrote[p] < len[p]
    /\ child[p] \in Running
    /\ \E n \in 1 .. len[p] :
          /\ n <= PipeSize - inPipe[p]
          /\ wrote' = [wrote EXCEPT ![p] = @ + n]
          /\ inPipe' = [inPipe EXCEPT ![p] = @ + n]
    /\ UNCHANGED <<main, object, op, len, recv, inW, outPipe, outR, child, echoVars>>

\* Inside writeExact(): the pipe takes bytes.
WriteSome ==
    LET p == op.p IN
    /\ In("write")
    /\ child[p] \in Running
    /\ \E n \in 1 .. len[p] - wrote[p] :
          /\ n <= PipeSize - inPipe[p]
          /\ wrote' = [wrote EXCEPT ![p] = @ + n]
          /\ inPipe' = [inPipe EXCEPT ![p] = @ + n]
    /\ UNCHANGED <<main, object, op, len, recv, inW, outPipe, outR, child, echoVars>>

WriteReturn == In("write") /\ wrote[op.p] = len[op.p] /\ Return

\* write() to a pipe no process reads.
WriteSigpipe ==
    /\ In("write")
    /\ wrote[op.p] < len[op.p]
    /\ child[op.p] \notin Running
    /\ Die("sigpipe")

\* closeStdin().
CloseStdin(p) ==
    /\ Ready
    /\ Open(p)
    /\ Parent \in inW[p]
    /\ inW' = [inW EXCEPT ![p] = @ \ {Parent}]
    /\ UNCHANGED <<parentVars, inPipe, outPipe, outR, child, echoVars>>

\* readExact() of the message, after writeExact() and closeStdin().
CallRead(p) ==
    /\ Ready
    /\ Open(p)
    /\ Parent \in outR[p] \ inW[p]
    /\ len[p] # 0
    /\ recv[p] = 0
    /\ op' = [kind |-> "read", p |-> p]
    /\ UNCHANGED <<main, object, len, wrote, recv, inPipe, inW, outPipe, outR, child, echoVars>>

\* Inside readExact(): read() returns bytes.
ReadSome ==
    LET p == op.p IN
    /\ In("read")
    /\ \E n \in 1 .. len[p] - recv[p] :
          /\ n <= outPipe[p]
          /\ recv' = [recv EXCEPT ![p] = @ + n]
          /\ outPipe' = [outPipe EXCEPT ![p] = @ - n]
    /\ UNCHANGED <<main, object, op, len, wrote, inPipe, inW, outR, child, echoVars>>

ReadReturn == In("read") /\ recv[op.p] = len[op.p] /\ Return

ReadEofRetries ==   \* mutant: 0 bytes are not the end, the loop goes on
    FALSE /\ Return

\* readExact(): "EOF encountered".
ReadEof ==
    /\ In("read")
    /\ recv[op.p] < len[op.p]
    /\ outPipe[op.p] = 0
    /\ child[op.p] \notin Running
    /\ Die("eof")

CloseReaderOnly(p) ==   \* mutant: close() without closeStdin()
    /\ inW' = inW
    /\ outR' = [outR EXCEPT ![p] = @ \ {Parent}]

\* Process::close(): both ends, each unless it is closed already.
CloseBoth(p) ==
    /\ inW' = [inW EXCEPT ![p] = @ \ {Parent}]
    /\ outR' = [outR EXCEPT ![p] = @ \ {Parent}]

\* close() called by the program.
Close(p) ==
    /\ Ready
    /\ Open(p)
    /\ Parent \in outR[p]
    /\ CloseBoth(p)
    /\ UNCHANGED <<parentVars, inPipe, outPipe, child, echoVars>>

\* ~Process() of the youngest object: close(), then waitpid().
Destroy(p) ==
    /\ Ready
    /\ Open(p)
    /\ \A q \in Procs : q > p => ~Open(q)
    /\ CloseBoth(p)
    /\ op' = [kind |-> "wait", p |-> p]
    /\ UNCHANGED <<main, object, len, wrote, recv, inPipe, outPipe, child, echoVars>>

\* waitpid() returns the child.
WaitReturn ==
    /\ In("wait")
    /\ child[op.p] \notin Running
    /\ object' = [object EXCEPT ![op.p] = "destroyed"]
    /\ op' = Idle
    /\ UNCHANGED <<main, len, wrote, recv, inPipe, inW, outPipe, outR, child, echoVars>>

-----------------------------------------------------------------------------
(* A child.                                                                *)

Exit(p, how) ==
    /\ child' = [child EXCEPT ![p] = how]
    /\ inW' = Drop(inW, p)
    /\ outR' = Drop(outR, p)
    /\ UNCHANGED <<parentVars, inPipe, outPipe, echoVars>>

\* execv() of the echo program, or its failure and exit(EXIT_FAILURE).
Exec(p) ==
    /\ child[p] = "born"
    /\ \/ /\ child' = [child EXCEPT ![p] = "run"]
          /\ UNCHANGED <<parentVars, inPipe, inW, outPipe, outR, echoVars>>
       \/ Exit(p, "failed")

\* fread() has neither a block nor the end of the input.
Wants(p) == child[p] = "run" /\ ~eof[p] /\ ~flushing[p] /\ got[p] < Block

ChildReadAtEof(p) ==   \* mutant: the input is read when it is complete
    LET n == Least(inPipe[p], StdioBuffer) IN
    /\ Wants(p)
    /\ n > 0
    /\ inW[p] = {}
    /\ got' = [got EXCEPT ![p] = @ + n]
    /\ inPipe' = [inPipe EXCEPT ![p] = @ - n]
    /\ UNCHANGED <<parentVars, inW, outPipe, outR, child, out, eof, flushing>>

\* fread() reads what is there, up to the size of the stdin buffer.
ChildRead(p) ==
    LET n == Least(inPipe[p], StdioBuffer) IN
    /\ Wants(p)
    /\ n > 0
    /\ got' = [got EXCEPT ![p] = @ + n]
    /\ inPipe' = [inPipe EXCEPT ![p] = @ - n]
    /\ UNCHANGED <<parentVars, inW, outPipe, outR, child, out, eof, flushing>>

\* read() returns 0: nobody holds the writing end any more.
ChildEof(p) ==
    /\ Wants(p)
    /\ inPipe[p] = 0
    /\ inW[p] = {}
    /\ eof' = [eof EXCEPT ![p] = TRUE]
    /\ UNCHANGED <<parentVars, inPipe, inW, outPipe, outR, child, got, out, flushing>>

\* fread() has returned n bytes.
HasBlock(p, n) ==
    /\ child[p] = "run" /\ ~flushing[p]
    /\ n = Least(Block, got[p])
    /\ n = Block \/ (eof[p] /\ n > 0)

\* fwrite(): into the stdout buffer, which is first written out when it is full.
ChildCopy(p) ==
    \E n \in 1 .. Block :
      /\ HasBlock(p, n)
      /\ IF out[p] + n <= StdioBuffer
         THEN /\ out' = [out EXCEPT ![p] = @ + n]
              /\ got' = [got EXCEPT ![p] = @ - n]
              /\ UNCHANGED flushing
         ELSE flushing' = [flushing EXCEPT ![p] = TRUE] /\ UNCHANGED <<out, got>>
      /\ UNCHANGED <<parentVars, inPipe, inW, outPipe, outR, child, eof>>

\* The child is in write(1): its buffer is full, or it is exiting.
Flushing(p) ==
    /\ child[p] = "run"
    /\ flushing[p] \/ (eof[p] /\ got[p] = 0 /\ out[p] > 0)

\* The pipe takes bytes of the stdout buffer.
ChildWrite(p) ==
    /\ Flushing(p)
    /\ outR[p] # {}
    /\ \E n \in 1 .. out[p] :
          /\ n <= PipeSize - outPipe[p]
          /\ out' = [out EXCEPT ![p] = @ - n]
          /\ outPipe' = [outPipe EXCEPT ![p] = @ + n]
          /\ flushing' = [flushing EXCEPT ![p] = @ /\ n < out[p]]
    /\ UNCHANGED <<parentVars, inPipe, inW, outR, child, got, eof>>

\* Nobody can read the pipe.
ChildSigpipe(p) == Flushing(p) /\ outR[p] = {} /\ Exit(p, "killed")

ChildExitUnflushed(p) ==   \* mutant: the stdout buffer is lost at exit
    child[p] = "run" /\ eof[p] /\ got[p] = 0 /\ ~flushing[p] /\ Exit(p, "exited")

\* main() of the echo program returns, its stdout buffer is written.
ChildExit(p) == child[p] = "run" /\ eof[p] /\ got[p] = 0 /\ out[p] = 0 /\ Exit(p, "exited")

-----------------------------------------------------------------------------
\* What the parent does inside a member function.
Work ==
    \/ WriteSome \/ WriteReturn \/ WriteSigpipe
    \/ ReadSome \/ ReadReturn \/ ReadEof
    \/ WaitReturn

\* What the parent's program chooses to call.
Program(p) ==
    \/ Construct(p) \/ ConstructFails(p)
    \/ CallWrite(p) \/ CloseStdin(p) \/ CallRead(p)
    \/ Close(p) \/ Destroy(p)

Child(p) ==
    \/ Exec(p)
    \/ ChildRead(p) \/ ChildEof(p) \/ ChildCopy(p)
    \/ ChildWrite(p) \/ ChildSigpipe(p) \/ ChildExit(p)

Next == Work \/ \E p \in Procs : Program(p) \/ Child(p)

Spec == Init /\ [][Next]_vars

\* Processes that can run do.  What the program calls next is up to it.
FairSpec == Spec /\ WF_vars(Work) /\ \A p \in Procs : WF_vars(Child(p))

-----------------------------------------------------------------------------
\* An inherited end of an older object's pipe keeps that pipe open, but never
\* the pipes of the object being destroyed: in ~Process() nobody is left who
\* could keep the child from seeing the end of its input, or from SIGPIPE.
DestructorSeesEof ==
    op.kind = "wait" => inW[op.p] = {} /\ outR[op.p] = {}

\* Nothing but a failed execv() (or pipe(), fork()) ends the parent: a child
\* that runs gives back every byte before the pipe ends.
EndedByExecOnly ==
    main \in {"sigpipe", "eof"} => \E p \in Procs : child[p] = "failed"

\* ~Process() comes back: no zombie, no parent stuck in waitpid().
WaitEnds == op.kind = "wait" ~> op.kind # "wait"

\* writeExact() comes back although the child may be unable to write, because
\* nobody reads its stdout meanwhile, as long as the two pipes hold all but one
\* byte of the message (16 KiB against 64 KiB each).  Once both sides are stuck
\* the pipes are full, the child has a byte it cannot write and the parent has
\* another, whatever the stdio buffers in between hold.
WriteEnds ==
    \A p \in Procs :
      main = "up" /\ op = [kind |-> "write", p |-> p] /\ len[p] < 2 * PipeSize + 2 ~>
        main # "up" \/ op.kind # "write"

\* readExact() comes back once nobody else holds the child's stdin.  A younger
\* child that inherited it keeps readExact() waiting.
ReadEnds ==
    \A p \in Procs :
      main = "up" /\ op = [kind |-> "read", p |-> p] /\ inW[p] = {} ~>
        main # "up" \/ op.kind # "read"

\* When the parent ends, all its children end: the youngest first, which gives
\* up the pipe ends it inherited.
OrphansEnd == main # "up" ~> \A p \in Procs : child[p] \notin Running
=============================================================================
