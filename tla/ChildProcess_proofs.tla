------------------------ MODULE ChildProcess_proofs ------------------------
(***************************************************************************)
(* Proofs, for any number of Process objects, any messages and any sizes   *)
(* of pipes and buffers: ~Process() never waits for a child whose pipes    *)
(* somebody else keeps open, no byte is lost between the parent and a      *)
(* child, and only a failed execv() makes an object's pipes break.         *)
(***************************************************************************)
EXTENDS ChildProcess, TLAPS

\* The part of the type invariant the argument needs.
Types ==
    /\ object \in [Procs -> {"none", "open", "destroyed"}]
    /\ op \in [kind : {"idle", "write", "read", "wait"}, p : Procs \cup {Parent}]
    /\ inW \in [Procs -> SUBSET (Procs \cup {Parent})]
    /\ outR \in [Procs -> SUBSET (Procs \cup {Parent})]
    /\ child \in [Procs -> Running \cup {"none", "failed", "killed", "exited"}]

Holders(p) == inW[p] \cup outR[p]

\* An end of p's pipes is held by the parent or by a running younger child.
HeldByYounger ==
    \A p \in Procs : \A q \in Holders(p) : q # Parent => q > p /\ child[q] \in Running

\* Objects are constructed in order, and one that is not yet constructed or
\* already destroyed has no running child.
ConstructedInOrder ==
    /\ \A q, r \in Procs : q < r /\ object[r] # "none" => object[q] # "none"
    /\ \A p \in Procs : object[p] = "none" => child[p] = "none" /\ Holders(p) = {}
    /\ \A p \in Procs : object[p] = "destroyed" => child[p] \notin Running

\* ~Process() is at work on the youngest object, whose ends the parent has closed.
DestroysYoungest ==
    op.kind = "wait" =>
      /\ op.p \in Procs
      /\ object[op.p] # "none"
      /\ Parent \notin Holders(op.p)
      /\ \A q \in Procs : q > op.p => object[q] # "open"

\* The inductive invariant.
Inv == Types /\ HeldByYounger /\ ConstructedInOrder /\ DestroysYoungest

-----------------------------------------------------------------------------
\* The invariant gives the property: a holder other than the parent would be a
\* running child of an object younger than the youngest.
LEMMA InvImplies == Inv => DestructorSeesEof
  <1> SUFFICES ASSUME Inv, op.kind = "wait",
                      NEW q \in inW[op.p] \cup outR[op.p]
               PROVE  FALSE
    BY DEF DestructorSeesEof
  <1>1. op.p \in Procs /\ q \in Holders(op.p) /\ q # Parent
    BY DEF Inv, DestroysYoungest, Holders
  <1>2. q \in Procs
    BY <1>1 DEF Inv, Types, Holders
  <1>3. q > op.p /\ child[q] \in Running
    BY <1>1 DEF Inv, HeldByYounger
  <1>4. object[q] \in {"none", "destroyed"}
    BY <1>1, <1>2, <1>3 DEF Inv, DestroysYoungest, Types
  <1> QED
    BY <1>2, <1>3, <1>4 DEF Inv, ConstructedInOrder, Running

\* Before the first constructor there are neither children nor pipes.
LEMMA InitInv == Init => Inv
  BY DEF Init, Inv, Types, HeldByYounger, ConstructedInOrder, DestroysYoungest, Holders,
         Idle, Procs, Parent, Running

\* Steps that change nothing the invariant looks at.
LEMMA Frame ==
    ASSUME Inv, UNCHANGED <<object, op, inW, outR, child>>
    PROVE  Inv'
  BY DEF Inv, Types, HeldByYounger, ConstructedInOrder, DestroysYoungest, Holders

\* Steps that only enter or leave writeExact() or readExact().
LEMMA OpOnly ==
    ASSUME Inv, UNCHANGED <<object, inW, outR, child>>,
           op' \in [kind : {"idle", "write", "read"}, p : Procs \cup {Parent}]
    PROVE  Inv'
  BY DEF Inv, Types, HeldByYounger, ConstructedInOrder, DestroysYoungest, Holders

\* Ends are given up, and nothing else happens to objects and children.
LEMMA EndsGivenUp ==
    ASSUME Inv, UNCHANGED <<object, child>>,
           \A p \in Procs : inW'[p] \subseteq inW[p] /\ outR'[p] \subseteq outR[p]
    PROVE  HeldByYounger' /\ ConstructedInOrder'
  <1>1. HeldByYounger'
    BY DEF Inv, HeldByYounger, Holders
  <1>2. ConstructedInOrder'
    BY DEF Inv, ConstructedInOrder, Holders
  <1> QED
    BY <1>1, <1>2

\* The parent ends: all its ends are closed.
LEMMA DieInv ==
    ASSUME Inv, NEW why, Die(why)
    PROVE  Inv'
  <1>1. /\ inW' = [p \in Procs |-> inW[p] \ {Parent}]
        /\ outR' = [p \in Procs |-> outR[p] \ {Parent}]
        /\ UNCHANGED <<object, op, child>>
    BY DEF Die, Drop
  <1>2. Types'
    BY <1>1 DEF Inv, Types
  <1>3. HeldByYounger' /\ ConstructedInOrder'
    BY <1>1, EndsGivenUp
  <1>4. DestroysYoungest'
    BY <1>1 DEF Inv, DestroysYoungest, Holders
  <1> QED
    BY <1>2, <1>3, <1>4 DEF Inv

\* The constructor: the new child inherits ends of older objects only, since a
\* younger one does not exist yet.
LEMMA ConstructInv ==
    ASSUME Inv, NEW p \in Procs, Construct(p)
    PROVE  Inv'
  <1>1. /\ object[p] = "none" /\ op = Idle /\ UNCHANGED op
        /\ \A q \in Procs : q < p => object[q] # "none"
        /\ object' = [object EXCEPT ![p] = "open"]
        /\ child' = [child EXCEPT ![p] = "born"]
    BY DEF Construct, Ready
  <1>2. \A q \in Procs :
          /\ inW'[q] = IF q = p THEN {Parent} ELSE inW[q] \cup {r \in {p} : Parent \in inW[q]}
          /\ outR'[q] = IF q = p THEN {Parent} ELSE outR[q] \cup {r \in {p} : Parent \in outR[q]}
    BY DEF Construct
  <1>3. Types'
    BY <1>1 DEF Construct, Inv, Types, Running
  <1>4. \A q \in Procs : q > p => object[q] = "none" /\ inW[q] = {} /\ outR[q] = {}
    BY <1>1 DEF Inv, ConstructedInOrder, Holders, Procs
  <1>5. child[p] = "none" /\ inW[p] = {} /\ outR[p] = {}
    BY <1>1 DEF Inv, ConstructedInOrder, Holders
  <1>6. HeldByYounger'
    <2> SUFFICES ASSUME NEW q \in Procs, NEW r \in Holders(q)', r # Parent
                 PROVE  r > q /\ child'[r] \in Running
      BY DEF HeldByYounger
    <2>0. inW'[p] = {Parent} /\ outR'[p] = {Parent}
      BY <1>2
    <2>1. q # p
      BY <2>0 DEF Holders
    <2>2. CASE r = p
      <3>1. inW[q] # {} \/ outR[q] # {}
        BY <1>2, <2>1, <2>2 DEF Holders
      <3>2. ~(q > p)
        BY <1>4, <3>1
      <3> QED
        BY <1>1, <2>1, <2>2, <3>2 DEF Procs, Running, Inv, Types
    <2>3. CASE r # p
      <3>1. r \in Holders(q)
        BY <1>2, <2>1, <2>3 DEF Holders
      <3> QED
        BY <1>1, <2>3, <3>1 DEF Inv, HeldByYounger, Types
    <2> QED
      BY <2>2, <2>3
  <1>7. ConstructedInOrder'
    <2>1. \A q, r \in Procs : q < r /\ object'[r] # "none" => object'[q] # "none"
      BY <1>1 DEF Inv, ConstructedInOrder, Types
    <2>2. \A q \in Procs : object'[q] = "none" => child'[q] = "none" /\ inW'[q] = {} /\ outR'[q] = {}
      BY <1>1, <1>2 DEF Inv, ConstructedInOrder, Types, Holders
    <2>3. \A q \in Procs : object'[q] = "destroyed" => child'[q] \notin Running
      BY <1>1 DEF Inv, ConstructedInOrder, Types
    <2> QED
      BY <2>1, <2>2, <2>3 DEF ConstructedInOrder, Holders
  <1>8. DestroysYoungest'
    BY <1>1 DEF DestroysYoungest, Idle
  <1> QED
    BY <1>3, <1>6, <1>7, <1>8 DEF Inv

\* closeStdin() and close().
LEMMA CloseInv ==
    ASSUME Inv, NEW p \in Procs, CloseStdin(p) \/ Close(p)
    PROVE  Inv'
  <1>1. /\ UNCHANGED <<object, op, child>> /\ op = Idle
        /\ inW' = [inW EXCEPT ![p] = @ \ {Parent}]
        /\ outR' = outR \/ outR' = [outR EXCEPT ![p] = @ \ {Parent}]
    BY DEF CloseStdin, Close, CloseBoth, parentVars, Ready
  <1>2. Types'
    BY <1>1 DEF Inv, Types
  <1>3. \A q \in Procs : inW'[q] \subseteq inW[q] /\ outR'[q] \subseteq outR[q]
    BY <1>1 DEF Inv, Types
  <1>4. HeldByYounger' /\ ConstructedInOrder'
    BY <1>1, <1>3, EndsGivenUp
  <1> QED
    BY <1>1, <1>2, <1>4 DEF Inv, DestroysYoungest, Idle

\* ~Process() up to waitpid().
LEMMA DestroyInv ==
    ASSUME Inv, NEW p \in Procs, Destroy(p)
    PROVE  Inv'
  <1>1. /\ UNCHANGED <<object, child>>
        /\ op' = [kind |-> "wait", p |-> p]
        /\ object[p] # "none"
        /\ \A q \in Procs : q > p => object[q] # "open"
        /\ inW' = [inW EXCEPT ![p] = @ \ {Parent}]
        /\ outR' = [outR EXCEPT ![p] = @ \ {Parent}]
    BY DEF Destroy, CloseBoth, Open
  <1>2. Types'
    BY <1>1 DEF Inv, Types
  <1>3. \A q \in Procs : inW'[q] \subseteq inW[q] /\ outR'[q] \subseteq outR[q]
    BY <1>1 DEF Inv, Types
  <1>4. HeldByYounger' /\ ConstructedInOrder'
    BY <1>1, <1>3, EndsGivenUp
  <1>5. DestroysYoungest'
    BY <1>1 DEF Inv, Types, DestroysYoungest, Holders
  <1> QED
    BY <1>2, <1>4, <1>5 DEF Inv

\* waitpid() has returned the child.
LEMMA WaitInv ==
    ASSUME Inv, WaitReturn
    PROVE  Inv'
  <1>1. /\ op.p \in Procs /\ child[op.p] \notin Running
        /\ object' = [object EXCEPT ![op.p] = "destroyed"]
        /\ op' = Idle /\ UNCHANGED <<inW, outR, child>>
    BY DEF WaitReturn, In, Inv, DestroysYoungest
  <1>2. Types' /\ HeldByYounger' /\ DestroysYoungest'
    BY <1>1 DEF Inv, Types, HeldByYounger, Holders, DestroysYoungest, Idle
  <1>3. \A q \in Procs : object'[q] = IF q = op.p THEN "destroyed" ELSE object[q]
    BY <1>1 DEF Inv, Types
  <1>4. ConstructedInOrder'
    <2>0. object[op.p] # "none"
      BY DEF Inv, DestroysYoungest, WaitReturn, In
    <2>1. \A q, r \in Procs : q < r /\ object'[r] # "none" => object'[q] # "none"
      BY <1>3, <2>0 DEF Inv, ConstructedInOrder
    <2>2. \A q \in Procs : object'[q] = "none" => child'[q] = "none" /\ Holders(q)' = {}
      BY <1>1, <1>3 DEF Inv, ConstructedInOrder, Holders
    <2>3. \A q \in Procs : object'[q] = "destroyed" => child'[q] \notin Running
      BY <1>1, <1>3 DEF Inv, ConstructedInOrder
    <2> QED
      BY <2>1, <2>2, <2>3 DEF ConstructedInOrder
  <1> QED
    BY <1>2, <1>4 DEF Inv

\* A child ends: it gives up what it inherited.
LEMMA ExitInv ==
    ASSUME Inv, NEW p \in Procs, NEW how \in {"failed", "killed", "exited"},
           child[p] \in Running, Exit(p, how)
    PROVE  Inv'
  <1>1. /\ child' = [child EXCEPT ![p] = how]
        /\ inW' = [q \in Procs |-> inW[q] \ {p}]
        /\ outR' = [q \in Procs |-> outR[q] \ {p}]
        /\ UNCHANGED <<object, op>>
    BY DEF Exit, Drop, parentVars
  <1>2. Types'
    BY <1>1 DEF Inv, Types
  <1>3. HeldByYounger'
    BY <1>1 DEF Inv, Types, HeldByYounger, Holders
  <1>4. ConstructedInOrder'
    BY <1>1 DEF Inv, Types, ConstructedInOrder, Holders, Running
  <1>5. DestroysYoungest'
    BY <1>1 DEF Inv, DestroysYoungest, Holders
  <1> QED
    BY <1>2, <1>3, <1>4, <1>5 DEF Inv

\* execv() of the echo program.
LEMMA ExecInv ==
    ASSUME Inv, NEW p \in Procs, Exec(p)
    PROVE  Inv'
  <1>1. child[p] \in Running
    BY DEF Exec, Running
  <1>2. CASE Exit(p, "failed")
    BY <1>1, <1>2, ExitInv
  <1>3. CASE child' = [child EXCEPT ![p] = "run"] /\ UNCHANGED <<parentVars, inW, outR>>
    <2>1. UNCHANGED <<object, op, inW, outR>>
      BY <1>3 DEF parentVars
    <2>2. Types' /\ DestroysYoungest'
      BY <1>3, <2>1 DEF Inv, Types, DestroysYoungest, Holders, Running
    <2>3. HeldByYounger'
      BY <1>3, <2>1 DEF Inv, Types, HeldByYounger, Holders, Running
    <2>4. ConstructedInOrder'
      BY <1>1, <1>3, <2>1 DEF Inv, Types, ConstructedInOrder, Holders, Running
    <2> QED
      BY <2>2, <2>3, <2>4 DEF Inv
  <1> QED
    BY <1>2, <1>3 DEF Exec

\* Every step preserves the invariant.
LEMMA NextInv == Inv /\ [Next]_vars => Inv'
  <1> SUFFICES ASSUME Inv, [Next]_vars PROVE Inv'
    OBVIOUS
  <1>1. CASE UNCHANGED vars
    BY <1>1, Frame DEF vars, parentVars
  <1>2. CASE Work
    <2>1. CASE WriteSome \/ ReadSome
      BY <2>1, Frame DEF WriteSome, ReadSome
    <2>2. CASE WriteReturn \/ ReadReturn
      BY <2>2, OpOnly DEF WriteReturn, ReadReturn, Return, Idle
    <2>3. CASE WriteSigpipe \/ ReadEof
      BY <2>3, DieInv DEF WriteSigpipe, ReadEof
    <2> QED
      BY <1>2, <2>1, <2>2, <2>3, WaitInv DEF Work
  <1>3. ASSUME NEW p \in Procs, Program(p) PROVE Inv'
    <2>1. CASE ConstructFails(p)
      BY <2>1, DieInv DEF ConstructFails
    <2>2. CASE CallWrite(p) \/ CallRead(p)
      BY <2>2, OpOnly DEF CallWrite, CallRead
    <2> QED
      BY <1>3, <2>1, <2>2, ConstructInv, CloseInv, DestroyInv DEF Program
  <1>4. ASSUME NEW p \in Procs, Child(p) PROVE Inv'
    <2>1. CASE ChildRead(p) \/ ChildEof(p) \/ ChildCopy(p) \/ ChildWrite(p)
      BY <2>1, Frame DEF ChildRead, ChildEof, ChildCopy, ChildWrite, parentVars
    <2>2. CASE ChildSigpipe(p)
      BY <2>2, ExitInv DEF ChildSigpipe, Flushing, Running
    <2>3. CASE ChildExit(p)
      BY <2>3, ExitInv DEF ChildExit, Running
    <2> QED
      BY <1>4, <2>1, <2>2, <2>3, ExecInv DEF Child
  <1> QED
    BY <1>1, <1>2, <1>3, <1>4 DEF Next

\* The inductive invariant holds throughout.
THEOREM Invariance == Spec => []Inv
  BY InitInv, NextInv, PTL DEF Spec

\* In ~Process() nobody keeps an end of the child's pipes open: the child sees
\* the end of its input, so waitpid() is not waiting for the parent itself.
THEOREM DestructorCorrect == Spec => []DestructorSeesEof
  BY Invariance, InvImplies, PTL

-----------------------------------------------------------------------------
(* The bytes of a message.  Those the parent has written are in one of five *)
(* places, and a child that runs leaves none of them behind.                *)

Conserved ==
    \A p \in Procs : wrote[p] = inPipe[p] + got[p] + out[p] + outPipe[p] + recv[p]

\* What writeExact() and readExact() have found and nobody can change meanwhile.
InsideCalls ==
    /\ main = "up" /\ op.kind = "write" => op.p \in Procs /\ Parent \in inW[op.p]
    /\ main = "up" /\ op.kind = "read" =>
         op.p \in Procs /\ Parent \in outR[op.p] \ inW[op.p] /\ len[op.p] # 0

\* writeExact() has returned, or never been called, or is at work.
WholeMessage ==
    \A p \in Procs : len[p] = 0 \/ wrote[p] = len[p] \/ (op.kind = "write" /\ op.p = p)

\* The end of the input is final: nobody can write any more.
EofFinal ==
    \A p \in Procs : eof[p] => inW[p] = {} /\ inPipe[p] = 0 /\ child[p] \notin {"none", "born"}

\* Why a child has ended.
EndsJustified ==
    \A p \in Procs :
      /\ child[p] = "exited" => eof[p] /\ got[p] = 0 /\ out[p] = 0
      /\ child[p] = "killed" => outR[p] = {}
      /\ child[p] = "none" => object[p] = "none"

\* The parent does not close the end it reads from before the end it writes to.
ReaderLast == \A p \in Procs : Parent \in inW[p] => Parent \in outR[p]

\* The inductive invariant, with Inv.
ByteInv ==
    /\ TypeOK
    /\ Conserved
    /\ InsideCalls
    /\ WholeMessage
    /\ EofFinal
    /\ EndsJustified
    /\ ReaderLast
    /\ EndedByExecOnly

\* Before the first constructor no byte has been written.
LEMMA InitBytes == Init => ByteInv
  <1> USE ChildProcessAssumption
  <1> SUFFICES ASSUME Init PROVE ByteInv
    OBVIOUS
  <1>1. TypeOK
    BY DEF Init, TypeOK, Idle, Procs, Parent, Running
  <1> QED
    BY <1>1 DEF Init, ByteInv, Conserved, InsideCalls, WholeMessage, EofFinal, EndsJustified,
         ReaderLast, EndedByExecOnly, Idle

\* The parent ends, of what its object's pipes have shown it or of a failed fork().
LEMMA DieBytes ==
    ASSUME Inv, ByteInv, NEW why \in {"fork", "sigpipe", "eof"}, Die(why),
           why = "fork" \/ \E p \in Procs : child[p] = "failed"
    PROVE  ByteInv'
  <1>1. /\ main' = why /\ inW' = [p \in Procs |-> inW[p] \ {Parent}]
        /\ outR' = [p \in Procs |-> outR[p] \ {Parent}]
        /\ UNCHANGED <<object, op, len, wrote, recv, inPipe, outPipe, child, got, out, eof, flushing>>
    BY DEF Die, Drop, echoVars
  <1>2. TypeOK'
    BY <1>1 DEF ByteInv, TypeOK
  <1>3. Conserved' /\ WholeMessage' /\ EndedByExecOnly' /\ InsideCalls'
    BY <1>1 DEF ByteInv, Conserved, WholeMessage, EndedByExecOnly, InsideCalls
  <1>4. EofFinal' /\ EndsJustified' /\ ReaderLast'
    BY <1>1 DEF ByteInv, EofFinal, EndsJustified, ReaderLast
  <1> QED
    BY <1>2, <1>3, <1>4 DEF ByteInv

\* The constructor: a child that is forked later inherits ends, but gives none to
\* a pipe whose ends are all closed.
LEMMA ConstructBytes ==
    ASSUME Inv, ByteInv, NEW p \in Procs, Construct(p)
    PROVE  ByteInv'
  <1>1. /\ object[p] = "none" /\ op = Idle /\ UNCHANGED op /\ main = "up"
        /\ object' = [object EXCEPT ![p] = "open"]
        /\ child' = [child EXCEPT ![p] = "born"]
        /\ UNCHANGED <<main, op, len, wrote, recv, inPipe, outPipe, got, out, eof, flushing>>
    BY DEF Construct, Ready, echoVars
  <1>2. \A q \in Procs :
          /\ inW'[q] = IF q = p THEN {Parent} ELSE inW[q] \cup {r \in {p} : Parent \in inW[q]}
          /\ outR'[q] = IF q = p THEN {Parent} ELSE outR[q] \cup {r \in {p} : Parent \in outR[q]}
    BY DEF Construct
  <1>3. child[p] = "none"
    BY <1>1 DEF Inv, ConstructedInOrder
  <1>4. TypeOK'
    <2>1. Types'
      BY ConstructInv DEF Inv
    <2> QED
      BY <1>1, <2>1 DEF ByteInv, TypeOK, Types
  <1>5. Conserved' /\ WholeMessage' /\ InsideCalls' /\ EndedByExecOnly'
    BY <1>1 DEF ByteInv, Conserved, WholeMessage, EndedByExecOnly, InsideCalls, Idle
  <1>6. EofFinal' /\ EndsJustified' /\ ReaderLast'
    <2> SUFFICES ASSUME NEW q \in Procs
                 PROVE  /\ eof'[q] => inW'[q] = {} /\ inPipe'[q] = 0 /\ child'[q] \notin {"none", "born"}
                        /\ child'[q] = "exited" => eof'[q] /\ got'[q] = 0 /\ out'[q] = 0
                        /\ child'[q] = "killed" => outR'[q] = {}
                        /\ child'[q] = "none" => object'[q] = "none"
                        /\ Parent \in inW'[q] => Parent \in outR'[q]
      BY DEF EofFinal, EndsJustified, ReaderLast
    <2>1. /\ eof[q] => inW[q] = {} /\ inPipe[q] = 0 /\ child[q] \notin {"none", "born"}
          /\ child[q] = "exited" => eof[q] /\ got[q] = 0 /\ out[q] = 0
          /\ child[q] = "killed" => outR[q] = {}
          /\ child[q] = "none" => object[q] = "none"
          /\ Parent \in inW[q] => Parent \in outR[q]
      BY DEF ByteInv, EofFinal, EndsJustified, ReaderLast
    <2>2. CASE q = p
      BY <1>1, <1>2, <1>3, <2>1, <2>2 DEF Inv, Types
    <2>3. CASE q # p
      BY <1>1, <1>2, <2>1, <2>3 DEF Inv, Types
    <2> QED
      BY <2>2, <2>3
  <1> QED
    BY <1>4, <1>5, <1>6 DEF ByteInv

\* closeStdin(), close() and ~Process() up to waitpid().
LEMMA CloseBytes ==
    ASSUME Inv, ByteInv, NEW p \in Procs, CloseStdin(p) \/ Close(p) \/ Destroy(p)
    PROVE  ByteInv'
  <1>1. /\ UNCHANGED <<main, object, len, wrote, recv, inPipe, outPipe, child, got, out, eof, flushing>>
        /\ op = Idle /\ op' \in {op, [kind |-> "wait", p |-> p]}
        /\ inW' = [inW EXCEPT ![p] = @ \ {Parent}]
        /\ outR' = outR \/ outR' = [outR EXCEPT ![p] = @ \ {Parent}]
    BY DEF CloseStdin, Close, Destroy, CloseBoth, parentVars, echoVars, Ready
  <1>2. TypeOK'
    BY <1>1 DEF ByteInv, TypeOK
  <1>3. Conserved' /\ EndedByExecOnly' /\ InsideCalls' /\ WholeMessage'
    BY <1>1 DEF ByteInv, Conserved, WholeMessage, EndedByExecOnly, InsideCalls, Idle
  <1>4. EofFinal' /\ EndsJustified' /\ ReaderLast'
    BY <1>1 DEF ByteInv, EofFinal, EndsJustified, ReaderLast, Inv, Types
  <1> QED
    BY <1>2, <1>3, <1>4 DEF ByteInv

\* Messages have a length, and 0 stands for none.
LEMMA MessageLength == \A n \in Messages \cup {0} : n \in Nat
  <1>1. \A n \in Messages : n \in Nat
    <2> SUFFICES ASSUME NEW n \in Messages PROVE n \in Nat
      OBVIOUS
    <2>1. Messages \subseteq Nat \ {0}
      BY ChildProcessAssumption
    <2>2. n \in Nat \ {0}
      BY <2>1, Zenon
    <2> QED
      BY <2>2
  <1>2. 0 \in Nat
    OBVIOUS
  <1> QED
    BY <1>1, <1>2, Zenon

\* writeExact() and readExact() are called.
LEMMA CallBytes ==
    ASSUME Inv, ByteInv, NEW p \in Procs, CallWrite(p) \/ CallRead(p)
    PROVE  ByteInv'
  <1> USE ChildProcessAssumption
  <1>1. /\ UNCHANGED <<main, object, wrote, recv, inPipe, inW, outPipe, outR, child, got, out, eof, flushing>>
        /\ op = Idle
    BY DEF CallWrite, CallRead, echoVars, Ready
  <1>2. CASE CallWrite(p)
    <2>1. PICK n \in Messages : len' = [len EXCEPT ![p] = n]
      BY <1>2 DEF CallWrite
    <2>2. len[p] = 0 /\ op' = [kind |-> "write", p |-> p] /\ Parent \in inW[p] /\ n \in Nat \ {0}
      BY <1>2 DEF CallWrite
    <2>3. TypeOK'
      <3>1. len' \in [Procs -> Messages \cup {0}]
        BY <2>1 DEF ByteInv, TypeOK
      <3>2. \A q \in Procs : wrote[q] <= len'[q] /\ recv[q] <= len'[q]
        BY <2>1, <2>2 DEF ByteInv, TypeOK
      <3> QED
        BY <1>1, <2>2, <3>1, <3>2 DEF ByteInv, TypeOK
    <2>4. InsideCalls' /\ WholeMessage'
      BY <1>1, <2>1, <2>2 DEF ByteInv, TypeOK, InsideCalls, WholeMessage, Idle
    <2>5. Conserved' /\ EndedByExecOnly' /\ EofFinal' /\ EndsJustified' /\ ReaderLast'
      BY <1>1 DEF ByteInv, Conserved, EndedByExecOnly, EofFinal, EndsJustified, ReaderLast
    <2> QED
      BY <2>3, <2>4, <2>5 DEF ByteInv
  <1>3. CASE CallRead(p)
    <2>1. op' = [kind |-> "read", p |-> p] /\ len' = len /\ len[p] # 0 /\ Parent \in outR[p] \ inW[p]
      BY <1>3 DEF CallRead
    <2>2. TypeOK'
      BY <1>1, <2>1 DEF ByteInv, TypeOK
    <2>3. InsideCalls' /\ WholeMessage'
      BY <1>1, <2>1 DEF ByteInv, InsideCalls, WholeMessage, Idle
    <2>4. Conserved' /\ EndedByExecOnly' /\ EofFinal' /\ EndsJustified' /\ ReaderLast'
      BY <1>1 DEF ByteInv, Conserved, EndedByExecOnly, EofFinal, EndsJustified, ReaderLast
    <2> QED
      BY <2>2, <2>3, <2>4 DEF ByteInv
  <1> QED
    BY <1>2, <1>3

\* writeExact(), readExact() and waitpid() return.
LEMMA ReturnBytes ==
    ASSUME Inv, ByteInv, WriteReturn \/ ReadReturn \/ WaitReturn
    PROVE  ByteInv'
  <1>1. /\ UNCHANGED <<main, len, wrote, recv, inPipe, inW, outPipe, outR, child, got, out, eof, flushing>>
        /\ op' = Idle
        /\ op.kind = "write" => wrote[op.p] = len[op.p]
    BY DEF WriteReturn, ReadReturn, WaitReturn, Return, echoVars, In
  <1>2. object' = object \/ (op.p \in Procs /\ child[op.p] \notin Running
                             /\ object' = [object EXCEPT ![op.p] = "destroyed"])
    BY DEF WriteReturn, ReadReturn, WaitReturn, Return, In, Inv, DestroysYoungest
  <1>3. TypeOK'
    BY <1>1, <1>2 DEF ByteInv, TypeOK, Idle
  <1>4. Conserved' /\ EndedByExecOnly' /\ InsideCalls' /\ EofFinal' /\ ReaderLast'
    BY <1>1 DEF ByteInv, Conserved, EndedByExecOnly, InsideCalls, EofFinal, ReaderLast, Idle
  <1>5. WholeMessage'
    BY <1>1 DEF ByteInv, WholeMessage
  <1>6. EndsJustified'
    <2>1. ASSUME NEW q \in Procs, child[q] = "none" PROVE object'[q] = "none"
      <3>1. object[q] = "none"
        BY <2>1 DEF ByteInv, EndsJustified
      <3>2. ASSUME op.p = q PROVE op.kind # "wait"
        BY <3>1, <3>2 DEF Inv, DestroysYoungest
      <3>3. op.kind = "wait" \/ object' = object
        BY DEF WriteReturn, ReadReturn, WaitReturn, Return, In
      <3> QED
        BY <1>2, <3>1, <3>2, <3>3 DEF Inv, Types
    <2> QED
      BY <1>1, <2>1 DEF ByteInv, EndsJustified
  <1> QED
    BY <1>3, <1>4, <1>5, <1>6 DEF ByteInv

\* Bytes go from the parent into a pipe, and out of the other pipe.
LEMMA TransferBytes ==
    ASSUME Inv, ByteInv, WriteSome \/ ReadSome
    PROVE  ByteInv'
  <1> USE ChildProcessAssumption
  <1> DEFINE p == op.p
  <1>1. /\ UNCHANGED <<main, object, op, len, inW, outR, child, got, out, eof, flushing>>
        /\ main = "up" /\ op.kind \in {"write", "read"}
    BY DEF WriteSome, ReadSome, echoVars, In
  <1>2. p \in Procs
    BY <1>1 DEF ByteInv, InsideCalls
  <1>3. CASE WriteSome
    <2>1. PICK n \in 1 .. len[p] - wrote[p] :
             /\ n <= PipeSize - inPipe[p]
             /\ wrote' = [wrote EXCEPT ![p] = @ + n]
             /\ inPipe' = [inPipe EXCEPT ![p] = @ + n]
      BY <1>3 DEF WriteSome
    <2>2. op.kind = "write" /\ Parent \in inW[p] /\ UNCHANGED <<recv, outPipe>>
      BY <1>1, <1>3 DEF WriteSome, In, ByteInv, InsideCalls
    <2>3. len[p] \in Nat /\ wrote[p] \in Nat /\ inPipe[p] \in Nat /\ n \in Nat
      <3>1. len[p] \in Messages \cup {0}
        BY <1>2 DEF ByteInv, TypeOK
      <3>2. len[p] \in Nat
        BY <3>1, MessageLength
      <3> QED
        BY <1>2, <2>1, <3>2 DEF ByteInv, TypeOK
    <2>4. TypeOK'
      <3>1. wrote'[p] \in Nat /\ wrote'[p] <= len[p] /\ inPipe'[p] \in 0 .. PipeSize
        BY <1>2, <2>1, <2>3 DEF ByteInv, TypeOK
      <3>2. wrote' \in [Procs -> Nat] /\ \A q \in Procs : wrote'[q] <= len'[q]
        BY <1>1, <2>1, <3>1 DEF ByteInv, TypeOK
      <3>3. inPipe' \in [Procs -> 0 .. PipeSize]
        BY <1>1, <2>1, <3>1 DEF ByteInv, TypeOK
      <3> QED
        BY <1>1, <2>2, <3>2, <3>3 DEF ByteInv, TypeOK
    <2>5. Conserved'
      BY <1>1, <1>2, <2>1, <2>2, <2>3 DEF ByteInv, Conserved, TypeOK
    <2>6. InsideCalls' /\ EndedByExecOnly' /\ EndsJustified' /\ ReaderLast'
      BY <1>1 DEF ByteInv, InsideCalls, EndedByExecOnly, EndsJustified, ReaderLast
    <2>7. WholeMessage'
      BY <1>1, <2>1, <2>2 DEF ByteInv, WholeMessage, TypeOK
    <2>8. EofFinal'
      BY <1>1, <2>1, <2>2 DEF ByteInv, EofFinal, TypeOK
    <2> QED
      BY <2>4, <2>5, <2>6, <2>7, <2>8 DEF ByteInv
  <1>4. CASE ReadSome
    <2>1. PICK n \in 1 .. len[p] - recv[p] :
             /\ n <= outPipe[p]
             /\ recv' = [recv EXCEPT ![p] = @ + n]
             /\ outPipe' = [outPipe EXCEPT ![p] = @ - n]
      BY <1>4 DEF ReadSome
    <2>2. UNCHANGED <<wrote, inPipe>>
      BY <1>4 DEF ReadSome
    <2>3. len[p] \in Nat /\ recv[p] \in Nat /\ outPipe[p] \in Nat /\ n \in Nat
      <3>1. len[p] \in Messages \cup {0}
        BY <1>2 DEF ByteInv, TypeOK
      <3>2. len[p] \in Nat
        BY <3>1, MessageLength
      <3> QED
        BY <1>2, <2>1, <3>2 DEF ByteInv, TypeOK
    <2>4. TypeOK'
      <3>1. recv'[p] \in Nat /\ recv'[p] <= len[p] /\ outPipe'[p] \in 0 .. PipeSize
        BY <1>2, <2>1, <2>3 DEF ByteInv, TypeOK
      <3>2. recv' \in [Procs -> Nat] /\ \A q \in Procs : recv'[q] <= len'[q]
        BY <1>1, <2>1, <3>1 DEF ByteInv, TypeOK
      <3>3. outPipe' \in [Procs -> 0 .. PipeSize]
        BY <1>1, <2>1, <3>1 DEF ByteInv, TypeOK
      <3> QED
        BY <1>1, <2>2, <3>2, <3>3 DEF ByteInv, TypeOK
    <2>5. Conserved'
      BY <1>1, <1>2, <2>1, <2>2, <2>3 DEF ByteInv, Conserved, TypeOK
    <2>6. InsideCalls' /\ EndedByExecOnly' /\ EndsJustified' /\ ReaderLast'
      BY <1>1 DEF ByteInv, InsideCalls, EndedByExecOnly, EndsJustified, ReaderLast
    <2>7. WholeMessage' /\ EofFinal'
      BY <1>1, <2>2 DEF ByteInv, WholeMessage, EofFinal
    <2> QED
      BY <2>4, <2>5, <2>6, <2>7 DEF ByteInv
  <1> QED
    BY <1>3, <1>4

\* A child that ends: exit() of a failed execv(), SIGPIPE, the end of main().
LEMMA ExitBytes ==
    ASSUME Inv, ByteInv, NEW p \in Procs, NEW how \in {"failed", "killed", "exited"},
           child[p] \in Running, Exit(p, how), UNCHANGED <<got, out, eof, flushing>>,
           how = "exited" => eof[p] /\ got[p] = 0 /\ out[p] = 0,
           how = "killed" => outR[p] = {}
    PROVE  ByteInv'
  <1>1. /\ child' = [child EXCEPT ![p] = how]
        /\ inW' = [q \in Procs |-> inW[q] \ {p}]
        /\ outR' = [q \in Procs |-> outR[q] \ {p}]
        /\ UNCHANGED <<main, object, op, len, wrote, recv, inPipe, outPipe>>
        /\ p # Parent
    BY DEF Exit, Drop, parentVars, Procs, Parent
  <1>2. child[p] \notin {"failed", "killed", "exited", "none"}
    BY DEF Running
  <1>3. TypeOK'
    BY <1>1 DEF ByteInv, TypeOK
  <1>4. Conserved' /\ WholeMessage'
    BY <1>1 DEF ByteInv, Conserved, WholeMessage
  <1>5. InsideCalls' /\ ReaderLast'
    BY <1>1 DEF ByteInv, InsideCalls, ReaderLast
  <1>6. EndedByExecOnly'
    BY <1>1, <1>2 DEF ByteInv, EndedByExecOnly, Inv, Types
  <1>7. EofFinal'
    BY <1>1 DEF ByteInv, EofFinal, Inv, Types
  <1>8. EndsJustified'
    BY <1>1, <1>2 DEF ByteInv, EndsJustified, Inv, Types
  <1> QED
    BY <1>3, <1>4, <1>5, <1>6, <1>7, <1>8 DEF ByteInv

\* The echo program starts, or does not.
LEMMA ExecBytes ==
    ASSUME Inv, ByteInv, NEW p \in Procs, Exec(p)
    PROVE  ByteInv'
  <1>1. UNCHANGED <<got, out, eof, flushing>> /\ child[p] = "born"
    BY DEF Exec, Exit, echoVars
  <1>2. CASE Exit(p, "failed")
    BY <1>1, <1>2, ExitBytes DEF Running
  <1>3. CASE /\ child' = [child EXCEPT ![p] = "run"]
             /\ UNCHANGED <<main, object, op, len, wrote, recv, inPipe, inW, outPipe, outR>>
    <2>1. TypeOK'
      BY <1>1, <1>3 DEF ByteInv, TypeOK, Running
    <2>2. Conserved' /\ WholeMessage' /\ InsideCalls' /\ ReaderLast'
      BY <1>1, <1>3 DEF ByteInv, Conserved, WholeMessage, InsideCalls, ReaderLast
    <2>3. EofFinal' /\ EndsJustified' /\ EndedByExecOnly'
      BY <1>1, <1>3 DEF ByteInv, EofFinal, EndsJustified, EndedByExecOnly, Inv, Types
    <2> QED
      BY <2>1, <2>2, <2>3 DEF ByteInv
  <1> QED
    BY <1>2, <1>3 DEF Exec, parentVars

\* The echo program takes its input, sees its end, copies a block, writes.
LEMMA EchoBytes ==
    ASSUME Inv, ByteInv, NEW p \in Procs,
           ChildRead(p) \/ ChildEof(p) \/ ChildCopy(p) \/ ChildWrite(p)
    PROVE  ByteInv'
  <1> USE ChildProcessAssumption
  <1>1. /\ UNCHANGED <<main, object, op, len, wrote, recv, inW, outR, child>>
        /\ child[p] = "run"
    BY DEF ChildRead, ChildEof, ChildCopy, ChildWrite, parentVars, Wants, HasBlock, Flushing
  <1>2. InsideCalls' /\ WholeMessage' /\ ReaderLast' /\ EndedByExecOnly'
    BY <1>1 DEF ByteInv, InsideCalls, WholeMessage, ReaderLast, EndedByExecOnly
  <1>3. /\ inPipe[p] \in Nat /\ inPipe[p] <= PipeSize /\ got[p] \in Nat
        /\ out[p] \in Nat /\ out[p] <= StdioBuffer
        /\ outPipe[p] \in Nat /\ outPipe[p] <= PipeSize
        /\ wrote[p] \in Nat /\ recv[p] \in Nat
    BY DEF ByteInv, TypeOK
  <1>4. CASE ChildRead(p)
    <2> DEFINE n == Least(inPipe[p], StdioBuffer)
    <2>1. /\ got' = [got EXCEPT ![p] = @ + n] /\ inPipe' = [inPipe EXCEPT ![p] = @ - n]
          /\ UNCHANGED <<outPipe, out, eof, flushing>> /\ ~eof[p] /\ n > 0
      BY <1>4 DEF ChildRead, Wants
    <2>2. n \in Nat /\ n <= inPipe[p]
      BY <1>3 DEF Least
    <2> HIDE DEF n
    <2>3. TypeOK'
      <3>1. got'[p] \in Nat /\ inPipe'[p] \in 0 .. PipeSize
        BY <1>3, <2>1, <2>2 DEF ByteInv, TypeOK
      <3>2. got' \in [Procs -> Nat] /\ inPipe' \in [Procs -> 0 .. PipeSize]
        BY <2>1, <3>1 DEF ByteInv, TypeOK
      <3> QED
        BY <1>1, <2>1, <3>2 DEF ByteInv, TypeOK
    <2>4. Conserved'
      BY <1>1, <1>3, <2>1, <2>2 DEF ByteInv, TypeOK, Conserved
    <2>5. EofFinal' /\ EndsJustified'
      BY <1>1, <2>1 DEF ByteInv, TypeOK, EofFinal, EndsJustified
    <2> QED
      BY <1>2, <2>3, <2>4, <2>5 DEF ByteInv
  <1>5. CASE ChildEof(p)
    <2>1. /\ eof' = [eof EXCEPT ![p] = TRUE] /\ inPipe[p] = 0 /\ inW[p] = {}
          /\ UNCHANGED <<inPipe, outPipe, got, out, flushing>>
      BY <1>5 DEF ChildEof
    <2>2. TypeOK' /\ Conserved' /\ EofFinal' /\ EndsJustified'
      BY <1>1, <2>1 DEF ByteInv, TypeOK, Conserved, EofFinal, EndsJustified
    <2> QED
      BY <1>2, <2>2 DEF ByteInv
  <1>6. CASE ChildCopy(p)
    <2>1. UNCHANGED <<inPipe, outPipe, eof>>
      BY <1>6 DEF ChildCopy
    <2>2. CASE flushing' = [flushing EXCEPT ![p] = TRUE] /\ UNCHANGED <<out, got>>
      <3>1. TypeOK' /\ Conserved' /\ EofFinal' /\ EndsJustified'
        BY <1>1, <2>1, <2>2 DEF ByteInv, TypeOK, Conserved, EofFinal, EndsJustified
      <3> QED
        BY <1>2, <3>1 DEF ByteInv
    <2>3. CASE \E n \in 1 .. Block :
                  /\ HasBlock(p, n) /\ out[p] + n <= StdioBuffer
                  /\ out' = [out EXCEPT ![p] = @ + n] /\ got' = [got EXCEPT ![p] = @ - n]
                  /\ UNCHANGED flushing
      <3>1. PICK n \in 1 .. Block :
                  /\ HasBlock(p, n) /\ out[p] + n <= StdioBuffer
                  /\ out' = [out EXCEPT ![p] = @ + n] /\ got' = [got EXCEPT ![p] = @ - n]
                  /\ UNCHANGED flushing
        BY <2>3
      <3>2. n \in Nat /\ n <= got[p]
        BY <1>3, <3>1 DEF HasBlock, Least
      <3>3. TypeOK'
        <4>1. got'[p] \in Nat /\ out'[p] \in 0 .. StdioBuffer
          BY <1>3, <3>1, <3>2 DEF ByteInv, TypeOK
        <4>2. got' \in [Procs -> Nat] /\ out' \in [Procs -> 0 .. StdioBuffer]
          BY <3>1, <4>1 DEF ByteInv, TypeOK
        <4> QED
          BY <1>1, <2>1, <3>1, <4>2 DEF ByteInv, TypeOK
      <3>4. Conserved'
        BY <1>1, <1>3, <2>1, <3>1, <3>2 DEF ByteInv, TypeOK, Conserved
      <3>5. EofFinal' /\ EndsJustified'
        BY <1>1, <2>1, <3>1 DEF ByteInv, TypeOK, EofFinal, EndsJustified
      <3> QED
        BY <1>2, <3>3, <3>4, <3>5 DEF ByteInv
    <2> QED
      BY <1>6, <2>2, <2>3 DEF ChildCopy
  <1>7. CASE ChildWrite(p)
    <2>1. PICK n \in 1 .. out[p] :
            /\ n <= PipeSize - outPipe[p]
            /\ out' = [out EXCEPT ![p] = @ - n]
            /\ outPipe' = [outPipe EXCEPT ![p] = @ + n]
            /\ flushing' = [flushing EXCEPT ![p] = @ /\ n < out[p]]
      BY <1>7 DEF ChildWrite
    <2>2. UNCHANGED <<inPipe, got, eof>> /\ n \in Nat /\ n <= out[p]
      BY <1>3, <1>7, <2>1 DEF ChildWrite
    <2>3. TypeOK'
      <3>1. out'[p] \in 0 .. StdioBuffer /\ outPipe'[p] \in 0 .. PipeSize
        BY <1>3, <2>1, <2>2 DEF ByteInv, TypeOK
      <3>2. out' \in [Procs -> 0 .. StdioBuffer] /\ outPipe' \in [Procs -> 0 .. PipeSize]
        BY <2>1, <3>1 DEF ByteInv, TypeOK
      <3>3. flushing' \in [Procs -> BOOLEAN]
        BY <2>1 DEF ByteInv, TypeOK
      <3> QED
        BY <1>1, <2>2, <3>2, <3>3 DEF ByteInv, TypeOK
    <2>4. Conserved'
      BY <1>1, <1>3, <2>1, <2>2 DEF ByteInv, TypeOK, Conserved
    <2>5. EofFinal' /\ EndsJustified'
      BY <1>1, <2>1, <2>2 DEF ByteInv, TypeOK, EofFinal, EndsJustified
    <2> QED
      BY <1>2, <2>3, <2>4, <2>5 DEF ByteInv
  <1> QED
    BY <1>4, <1>5, <1>6, <1>7

\* A write() that finds no reader, and a read() that finds no bytes and no
\* writer: the child never ran.  One that was killed had lost the parent's end
\* of its stdout, and one that has exited had seen the end of its input.
LEMMA BrokenPipe ==
    ASSUME Inv, ByteInv, WriteSigpipe \/ ReadEof
    PROVE  op.p \in Procs /\ child[op.p] = "failed"
  <1> DEFINE p == op.p
  <1>1. main = "up" /\ child[p] \notin Running
    BY DEF WriteSigpipe, ReadEof, In
  <1>2. p \in Procs /\ Parent \in outR[p]
    BY <1>1 DEF WriteSigpipe, ReadEof, In, ByteInv, InsideCalls, ReaderLast
  <1>3. child[p] # "killed"
    BY <1>2 DEF ByteInv, EndsJustified
  <1>4. child[p] # "none"
    <2>1. child[p] = "none" => Parent \notin outR[p]
      BY <1>2 DEF ByteInv, EndsJustified, Inv, ConstructedInOrder, Holders
    <2> QED
      BY <1>2, <2>1
  <1>5. child[p] # "exited"
    <2> SUFFICES ASSUME child[p] = "exited" PROVE FALSE
      OBVIOUS
    <2>1. eof[p] /\ got[p] = 0 /\ out[p] = 0 /\ inPipe[p] = 0 /\ inW[p] = {}
      BY <1>2 DEF ByteInv, EndsJustified, EofFinal
    <2>2. ReadEof
      BY <1>1, <2>1 DEF WriteSigpipe, In, ByteInv, InsideCalls
    <2>3. wrote[p] = len[p] /\ recv[p] < len[p] /\ outPipe[p] = 0
      BY <1>2, <2>2 DEF ReadEof, In, ByteInv, InsideCalls, WholeMessage
    <2> QED
      BY <1>2, <2>1, <2>3 DEF ByteInv, Conserved, TypeOK
  <1> QED
    BY <1>1, <1>2, <1>3, <1>4, <1>5 DEF Inv, Types, Running

\* Every step preserves the invariant.
LEMMA NextBytes == Inv /\ ByteInv /\ [Next]_vars => ByteInv'
  <1> SUFFICES ASSUME Inv, ByteInv, [Next]_vars PROVE ByteInv'
    OBVIOUS
  <1>1. CASE UNCHANGED vars
    BY <1>1 DEF vars, parentVars, echoVars, ByteInv, TypeOK, Conserved, InsideCalls,
                WholeMessage, EofFinal, EndsJustified, ReaderLast, EndedByExecOnly
  <1>2. CASE Work
    <2>1. CASE WriteSigpipe \/ ReadEof
      BY <2>1, BrokenPipe, DieBytes DEF WriteSigpipe, ReadEof
    <2> QED
      BY <1>2, <2>1, TransferBytes, ReturnBytes DEF Work
  <1>3. ASSUME NEW p \in Procs, Program(p) PROVE ByteInv'
    <2>1. CASE ConstructFails(p)
      BY <2>1, DieBytes DEF ConstructFails
    <2> QED
      BY <1>3, <2>1, ConstructBytes, CallBytes, CloseBytes DEF Program
  <1>4. ASSUME NEW p \in Procs, Child(p) PROVE ByteInv'
    <2>1. CASE ChildSigpipe(p)
      BY <2>1, ExitBytes DEF ChildSigpipe, Flushing, Running, Exit, echoVars
    <2>2. CASE ChildExit(p)
      BY <2>2, ExitBytes DEF ChildExit, Running, Exit, echoVars
    <2> QED
      BY <1>4, <2>1, <2>2, ExecBytes, EchoBytes DEF Child
  <1> QED
    BY <1>1, <1>2, <1>3, <1>4 DEF Next

\* No pipe or buffer overflows and no total exceeds its message.
THEOREM TypeCorrect == Spec => []TypeOK
  <1>1. ByteInv => TypeOK
    BY DEF ByteInv
  <1> QED
    BY <1>1, InitBytes, NextBytes, Invariance, PTL DEF Spec

\* Between writeExact() and readExact() no byte is lost or made up, whatever
\* the pipes, the echo program's buffers and the other objects do.
THEOREM BytesConserved == Spec => []Conserved
  <1>1. ByteInv => Conserved
    BY DEF ByteInv
  <1> QED
    BY <1>1, InitBytes, NextBytes, Invariance, PTL DEF Spec

\* writeExact() meets SIGPIPE, and readExact() the end of the pipe before the
\* message is complete, only if the execv() of a child has failed.
THEOREM ExecOnlyCorrect == Spec => []EndedByExecOnly
  <1>1. ByteInv => EndedByExecOnly
    BY DEF ByteInv
  <1> QED
    BY <1>1, InitBytes, NextBytes, Invariance, PTL DEF Spec
=============================================================================
