---------------------------- MODULE TransportProofs ----------------------------
(***************************************************************************)
(* The safety of the request path for every number of sockets, faults,     *)
(* calls and reconnections: Inv is inductive, and it implies type          *)
(* correctness, that requestLocked never uses a nil or closed socket, that *)
(* a session belongs to the socket in use, and that Connect alone leaves a *)
(* socket behind.                                                          *)
(***************************************************************************)
EXTENDS Transport, SequenceTheorems, TLAPS

Labels == Working \cup Finished

-----------------------------------------------------------------------------
(* What makes the invariants of Transport inductive.                       *)

\* Every call but the innermost waits in reconnectLocked, and every call but
\* the outermost registers a session on the dialled socket.
StackShape ==
    /\ \A i \in 1 .. Len(stack) :
          i < Len(stack) => stack[i].at \in {"dialW", "dialR"}
    /\ \A i \in 1 .. Len(stack) :
          i > 1 => stack[i].pkt.cmd = "RegisterSession" /\ stack[i].at \notin Finished

\* t.tcpConn never points at a socket the client has closed.
ConnIsOpen == tcpConn # Nil => sock[tcpConn].open

\* From its first write to the decision to reconnect a call has a socket; while
\* it dials there is none, and no session.
SocketOfTop ==
    stack # << >> =>
        /\ Top.at \in {"write", "rewriteW", "rewriteR", "read", "reread",
                       "reconnectW", "reconnectR"} => tcpConn # Nil
        /\ Top.at \in {"dialW", "dialR"} => tcpConn = Nil /\ ~established

\* Socket s, in state k, carries nothing but requests to register a session and
\* answers to them: a handle in flight is the socket's own, or 0.
CarriesRegistrations(k, s) ==
    /\ k.in \in Seq({r \in Request : r.cmd = "RegisterSession"})
    /\ k.out \in Seq({r \in Reply : r.sess \in {0, s}})

\* A call that registers a session works on a socket that carries nothing else.
RegistersAlone ==
    stack # << >> /\ Top.pkt.cmd = "RegisterSession" /\ Top.at \in Working
        /\ tcpConn # Nil
    => CarriesRegistrations(sock[tcpConn], tcpConn)

\* The inductive invariant.
Inv ==
    /\ TypeOK
    /\ StackShape
    /\ ConnIsOpen
    /\ SocketOfTop
    /\ RegistersAlone
    /\ SessionOfSocket

-----------------------------------------------------------------------------
(* The stack.                                                              *)

\* Some facts of arithmetic and of sequences that the lemmas below cite.
LEMMA Predecessor ==
    ASSUME NEW k \in Nat, k > 1
    PROVE  k - 1 \in Nat \ {0} /\ k - 1 \in 1 .. k
OBVIOUS

LEMMA OneOrMore ==
    ASSUME NEW k \in Nat \ {0}
    PROVE  (k = 1 /\ ~(k > 1)) \/ (k # 1 /\ k > 1)
OBVIOUS

LEMMA NotEmpty ==
    ASSUME NEW S, NEW q \in Seq(S), Len(q) # 0
    PROVE  q # << >>
OBVIOUS

\* A non-empty stack has a top frame.
LEMMA TopOfStack ==
    ASSUME stack \in Seq(Frame), stack # << >>
    PROVE  /\ Len(stack) \in Nat \ {0}
           /\ Len(stack) \in 1 .. Len(stack)
           /\ 1 \in 1 .. Len(stack)
           /\ Top \in Frame
           /\ stack[1] \in Frame
           /\ \A i \in 1 .. Len(stack) : stack[i] \in Frame
<1>1. Len(stack) \in Nat \ {0}
  BY EmptySeq
<1> QED
  BY <1>1, ElementOfSeq DEF Top

\* Goto changes the program counter of the top frame and nothing else.
LEMMA GotoStack ==
    ASSUME stack \in Seq(Frame), stack # << >>, NEW l \in Labels, Goto(l)
    PROVE  /\ stack' \in Seq(Frame)
           /\ stack' # << >>
           /\ Len(stack') = Len(stack)
           /\ \A i \in 1 .. Len(stack) : stack'[i].pkt = stack[i].pkt
           /\ \A i \in 1 .. Len(stack) : i # Len(stack) => stack'[i] = stack[i]
           /\ Top' = [pkt |-> Top.pkt, at |-> l]
<1> DEFINE n == Len(stack)
           f == [stack[n] EXCEPT !.at = l]
<1>1. n \in 1 .. n /\ stack[n] \in Frame /\ n \in Nat \ {0}
  BY TopOfStack DEF Top
<1>2. f \in Frame /\ f = [pkt |-> stack[n].pkt, at |-> l]
  BY <1>1 DEF Frame, Labels
<1>3. stack' = [stack EXCEPT ![n] = f]
  BY DEF Goto
<1> HIDE DEF f
<1>4. /\ stack' \in Seq(Frame)
      /\ Len(stack') = n
      /\ \A j \in 1 .. n : stack'[j] = IF j = n THEN f ELSE stack[j]
  BY <1>1, <1>2, <1>3, ExceptSeq
<1>5. stack' # << >>
  BY <1>1, <1>4, EmptySeq
<1> QED
  BY <1>1, <1>2, <1>4, <1>5 DEF Top

\* Call pushes a frame.
LEMMA CallStack ==
    ASSUME stack \in Seq(Frame), NEW p \in Request, Call(p)
    PROVE  /\ stack' \in Seq(Frame)
           /\ stack' # << >>
           /\ Len(stack') = Len(stack) + 1
           /\ \A i \in 1 .. Len(stack) : stack'[i] = stack[i]
           /\ stack'[Len(stack) + 1] = [pkt |-> p, at |-> "enter"]
           /\ Top' = [pkt |-> p, at |-> "enter"]
<1> DEFINE f == [pkt |-> p, at |-> "enter"]
<1>1. f \in Frame
  BY DEF Frame, Working
<1>2. stack' = Append(stack, f)
  BY DEF Call
<1> HIDE DEF f
<1>3. /\ stack' \in Seq(Frame)
      /\ Len(stack') = Len(stack) + 1
      /\ \A i \in 1 .. Len(stack) : stack'[i] = stack[i]
      /\ stack'[Len(stack) + 1] = f
  BY <1>1, <1>2, AppendProperties
<1>4. Len(stack) \in Nat
  BY LenProperties
<1>5. stack' # << >>
  BY <1>3, <1>4, EmptySeq
<1> QED
  BY <1>3, <1>4, <1>5 DEF Top, f

\* Fail leaves the outermost frame, with an error.
LEMMA FailStack ==
    ASSUME stack \in Seq(Frame), stack # << >>, NEW n \in Nat, Fail(n)
    PROVE  /\ stack' \in Seq(Frame)
           /\ stack' # << >>
           /\ Len(stack') = 1
           /\ stack'[1] = [pkt |-> stack[1].pkt, at |-> "error"]
           /\ Top' = [pkt |-> stack[1].pkt, at |-> "error"]
<1> DEFINE f == [pkt |-> stack[1].pkt, at |-> "error"]
<1>1. f \in Frame
  BY TopOfStack DEF Frame, Finished
<1>2. stack' = <<f>>
  BY DEF Fail
<1> HIDE DEF f
<1>3. stack' \in Seq(Frame) /\ Len(stack') = 1 /\ stack'[1] = f
  BY <1>1, <1>2
<1>4. Len(stack') # 0
  BY <1>3
<1>5. stack' # << >>
  BY <1>3, <1>4, NotEmpty
<1>6. Top' = f
  BY <1>3 DEF Top
<1> QED
  BY <1>3, <1>5, <1>6 DEF f

\* Resume pops the top frame and lets the one under it write again.
LEMMA ResumeStack ==
    ASSUME stack \in Seq(Frame), Len(stack) > 1, Resume
    PROVE  /\ stack' \in Seq(Frame)
           /\ stack' # << >>
           /\ Len(stack') = Len(stack) - 1
           /\ \A i \in 1 .. Len(stack) - 1 : stack'[i].pkt = stack[i].pkt
           /\ \A i \in 1 .. Len(stack) - 2 : stack'[i] = stack[i]
           /\ Top'.at \in {"rewriteW", "rewriteR"}
           /\ Top'.pkt = stack[Len(stack) - 1].pkt
<1> DEFINE n == Len(stack) - 1
           r == SubSeq(stack, 1, n)
           l == IF stack[n].at = "dialW" THEN "rewriteW" ELSE "rewriteR"
           f == [r[n] EXCEPT !.at = l]
<1>0. Len(stack) \in Nat /\ Len(stack) > 1
  BY LenProperties
<1>1. n \in Nat \ {0} /\ n \in 1 .. Len(stack) /\ 1 \in 1 .. Len(stack) + 1
  <2>1. n \in Nat \ {0} /\ n \in 1 .. Len(stack)
    BY <1>0, Predecessor
  <2>2. 1 \in 1 .. Len(stack) + 1
    BY <1>0
  <2> QED
    BY <2>1, <2>2
<1>2. r \in Seq(Frame) /\ Len(r) = n /\ \A i \in 1 .. n : r[i] = stack[i]
  BY <1>1, SubSeqProperties
<1>3. n \in 1 .. Len(r) /\ r[n] \in Frame /\ r[n] = stack[n]
  BY <1>1, <1>2, ElementOfSeq
<1>4. f \in Frame /\ f.pkt = stack[n].pkt /\ f.at \in {"rewriteW", "rewriteR"}
  BY <1>3 DEF Frame, Working
<1>5. stack' = [r EXCEPT ![n] = f]
  BY DEF Resume
<1> HIDE DEF f, r
<1>6. /\ stack' \in Seq(Frame)
      /\ Len(stack') = n
      /\ \A i \in 1 .. n : stack'[i] = IF i = n THEN f ELSE r[i]
  BY <1>2, <1>3, <1>4, <1>5, ExceptSeq
<1>7. stack' # << >>
  BY <1>1, <1>6, EmptySeq
<1>8. Top' = f
  BY <1>1, <1>6 DEF Top
<1>9. \A i \in 1 .. n : stack'[i].pkt = stack[i].pkt
  BY <1>1, <1>2, <1>4, <1>6
<1>10. \A i \in 1 .. n - 1 : stack'[i] = stack[i]
  <2>1. \A i \in 1 .. n - 1 : i \in 1 .. n /\ i # n
    BY <1>1
  <2> QED
    BY <1>2, <1>6, <2>1
<1>11. n - 1 = Len(stack) - 2
  BY <1>0
<1> QED
  BY <1>4, <1>6, <1>7, <1>8, <1>9, <1>10, <1>11

-----------------------------------------------------------------------------
(* The shape of the stack is kept by the operations on it.                 *)

\* Goto keeps the shape of the stack.
LEMMA GotoShape ==
    ASSUME stack \in Seq(Frame), stack # << >>, StackShape,
           NEW l \in Labels, l \in Working \/ Len(stack) = 1, Goto(l)
    PROVE  StackShape'
<1> DEFINE n == Len(stack)
<1>1. /\ n \in Nat \ {0} /\ Len(stack') = n
      /\ \A i \in 1 .. n : stack'[i].pkt = stack[i].pkt
      /\ \A i \in 1 .. n : i # n => stack'[i] = stack[i]
      /\ stack'[n] = [pkt |-> stack[n].pkt, at |-> l]
  BY GotoStack, TopOfStack DEF Top
<1>2. \A i \in 1 .. n : i < n => stack'[i].at \in {"dialW", "dialR"}
  BY <1>1 DEF StackShape
<1>3. \A i \in 1 .. n : i > 1 => stack'[i].pkt.cmd = "RegisterSession"
  BY <1>1 DEF StackShape
<1>4. ASSUME NEW i \in 1 .. n, i > 1
      PROVE  stack'[i].at \notin Finished
  <2>1. CASE i = n
    BY <1>1, <1>4, <2>1 DEF Working, Finished
  <2>2. CASE i # n
    BY <1>1, <1>4, <2>2 DEF StackShape
  <2> QED
    BY <2>1, <2>2
<1> QED
  BY <1>1, <1>2, <1>3, <1>4 DEF StackShape

\* A failed call leaves a stack of one frame.
LEMMA FailShape ==
    ASSUME stack \in Seq(Frame), stack # << >>, NEW n \in Nat, Fail(n)
    PROVE  StackShape'
<1>1. Len(stack') = 1
  BY FailStack
<1> QED
  BY <1>1 DEF StackShape

\* A call is made by an idle goroutine, or to register a session while dialling.
LEMMA CallShape ==
    ASSUME stack \in Seq(Frame), StackShape, NEW p \in Request, Call(p),
           \/ stack = << >>
           \/ stack # << >> /\ Top.at \in {"dialW", "dialR"} /\ p.cmd = "RegisterSession"
    PROVE  StackShape'
<1> DEFINE n == Len(stack)
<1>1. /\ n \in Nat /\ Len(stack') = n + 1
      /\ \A i \in 1 .. n : stack'[i] = stack[i]
      /\ stack'[n + 1] = [pkt |-> p, at |-> "enter"]
  BY CallStack, LenProperties
<1>2. ASSUME NEW i \in 1 .. n + 1, i < n + 1
      PROVE  stack'[i].at \in {"dialW", "dialR"}
  <2>1. i \in 1 .. n /\ n > 0 /\ stack # << >>
    BY <1>1, <1>2, EmptySeq
  <2>2. CASE i = n
    BY <1>1, <2>1, <2>2 DEF Top
  <2>3. CASE i # n
    BY <1>1, <2>1, <2>3 DEF StackShape
  <2> QED
    BY <2>2, <2>3
<1>3. ASSUME NEW i \in 1 .. n + 1, i > 1
      PROVE  stack'[i].pkt.cmd = "RegisterSession" /\ stack'[i].at \notin Finished
  <2>1. CASE i = n + 1
    <3>1. stack # << >>
      BY <1>1, <1>3, <2>1, EmptySeq
    <3> QED
      BY <1>1, <2>1, <3>1 DEF Finished
  <2>2. CASE i # n + 1
    BY <1>1, <1>3, <2>2 DEF StackShape
  <2> QED
    BY <2>1, <2>2
<1> QED
  BY <1>1, <1>2, <1>3 DEF StackShape

\* A nested call that returns leaves the shape of the calls around it.
LEMMA ResumeShape ==
    ASSUME stack \in Seq(Frame), StackShape, Len(stack) > 1, Resume
    PROVE  StackShape'
<1> DEFINE n == Len(stack) - 1
<1>0. Len(stack) \in Nat /\ Len(stack) > 1
  BY LenProperties
<1>1. n \in Nat \ {0} /\ n \in 1 .. Len(stack)
  BY <1>0, Predecessor
<1>2. /\ stack' \in Seq(Frame) /\ stack' # << >> /\ Len(stack') = n
      /\ \A i \in 1 .. n : stack'[i].pkt = stack[i].pkt
      /\ \A i \in 1 .. Len(stack) - 2 : stack'[i] = stack[i]
      /\ Top'.at \in {"rewriteW", "rewriteR"}
  BY ResumeStack
<1>3. stack'[n].at \notin Finished
  BY <1>2 DEF Top, Finished
<1>r. /\ \A i \in 1 .. n : i \in 1 .. Len(stack)
      /\ \A i \in 1 .. n : i < n => i \in 1 .. Len(stack) - 2 /\ i < Len(stack)
      /\ \A i \in 1 .. n : i < n \/ i = n
  BY <1>0
<1>4. \A i \in 1 .. n : i < n => stack'[i].at \in {"dialW", "dialR"}
  BY <1>2, <1>r DEF StackShape
<1>5. \A i \in 1 .. n : i > 1 => stack'[i].pkt.cmd = "RegisterSession"
  BY <1>2, <1>r DEF StackShape
<1>6. \A i \in 1 .. n : i > 1 => stack'[i].at \notin Finished
  BY <1>2, <1>3, <1>r DEF StackShape
<1> QED
  BY <1>2, <1>4, <1>5, <1>6 DEF StackShape

-----------------------------------------------------------------------------
(* Sockets.                                                                *)

\* A connection that is not Nil is a socket.
LEMMA ConnIsSocket ==
    ASSUME TypeOK, tcpConn # Nil
    PROVE  tcpConn \in Sockets /\ sock[tcpConn] \in Socket
<1>1. tcpConn \in Sockets
  BY TransportAssumption DEF TypeOK, Handles, Nil, Sockets
<1> QED
  BY <1>1 DEF TypeOK

\* The fields of a socket.
LEMMA SocketFields ==
    ASSUME NEW k \in Socket
    PROVE  /\ k.open \in BOOLEAN /\ k.up \in BOOLEAN /\ k.registered \in BOOLEAN
           /\ k.in \in Seq(Request)
           /\ k.out \in Seq(Reply)
BY DEF Socket

\* Sockets that carry nothing.
LEMMA EmptySockets ==
    /\ FreshSocket \in Socket
    /\ ClosedSocket \in Socket
    /\ \A s : CarriesRegistrations(FreshSocket, s)
BY DEF FreshSocket, ClosedSocket, Socket, CarriesRegistrations

\* Replacing one socket by another.
LEMMA PutSocket ==
    ASSUME sock \in [Sockets -> Socket], NEW s \in Sockets, NEW k \in Socket,
           sock' = [sock EXCEPT ![s] = k]
    PROVE  /\ sock' \in [Sockets -> Socket]
           /\ sock'[s] = k
           /\ \A r \in Sockets \ {s} : sock'[r] = sock[r]
OBVIOUS

-----------------------------------------------------------------------------
(* The invariant but for the types, after the changes an action can make.  *)

Safe ==
    /\ StackShape
    /\ ConnIsOpen
    /\ SocketOfTop
    /\ RegistersAlone
    /\ SessionOfSocket

UsesSocket == {"write", "rewriteW", "rewriteR", "read", "reread",
               "reconnectW", "reconnectR"}

SameConnection == UNCHANGED <<tcpConn, session, established>>
SameEnds == \A s \in Sockets : sock'[s].open = sock[s].open

\* Sockets that are neither opened nor closed.
LEMMA SafeEnds ==
    ASSUME Inv, SameConnection, SameEnds
    PROVE  ConnIsOpen' /\ SessionOfSocket'
<1>1. ConnIsOpen'
  BY ConnIsSocket DEF Inv, ConnIsOpen, SameConnection, SameEnds
<1>2. SessionOfSocket'
  BY DEF Inv, SessionOfSocket, IsConnected, SameConnection
<1> QED
  BY <1>1, <1>2

\* The call in progress moves on.
LEMMA SafeGoto ==
    ASSUME Inv, stack # << >>, Top.at \in Working,
           NEW l \in Working \ {"dialW", "dialR"}, Goto(l),
           l \in UsesSocket => tcpConn # Nil,
           SameConnection, SameEnds,
           Top.pkt.cmd = "RegisterSession" /\ tcpConn # Nil
               => CarriesRegistrations(sock'[tcpConn], tcpConn)
    PROVE  Safe'
<1>1. stack \in Seq(Frame) /\ l \in Labels /\ StackShape
  BY DEF Inv, TypeOK, Labels
<1>2. StackShape'
  BY <1>1, GotoShape
<1>3. stack' # << >> /\ Top' = [pkt |-> Top.pkt, at |-> l]
  BY <1>1, GotoStack
<1>4. SocketOfTop'
  BY <1>3 DEF SocketOfTop, UsesSocket, SameConnection
<1>5. RegistersAlone'
  BY <1>3 DEF RegistersAlone, SameConnection
<1> QED
  BY <1>2, <1>4, <1>5, SafeEnds DEF Safe

\* ... without touching the sockets.
LEMMA SafeQuietGoto ==
    ASSUME Inv, stack # << >>, Top.at \in Working,
           NEW l \in Working \ {"dialW", "dialR"}, Goto(l),
           l \in UsesSocket => tcpConn # Nil,
           SameConnection, UNCHANGED sock
    PROVE  Safe'
<1>1. SameEnds
  BY DEF SameEnds
<1>2. Top.pkt.cmd = "RegisterSession" /\ tcpConn # Nil
         => CarriesRegistrations(sock'[tcpConn], tcpConn)
  BY DEF Inv, RegistersAlone
<1> QED
  BY <1>1, <1>2, SafeGoto

\* The call in progress fails.
LEMMA SafeFail ==
    ASSUME Inv, stack # << >>, NEW n \in Nat, Fail(n), SameConnection, SameEnds
    PROVE  Safe'
<1>1. stack \in Seq(Frame)
  BY DEF Inv, TypeOK
<1>2. StackShape'
  BY <1>1, FailShape
<1>3. stack' # << >> /\ Top'.at = "error"
  BY <1>1, FailStack
<1>4. SocketOfTop' /\ RegistersAlone'
  BY <1>3 DEF SocketOfTop, RegistersAlone, Working
<1> QED
  BY <1>2, <1>4, SafeEnds DEF Safe

-----------------------------------------------------------------------------
(* Types.                                                                  *)

\* The top frame of a stack.
LEMMA TopTypes ==
    ASSUME TypeOK, stack # << >>
    PROVE  stack \in Seq(Frame) /\ Top.pkt \in Request /\ Top.at \in Labels
<1>1. stack \in Seq(Frame)
  BY DEF TypeOK
<1> QED
  BY <1>1, TopOfStack DEF Frame, Labels

\* A failure.
LEMMA FailTypes ==
    ASSUME TypeOK, stack # << >>, NEW n \in Nat, Fail(n)
    PROVE  /\ stack' \in Seq(Frame)
           /\ reconnectAttempts' \in Nat
           /\ dirty' \in SUBSET Sockets
<1>1. stack \in Seq(Frame) /\ stack' \in Seq(Frame) /\ Len(stack) \in Nat \ {0}
  BY TopTypes, FailStack, TopOfStack
<1>2. reconnectAttempts' \in Nat
  BY <1>1 DEF Fail, TypeOK
<1>3. dirty' \in SUBSET Sockets
  BY ConnIsSocket DEF Fail, TypeOK
<1> QED
  BY <1>1, <1>2, <1>3

\* A fault.
LEMMA FaultTypes ==
    ASSUME faults \in Nat, NEW free, Fault(free)
    PROVE  faults' \in Nat
BY DEF Fault

-----------------------------------------------------------------------------
(* The steps of a request.                                                 *)

\* requestLocked starts.
LEMMA EnterStep ==
    ASSUME Inv, Enter, UNCHANGED calls
    PROVE  Inv'
<1>1. TypeOK /\ stack # << >> /\ Top.at = "enter"
  BY DEF Inv, Enter, At
<1>2. SameConnection /\ SameEnds /\ UNCHANGED sock
  BY DEF Enter, SameConnection, SameEnds, prog, net
<1>3. CASE tcpConn = Nil
  <2>1. Fail(0)
    BY <1>3 DEF Enter
  <2>2. TypeOK'
    BY <1>1, <1>2, <2>1, FailTypes DEF Enter, TypeOK, prog, mon, net
  <2> QED
    BY <1>1, <1>2, <2>1, <2>2, SafeFail DEF Inv, Safe
<1>4. CASE tcpConn # Nil
  <2>1. Goto("write") /\ UNCHANGED <<reconnectAttempts, dirty>>
    BY <1>4 DEF Enter
  <2>2. stack' \in Seq(Frame)
    BY <1>1, <2>1, GotoStack, TopTypes DEF Labels, Working
  <2>3. TypeOK'
    BY <1>1, <2>1, <2>2 DEF Enter, TypeOK, prog, mon, net
  <2>4. Safe'
    BY <1>1, <1>2, <1>4, <2>1, SafeQuietGoto DEF Working
  <2> QED
    BY <2>3, <2>4 DEF Inv, Safe
<1> QED
  BY <1>3, <1>4

\* t.write succeeds.
LEMMA WriteStep ==
    ASSUME Inv, UNCHANGED calls,
           NEW from \in {"write", "rewriteW", "rewriteR"}, NEW to \in {"read", "reread"},
           Write(from, to)
    PROVE  Inv' /\ SameEnds
<1> DEFINE c == tcpConn
           k == [sock[c] EXCEPT !.in = Append(@, Top.pkt)]
<1>1. /\ TypeOK /\ stack # << >> /\ Top.at = from /\ tcpConn # Nil
      /\ Top.at \in Working /\ to \in Working \ {"dialW", "dialR"} /\ to \in Labels
  BY DEF Inv, Write, At, Working, Labels
<1>2. Goto(to) /\ SameConnection
  BY DEF Write, SameConnection, prog
<1>3. c \in Sockets /\ sock[c] \in Socket /\ sock \in [Sockets -> Socket]
  BY <1>1, ConnIsSocket DEF TypeOK
<1>4. Top.pkt \in Request /\ stack \in Seq(Frame)
  BY <1>1, TopTypes
<1>5. k \in Socket /\ k.open = sock[c].open
  BY <1>3, <1>4, AppendProperties DEF Socket
<1>6. stack' \in Seq(Frame)
  BY <1>1, <1>2, <1>4, GotoStack
<1>7. CASE sock[c].up
  <2>1. sock' = [sock EXCEPT ![c] = k]
    BY <1>7 DEF Write
  <2>2. /\ sock' \in [Sockets -> Socket] /\ sock'[c] = k
        /\ \A r \in Sockets \ {c} : sock'[r] = sock[r]
    BY <1>3, <1>5, <2>1, PutSocket
  <2>3. SameEnds
    BY <1>5, <2>2 DEF SameEnds
  <2>4. TypeOK'
    BY <1>1, <1>6, <2>2 DEF Write, TypeOK, prog, mon
  <2>5. Top.pkt.cmd = "RegisterSession" => CarriesRegistrations(sock'[c], c)
    <3>1. SUFFICES ASSUME Top.pkt.cmd = "RegisterSession"
                   PROVE  CarriesRegistrations(k, c)
      BY <2>2
    <3>2. CarriesRegistrations(sock[c], c)
      BY <1>1, <3>1 DEF Inv, RegistersAlone
    <3>3. Top.pkt \in {r \in Request : r.cmd = "RegisterSession"}
      BY <1>4, <3>1
    <3>4. k.in = Append(sock[c].in, Top.pkt) /\ k.out = sock[c].out
      BY <1>3 DEF Socket
    <3> QED
      BY <3>2, <3>3, <3>4, AppendProperties DEF CarriesRegistrations
  <2>6. Safe'
    BY <1>1, <1>2, <2>3, <2>5, SafeGoto
  <2> QED
    BY <2>3, <2>4, <2>6 DEF Inv, Safe
<1>8. CASE ~sock[c].up
  <2>1. UNCHANGED sock
    BY <1>8 DEF Write
  <2>2. TypeOK'
    BY <1>1, <1>6, <2>1 DEF Write, TypeOK, prog, mon
  <2>3. Safe'
    BY <1>1, <1>2, <2>1, SafeQuietGoto
  <2> QED
    BY <2>1, <2>2, <2>3 DEF Inv, Safe, SameEnds
<1> QED
  BY <1>7, <1>8

\* The first write fails.
LEMMA FirstWriteFailsStep ==
    ASSUME Inv, FirstWriteFails, UNCHANGED calls
    PROVE  Inv'
<1>1. /\ TypeOK /\ stack # << >> /\ Top.at \in Working /\ tcpConn # Nil
      /\ Goto("reconnectW") /\ SameConnection /\ UNCHANGED sock
  BY DEF Inv, FirstWriteFails, WriteError, At, Working, SameConnection, prog, net
<1>2. stack' \in Seq(Frame)
  BY <1>1, GotoStack, TopTypes DEF Labels, Working
<1>3. faults' \in Nat
  BY <1>1, FaultTypes DEF FirstWriteFails, WriteError, TypeOK
<1>4. TypeOK'
  BY <1>1, <1>2, <1>3 DEF FirstWriteFails, TypeOK, prog, mon, net
<1>5. Safe'
  BY <1>1, SafeQuietGoto DEF Working
<1> QED
  BY <1>4, <1>5 DEF Inv, Safe

\* The write after a reconnection fails.
LEMMA RetryWriteFailsStep ==
    ASSUME Inv, RetryWriteFails, UNCHANGED calls
    PROVE  Inv'
<1>1. /\ TypeOK /\ stack # << >> /\ Fail(0)
      /\ SameConnection /\ SameEnds
  BY DEF Inv, RetryWriteFails, WriteError, At, SameConnection, SameEnds, prog, net
<1>2. faults' \in Nat
  BY <1>1, FaultTypes DEF RetryWriteFails, WriteError, TypeOK
<1>3. TypeOK'
  BY <1>1, <1>2, FailTypes DEF RetryWriteFails, TypeOK, prog, mon, net
<1>4. Safe'
  BY <1>1, SafeFail
<1> QED
  BY <1>3, <1>4 DEF Inv, Safe

\* A failed read takes a reply or all of them from the socket, or none.
LEMMA ReadErrorSocket ==
    ASSUME Inv, NEW from \in {"read", "reread"}, ReadError(from)
    PROVE  /\ tcpConn # Nil /\ faults' \in Nat
           /\ sock' \in [Sockets -> Socket] /\ SameEnds
           /\ CarriesRegistrations(sock[tcpConn], tcpConn)
                 => CarriesRegistrations(sock'[tcpConn], tcpConn)
<1> DEFINE c == tcpConn
           Read(q) == [sock[c] EXCEPT !.out = q]
<1>1. tcpConn # Nil /\ TypeOK
  BY DEF Inv, ReadError
<1>2. c \in Sockets /\ sock[c] \in Socket /\ sock \in [Sockets -> Socket] /\ faults \in Nat
  BY <1>1, ConnIsSocket DEF TypeOK
<1>3. CASE UNCHANGED sock
  <2>1. faults' \in Nat
    BY <1>2, FaultTypes DEF ReadError
  <2> QED
    BY <1>1, <1>2, <1>3, <2>1 DEF SameEnds
<1>4. ASSUME NEW q \in {Tail(sock[c].out), << >>}, sock[c].out # << >>,
             sock' = [sock EXCEPT ![c] = Read(q)], UNCHANGED faults
      PROVE  /\ faults' \in Nat /\ sock' \in [Sockets -> Socket] /\ SameEnds
             /\ CarriesRegistrations(sock[c], c) => CarriesRegistrations(sock'[c], c)
  <2>0. \A T : sock[c].out \in Seq(T) => q \in Seq(T)
    <3>1. ASSUME NEW T, sock[c].out \in Seq(T)
          PROVE  Tail(sock[c].out) \in Seq(T) /\ << >> \in Seq(T)
      BY <1>4, <3>1, HeadTailProperties, EmptySeq
    <3> QED
      BY <1>4, <3>1
  <2>1. q \in Seq(Reply)
    BY <1>2, <2>0, SocketFields
  <2>2. Read(q) \in Socket /\ Read(q).open = sock[c].open
        /\ Read(q).in = sock[c].in /\ Read(q).out = q
    BY <1>2, <2>1 DEF Socket
  <2> HIDE DEF Read
  <2>3. /\ sock' \in [Sockets -> Socket] /\ sock'[c] = Read(q)
        /\ \A r \in Sockets \ {c} : sock'[r] = sock[r]
    BY <1>2, <1>4, <2>2, PutSocket
  <2>4. CarriesRegistrations(sock[c], c) => CarriesRegistrations(Read(q), c)
    BY <2>0, <2>2 DEF CarriesRegistrations
  <2> QED
    BY <1>2, <1>4, <2>2, <2>3, <2>4 DEF SameEnds
<1>5. CASE sock[c].out # << >> /\ sock' = [sock EXCEPT ![c].out = Tail(@)] /\ UNCHANGED faults
  <2>1. sock' = [sock EXCEPT ![c] = Read(Tail(sock[c].out))]
    BY <1>5
  <2> QED
    BY <1>1, <1>4, <1>5, <2>1
<1>6. CASE sock[c].out # << >> /\ sock' = [sock EXCEPT ![c].out = << >>] /\ UNCHANGED faults
  <2>1. sock' = [sock EXCEPT ![c] = Read(<< >>)]
    BY <1>6
  <2> QED
    BY <1>1, <1>4, <1>6, <2>1
<1>7. Len(sock[c].out) > 1 => sock[c].out # << >>
  BY <1>2, EmptySeq DEF Socket
<1> QED
  BY <1>3, <1>5, <1>6, <1>7 DEF ReadError

\* The first read fails.
LEMMA FirstReadFailsStep ==
    ASSUME Inv, FirstReadFails, UNCHANGED calls
    PROVE  Inv'
<1>1. /\ TypeOK /\ stack # << >> /\ Top.at \in Working
      /\ Goto("reconnectR") /\ SameConnection /\ ReadError("read")
  BY DEF Inv, FirstReadFails, ReadError, At, Working, SameConnection, prog
<1>2. /\ tcpConn # Nil /\ faults' \in Nat
      /\ sock' \in [Sockets -> Socket] /\ SameEnds
      /\ CarriesRegistrations(sock[tcpConn], tcpConn)
            => CarriesRegistrations(sock'[tcpConn], tcpConn)
  BY <1>1, ReadErrorSocket
<1>3. stack' \in Seq(Frame)
  BY <1>1, GotoStack, TopTypes DEF Labels, Working
<1>4. TypeOK'
  BY <1>1, <1>2, <1>3 DEF FirstReadFails, TypeOK, prog, mon
<1>5. Top.pkt.cmd = "RegisterSession" => CarriesRegistrations(sock'[tcpConn], tcpConn)
  BY <1>1, <1>2 DEF Inv, RegistersAlone
<1>6. Safe'
  BY <1>1, <1>2, <1>5, SafeGoto DEF Working
<1> QED
  BY <1>4, <1>6 DEF Inv, Safe

\* The read after a reconnection fails.
LEMMA RetryReadFailsStep ==
    ASSUME Inv, RetryReadFails, UNCHANGED calls
    PROVE  Inv'
<1>1. /\ TypeOK /\ stack # << >> /\ Fail(0) /\ SameConnection /\ ReadError("reread")
  BY DEF Inv, RetryReadFails, ReadError, At, SameConnection, prog
<1>2. faults' \in Nat /\ sock' \in [Sockets -> Socket] /\ SameEnds
  BY <1>1, ReadErrorSocket
<1>3. TypeOK'
  BY <1>1, <1>2, FailTypes DEF RetryReadFails, TypeOK, prog, mon
<1>4. Safe'
  BY <1>1, <1>2, SafeFail
<1> QED
  BY <1>3, <1>4 DEF Inv, Safe

\* A reply is read: the session a nested or outermost registration takes from it
\* is the one of the socket in use.
LEMMA ReadReplyStep ==
    ASSUME Inv, ReadReply, UNCHANGED calls
    PROVE  Inv'
<1> DEFINE c == tcpConn
           q == sock[c].out
           reply == Head(q)
           K(rest) == [sock[c] EXCEPT !.out = rest]
<1>1. /\ TypeOK /\ stack # << >> /\ Top.at \in {"read", "reread"} /\ Top.at \in Working
      /\ tcpConn # Nil /\ q # << >> /\ Succeed(reply) /\ tcpConn' = tcpConn
      /\ \/ sock' = [sock EXCEPT ![c].out = Tail(@)]
         \/ sock' = [sock EXCEPT ![c].out = << >>]
  BY DEF Inv, ReadReply, At, Working
<1>2. c \in Sockets /\ sock[c] \in Socket /\ sock \in [Sockets -> Socket]
      /\ q \in Seq(Reply) /\ stack \in Seq(Frame) /\ Len(stack) \in Nat \ {0}
  BY <1>1, ConnIsSocket, SocketFields, TopOfStack DEF TypeOK
<1>r. PICK rest \in {Tail(q), << >>} : sock' = [sock EXCEPT ![c] = K(rest)]
  BY <1>1
<1>3. reply \in Reply /\ rest \in Seq(Reply)
  <2>1. Head(q) \in Reply /\ Tail(q) \in Seq(Reply) /\ << >> \in Seq(Reply)
    BY <1>1, <1>2, HeadTailProperties, EmptySeq
  <2> QED
    BY <1>r, <2>1
<1> DEFINE k == K(rest)
<1>4. k \in Socket /\ k.open = sock[c].open /\ k.in = sock[c].in /\ k.out = rest
  BY <1>2, <1>3 DEF Socket
<1>5. sock' = [sock EXCEPT ![c] = k]
  BY <1>r
<1> HIDE DEF k, reply, q
<1>6. /\ sock' \in [Sockets -> Socket] /\ sock'[c] = k
      /\ \A r \in Sockets \ {c} : sock'[r] = sock[r]
  BY <1>2, <1>4, <1>5, PutSocket
<1>7. Top.pkt.cmd = "RegisterSession" =>
          CarriesRegistrations(k, c) /\ reply.sess \in {0, c}
  <2>1. SUFFICES ASSUME Top.pkt.cmd = "RegisterSession"
                 PROVE  CarriesRegistrations(k, c) /\ reply.sess \in {0, c}
    OBVIOUS
  <2>2. CarriesRegistrations(sock[c], c)
    BY <1>1, <2>1 DEF Inv, RegistersAlone
  <2> DEFINE T == {r \in Reply : r.sess \in {0, c}}
  <2>3. q \in Seq(T)
    BY <2>2 DEF CarriesRegistrations, q
  <2>4. Head(q) \in T /\ Tail(q) \in Seq(T) /\ << >> \in Seq(T)
    BY <1>1, <2>3, HeadTailProperties, EmptySeq
  <2>5. rest \in Seq(T)
    BY <1>r, <2>4
  <2> QED
    BY <2>5, <1>4, <2>2, <2>4 DEF CarriesRegistrations, reply
<1>8. session' \in Handles /\ established' \in BOOLEAN
  BY <1>1, <1>3 DEF Succeed, TakeSession, TypeOK, Reply
<1>9. SessionOfSocket'
  <2>1. CASE Top.pkt.cmd = "RegisterSession"
    BY <1>1, <1>7, <2>1 DEF Succeed, TakeSession, SessionOfSocket, IsConnected
  <2>2. CASE Top.pkt.cmd # "RegisterSession"
    BY <1>1, <2>2 DEF Succeed, TakeSession, SessionOfSocket, IsConnected, Inv
  <2> QED
    BY <2>1, <2>2
<1>10. ConnIsOpen'
  <2>1. \A s \in Sockets : sock'[s].open = sock[s].open
    BY <1>4, <1>6
  <2> QED
    BY <1>1, <1>2, <2>1 DEF Inv, ConnIsOpen
<1>11. /\ stack' \in Seq(Frame) /\ StackShape' /\ SocketOfTop' /\ RegistersAlone'
       /\ resp' \in Reply /\ reconnectAttempts' \in Nat /\ state' \in States
       /\ stats' \in [connect : Nat, disconnect : Nat, reconnect : Nat]
  <2>0. (Len(stack) = 1 /\ ~(Len(stack) > 1)) \/ (Len(stack) # 1 /\ Len(stack) > 1)
    BY <1>2, OneOrMore
  <2>1. CASE Len(stack) = 1
    <3>1. Goto("ok") /\ resp' = reply /\ UNCHANGED <<mon, reconnectAttempts>>
      BY <1>1, <2>1 DEF Succeed
    <3>2. stack' \in Seq(Frame) /\ StackShape'
      BY <1>1, <1>2, <2>1, <3>1, GotoStack, GotoShape DEF Labels, Finished, Inv
    <3>3. Top'.at = "ok"
      BY <1>1, <1>2, <3>1, GotoStack DEF Labels, Finished
    <3>4. SocketOfTop' /\ RegistersAlone'
      BY <3>3 DEF SocketOfTop, RegistersAlone, Working
    <3> QED
      BY <1>1, <1>3, <3>1, <3>2, <3>4 DEF TypeOK, mon
  <2>2. CASE Len(stack) > 1
    <3>1. Resume /\ ReconnectDone /\ UNCHANGED resp
      BY <1>1, <2>0, <2>2 DEF Succeed
    <3>2. /\ stack' \in Seq(Frame) /\ StackShape' /\ stack' # << >>
          /\ Top'.at \in {"rewriteW", "rewriteR"}
      BY <1>1, <1>2, <2>2, <3>1, ResumeStack, ResumeShape DEF Inv
    <3>3. Top.pkt.cmd = "RegisterSession"
      BY <1>1, <1>2, <2>2 DEF Inv, StackShape, Top
    <3>4. SocketOfTop'
      BY <1>1, <3>2 DEF SocketOfTop
    <3>5. RegistersAlone'
      BY <1>1, <1>6, <1>7, <3>3 DEF RegistersAlone
    <3>6. stats' \in [connect : Nat, disconnect : Nat, reconnect : Nat]
      <4>1. stats \in [connect : Nat, disconnect : Nat, reconnect : Nat]
        BY <1>1 DEF TypeOK
      <4>2. stats.reconnect + 1 \in Nat
        BY <4>1
      <4>3. stats' = [stats EXCEPT !.reconnect = stats.reconnect + 1]
        BY <3>1 DEF ReconnectDone
      <4> QED
        BY <4>1, <4>2, <4>3
    <3>7. resp' \in Reply /\ reconnectAttempts' \in Nat /\ state' \in States
      BY <1>1, <3>1 DEF ReconnectDone, TypeOK, States
    <3> QED
      BY <3>2, <3>4, <3>5, <3>6, <3>7
  <2> QED
    BY <2>0, <2>1, <2>2
<1>12. TypeOK'
  BY <1>1, <1>6, <1>8, <1>11 DEF ReadReply, Succeed, TakeSession, TypeOK
<1> QED
  BY <1>9, <1>10, <1>11, <1>12 DEF Inv

\* The process dies.
LEMMA PanicStep ==
    ASSUME Inv, Panic, UNCHANGED calls
    PROVE  Inv'
<1>1. TypeOK'
  BY DEF Panic, Inv, TypeOK, prog, mon, net
<1>2. /\ stack' = stack /\ Top' = Top /\ tcpConn' = tcpConn /\ sock' = sock
      /\ session' = session /\ established' = established
  BY DEF Panic, prog, net, Top
<1> QED
  BY <1>1, <1>2 DEF Inv, StackShape, ConnIsOpen, SocketOfTop, RegistersAlone,
     SessionOfSocket, IsConnected

\* reconnectLocked closes the socket before it dials another one.
LEMMA ReconnectStep ==
    ASSUME Inv, UNCHANGED calls,
           NEW from \in {"reconnectW", "reconnectR"}, NEW to \in {"dialW", "dialR"},
           Reconnect(from, to)
    PROVE  Inv'
<1>1. TypeOK /\ stack # << >> /\ Top.at \in Working
  BY DEF Inv, Reconnect, At, Working
<1>2. CASE reconnectAttempts >= MaxReconnect
  <2>1. /\ Fail(0) /\ state' = "Disconnected" /\ SameConnection /\ SameEnds
        /\ UNCHANGED sock
    BY <1>2 DEF Reconnect, SameConnection, SameEnds, prog
  <2>2. TypeOK'
    BY <1>1, <1>2, <2>1, FailTypes DEF Reconnect, TypeOK, States, prog
  <2>3. Safe'
    BY <1>1, <2>1, SafeFail
  <2> QED
    BY <2>2, <2>3 DEF Inv, Safe
<1>3. CASE ~(reconnectAttempts >= MaxReconnect)
  <2>1. /\ state' = "Reconnecting" /\ tcpConn' = Nil /\ Goto(to)
        /\ sock' = IF tcpConn = Nil THEN sock ELSE Closed(tcpConn)
        /\ established' = FALSE /\ connID' = 0 /\ seqNum' = 0
        /\ UNCHANGED <<reconnectAttempts, session, dirty>>
    BY <1>3 DEF Reconnect, Reset
  <2>2. stack \in Seq(Frame) /\ to \in Labels /\ to \in Working
    BY <1>1, TopTypes DEF Labels, Working
  <2>3. stack' \in Seq(Frame) /\ StackShape' /\ Top'.at = to
    BY <1>1, <2>1, <2>2, GotoStack, GotoShape DEF Inv
  <2>4. sock' \in [Sockets -> Socket]
    <3>1. CASE tcpConn = Nil
      BY <1>1, <2>1, <3>1 DEF TypeOK
    <3>2. CASE tcpConn # Nil
      <4>1. tcpConn \in Sockets /\ sock \in [Sockets -> Socket] /\ ClosedSocket \in Socket
        BY <1>1, <3>2, ConnIsSocket, EmptySockets DEF TypeOK
      <4>2. sock' = [sock EXCEPT ![tcpConn] = ClosedSocket]
        BY <2>1, <3>2 DEF Closed
      <4> QED
        BY <4>1, <4>2, PutSocket
    <3> QED
      BY <3>1, <3>2
  <2>5. TypeOK'
    <3>1. tcpConn' \in Handles /\ state' \in States
      BY <2>1, TransportAssumption DEF Handles, Nil, States
    <3> QED
      BY <1>1, <2>1, <2>3, <2>4, <3>1 DEF Reconnect, TypeOK
  <2>6. ConnIsOpen' /\ SocketOfTop' /\ RegistersAlone' /\ SessionOfSocket'
    BY <2>1, <2>3 DEF ConnIsOpen, SocketOfTop, RegistersAlone, SessionOfSocket,
       IsConnected
  <2> QED
    BY <2>3, <2>5, <2>6 DEF Inv
<1> QED
  BY <1>2, <1>3

\* A socket is dialled, and a registration is called on it: by Connect while no call
\* is in progress, by reconnectLocked for the call in progress.
LEMMA DialAndCall ==
    ASSUME Inv, NEW s \in Sockets, DialOk(s), ~established', tcpConn' = s,
           NEW n \in Nat,
           Call(Packet("RegisterSession", n, 0, NoBody)),
           \/ stack = << >>
           \/ stack # << >> /\ Top.at \in {"dialW", "dialR"}
    PROVE  /\ Safe' /\ tcpConn' \in Handles /\ stack' \in Seq(Frame)
           /\ sock' \in [Sockets -> Socket] /\ dials' \in 0 .. MaxSockets
<1> DEFINE p == Packet("RegisterSession", n, 0, NoBody)
<1>1. stack \in Seq(Frame) /\ StackShape /\ sock \in [Sockets -> Socket]
  BY DEF Inv, TypeOK
<1>2. p \in Request /\ p.cmd = "RegisterSession"
  BY TransportAssumption DEF Packet, Request, Commands, Handles
<1> HIDE DEF p
<1>3. stack' \in Seq(Frame) /\ stack' # << >> /\ Top' = [pkt |-> p, at |-> "enter"]
  BY <1>1, <1>2, CallStack DEF p
<1>4. StackShape'
  BY <1>1, <1>2, CallShape DEF p
<1>5. sock' = [sock EXCEPT ![s] = FreshSocket] /\ dials' = s
  BY DEF DialOk
<1>6. /\ sock' \in [Sockets -> Socket] /\ sock'[s] = FreshSocket
      /\ \A r \in Sockets \ {s} : sock'[r] = sock[r]
  BY <1>1, <1>5, EmptySockets, PutSocket
<1>7. tcpConn' \in Handles /\ dials' \in 0 .. MaxSockets /\ s # Nil
  BY <1>5, TransportAssumption DEF Sockets, Handles, Nil
<1>8. ConnIsOpen'
  BY <1>6 DEF ConnIsOpen, FreshSocket
<1>9. SocketOfTop' /\ RegistersAlone' /\ SessionOfSocket'
  BY <1>3, <1>6, EmptySockets DEF SocketOfTop, RegistersAlone, SessionOfSocket, IsConnected
<1> QED
  BY <1>3, <1>4, <1>6, <1>7, <1>8, <1>9 DEF Safe

\* reconnectLocked dials a socket and registers a session on it.
LEMMA RedialOkStep ==
    ASSUME Inv, NEW s \in Sockets, RedialOk(s), UNCHANGED calls
    PROVE  Inv'
<1>1. /\ TypeOK /\ stack # << >> /\ Top.at \in {"dialW", "dialR"} /\ DialOk(s)
      /\ tcpConn' = s /\ nctx' = nctx + 1
      /\ Call(Packet("RegisterSession", nctx + 1, 0, NoBody))
      /\ UNCHANGED established
  BY DEF Inv, RedialOk, At, prog
<1>2. tcpConn = Nil /\ ~established
  BY <1>1 DEF Inv, SocketOfTop
<1>3. nctx + 1 \in Nat
  BY <1>1 DEF TypeOK
<1>4. /\ Safe' /\ tcpConn' \in Handles /\ stack' \in Seq(Frame)
      /\ sock' \in [Sockets -> Socket] /\ dials' \in 0 .. MaxSockets
  BY <1>1, <1>2, <1>3, DialAndCall
<1>5. TypeOK'
  BY <1>1, <1>3, <1>4 DEF RedialOk, TypeOK, prog, mon
<1> QED
  BY <1>4, <1>5 DEF Inv, Safe

\* The dial of reconnectLocked fails.
LEMMA RedialFailsStep ==
    ASSUME Inv, RedialFails, UNCHANGED calls
    PROVE  Inv'
<1>1. /\ TypeOK /\ stack # << >> /\ Fail(1) /\ SameConnection /\ SameEnds
      /\ UNCHANGED net
  BY DEF Inv, RedialFails, DialError, At, SameConnection, SameEnds, prog, net
<1>2. faults' \in Nat
  BY <1>1, FaultTypes DEF RedialFails, DialError, TypeOK
<1>3. TypeOK'
  BY <1>1, <1>2, FailTypes DEF RedialFails, TypeOK, prog, mon, net
<1>4. Safe'
  BY <1>1, SafeFail
<1> QED
  BY <1>3, <1>4 DEF Inv, Safe

\* Every step of a request.
LEMMA RequestStepStep ==
    ASSUME Inv, RequestStep, UNCHANGED calls
    PROVE  Inv'
<1>1. CASE Enter
  BY <1>1, EnterStep
<1>2. CASE FirstWrite
  BY <1>2, WriteStep DEF FirstWrite
<1>3. CASE FirstWriteFails
  BY <1>3, FirstWriteFailsStep
<1>4. CASE RetryWrite
  BY <1>4, WriteStep DEF RetryWrite
<1>5. CASE RetryWriteFails
  BY <1>5, RetryWriteFailsStep
<1>6. CASE ReadReply
  BY <1>6, ReadReplyStep
<1>7. CASE FirstReadFails
  BY <1>7, FirstReadFailsStep
<1>8. CASE RetryReadFails
  BY <1>8, RetryReadFailsStep
<1>9. CASE NilDereference
  BY <1>9, PanicStep DEF NilDereference
<1>10. CASE ReconnectBegin
  BY <1>10, ReconnectStep DEF ReconnectBegin
<1>11. CASE \E s \in Sockets : RedialOk(s)
  BY <1>11, RedialOkStep
<1>12. CASE RedialFails
  BY <1>12, RedialFailsStep
<1> QED
  BY <1>1, <1>2, <1>3, <1>4, <1>5, <1>6, <1>7, <1>8, <1>9, <1>10, <1>11, <1>12
     DEF RequestStep

-----------------------------------------------------------------------------
(* The device.                                                             *)

\* The device changes one socket: neither opens nor closes it, and answers a
\* registration with the socket's own session or none.
LEMMA DeviceSocket ==
    ASSUME Inv, NEW s \in Sockets, NEW k \in Socket, sock' = [sock EXCEPT ![s] = k],
           k.open = sock[s].open,
           CarriesRegistrations(sock[s], s) => CarriesRegistrations(k, s),
           faults' \in Nat, DeviceUnchanged, UNCHANGED calls
    PROVE  Inv' /\ SameEnds
<1>1. sock \in [Sockets -> Socket] /\ TypeOK
  BY DEF Inv, TypeOK
<1>2. /\ sock' \in [Sockets -> Socket] /\ sock'[s] = k
      /\ \A r \in Sockets \ {s} : sock'[r] = sock[r]
  BY <1>1, PutSocket
<1>3. SameConnection /\ SameEnds /\ stack' = stack /\ Top' = Top
  BY <1>2 DEF DeviceUnchanged, SameConnection, SameEnds, prog, Top
<1>4. TypeOK'
  BY <1>1, <1>2 DEF DeviceUnchanged, TypeOK, prog, mon
<1>5. StackShape' /\ SocketOfTop'
  BY <1>3 DEF Inv, StackShape, SocketOfTop, SameConnection
<1>6. RegistersAlone'
  <2>1. SUFFICES ASSUME stack # << >>, Top.pkt.cmd = "RegisterSession",
                        Top.at \in Working, tcpConn # Nil
                 PROVE  CarriesRegistrations(sock'[tcpConn], tcpConn)
    BY <1>3 DEF RegistersAlone, SameConnection
  <2>2. CarriesRegistrations(sock[tcpConn], tcpConn) /\ tcpConn \in Sockets
    BY <1>1, <2>1, ConnIsSocket DEF Inv, RegistersAlone
  <2>3. CASE tcpConn = s
    BY <1>2, <2>2, <2>3
  <2>4. CASE tcpConn # s
    BY <1>2, <2>2, <2>4
  <2> QED
    BY <2>3, <2>4
<1> QED
  BY <1>3, <1>4, <1>5, <1>6, SafeEnds DEF Inv

\* What is left of a queue of requests.
LEMMA InAfterHead ==
    ASSUME NEW k \in Socket, k.in # << >>
    PROVE  /\ Head(k.in) \in Request /\ Tail(k.in) \in Seq(Request)
           /\ \A s : CarriesRegistrations(k, s) =>
                 /\ Tail(k.in) \in Seq({r \in Request : r.cmd = "RegisterSession"})
                 /\ Head(k.in).cmd = "RegisterSession"
<1>1. Head(k.in) \in Request /\ Tail(k.in) \in Seq(Request)
  BY HeadTailProperties, SocketFields
<1> DEFINE T == {r \in Request : r.cmd = "RegisterSession"}
<1>2. ASSUME NEW s, CarriesRegistrations(k, s)
      PROVE  Tail(k.in) \in Seq(T) /\ Head(k.in) \in T
  <2>1. k.in \in Seq(T)
    BY <1>2 DEF CarriesRegistrations
  <2> QED
    BY <2>1, HeadTailProperties
<1> QED
  BY <1>1, <1>2

\* A socket on which a request was answered.
AfterAnswer(k, a, b) ==
    [k EXCEPT !.in = Tail(k.in), !.out = Append(k.out, a), !.registered = b]

\* It stays open, and carries registrations if it did.
LEMMA AnsweredSocket ==
    ASSUME NEW s \in Sockets, NEW k \in Socket, k.in # << >>, NEW b \in BOOLEAN,
           NEW a \in Reply, Head(k.in).cmd = "RegisterSession" => a.sess \in {0, s}
    PROVE  /\ AfterAnswer(k, a, b) \in Socket /\ AfterAnswer(k, a, b).open = k.open
           /\ CarriesRegistrations(k, s) => CarriesRegistrations(AfterAnswer(k, a, b), s)
<1> DEFINE j == AfterAnswer(k, a, b)
<1>1. /\ k.in \in Seq(Request) /\ k.out \in Seq(Reply) /\ Tail(k.in) \in Seq(Request)
      /\ Append(k.out, a) \in Seq(Reply)
  BY SocketFields, InAfterHead, AppendProperties
<1>2. j \in Socket /\ j.open = k.open /\ j.in = Tail(k.in) /\ j.out = Append(k.out, a)
  BY <1>1 DEF Socket, AfterAnswer
<1>3. ASSUME CarriesRegistrations(k, s)
      PROVE  CarriesRegistrations(j, s)
  <2> DEFINE T == {r \in Reply : r.sess \in {0, s}}
  <2>1. a \in T /\ Tail(k.in) \in Seq({r \in Request : r.cmd = "RegisterSession"})
    BY <1>3, InAfterHead
  <2>2. Append(k.out, a) \in Seq(T)
    BY <1>3, <2>1, AppendProperties DEF CarriesRegistrations
  <2> QED
    BY <1>2, <2>1, <2>2 DEF CarriesRegistrations
<1> QED
  BY <1>2, <1>3

\* A socket that lost requests and nothing else, or its peer.
LEMMA DroppedSocket ==
    ASSUME NEW s \in Sockets, NEW k \in Socket, NEW j \in Socket,
           j.open = k.open,
           j.in = << >> \/ (k.in # << >> /\ j.in = Tail(k.in)),
           j.out = << >> \/ j.out = k.out
    PROVE  CarriesRegistrations(k, s) => CarriesRegistrations(j, s)
<1>1. SUFFICES ASSUME CarriesRegistrations(k, s)
               PROVE  CarriesRegistrations(j, s)
  OBVIOUS
<1>2. j.in \in Seq({r \in Request : r.cmd = "RegisterSession"})
  BY <1>1, InAfterHead, EmptySeq
<1>3. j.out \in Seq({r \in Reply : r.sess \in {0, s}})
  BY <1>1, EmptySeq DEF CarriesRegistrations
<1> QED
  BY <1>2, <1>3 DEF CarriesRegistrations

\* The device serves a request, or misbehaves.
LEMMA DeviceAnswersStep ==
    ASSUME Inv, NEW s \in Sockets, NEW body \in Bodies, DeviceAnswers(s, body),
           DeviceUnchanged, UNCHANGED calls
    PROVE  Inv' /\ SameEnds
<1> DEFINE k == sock[s]
           r == Head(k.in)
           a == DeviceReply(s, r, body)
           b == k.registered \/ r.cmd = "RegisterSession"
           j == AfterAnswer(k, a, b)
<1>1. k \in Socket /\ k.in # << >> /\ faults' \in Nat
  BY DEF Inv, TypeOK, DeviceAnswers
<1>2. r \in Request /\ b \in BOOLEAN
  BY <1>1, InAfterHead, SocketFields
<1>3. a \in Reply /\ (r.cmd = "RegisterSession" => a.sess \in {0, s})
  <2>1. s \in Handles
    BY TransportAssumption DEF Sockets, Handles
  <2> QED
    BY <1>2, <2>1, TransportAssumption DEF DeviceReply, Request, Reply, Contents
<1>4. sock' = [sock EXCEPT ![s] = j]
  BY DEF DeviceAnswers, AfterAnswer
<1> HIDE DEF a, b
<1>5. /\ j \in Socket /\ j.open = k.open
      /\ CarriesRegistrations(k, s) => CarriesRegistrations(j, s)
  BY <1>1, <1>2, <1>3, AnsweredSocket
<1> QED
  BY <1>1, <1>4, <1>5, DeviceSocket

\* It refuses a request.
LEMMA DeviceRefusesStep ==
    ASSUME Inv, NEW s \in Sockets, DeviceRefuses(s), DeviceUnchanged, UNCHANGED calls
    PROVE  Inv' /\ SameEnds
<1> DEFINE k == sock[s]
           a == [ctx |-> Head(k.in).ctx, sess |-> 0, has |-> "none", body |-> NoBody]
           j == AfterAnswer(k, a, k.registered)
<1>1. k \in Socket /\ k.in # << >> /\ faults' \in Nat
  BY FaultTypes DEF Inv, TypeOK, DeviceRefuses
<1>2. Head(k.in) \in Request /\ k.registered \in BOOLEAN
  BY <1>1, InAfterHead, SocketFields
<1>3. a \in Reply /\ a.sess = 0
  BY <1>2, TransportAssumption DEF Request, Reply, Contents, Handles
<1>4. sock' = [sock EXCEPT ![s] = j]
  <2>1. j = [k EXCEPT !.in = Tail(k.in), !.out = Append(k.out, a)]
    BY <1>1 DEF Socket, AfterAnswer
  <2> QED
    BY <2>1 DEF DeviceRefuses
<1> HIDE DEF a
<1>5. /\ j \in Socket /\ j.open = k.open
      /\ CarriesRegistrations(k, s) => CarriesRegistrations(j, s)
  BY <1>1, <1>2, <1>3, AnsweredSocket
<1> QED
  BY <1>1, <1>4, <1>5, DeviceSocket

\* It ends a session and hangs up, or does not know the session.
LEMMA DeviceUnRegistersStep ==
    ASSUME Inv, NEW s \in Sockets, DeviceUnRegisters(s), DeviceUnchanged, UNCHANGED calls
    PROVE  Inv' /\ SameEnds
<1> DEFINE k == sock[s]
           j == IF k.registered /\ Head(k.in).sess = s
                THEN [k EXCEPT !.in = << >>, !.up = FALSE, !.registered = FALSE]
                ELSE [k EXCEPT !.in = Tail(k.in)]
<1>1. k \in Socket /\ k.in # << >> /\ faults' \in Nat
  BY DEF Inv, TypeOK, DeviceUnRegisters
<1>2. Tail(k.in) \in Seq(Request) /\ << >> \in Seq(Request)
  BY <1>1, InAfterHead, EmptySeq
<1>3. sock' = [sock EXCEPT ![s] = j]
  BY DEF DeviceUnRegisters
<1>4. /\ j \in Socket /\ j.open = k.open /\ j.out = k.out
      /\ j.in = << >> \/ j.in = Tail(k.in)
  BY <1>1, <1>2 DEF Socket
<1> HIDE DEF j
<1>5. CarriesRegistrations(k, s) => CarriesRegistrations(j, s)
  BY <1>1, <1>4, DroppedSocket
<1> QED
  BY <1>1, <1>3, <1>4, <1>5, DeviceSocket

\* It ignores a request.
LEMMA DeviceSilentStep ==
    ASSUME Inv, NEW s \in Sockets, DeviceSilent(s), DeviceUnchanged, UNCHANGED calls
    PROVE  Inv' /\ SameEnds
<1> DEFINE k == sock[s]
           j == [k EXCEPT !.in = Tail(k.in)]
<1>1. k \in Socket /\ k.in # << >> /\ faults' \in Nat
  BY FaultTypes DEF Inv, TypeOK, DeviceSilent
<1>2. Tail(k.in) \in Seq(Request)
  BY <1>1, InAfterHead
<1>3. sock' = [sock EXCEPT ![s] = j]
  BY DEF DeviceSilent
<1>4. j \in Socket /\ j.open = k.open /\ j.out = k.out /\ j.in = Tail(k.in)
  BY <1>1, <1>2 DEF Socket
<1> HIDE DEF j
<1>5. CarriesRegistrations(k, s) => CarriesRegistrations(j, s)
  BY <1>1, <1>4, DroppedSocket
<1> QED
  BY <1>1, <1>3, <1>4, <1>5, DeviceSocket

\* It hangs up.
LEMMA HangUpStep ==
    ASSUME Inv, NEW s \in Sockets, HangUp(s), DeviceUnchanged, UNCHANGED calls
    PROVE  Inv' /\ SameEnds
<1> DEFINE k == sock[s]
           J(left) == [k EXCEPT !.in = << >>, !.out = left, !.up = FALSE,
                                !.registered = FALSE]
<1>1. k \in Socket /\ k.out \in Seq(Reply) /\ faults' \in Nat
  BY FaultTypes, SocketFields DEF Inv, TypeOK, HangUp
<1>2. PICK left \in {k.out, << >>} : sock' = [sock EXCEPT ![s] = J(left)]
  BY DEF HangUp
<1>3. left \in Seq(Reply) /\ << >> \in Seq(Request)
  BY <1>1, <1>2, EmptySeq
<1>4. /\ J(left) \in Socket /\ J(left).open = k.open /\ J(left).in = << >>
      /\ J(left).out = << >> \/ J(left).out = k.out
  BY <1>1, <1>2, <1>3 DEF Socket
<1> HIDE DEF J
<1>5. CarriesRegistrations(k, s) => CarriesRegistrations(J(left), s)
  BY <1>1, <1>4, DroppedSocket
<1> QED
  BY <1>1, <1>2, <1>4, <1>5, DeviceSocket

\* A reply arrives in two parts.
LEMMA TearStep ==
    ASSUME Inv, NEW s \in Sockets, Tear(s), DeviceUnchanged, UNCHANGED calls
    PROVE  Inv' /\ SameEnds
<1> DEFINE k == sock[s]
           q == <<Fragment, Fragment>> \o Tail(k.out)
           j == [k EXCEPT !.out = q]
<1>1. k \in Socket /\ k.out \in Seq(Reply) /\ k.out # << >> /\ faults' \in Nat
  BY FaultTypes, SocketFields DEF Inv, TypeOK, Tear
<1>2. Fragment \in Reply /\ Fragment.sess = 0
  BY TransportAssumption DEF Fragment, Reply, Contents, Handles
<1>3. ASSUME NEW T, Fragment \in T, k.out \in Seq(T)
      PROVE  q \in Seq(T)
  <2>1. Tail(k.out) \in Seq(T)
    BY <1>1, <1>3, HeadTailProperties
  <2>2. <<Fragment, Fragment>> \in Seq(T)
    BY <1>3
  <2> QED
    BY <2>1, <2>2, ConcatProperties
<1>4. q \in Seq(Reply)
  BY <1>1, <1>2, <1>3
<1> HIDE DEF q
<1>5. sock' = [sock EXCEPT ![s] = j]
  BY DEF Tear, q
<1>6. j \in Socket /\ j.open = k.open /\ j.in = k.in /\ j.out = q
  BY <1>1, <1>4 DEF Socket
<1>7. CarriesRegistrations(k, s) => CarriesRegistrations(j, s)
  BY <1>2, <1>3, <1>6 DEF CarriesRegistrations
<1> QED
  BY <1>1, <1>5, <1>6, <1>7, DeviceSocket

\* Every step of the device.
LEMMA DeviceStep ==
    ASSUME Inv, Device
    PROVE  Inv' /\ SameEnds
<1>1. UNCHANGED calls
  BY DEF Device
<1>2. PICK s \in Sockets : Misbehave(s) \/ \E body \in Bodies : Serve(s, body)
  BY DEF Device
<1>3. CASE Misbehave(s)
  BY <1>1, <1>3, DeviceRefusesStep, DeviceSilentStep, HangUpStep, TearStep DEF Misbehave
<1>4. CASE \E body \in Bodies : Serve(s, body)
  BY <1>1, <1>4, DeviceAnswersStep, DeviceUnRegistersStep DEF Serve
<1> QED
  BY <1>2, <1>3, <1>4

-----------------------------------------------------------------------------
(* The goroutine's calls.                                                  *)

\* Connect.
LEMMA ConnectStep ==
    ASSUME Inv, Connect
    PROVE  Inv'
<1>1. /\ TypeOK /\ stack = << >> /\ calls' \in Nat
      /\ established' = FALSE /\ connID' = 0 /\ seqNum' = 0 /\ reconnectAttempts' = 0
      /\ UNCHANGED <<session, stats, resp, panicked, dirty>>
  BY DEF Inv, TypeOK, Connect, Idle, NewCall, Reset
<1>2. CASE /\ DialError /\ state' = "Disconnected"
           /\ UNCHANGED <<tcpConn, stack, nctx>>
  <2>1. faults' \in Nat /\ UNCHANGED net
    BY <1>1, <1>2, FaultTypes DEF DialError, TypeOK
  <2>2. TypeOK'
    BY <1>1, <1>2, <2>1 DEF TypeOK, States, net
  <2>3. StackShape'
    BY <1>2 DEF Inv, StackShape
  <2>4. ConnIsOpen' /\ SocketOfTop' /\ RegistersAlone' /\ SessionOfSocket'
    BY <1>1, <1>2, <2>1 DEF Inv, ConnIsOpen, SocketOfTop, RegistersAlone,
       SessionOfSocket, IsConnected, net
  <2> QED
    BY <2>2, <2>3, <2>4 DEF Inv
<1>3. CASE /\ \E s \in Sockets : DialOk(s) /\ tcpConn' = s
           /\ state' = "Connecting" /\ nctx' = nctx + 1
           /\ Call(Packet("RegisterSession", nctx + 1, 0, NoBody))
           /\ UNCHANGED faults
  <2>1. PICK s \in Sockets : DialOk(s) /\ tcpConn' = s
    BY <1>3
  <2>2. nctx + 1 \in Nat
    BY <1>1 DEF TypeOK
  <2>3. /\ Safe' /\ tcpConn' \in Handles /\ stack' \in Seq(Frame)
        /\ sock' \in [Sockets -> Socket] /\ dials' \in 0 .. MaxSockets
    BY <1>1, <1>3, <2>1, <2>2, DialAndCall
  <2>4. TypeOK'
    BY <1>1, <1>3, <2>2, <2>3 DEF TypeOK, States
  <2> QED
    BY <2>3, <2>4 DEF Inv, Safe
<1> QED
  BY <1>2, <1>3 DEF Connect

\* A request method, and Close.
LEMMA BeginRequestStep ==
    ASSUME Inv, NEW cmd \in {"ListIdentity", "SendRRData", "UnRegisterSession"},
           NEW body \in Bodies, BeginRequest(cmd, body)
    PROVE  Inv'
<1> DEFINE p == Packet(cmd, nctx + 1, IF cmd = "ListIdentity" THEN 0 ELSE session, body)
<1>1. /\ TypeOK /\ stack = << >> /\ calls' \in Nat /\ nctx' = nctx + 1 /\ Call(p)
      /\ SameConnection /\ SameEnds /\ UNCHANGED sock
  BY DEF Inv, TypeOK, BeginRequest, Idle, NewCall, SameConnection, SameEnds, prog, net
<1>2. p \in Request /\ p.cmd # "RegisterSession"
  BY <1>1, TransportAssumption DEF TypeOK, Packet, Request, Commands, Handles
<1> HIDE DEF p
<1>3. stack \in Seq(Frame) /\ StackShape
  BY <1>1 DEF Inv, TypeOK
<1>4. stack' \in Seq(Frame) /\ stack' # << >> /\ Top' = [pkt |-> p, at |-> "enter"]
  BY <1>1, <1>2, <1>3, CallStack
<1>5. StackShape'
  BY <1>1, <1>2, <1>3, CallShape
<1>6. SocketOfTop' /\ RegistersAlone'
  BY <1>2, <1>4 DEF SocketOfTop, RegistersAlone
<1>7. TypeOK'
  BY <1>1, <1>4 DEF BeginRequest, TypeOK, prog, mon, net
<1> QED
  BY <1>1, <1>5, <1>6, <1>7, SafeEnds DEF Inv

\* A call that returns leaves the connection as it is, or closes its socket.
LEMMA PopStep ==
    ASSUME Inv, Pop, state' \in States,
           stats' \in [connect : Nat, disconnect : Nat, reconnect : Nat],
           \/ UNCHANGED <<tcpConn, sock>>
           \/ tcpConn # Nil /\ tcpConn' = Nil /\ sock' = Closed(tcpConn),
           UNCHANGED <<prog, reconnectAttempts, panicked, dials, faults, nctx, dirty, calls>>
    PROVE  Inv'
<1>1. TypeOK /\ stack' = << >> /\ resp' = Fragment
  BY DEF Inv, Pop
<1>2. /\ session' = session /\ established' = established /\ connID' = connID
      /\ seqNum' = seqNum
  BY DEF prog
<1>3. Fragment \in Reply /\ << >> \in Seq(Frame) /\ Nil \in Handles
  BY TransportAssumption, EmptySeq DEF Fragment, Reply, Contents, Handles, Nil
<1>4. StackShape'
  <2>1. Len(stack') = 0
    BY <1>1, EmptySeq
  <2> QED
    BY <2>1 DEF StackShape
<1>5. SocketOfTop' /\ RegistersAlone'
  BY <1>1 DEF SocketOfTop, RegistersAlone
<1>6. /\ sock' \in [Sockets -> Socket] /\ tcpConn' \in Handles
      /\ ConnIsOpen' /\ SessionOfSocket'
  <2>1. CASE UNCHANGED <<tcpConn, sock>>
    BY <1>1, <1>2, <2>1
       DEF Inv, TypeOK, ConnIsOpen, SessionOfSocket, IsConnected
  <2>2. CASE tcpConn # Nil /\ tcpConn' = Nil /\ sock' = Closed(tcpConn)
    <3>1. tcpConn \in Sockets /\ sock \in [Sockets -> Socket] /\ ClosedSocket \in Socket
      BY <1>1, <2>2, ConnIsSocket, EmptySockets DEF TypeOK
    <3>2. sock' = [sock EXCEPT ![tcpConn] = ClosedSocket]
      BY <2>2 DEF Closed
    <3>3. /\ sock' \in [Sockets -> Socket] /\ sock'[tcpConn] = ClosedSocket
          /\ \A s \in Sockets \ {tcpConn} : sock'[s] = sock[s]
      BY <3>1, <3>2, PutSocket
    <3>4. ~ClosedSocket.open
      BY DEF ClosedSocket
    <3> QED
      BY <1>3, <2>2, <3>3, <3>4
         DEF Inv, ConnIsOpen, SessionOfSocket, IsConnected
  <2> QED
    BY <2>1, <2>2
<1>7. TypeOK'
  BY <1>1, <1>2, <1>3, <1>6 DEF TypeOK
<1> QED
  BY <1>4, <1>5, <1>6, <1>7 DEF Inv

\* Every return of a call.
LEMMA ReturnStep ==
    ASSUME Inv, Return
    PROVE  Inv'
<1>1. /\ state \in States /\ stats \in [connect : Nat, disconnect : Nat, reconnect : Nat]
      /\ "Connected" \in States /\ "Disconnected" \in States
  BY DEF Inv, TypeOK, States
<1>2. CASE ConnectSucceeds
  <2>1. stats' \in [connect : Nat, disconnect : Nat, reconnect : Nat]
    BY <1>1, <1>2 DEF ConnectSucceeds
  <2> QED
    BY <1>1, <1>2, <2>1, PopStep DEF ConnectSucceeds, net
<1>3. CASE ConnectFails
  BY <1>1, <1>3, PanicStep, PopStep DEF ConnectFails
<1>4. CASE CloseReturns
  BY <1>1, <1>4, PanicStep, PopStep DEF CloseReturns, mon
<1>5. CASE RequestReturns
  BY <1>1, <1>5, PopStep DEF RequestReturns, mon, net
<1> QED
  BY <1>2, <1>3, <1>4, <1>5 DEF Return

-----------------------------------------------------------------------------
(* Open sockets that t.tcpConn does not point at.                          *)

\* The request path but for its dial opens no socket, and closes the one that
\* t.tcpConn stops pointing at.
KeepsOrphans ==
    \/ UNCHANGED tcpConn /\ SameEnds
    \/ tcpConn # Nil /\ tcpConn' = Nil /\ sock' = Closed(tcpConn)

\* A read takes replies from the socket, and touches nothing else of it.
LEMMA ReadEnds ==
    ASSUME Inv, ReadReply \/ FirstReadFails \/ RetryReadFails
    PROVE  SameEnds
<1>1. CASE ReadReply
  <2>1. tcpConn \in Sockets /\ sock[tcpConn] \in Socket /\ sock \in [Sockets -> Socket]
    BY <1>1, ConnIsSocket DEF Inv, TypeOK, ReadReply
  <2>2. PICK q : sock' = [sock EXCEPT ![tcpConn] = [sock[tcpConn] EXCEPT !.out = q]]
    BY <1>1 DEF ReadReply
  <2> QED
    BY <2>1, <2>2 DEF Socket, SameEnds
<1>2. CASE FirstReadFails \/ RetryReadFails
  BY <1>2, ReadErrorSocket DEF FirstReadFails, RetryReadFails
<1> QED
  BY <1>1, <1>2

\* Such a step leaves no socket behind.
\* Such a step leaves no socket behind.
LEMMA NoneIsOrphaned ==
    ASSUME TypeOK, KeepsOrphans, NEW s \in Sockets, Orphan(s)'
    PROVE  Orphan(s)
<1>1. CASE UNCHANGED tcpConn /\ SameEnds
  BY <1>1 DEF Orphan, SameEnds
<1>2. CASE tcpConn # Nil /\ tcpConn' = Nil /\ sock' = Closed(tcpConn)
  <2>1. tcpConn \in Sockets /\ sock \in [Sockets -> Socket] /\ ClosedSocket \in Socket
    BY <1>2, ConnIsSocket, EmptySockets DEF TypeOK
  <2>2. /\ sock'[tcpConn] = ClosedSocket
        /\ \A r \in Sockets \ {tcpConn} : sock'[r] = sock[r]
    BY <1>2, <2>1, PutSocket DEF Closed
  <2>3. s # tcpConn
    BY <2>2 DEF Orphan, ClosedSocket
  <2> QED
    BY <2>2, <2>3 DEF Orphan
<1> QED
  BY <1>1, <1>2 DEF KeepsOrphans

\* A dial leaves the socket behind that t.tcpConn pointed at.
LEMMA DialOrphans ==
    ASSUME TypeOK, NEW d \in Sockets, DialOk(d), tcpConn' = d,
           NEW s \in Sockets, Orphan(s)'
    PROVE  Orphan(s) \/ s = tcpConn
<1>1. sock' = [sock EXCEPT ![d] = FreshSocket] /\ sock \in [Sockets -> Socket]
  BY DEF DialOk, TypeOK
<1>2. \A r \in Sockets \ {d} : sock'[r] = sock[r]
  BY <1>1, EmptySockets, PutSocket
<1>3. s # d
  BY DEF Orphan
<1> QED
  BY <1>2, <1>3 DEF Orphan

\* The steps of a request.
LEMMA RequestOrphans ==
    ASSUME Inv, RequestStep, UNCHANGED calls, NEW s \in Sockets, Orphan(s)'
    PROVE  Orphan(s)
<1>1. TypeOK /\ sock \in [Sockets -> Socket]
  BY DEF Inv, TypeOK
<1>2. CASE \/ Enter \/ FirstWriteFails \/ RetryWriteFails \/ NilDereference
           \/ RedialFails
  <2>1. UNCHANGED <<tcpConn, sock>>
    BY <1>2 DEF Enter, FirstWriteFails, RetryWriteFails, NilDereference, Panic,
       RedialFails, DialError, net
  <2> QED
    BY <1>1, <2>1, NoneIsOrphaned DEF KeepsOrphans, SameEnds
<1>3. CASE FirstWrite \/ RetryWrite
  <2>1. UNCHANGED tcpConn /\ SameEnds
    <3>1. PICK from \in {"write", "rewriteW", "rewriteR"}, to \in {"read", "reread"} :
             Write(from, to)
      BY <1>3 DEF FirstWrite, RetryWrite
    <3> QED
      BY <3>1, WriteStep DEF Write
  <2> QED
    BY <1>1, <2>1, NoneIsOrphaned DEF KeepsOrphans
<1>4. CASE ReadReply \/ FirstReadFails \/ RetryReadFails
  <2>1. UNCHANGED tcpConn /\ SameEnds
    BY <1>4, ReadEnds DEF ReadReply, FirstReadFails, RetryReadFails
  <2> QED
    BY <1>1, <2>1, NoneIsOrphaned DEF KeepsOrphans
<1>5. CASE ReconnectBegin
  <2>1. PICK from \in {"reconnectW", "reconnectR"}, to \in {"dialW", "dialR"} :
           Reconnect(from, to)
    BY <1>5 DEF ReconnectBegin
  <2>2. tcpConn # Nil
    BY <2>1 DEF Inv, SocketOfTop, Reconnect, At
  <2>3. KeepsOrphans
    BY <2>1, <2>2 DEF Reconnect, KeepsOrphans, SameEnds
  <2> QED
    BY <1>1, <2>3, NoneIsOrphaned
<1>6. CASE \E d \in Sockets : RedialOk(d)
  <2>1. PICK d \in Sockets : RedialOk(d)
    BY <1>6
  <2>2. tcpConn = Nil
    BY <2>1 DEF Inv, SocketOfTop, RedialOk, At
  <2>3. Orphan(s) \/ s = tcpConn
    BY <1>1, <2>1, DialOrphans DEF RedialOk
  <2>4. s # Nil
    BY TransportAssumption DEF Sockets, Nil
  <2> QED
    BY <2>2, <2>3, <2>4
<1> QED
  BY <1>2, <1>3, <1>4, <1>5, <1>6 DEF RequestStep

\* The steps of the device and the network, which do not touch the client's end.
LEMMA DeviceOrphans ==
    ASSUME Inv, Device, NEW s \in Sockets, Orphan(s)'
    PROVE  Orphan(s)
<1>1. UNCHANGED tcpConn
  BY DEF Device, Misbehave, Serve, DeviceUnchanged
<1> QED
  BY <1>1, DeviceStep, NoneIsOrphaned DEF Inv, KeepsOrphans

\* The returns of the calls.
LEMMA ReturnOrphans ==
    ASSUME Inv, Return, NEW s \in Sockets, Orphan(s)'
    PROVE  Orphan(s)
<1>1. KeepsOrphans
  BY DEF Return, ConnectSucceeds, ConnectFails, CloseReturns, RequestReturns, Panic,
     KeepsOrphans, SameEnds, net
<1> QED
  BY <1>1, NoneIsOrphaned DEF Inv

-----------------------------------------------------------------------------
(* The theorems.                                                           *)

\* Init establishes the inductive invariant.
LEMMA InvInit == Init => Inv
<1> SUFFICES ASSUME Init PROVE Inv
  OBVIOUS
<1>1. ClosedSocket \in Socket /\ ~ClosedSocket.open
  BY EmptySockets DEF ClosedSocket
<1>2. Fragment \in Reply /\ << >> \in Seq(Frame) /\ 0 \in Handles /\ Len(stack) = 0
  BY TransportAssumption, EmptySeq DEF Fragment, Reply, Contents, Handles, Init
<1>3. TypeOK
  <2>1. sock \in [Sockets -> Socket] /\ dirty \in SUBSET Sockets
    BY <1>1 DEF Init
  <2>2. dials \in 0 .. MaxSockets
    BY TransportAssumption DEF Init
  <2>3. stats \in [connect : Nat, disconnect : Nat, reconnect : Nat]
    BY DEF Init
  <2>4. /\ tcpConn \in Handles /\ session \in Handles /\ established \in BOOLEAN
        /\ connID \in Nat /\ seqNum \in Nat /\ reconnectAttempts \in Nat
        /\ panicked \in BOOLEAN /\ faults \in Nat /\ nctx \in Nat /\ calls \in Nat
    BY <1>2 DEF Init, Nil
  <2>5. state \in States /\ stack \in Seq(Frame) /\ resp \in Reply
    BY <1>2 DEF Init, States
  <2> QED
    BY <2>1, <2>2, <2>3, <2>4, <2>5 DEF TypeOK
<1>4. StackShape
  BY <1>2 DEF StackShape
<1>5. ConnIsOpen /\ SocketOfTop /\ RegistersAlone /\ SessionOfSocket
  BY <1>1 DEF Init, ConnIsOpen, SocketOfTop, RegistersAlone,
     SessionOfSocket, IsConnected
<1> QED
  BY <1>3, <1>4, <1>5 DEF Inv

\* Every step keeps it.
LEMMA InvNext == Inv /\ [Next]_vars => Inv'
<1> SUFFICES ASSUME Inv, [Next]_vars PROVE Inv'
  OBVIOUS
<1>1. CASE Connect
  BY <1>1, ConnectStep
<1>2. CASE \E cmd \in {"ListIdentity", "SendRRData"}, body \in Bodies :
              BeginRequest(cmd, body)
  BY <1>2, BeginRequestStep
<1>3. CASE BeginClose
  BY <1>3, BeginRequestStep, TransportAssumption DEF BeginClose
<1>4. CASE Program
  BY <1>4, RequestStepStep, ReturnStep DEF Program
<1>5. CASE Device
  BY <1>5, DeviceStep
<1>6. CASE UNCHANGED vars
  <2>1. /\ UNCHANGED <<tcpConn, session, established, connID, seqNum, reconnectAttempts>>
        /\ UNCHANGED <<state, stats, stack, resp, panicked, sock, dials>>
        /\ UNCHANGED <<faults, nctx, dirty, calls>> /\ Top' = Top
    BY <1>6 DEF vars, prog, mon, net, Top
  <2>2. TypeOK'
    BY <2>1 DEF Inv, TypeOK
  <2> QED
    BY <2>1, <2>2 DEF Inv, StackShape, ConnIsOpen, SocketOfTop, RegistersAlone,
       SessionOfSocket, IsConnected
<1> QED
  BY <1>1, <1>2, <1>3, <1>4, <1>5, <1>6 DEF Next, Stopped

\* The inductive invariant always holds.
THEOREM InvHolds == Spec => []Inv
BY InvInit, InvNext, PTL DEF Spec

\* Type correctness: in particular a session handle is that of a socket or 0, and
\* every packet and reply in flight is well-formed.
THEOREM TypeCorrect == Spec => []TypeOK
<1>1. Inv => TypeOK
  BY DEF Inv
<1> QED
  BY <1>1, InvHolds, PTL

\* Connect on a connection is the only place that leaves a socket open which nobody
\* will close (tcp.go:222): reconnectLocked (:84), Connect's error path (:225) and
\* UnRegisterSession (request.go:109) close what t.tcpConn stops pointing at, however
\* reconnections nest and whatever the network does.
THEOREM OnlyConnectLeaks == Spec => OnlyConnectOrphans
<1>1. ASSUME Inv, [Next]_vars, NEW s \in Sockets, Orphan(s)'
      PROVE  Orphan(s) \/ (Connect /\ s = tcpConn)
  <2>0. TypeOK
    BY <1>1 DEF Inv
  <2>1. CASE Connect
    <3>1. CASE DialError /\ UNCHANGED tcpConn
      BY <2>0, <1>1, <3>1, NoneIsOrphaned DEF DialError, net, KeepsOrphans, SameEnds
    <3>2. CASE \E d \in Sockets : DialOk(d) /\ tcpConn' = d
      BY <1>1, <2>0, <2>1, <3>2, DialOrphans
    <3> QED
      BY <2>1, <3>1, <3>2 DEF Connect
  <2>2. CASE \/ BeginClose
             \/ \E cmd \in {"ListIdentity", "SendRRData"}, body \in Bodies :
                   BeginRequest(cmd, body)
    BY <1>1, <2>0, <2>2, NoneIsOrphaned
       DEF BeginClose, BeginRequest, net, KeepsOrphans, SameEnds
  <2>3. CASE Program
    BY <1>1, <2>3, RequestOrphans, ReturnOrphans DEF Program
  <2>4. CASE Device
    BY <1>1, <2>4, DeviceOrphans
  <2>5. CASE UNCHANGED vars
    BY <1>1, <2>0, <2>5, NoneIsOrphaned DEF vars, net, KeepsOrphans, SameEnds
  <2> QED
    BY <1>1, <2>1, <2>2, <2>3, <2>4, <2>5 DEF Next, Stopped
<1>2. Inv /\ [Next]_vars
         => [\A s \in Sockets : Orphan(s)' => Orphan(s) \/ (Connect /\ s = tcpConn)]_vars
  BY <1>1
<1> QED
  BY <1>2, InvHolds, PTL DEF Spec, OnlyConnectOrphans

\* requestLocked never writes to or reads from a nil or closed connection
\* (request.go:50-67), although reconnectLocked may leave none behind.
THEOREM RequestsUseLiveSocket == Spec => []UsesLiveSocket
<1>1. Inv => UsesLiveSocket
  BY DEF Inv, UsesLiveSocket, ConnIsOpen, SocketOfTop, At
<1> QED
  BY <1>1, InvHolds, PTL

\* A connection that calls itself established has the session of its own socket
\* (tcp.go:168, request.go:94-95): no session survives its socket.
THEOREM SessionIsOfSocket == Spec => []SessionOfSocket
<1>1. Inv => SessionOfSocket
  BY DEF Inv
<1> QED
  BY <1>1, InvHolds, PTL
=============================================================================
