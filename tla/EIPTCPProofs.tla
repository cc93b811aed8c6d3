------------------------------ MODULE EIPTCPProofs -----------------------------
(***************************************************************************)
(* The connection shared by goroutines.  Whatever methods they call, and   *)
(* whatever Connect and Close do outside requestLock, every variable keeps *)
(* its type, requests and replies stay in step, and the connection keeps   *)
(* the promise of RequestServer.  When they take turns, a CIP connection   *)
(* and a session are those of the socket in use.                           *)
(***************************************************************************)
EXTENDS EIPTCP, RequestProofs

-----------------------------------------------------------------------------
(* What makes the invariants of EIPTCP inductive.                          *)

\* Only the goroutine that holds requestLock has a request in progress, its own.
HoldsLock ==
    /\ lock = None <=> stack = << >>
    /\ \A c \in Clients :
          /\ me[c].pc = "locked" <=> lock = c
          /\ lock = c => stack[1].pkt = me[c].pkt

\* A response is held only between the end of a request and the unlock.
ResponseOfOk == resp # Fragment => stack # << >> /\ Top.at = "ok"

\* Every handle was made by a socket that was dialled, so that the next socket's is new.
HandlesDialled ==
    /\ session <= dials /\ tcpConn <= dials
    /\ \A s \in Sockets :
          /\ sock[s].in # << >> => s <= dials
          /\ \A i \in DOMAIN sock[s].in : sock[s].in[i].sess <= dials
          /\ \A i \in DOMAIN sock[s].out : sock[s].out[i].sess <= dials
    /\ \A i \in DOMAIN stack : stack[i].pkt.sess <= dials
    /\ \A c \in Clients : me[c].pkt.sess <= dials

\* On a socket that no call gave up on, what is in flight is the request in progress or
\* an answer to it: a handle is the socket's, and items mean that the session was.
SessionCommands == {"SendRRData", "SendRRDataLegacy", "SendUnitData"}
Answers(r, p, s) ==
    /\ p.cmd = "RegisterSession" => r.sess \in {0, s}
    /\ p.cmd \in SessionCommands /\ r.has = "items" => p.sess = s
AnswersInFlight ==
    tcpConn # Nil /\ tcpConn \notin dirty =>
        /\ \A i \in DOMAIN sock[tcpConn].in : sock[tcpConn].in[i] = Top.pkt
        /\ \A i \in DOMAIN sock[tcpConn].out :
              sock[tcpConn].out[i] # Fragment =>
                  Answers(sock[tcpConn].out[i], Top.pkt, tcpConn)

\* The CIP connection that a response names is one of the socket it came from.
RepliesNameSocket ==
    \A s \in Sockets : \A i \in DOMAIN sock[s].out :
        sock[s].out[i].body.conn \in {0, Garbage, s}

\* The rest holds when one goroutine at a time is in a call.
Sequential == Solo = Ops \/ \A c, d \in Clients : c = d
OneAtATime == \A c, d \in Clients : me[c].pc # "idle" /\ me[d].pc # "idle" => c = d

NamesSocket(id) == tcpConn # Nil => id \in {0, Garbage, tcpConn}
CleanConn == tcpConn # Nil /\ tcpConn \notin dirty

\* A packet that carries the handle of the socket in use carries the session in use; it
\* does not when the socket was dialled after the packet was built.
Current(pkt) == pkt.cmd \in SessionCommands /\ tcpConn # Nil /\ pkt.sess = tcpConn
                => session = tcpConn

\* What a goroutine knows of the connection at each point of a call.
KnowsConnection(l) ==
    /\ l.pc = "dial" => connID = 0 /\ ~established
    /\ l.pc = "returned" => NamesSocket(l.reply.body.conn)
    /\ l.pc = "returned" /\ CleanConn => Answers(l.reply, l.pkt, tcpConn)
    /\ l.pc \in {"want", "locked", "returned"} => Current(l.pkt)
    /\ l.op \in {"ForwardOpen", "ForwardClose"} =>
          l.pkt.cmd \in {"SendRRData", "SendRRDataLegacy"}

\* What requestLocked and reconnectLocked know.
RequestKnowsConnection ==
    /\ NamesSocket(resp.body.conn)
    /\ stack # << >> /\ Top.at \in {"dialW", "dialR"} => connID = 0 /\ ~established
    /\ stack # << >> /\ Top.at = "ok" /\ CleanConn => Answers(resp, Top.pkt, tcpConn)
    /\ Len(stack) > 1 /\ tcpConn # Nil => stack[1].pkt.sess # tcpConn

SequentialInv ==
    /\ OneAtATime
    /\ \A c \in Clients : KnowsConnection(me[c])
    /\ RequestKnowsConnection
    /\ NamesSocket(connID)
    /\ SessionOfCleanSocket

-----------------------------------------------------------------------------
(* What is in a queue, and in a socket.                                    *)

LEMMA RangeOfTail ==
    ASSUME NEW S, NEW q \in Seq(S), q # << >>
    PROVE  /\ Head(q) \in S /\ Head(q) \in Range(q)
           /\ Tail(q) \in Seq(S) /\ Range(Tail(q)) \subseteq Range(q)
<1>1. /\ Head(q) \in S /\ Tail(q) \in Seq(S)
      /\ Len(Tail(q)) = Len(q) - 1
      /\ \A i \in 1 .. Len(Tail(q)) : Tail(q)[i] = q[i + 1]
  BY HeadTailProperties
<1>2. /\ Len(q) \in Nat \ {0} /\ DOMAIN q = 1 .. Len(q)
      /\ DOMAIN Tail(q) = 1 .. Len(Tail(q)) /\ Head(q) = q[1]
  BY <1>1, EmptySeq, LenProperties
<1>3. \A i \in 1 .. Len(q) - 1 : i + 1 \in 1 .. Len(q)
  BY <1>2
<1>4. 1 \in DOMAIN q
  BY <1>2
<1> QED
  BY <1>1, <1>2, <1>3, <1>4 DEF Range

LEMMA RangeOfAppend ==
    ASSUME NEW S, NEW q \in Seq(S), NEW x \in S
    PROVE  Append(q, x) \in Seq(S) /\ Range(Append(q, x)) \subseteq Range(q) \cup {x}
<1>1. /\ Append(q, x) \in Seq(S) /\ Len(Append(q, x)) = Len(q) + 1
      /\ \A i \in 1 .. Len(q) : Append(q, x)[i] = q[i]
      /\ Append(q, x)[Len(q) + 1] = x
  BY AppendProperties
<1>2. /\ Len(q) \in Nat /\ DOMAIN q = 1 .. Len(q)
      /\ DOMAIN Append(q, x) = 1 .. Len(Append(q, x))
  BY <1>1, LenProperties
<1>3. \A i \in 1 .. Len(q) + 1 : i \in 1 .. Len(q) \/ i = Len(q) + 1
  BY <1>2
<1> QED
  BY <1>1, <1>2, <1>3 DEF Range

LEMMA RangeOfEmpty == Range(<< >>) = {}
BY DEF Range

LEMMA RangeOfTorn ==
    ASSUME NEW S, NEW q \in Seq(S), q # << >>, NEW x \in S
    PROVE  /\ <<x, x>> \o Tail(q) \in Seq(S)
           /\ Range(<<x, x>> \o Tail(q)) \subseteq Range(q) \cup {x}
<1> DEFINE a == <<x, x>>
           t == Tail(q)
<1>1. a \in Seq(S) /\ Len(a) = 2 /\ \A i \in 1 .. 2 : a[i] = x
  OBVIOUS
<1>2. t \in Seq(S) /\ Range(t) \subseteq Range(q) /\ DOMAIN t = 1 .. Len(t) /\ Len(t) \in Nat
  BY RangeOfTail, LenProperties
<1> HIDE DEF a, t
<1>c. a \in Seq(S) /\ t \in Seq(S)
  BY <1>1, <1>2
<1>3. /\ a \o t \in Seq(S) /\ Len(a \o t) = 2 + Len(t)
      /\ \A i \in 1 .. 2 + Len(t) :
            (a \o t)[i] = IF i <= 2 THEN a[i] ELSE t[i - 2]
  <2>1. /\ a \o t \in Seq(S) /\ Len(a \o t) = Len(a) + Len(t)
        /\ \A i \in 1 .. Len(a) + Len(t) :
              (a \o t)[i] = IF i <= Len(a) THEN a[i] ELSE t[i - Len(a)]
    BY <1>c, ConcatProperties
  <2> QED
    BY <1>1, <2>1
<1>4. DOMAIN (a \o t) = 1 .. 2 + Len(t)
  BY <1>3, LenProperties
<1>5. ASSUME NEW i \in 1 .. 2 + Len(t)
      PROVE  (a \o t)[i] \in Range(q) \cup {x}
  <2>1. CASE i <= 2
    <3>1. i \in 1 .. 2
      BY <2>1
    <3> QED
      BY <1>1, <1>3, <2>1, <3>1
  <2>2. CASE ~(i <= 2)
    <3>1. i - 2 \in 1 .. Len(t)
      BY <1>2, <2>2
    <3>2. (a \o t)[i] = t[i - 2]
      BY <1>1, <1>3, <2>2
    <3> QED
      BY <1>2, <3>1, <3>2 DEF Range
  <2> QED
    BY <2>1, <2>2
<1>6. Range(a \o t) \subseteq Range(q) \cup {x}
  BY <1>4, <1>5 DEF Range
<1> QED
  BY <1>3, <1>6 DEF a, t

\* An answer of the device to request r on socket s.
AnswerOf(s, r, a) ==
    \/ a = [ctx |-> r.ctx, sess |-> 0, has |-> "none", body |-> NoBody]
    \/ \E body \in Responses(s, r) : a = DeviceReply(s, r, body)

\* How a socket becomes k: it keeps or loses what it carries, gets the packet of the
\* call in progress, a part of a reply, or the answer to a request it carries.
Evolves(s, k) ==
    /\ k \in Socket
    /\ \A r \in Range(k.in) :
          r \in Range(sock[s].in) \/ (stack # << >> /\ s = tcpConn /\ r = Top.pkt)
    /\ \A a \in Range(k.out) :
          \/ a \in Range(sock[s].out) \cup {Fragment}
          \/ \E r \in Range(sock[s].in) : AnswerOf(s, r, a)

SocketsEvolve ==
    /\ sock' \in [Sockets -> Socket]
    /\ \A s \in Sockets : Evolves(s, sock'[s])

\* What an answer says.
LEMMA AnswerFacts ==
    ASSUME NEW s \in Sockets, NEW r \in Request, NEW a, AnswerOf(s, r, a)
    PROVE  /\ a \in Reply /\ a.ctx = r.ctx /\ a.sess \in {0, s, r.sess}
           /\ a.body.conn \in {0, Garbage, s}
           /\ Answers(a, r, s)
<1>1. /\ s \in Handles /\ s \in 0 .. MaxSockets + 1 /\ 0 \in 0 .. MaxSockets + 1
      /\ Garbage \in 0 .. MaxSockets + 1 /\ 0 \in 0 .. SeqMod - 1 /\ 0 \in Handles
  BY TransportAssumption, EIPTCPAssumption DEF Sockets, Handles, Garbage
<1>2. NoBody \in Bodies /\ NoBody.conn = 0
  BY TransportAssumption, ServicesAreBodies DEF EmptyBody
<1>3. CASE a = [ctx |-> r.ctx, sess |-> 0, has |-> "none", body |-> NoBody]
  BY <1>1, <1>2, <1>3 DEF Reply, Request, Contents, Answers
<1>4. ASSUME NEW body \in Responses(s, r), a = DeviceReply(s, r, body)
      PROVE  /\ a \in Reply /\ a.ctx = r.ctx /\ a.sess \in {0, s, r.sess}
             /\ a.body.conn \in {0, Garbage, s}
             /\ Answers(a, r, s)
  <2>1. body \in Bodies /\ body.conn \in {0, Garbage, s}
    BY <1>1, ServicesAreBodies DEF Responses, Body, ServiceBodies
  <2>2. /\ a.ctx = r.ctx /\ a.sess \in {s, r.sess} /\ a.body \in {NoBody, body}
        /\ a \in Reply
    BY <1>1, <1>2, <1>4, <2>1 DEF DeviceReply, Reply, Request, Contents
  <2>3. a.body.conn \in {0, Garbage, s}
    BY <1>2, <2>1, <2>2
  <2>4. Answers(a, r, s)
    BY <1>4 DEF Answers, DeviceReply, BadSession, SessionCommands
  <2> QED
    BY <2>2, <2>3, <2>4
<1> QED
  BY <1>3, <1>4 DEF AnswerOf

LEMMA FragmentFacts ==
    Fragment \in Reply /\ Fragment.sess = 0 /\ Fragment.body.conn = 0 /\ Fragment.has = "none"
BY TransportAssumption, ServicesAreBodies DEF Fragment, Reply, Contents, Handles, EmptyBody

\* A socket that stays as it is, one that is new, one that is closed.
LEMMA SameEvolves ==
    ASSUME TypeOK, NEW s \in Sockets
    PROVE  Evolves(s, sock[s])
BY DEF TypeOK, Evolves

LEMMA EmptyEvolves ==
    ASSUME NEW s \in Sockets, NEW k \in Socket, k.in = << >>, k.out = << >>
    PROVE  Evolves(s, k)
BY RangeOfEmpty DEF Evolves

\* One socket is replaced.
LEMMA OneEvolves ==
    ASSUME TypeOK, NEW s \in Sockets, NEW k, Evolves(s, k), sock' = [sock EXCEPT ![s] = k]
    PROVE  SocketsEvolve
<1>1. k \in Socket /\ sock \in [Sockets -> Socket]
  BY DEF Evolves, TypeOK
<1>2. /\ sock' \in [Sockets -> Socket] /\ sock'[s] = k
      /\ \A r \in Sockets \ {s} : sock'[r] = sock[r]
  BY <1>1, PutSocket
<1> QED
  BY <1>2, SameEvolves DEF SocketsEvolve

LEMMA UnchangedEvolves ==
    ASSUME TypeOK, UNCHANGED sock
    PROVE  SocketsEvolve
BY SameEvolves DEF SocketsEvolve, TypeOK

LEMMA ClosedEvolves ==
    ASSUME TypeOK, tcpConn # Nil, sock' = Closed(tcpConn)
    PROVE  SocketsEvolve
<1>1. ClosedSocket \in Socket /\ ClosedSocket.in = << >> /\ ClosedSocket.out = << >>
  BY EmptySockets DEF ClosedSocket
<1>2. tcpConn \in Sockets /\ Evolves(tcpConn, ClosedSocket)
  BY <1>1, ConnIsSocket, EmptyEvolves
<1> QED
  BY <1>2, OneEvolves DEF Closed

LEMMA DialledEvolves ==
    ASSUME TypeOK, NEW s \in Sockets, DialOk(s)
    PROVE  SocketsEvolve /\ sock'[s] = FreshSocket /\ dials' = s /\ s = dials + 1
<1>1. FreshSocket \in Socket /\ FreshSocket.in = << >> /\ FreshSocket.out = << >>
  BY EmptySockets DEF FreshSocket
<1>2. Evolves(s, FreshSocket)
  BY <1>1, EmptyEvolves
<1>3. sock'[s] = FreshSocket /\ dials' = s /\ s = dials + 1
  BY DEF DialOk, TypeOK
<1> QED
  BY <1>2, <1>3, OneEvolves DEF DialOk

-----------------------------------------------------------------------------
(* The steps of a request.                                                 *)

\* A packet is written to the socket in use.
LEMMA WrittenEvolves ==
    ASSUME TypeOK, stack # << >>, tcpConn # Nil,
           sock' = [sock EXCEPT ![tcpConn].in = Append(@, Top.pkt)]
    PROVE  SocketsEvolve
<1> DEFINE k == sock[tcpConn]
           q == Append(k.in, Top.pkt)
           j == [k EXCEPT !.in = q]
<1>1. tcpConn \in Sockets /\ k \in Socket /\ k.in \in Seq(Request) /\ Top.pkt \in Request
  BY ConnIsSocket, SocketFields, TopTypes
<1>2. q \in Seq(Request) /\ Range(q) \subseteq Range(k.in) \cup {Top.pkt}
  BY <1>1, RangeOfAppend
<1>3. sock' = [sock EXCEPT ![tcpConn] = j]
  OBVIOUS
<1> HIDE DEF q
<1>4. j \in Socket /\ j.in = q /\ j.out = k.out
  BY <1>1, <1>2 DEF Socket
<1> HIDE DEF j
<1>5. Evolves(tcpConn, j)
  BY <1>2, <1>4 DEF Evolves
<1> QED
  BY <1>1, <1>3, <1>5, OneEvolves

\* A reply is read from it, or a part of one, or several.
LEMMA ReadEvolves ==
    ASSUME TypeOK, tcpConn # Nil, sock[tcpConn].out # << >>,
           \/ sock' = [sock EXCEPT ![tcpConn].out = Tail(@)]
           \/ sock' = [sock EXCEPT ![tcpConn].out = << >>]
    PROVE  SocketsEvolve
<1> DEFINE k == sock[tcpConn]
           J(q) == [k EXCEPT !.out = q]
<1>1. tcpConn \in Sockets /\ k \in Socket /\ k.out \in Seq(Reply)
  BY ConnIsSocket, SocketFields
<1>2. PICK q \in {Tail(k.out), << >>} : sock' = [sock EXCEPT ![tcpConn] = J(q)]
  OBVIOUS
<1>3. q \in Seq(Reply) /\ Range(q) \subseteq Range(k.out)
  <2>1. Tail(k.out) \in Seq(Reply) /\ Range(Tail(k.out)) \subseteq Range(k.out)
    BY <1>1, RangeOfTail
  <2>2. << >> \in Seq(Reply)
    OBVIOUS
  <2> QED
    BY <1>2, <2>1, <2>2, RangeOfEmpty
<1>4. J(q) \in Socket /\ J(q).in = k.in /\ J(q).out = q
  BY <1>1, <1>3 DEF Socket
<1> HIDE DEF J
<1>5. Evolves(tcpConn, J(q))
  BY <1>3, <1>4 DEF Evolves
<1> QED
  BY <1>1, <1>2, <1>5, OneEvolves

LEMMA ReadErrorEvolves ==
    ASSUME TypeOK, NEW from, ReadError(from)
    PROVE  SocketsEvolve /\ faults' \in Nat
<1> DEFINE k == sock[tcpConn]
<1>1. tcpConn # Nil /\ k.out \in Seq(Reply)
  BY ConnIsSocket, SocketFields DEF ReadError
<1>2. \/ UNCHANGED sock
      \/ /\ k.out # << >> /\ sock' = [sock EXCEPT ![tcpConn].out = Tail(@)]
      \/ /\ Len(k.out) > 1 /\ sock' = [sock EXCEPT ![tcpConn].out = << >>]
  BY DEF ReadError
<1>3. Len(k.out) > 1 => k.out # << >>
  <2>1. Len(<< >>) = 0
    OBVIOUS
  <2> QED
    BY <1>1, <2>1, EmptySeq
<1>4. SocketsEvolve
  BY <1>1, <1>2, <1>3, UnchangedEvolves, ReadEvolves
<1>5. faults' \in Nat
  <2>1. UNCHANGED faults \/ Fault(k.in = << >>)
    BY DEF ReadError
  <2> QED
    BY <2>1, FaultTypes DEF TypeOK
<1> QED
  BY <1>4, <1>5

\* What a step of a request does: the call in progress moves on, gives up, has its answer,
\* ends a reconnection, drops the socket, or dials another one.
Known == <<tcpConn, session, established, connID, resp, dials, nctx>>
MovesOn ==
    /\ \E l \in Working \ {"dialW", "dialR"} : Goto(l)
    /\ UNCHANGED <<Known, seqNum, dirty>>
Unwinds ==
    /\ \E n \in {0, 1} : Fail(n)
    /\ Top.at \notin Finished
    /\ UNCHANGED <<Known, seqNum>>
Reads == Top.at \in {"read", "reread"} /\ ReadReply
Drops ==
    /\ \E l \in {"dialW", "dialR"} : Goto(l)
    /\ tcpConn' = Nil /\ connID' = 0 /\ seqNum' = 0 /\ established' = FALSE
    /\ UNCHANGED <<session, resp, dials, nctx, dirty>>
Redials(s) ==
    /\ Top.at \in {"dialW", "dialR"}
    /\ DialOk(s) /\ tcpConn' = s
    /\ nctx' = nctx + 1
    /\ Call(Packet("RegisterSession", nctx + 1, 0, NoBody))
    /\ UNCHANGED <<session, established, connID, seqNum, resp, dirty>>

LEMMA RequestCases ==
    ASSUME RequestStep
    PROVE  /\ stack # << >>
           /\ \/ MovesOn \/ Unwinds \/ Reads \/ Drops
              \/ \E s \in Sockets : Redials(s)
              \/ Panic
<1> USE DEF At, Known, prog, net, mon, Working, Finished
<1>1. CASE Enter
  BY <1>1 DEF Enter, MovesOn, Unwinds
<1>2. CASE FirstWrite \/ RetryWrite
  BY <1>2 DEF FirstWrite, RetryWrite, Write, MovesOn
<1>3. CASE FirstWriteFails
  BY <1>3 DEF FirstWriteFails, WriteError, MovesOn
<1>4. CASE RetryWriteFails
  BY <1>4 DEF RetryWriteFails, WriteError, Unwinds
<1>5. CASE ReadReply
  BY <1>5 DEF ReadReply, Reads
<1>6. CASE FirstReadFails
  BY <1>6 DEF FirstReadFails, ReadError, MovesOn
<1>7. CASE RetryReadFails
  BY <1>7 DEF RetryReadFails, ReadError, Unwinds
<1>8. CASE NilDereference
  BY <1>8 DEF NilDereference
<1>9. CASE ReconnectBegin
  BY <1>9 DEF ReconnectBegin, Reconnect, Reset, Drops, Unwinds
<1>10. ASSUME NEW s \in Sockets, RedialOk(s) PROVE stack # << >> /\ Redials(s)
  BY <1>10 DEF RedialOk, Redials
<1>11. CASE RedialFails
  BY <1>11 DEF RedialFails, DialError, Unwinds
<1> QED
  BY <1>1, <1>2, <1>3, <1>4, <1>5, <1>6, <1>7, <1>8, <1>9, <1>10, <1>11 DEF RequestStep

LEMMA RequestSockets ==
    ASSUME TypeOK, RequestStep
    PROVE  SocketsEvolve
<1> USE DEF At, net
<1>1. CASE Enter
  BY <1>1, UnchangedEvolves DEF Enter
<1>2. ASSUME NEW from, NEW to, Write(from, to) PROVE SocketsEvolve
  BY <1>2, UnchangedEvolves, WrittenEvolves DEF Write
<1>3. CASE FirstWriteFails \/ RetryWriteFails \/ NilDereference \/ RedialFails
  BY <1>3, UnchangedEvolves DEF FirstWriteFails, RetryWriteFails, NilDereference, Panic,
     RedialFails, DialError
<1>4. CASE ReadReply
  BY <1>4, ReadEvolves DEF ReadReply
<1>5. CASE FirstReadFails \/ RetryReadFails
  BY <1>5, ReadErrorEvolves DEF FirstReadFails, RetryReadFails
<1>6. CASE ReconnectBegin
  <2>1. sock' = sock \/ (tcpConn # Nil /\ sock' = Closed(tcpConn))
    BY <1>6 DEF ReconnectBegin, Reconnect
  <2> QED
    BY <2>1, UnchangedEvolves, ClosedEvolves
<1>7. ASSUME NEW s \in Sockets, RedialOk(s) PROVE SocketsEvolve
  BY <1>7, DialledEvolves DEF RedialOk
<1> QED
  BY <1>1, <1>2, <1>3, <1>4, <1>5, <1>6, <1>7 DEF RequestStep, FirstWrite, RetryWrite

\* A reply that is read is a reply, and the session it brings a handle.
LEMMA ReadTypes ==
    ASSUME TypeOK, stack # << >>, Reads
    PROVE  /\ stack' \in Seq(Frame) /\ resp' \in Reply /\ resp' \in {resp, Head(sock[tcpConn].out)}
           /\ session' \in Handles /\ established' \in BOOLEAN
           /\ state' \in States /\ stats' \in [connect : Nat, disconnect : Nat, reconnect : Nat]
           /\ reconnectAttempts' \in Nat
           /\ UNCHANGED <<tcpConn, connID, seqNum, panicked, dials, faults, nctx, dirty>>
<1> DEFINE r == Head(sock[tcpConn].out)
<1>1. /\ tcpConn # Nil /\ sock[tcpConn].out # << >> /\ Succeed(r)
      /\ UNCHANGED <<tcpConn, panicked, dials, faults, nctx, dirty>>
  BY DEF Reads, ReadReply
<1>2. r \in Reply
  BY <1>1, ConnIsSocket, SocketFields, RangeOfTail
<1> HIDE DEF r
<1>3. session' \in Handles /\ established' \in BOOLEAN /\ UNCHANGED <<connID, seqNum>>
  BY <1>1, <1>2 DEF Succeed, TakeSession, TypeOK, Reply
<1>4. CASE Goto("ok") /\ resp' = r /\ UNCHANGED <<mon, reconnectAttempts>>
  <2>1. stack' \in Seq(Frame)
    BY <1>4, GotoStack DEF TypeOK, Labels, Finished
  <2> QED
    BY <1>1, <1>2, <1>3, <1>4, <2>1 DEF mon, TypeOK, r
<1>5. CASE Len(stack) > 1 /\ Resume /\ ReconnectDone /\ UNCHANGED resp
  <2>1. stack' \in Seq(Frame)
    BY <1>5, ResumeStack DEF TypeOK
  <2>2. /\ state' \in States /\ reconnectAttempts' \in Nat
        /\ stats' \in [connect : Nat, disconnect : Nat, reconnect : Nat]
    BY <1>5 DEF ReconnectDone, TypeOK, States
  <2> QED
    BY <1>1, <1>3, <1>5, <2>1, <2>2 DEF TypeOK
<1> QED
  BY <1>1, <1>4, <1>5 DEF Succeed

\* The variables that the cases of RequestCases leave out.
OtherTypes ==
    /\ reconnectAttempts \in Nat
    /\ state \in States
    /\ stats \in [connect : Nat, disconnect : Nat, reconnect : Nat]
    /\ panicked \in BOOLEAN
    /\ faults \in Nat

LEMMA RequestOthers ==
    ASSUME TypeOK, RequestStep
    PROVE  OtherTypes'
<1>1. stack # << >> /\ Len(stack) \in Nat \ {0}
  BY RequestCases, TopOfStack DEF TypeOK
<1>2. \A n \in {0, 1} : Fail(n) => reconnectAttempts' \in Nat
  BY <1>1, FailTypes
<1> USE DEF TypeOK, OtherTypes, mon
<1>3. CASE Enter
  BY <1>2, <1>3 DEF Enter
<1>4. ASSUME NEW from, NEW to, Write(from, to) PROVE OtherTypes'
  BY <1>4 DEF Write
<1>5. CASE FirstWriteFails
  BY <1>5, FaultTypes DEF FirstWriteFails, WriteError
<1>6. CASE RetryWriteFails
  BY <1>2, <1>6, FaultTypes DEF RetryWriteFails, WriteError
<1>7. CASE ReadReply
  <2>1. Reads
    BY <1>7 DEF Reads, ReadReply, At
  <2> QED
    BY <1>1, <2>1, ReadTypes
<1>8. CASE FirstReadFails
  BY <1>8, ReadErrorEvolves DEF FirstReadFails
<1>9. CASE RetryReadFails
  BY <1>2, <1>9, ReadErrorEvolves DEF RetryReadFails
<1>10. CASE NilDereference
  BY <1>10 DEF NilDereference, Panic
<1>11. CASE ReconnectBegin
  BY <1>2, <1>11 DEF ReconnectBegin, Reconnect, Reset, States
<1>12. ASSUME NEW s \in Sockets, RedialOk(s) PROVE OtherTypes'
  BY <1>12 DEF RedialOk
<1>13. CASE RedialFails
  BY <1>2, <1>13, FaultTypes DEF RedialFails, DialError
<1> QED
  BY <1>3, <1>4, <1>5, <1>6, <1>7, <1>8, <1>9, <1>10, <1>11, <1>12, <1>13
     DEF RequestStep, FirstWrite, RetryWrite

LEMMA RequestTypes ==
    ASSUME TypeOK, RequestStep, UNCHANGED calls
    PROVE  TypeOK'
<1>1. sock' \in [Sockets -> Socket] /\ stack # << >> /\ OtherTypes'
  BY RequestSockets, RequestCases, RequestOthers DEF SocketsEvolve
<1>2. stack \in Seq(Frame) /\ nctx \in Nat
  BY DEF TypeOK
<1>3. CASE MovesOn
  <2>1. stack' \in Seq(Frame)
    BY <1>1, <1>2, <1>3, GotoStack DEF MovesOn, Labels
  <2> QED
    BY <1>1, <1>3, <2>1 DEF MovesOn, Known, TypeOK, OtherTypes
<1>4. CASE Unwinds
  <2>1. stack' \in Seq(Frame) /\ dirty' \in SUBSET Sockets
    BY <1>1, <1>4, FailTypes DEF Unwinds
  <2> QED
    BY <1>1, <1>4, <2>1 DEF Unwinds, Known, TypeOK, OtherTypes
<1>5. CASE Reads
  BY <1>1, <1>5, ReadTypes DEF TypeOK
<1>6. CASE Drops
  <2>1. stack' \in Seq(Frame)
    BY <1>1, <1>2, <1>6, GotoStack DEF Drops, Labels, Working
  <2>2. 0 \in Handles
    BY TransportAssumption DEF Handles
  <2>3. tcpConn' \in Handles
    BY <1>6, <2>2 DEF Drops, Nil
  <2>4. established' \in BOOLEAN
    BY <1>6 DEF Drops
  <2> QED
    BY <1>1, <1>6, <2>1, <2>3, <2>4 DEF Drops, TypeOK, OtherTypes
<1>7. ASSUME NEW s \in Sockets, Redials(s) PROVE TypeOK'
  <2>1. s \in Handles /\ s \in 0 .. MaxSockets
    BY TransportAssumption DEF Sockets, Handles
  <2>2. Packet("RegisterSession", nctx + 1, 0, NoBody) \in Request
    BY <1>2, TransportAssumption DEF Packet, Request, Commands, Handles
  <2>3. stack' \in Seq(Frame)
    BY <1>2, <1>7, <2>2, CallStack DEF Redials
  <2>4. dials' = s /\ nctx' \in Nat
    BY <1>2, <1>7 DEF Redials, DialOk
  <2> QED
    BY <1>1, <1>7, <2>1, <2>3, <2>4 DEF Redials, TypeOK, OtherTypes
<1>8. CASE Panic
  BY <1>8 DEF Panic, TypeOK, prog, mon, net
<1> QED
  BY <1>1, <1>3, <1>4, <1>5, <1>6, <1>7, <1>8, RequestCases

-----------------------------------------------------------------------------
(* The device and the network.                                             *)

\* A request is answered.
LEMMA AnsweredEvolves ==
    ASSUME TypeOK, NEW s \in Sockets, sock[s].in # << >>,
           NEW a, AnswerOf(s, Head(sock[s].in), a), NEW b \in BOOLEAN,
           sock' = [sock EXCEPT ![s] = AfterAnswer(sock[s], a, b)]
    PROVE  SocketsEvolve
<1> DEFINE k == sock[s]
           j == AfterAnswer(k, a, b)
<1>1. k \in Socket /\ k.in \in Seq(Request) /\ k.out \in Seq(Reply)
  BY SocketFields DEF TypeOK
<1>2. /\ Head(k.in) \in Range(k.in) /\ Head(k.in) \in Request
      /\ Tail(k.in) \in Seq(Request) /\ Range(Tail(k.in)) \subseteq Range(k.in)
  BY <1>1, RangeOfTail
<1>3. a \in Reply
  BY <1>2, AnswerFacts
<1>4. Append(k.out, a) \in Seq(Reply) /\ Range(Append(k.out, a)) \subseteq Range(k.out) \cup {a}
  BY <1>1, <1>3, RangeOfAppend
<1>5. j \in Socket /\ j.in = Tail(k.in) /\ j.out = Append(k.out, a)
  BY <1>1, <1>2, <1>4 DEF Socket, AfterAnswer
<1> HIDE DEF j
<1>6. Evolves(s, j)
  BY <1>2, <1>4, <1>5 DEF Evolves
<1> QED
  BY <1>6, OneEvolves DEF j

\* What it carries is lost, in part.
LEMMA LostEvolves ==
    ASSUME TypeOK, NEW s \in Sockets, NEW j \in Socket,
           \/ j.in \in {<< >>, sock[s].in}
           \/ sock[s].in # << >> /\ j.in = Tail(sock[s].in),
           j.out \in {<< >>, sock[s].out},
           sock' = [sock EXCEPT ![s] = j]
    PROVE  SocketsEvolve
<1> DEFINE k == sock[s]
<1>1. k.in \in Seq(Request) /\ k.out \in Seq(Reply)
  BY SocketFields DEF TypeOK
<1>2. Range(j.in) \subseteq Range(k.in)
  BY <1>1, RangeOfTail, RangeOfEmpty
<1>3. Range(j.out) \subseteq Range(k.out)
  BY RangeOfEmpty
<1>4. Evolves(s, j)
  BY <1>2, <1>3 DEF Evolves
<1> QED
  BY <1>4, OneEvolves

\* A reply is torn in two parts.
LEMMA TornEvolves ==
    ASSUME TypeOK, NEW s \in Sockets, Tear(s)
    PROVE  SocketsEvolve
<1> DEFINE k == sock[s]
           q == <<Fragment, Fragment>> \o Tail(k.out)
           j == [k EXCEPT !.out = q]
<1>1. k \in Socket /\ k.out \in Seq(Reply) /\ k.out # << >> /\ Fragment \in Reply
  BY SocketFields, FragmentFacts DEF TypeOK, Tear
<1>2. q \in Seq(Reply) /\ Range(q) \subseteq Range(k.out) \cup {Fragment}
  BY <1>1, RangeOfTorn
<1>3. sock' = [sock EXCEPT ![s] = j]
  BY DEF Tear
<1> HIDE DEF q
<1>4. j \in Socket /\ j.in = k.in /\ j.out = q
  BY <1>1, <1>2 DEF Socket
<1> HIDE DEF j
<1>5. Evolves(s, j)
  BY <1>2, <1>4 DEF Evolves
<1> QED
  BY <1>3, <1>5, OneEvolves

LEMMA ServesEvolve ==
    ASSUME TypeOK, NEW s \in Sockets, NEW body \in Responses(s, Head(sock[s].in)),
           Serve(s, body)
    PROVE  SocketsEvolve
<1> DEFINE k == sock[s]
           r == Head(k.in)
<1>1. k \in Socket /\ k.registered \in BOOLEAN /\ k.up \in BOOLEAN
  BY SocketFields DEF TypeOK
<1>2. CASE DeviceAnswers(s, body)
  <2> DEFINE b == k.registered \/ r.cmd = "RegisterSession"
             a == DeviceReply(s, r, body)
  <2>1. k.in # << >> /\ sock' = [sock EXCEPT ![s] = AfterAnswer(k, a, b)]
    BY <1>2 DEF DeviceAnswers, AfterAnswer
  <2>2. b \in BOOLEAN /\ AnswerOf(s, r, a)
    BY <1>1 DEF AnswerOf
  <2> HIDE DEF a, b
  <2> QED
    BY <2>1, <2>2, AnsweredEvolves
<1>3. CASE DeviceUnRegisters(s)
  <2>1. k.in # << >> /\ Tail(k.in) \in Seq(Request) /\ << >> \in Seq(Request)
    BY <1>1, <1>3, InAfterHead DEF DeviceUnRegisters
  <2>2. CASE k.registered /\ r.sess = s
    <3> DEFINE j == [k EXCEPT !.in = << >>, !.up = FALSE, !.registered = FALSE]
    <3>1. sock' = [sock EXCEPT ![s] = j]
      BY <1>3, <2>2 DEF DeviceUnRegisters
    <3>2. j \in Socket /\ j.in = << >> /\ j.out = k.out
      BY <1>1, <2>1 DEF Socket
    <3> HIDE DEF j
    <3> QED
      BY <3>1, <3>2, LostEvolves
  <2>3. CASE ~(k.registered /\ r.sess = s)
    <3> DEFINE j == [k EXCEPT !.in = Tail(k.in)]
    <3>1. sock' = [sock EXCEPT ![s] = j]
      BY <1>3, <2>3 DEF DeviceUnRegisters
    <3>2. j \in Socket /\ j.in = Tail(k.in) /\ j.out = k.out
      BY <1>1, <2>1 DEF Socket
    <3> HIDE DEF j
    <3> QED
      BY <2>1, <3>1, <3>2, LostEvolves
  <2> QED
    BY <2>2, <2>3
<1> QED
  BY <1>2, <1>3 DEF Serve

LEMMA MisbehavesEvolve ==
    ASSUME TypeOK, NEW s \in Sockets, Misbehave(s)
    PROVE  SocketsEvolve /\ faults' \in Nat
<1> DEFINE k == sock[s]
<1>1. k \in Socket /\ k.registered \in BOOLEAN /\ << >> \in Seq(Request)
  BY SocketFields DEF TypeOK
<1>2. CASE DeviceRefuses(s)
  <2> DEFINE r == Head(k.in)
             a == [ctx |-> r.ctx, sess |-> 0, has |-> "none", body |-> NoBody]
             j == AfterAnswer(k, a, k.registered)
  <2>1. k.in # << >> /\ AnswerOf(s, r, a)
    BY <1>2 DEF DeviceRefuses, AnswerOf
  <2>2. j = [k EXCEPT !.in = Tail(k.in), !.out = Append(k.out, a)]
    BY <1>1 DEF Socket, AfterAnswer
  <2>3. sock' = [sock EXCEPT ![s] = j]
    BY <1>2, <2>2 DEF DeviceRefuses
  <2> HIDE DEF a
  <2>4. SocketsEvolve
    BY <1>1, <2>1, <2>3, AnsweredEvolves
  <2> QED
    BY <1>2, <2>4, FaultTypes DEF DeviceRefuses, TypeOK
<1>3. CASE DeviceSilent(s)
  <2> DEFINE j == [k EXCEPT !.in = Tail(k.in)]
  <2>1. k.in # << >> /\ Tail(k.in) \in Seq(Request)
    BY <1>1, <1>3, InAfterHead DEF DeviceSilent
  <2>2. sock' = [sock EXCEPT ![s] = j]
    BY <1>3 DEF DeviceSilent
  <2>3. j \in Socket /\ j.in = Tail(k.in) /\ j.out = k.out
    BY <1>1, <2>1 DEF Socket
  <2> HIDE DEF j
  <2>4. SocketsEvolve
    BY <2>1, <2>2, <2>3, LostEvolves
  <2> QED
    BY <1>3, <2>4, FaultTypes DEF DeviceSilent, TypeOK
<1>4. CASE HangUp(s)
  <2> DEFINE J(left) == [k EXCEPT !.in = << >>, !.out = left, !.up = FALSE,
                                  !.registered = FALSE]
  <2>1. PICK left \in {k.out, << >>} : sock' = [sock EXCEPT ![s] = J(left)]
    BY <1>4 DEF HangUp
  <2>2. left \in Seq(Reply)
    BY <1>1, <2>1, SocketFields, EmptySeq
  <2>3. J(left) \in Socket /\ J(left).in = << >> /\ J(left).out \in {<< >>, k.out}
    BY <1>1, <2>1, <2>2 DEF Socket
  <2> HIDE DEF J
  <2>4. SocketsEvolve
    BY <2>1, <2>3, LostEvolves
  <2> QED
    BY <1>4, <2>4, FaultTypes DEF HangUp, TypeOK
<1>5. CASE Tear(s)
  BY <1>5, TornEvolves, FaultTypes DEF Tear, TypeOK
<1> QED
  BY <1>2, <1>3, <1>4, <1>5 DEF Misbehave

\* A step of the device leaves the program alone.
DeviceMoves == \E s \in Sockets : DeviceServes(s) \/ DeviceDrops(s) \/ DeviceFails(s)

LEMMA DeviceEvolves ==
    ASSUME TypeOK, DeviceMoves
    PROVE  /\ SocketsEvolve /\ faults' \in Nat
           /\ UNCHANGED <<tcpConn, session, established, connID, seqNum, reconnectAttempts,
                          state, stats, stack, resp, panicked, dials, nctx, dirty, calls,
                          lock, me>>
<1>1. PICK s \in Sockets : DeviceServes(s) \/ DeviceDrops(s) \/ DeviceFails(s)
  BY DEF DeviceMoves
<1>2. UNCHANGED <<tcpConn, session, established, connID, seqNum, reconnectAttempts,
                  state, stats, stack, resp, panicked, dials, nctx, dirty, calls, lock, me>>
  BY <1>1 DEF DeviceServes, Serve, DeviceDrops, DeviceFails, Misbehave, DeviceUnchanged,
     prog, mon, api
<1>3. CASE DeviceServes(s)
  <2>1. PICK body \in Responses(s, Head(sock[s].in)) : Serve(s, body)
    BY <1>3 DEF DeviceServes
  <2>2. UNCHANGED faults
    BY <2>1 DEF Serve, DeviceAnswers, DeviceUnRegisters
  <2> QED
    BY <1>2, <2>1, <2>2, ServesEvolve DEF TypeOK
<1>4. CASE DeviceDrops(s)
  <2> DEFINE k == sock[s]
             j == [k EXCEPT !.in = Tail(k.in)]
  <2>1. k \in Socket /\ k.in # << >> /\ sock' = [sock EXCEPT ![s] = j] /\ UNCHANGED faults
    BY <1>4 DEF DeviceDrops, UnknownConnection, TypeOK
  <2>2. Tail(k.in) \in Seq(Request)
    BY <2>1, InAfterHead
  <2>3. j \in Socket /\ j.in = Tail(k.in) /\ j.out = k.out
    BY <2>1, <2>2 DEF Socket
  <2> HIDE DEF j
  <2>4. SocketsEvolve
    BY <2>1, <2>3, LostEvolves
  <2> QED
    BY <1>2, <2>1, <2>4 DEF TypeOK
<1>5. CASE DeviceFails(s)
  BY <1>2, <1>5, MisbehavesEvolve DEF DeviceFails
<1> QED
  BY <1>1, <1>3, <1>4, <1>5

-----------------------------------------------------------------------------
(* The types of the variables.                                             *)

Labels2 == {"idle", "dial", "count", "build", "want", "locked", "returned", "clear",
            "recheck", "reclose", "reclear", "record", "report", "reset"}

LEMMA BodiesOf ==
    ASSUME NEW svc \in {"none", "Data", "ForwardOpen", "ForwardClose"},
           NEW id \in 0 .. Garbage, NEW seq \in 0 .. SeqMod - 1
    PROVE  Body(svc, id, seq) \in Bodies
BY ServicesAreBodies DEF Body, ServiceBodies, Garbage

LEMMA Zeros ==
    /\ 0 \in 0 .. Garbage /\ 0 \in 0 .. SeqMod - 1 /\ 0 \in Handles /\ 0 \in Nat
    /\ Garbage \in Nat /\ SeqMod \in Nat \ {0, 1} /\ \A n \in 0 .. Garbage : n \in Nat
    /\ \A n \in 0 .. SeqMod - 1 : n \in Nat
<1>1. MaxSockets \in Nat /\ SeqMod \in Nat \ {0, 1}
  BY TransportAssumption, EIPTCPAssumption
<1> QED
  BY <1>1 DEF Garbage, Handles

LEMMA IdleIsLocal == IdleClient \in Local
<1>1. NoPacket \in Request
  BY Zeros, TransportAssumption DEF NoPacket, Packet, Request, Commands
<1> QED
  BY <1>1, FragmentFacts DEF IdleClient, Local

\* One goroutine's locals are replaced.
Becomes(c, l) == me' = [me EXCEPT ![c] = l]

LEMMA BecomesTypes ==
    ASSUME me \in [Clients -> Local], NEW c \in Clients, NEW l \in Local, Becomes(c, l)
    PROVE  /\ me' \in [Clients -> Local] /\ me'[c] = l
           /\ \A d \in Clients \ {c} : me'[d] = me[d]
BY DEF Becomes

LEMMA WantBecomes ==
    ASSUME NEW c \in Clients, NEW op \in Methods, NEW cmd \in Commands, NEW sess \in Handles,
           NEW body \in Bodies, nctx \in Nat, Want(c, op, cmd, sess, body)
    PROVE  /\ nctx' \in Nat
           /\ \E l \in Local :
                 /\ Becomes(c, l)
                 /\ l.pc = "want" /\ l.op = op /\ l.reply = Fragment
                 /\ l.pkt = [cmd |-> cmd, ctx |-> nctx + 1, sess |-> sess, body |-> body]
<1> DEFINE p == Packet(cmd, nctx + 1, sess, body)
           l == [IdleClient EXCEPT !.pc = "want", !.op = op, !.pkt = p]
<1>1. p \in Request /\ p = [cmd |-> cmd, ctx |-> nctx + 1, sess |-> sess, body |-> body]
  BY DEF Packet, Request
<1>2. l \in Local
  BY <1>1, IdleIsLocal DEF Local
<1>3. l.pc = "want" /\ l.op = op /\ l.pkt = p /\ l.reply = Fragment
  BY <1>1, IdleIsLocal DEF IdleClient, Local
<1>4. Becomes(c, l) /\ nctx' \in Nat
  BY DEF Want, Becomes
<1> HIDE DEF l, p
<1> QED
  BY <1>1, <1>2, <1>3, <1>4

LEMMA StepBecomes ==
    ASSUME me \in [Clients -> Local], NEW c \in Clients, NEW label \in Labels2, Step(c, label)
    PROVE  \E l \in Local : /\ Becomes(c, l) /\ l.pc = label /\ l.op = me[c].op
                            /\ l.pkt = me[c].pkt /\ l.ok = me[c].ok /\ l.reply = me[c].reply
<1> DEFINE l == [me[c] EXCEPT !.pc = label]
<1>1. me[c] \in Local
  OBVIOUS
<1>2. l \in Local /\ l.pc = label /\ l.op = me[c].op
      /\ l.pkt = me[c].pkt /\ l.ok = me[c].ok /\ l.reply = me[c].reply
  BY <1>1 DEF Local, Labels2
<1> QED
  BY <1>2 DEF Step, Becomes

LEMMA FinishBecomes ==
    ASSUME NEW c, Finish(c)
    PROVE  IdleClient \in Local /\ Becomes(c, IdleClient)
BY IdleIsLocal DEF Finish, Becomes

LEMMA StepTypes ==
    ASSUME me \in [Clients -> Local], NEW c \in Clients, NEW label \in Labels2, Step(c, label)
    PROVE  me' \in [Clients -> Local]
<1>1. PICK l \in Local : Becomes(c, l)
  BY StepBecomes
<1> QED
  BY <1>1, BecomesTypes

LEMMA FinishTypes ==
    ASSUME me \in [Clients -> Local], NEW c \in Clients, Finish(c)
    PROVE  me' \in [Clients -> Local]
BY FinishBecomes, BecomesTypes

LEMMA WantTypes ==
    ASSUME me \in [Clients -> Local], NEW c \in Clients, NEW op \in Methods,
           NEW cmd \in Commands, NEW sess \in Handles, NEW body \in Bodies, nctx \in Nat,
           Want(c, op, cmd, sess, body)
    PROVE  me' \in [Clients -> Local] /\ nctx' \in Nat
<1>1. /\ nctx' \in Nat
      /\ \E l \in Local :
            /\ Becomes(c, l)
            /\ l.pc = "want" /\ l.op = op /\ l.reply = Fragment
            /\ l.pkt = [cmd |-> cmd, ctx |-> nctx + 1, sess |-> sess, body |-> body]
  BY WantBecomes, SMTT(20)
<1>2. PICK l \in Local : Becomes(c, l)
  BY <1>1
<1> QED
  BY <1>1, <1>2, BecomesTypes

LEMMA DialledTypes ==
    ASSUME TypeOK, NEW s \in Sockets, DialOk(s)
    PROVE  s \in Handles /\ sock' \in [Sockets -> Socket] /\ dials' \in 0 .. MaxSockets
<1>1. s \in Handles /\ s \in 0 .. MaxSockets
  BY TransportAssumption DEF Sockets, Handles
<1> QED
  BY <1>1, DialledEvolves DEF SocketsEvolve

LEMMA ClosedTypes ==
    ASSUME TypeOK, tcpConn # Nil, sock' = Closed(tcpConn)
    PROVE  sock' \in [Sockets -> Socket]
BY ClosedEvolves DEF SocketsEvolve

\* A method begins.
LEMMA CallTypes ==
    ASSUME TypeOKAPI, NEW c \in Clients, ClientCall(c)
    PROVE  TypeOKAPI'
<1>1. calls' \in Nat
  BY DEF ClientCall, ConnectBegin, MethodBegins, SendBegin, Begin, NewCall, TypeOKAPI, TypeOK
<1> USE DEF TypeOKAPI, TypeOK
<1>2. CASE ConnectBegin(c)
  <2> DEFINE l == [IdleClient EXCEPT !.pc = "dial", !.op = "Connect"]
  <2>1. l \in Local
    BY IdleIsLocal DEF Methods, Local
  <2>2. me' \in [Clients -> Local]
    <3>1. me' = [me EXCEPT ![c] = l]
      BY <1>2 DEF ConnectBegin
    <3> HIDE DEF l
    <3> QED
      BY <2>1, <3>1
  <2>3. /\ connID' = 0 /\ seqNum' = 0 /\ established' = FALSE /\ reconnectAttempts' = 0
        /\ state' = "Connecting"
        /\ UNCHANGED <<tcpConn, session, stats, path, net, faults, nctx, lock, seen>>
    BY <1>2 DEF ConnectBegin, Reset
  <2> QED
    BY <1>1, <2>2, <2>3, Zeros DEF path, net, States
<1>3. CASE MethodBegins(c)
  <2>1. /\ NoBody \in Bodies /\ Body("ForwardOpen", 0, 0) \in Bodies
        /\ Body("ForwardClose", connID, 0) \in Bodies
    BY TransportAssumption, BodiesOf, Zeros
  <2>2. me' \in [Clients -> Local] /\ nctx' \in Nat
    <3>1. \E op \in Methods, cmd \in Commands, sess \in Handles, body \in Bodies :
             Want(c, op, cmd, sess, body)
      BY <1>3, <2>1, Zeros DEF MethodBegins, Methods, Commands
    <3> QED
      BY <3>1, WantTypes
  <2> QED
    BY <1>1, <1>3, <2>2 DEF MethodBegins, conn, prog, mon, path, net
<1>4. CASE SendBegin(c)
  <2>1. "Send" \in Methods /\ Body("Data", 0, 0) \in Bodies
    BY BodiesOf, Zeros DEF Methods
  <2>2. me' \in [Clients -> Local] /\ nctx' \in Nat
    <3>1. CASE Want(c, "Send", "SendRRData", session, Body("Data", 0, 0))
      BY <2>1, <3>1, WantTypes DEF Commands
    <3>2. CASE /\ me' = [me EXCEPT ![c] = [IdleClient EXCEPT !.pc = "count", !.op = "Send"]]
               /\ UNCHANGED nctx
      <4> DEFINE l == [IdleClient EXCEPT !.pc = "count", !.op = "Send"]
      <4>1. l \in Local
        BY <2>1, IdleIsLocal DEF Local
      <4> HIDE DEF l
      <4> QED
        BY <3>2, <4>1 DEF l
    <3> QED
      BY <1>4, <3>1, <3>2 DEF SendBegin
  <2> QED
    BY <1>1, <1>4, <2>2 DEF SendBegin, conn, prog, mon, path, net
<1> QED
  BY <1>2, <1>3, <1>4 DEF ClientCall

\* Up to the request.
LEMMA BeforeTypes ==
    ASSUME TypeOKAPI, NEW c \in Clients, ConnectDial(c) \/ SendCount(c) \/ SendBuild(c) \/ Lock(c)
    PROVE  TypeOKAPI'
<1> USE DEF TypeOKAPI, TypeOK
<1>1. me[c] \in Local
  OBVIOUS
<1>2. CASE ConnectDial(c)
  <2>1. /\ UNCHANGED <<prog, reconnectAttempts, stats, path, calls, lock, seen>>
    BY <1>2 DEF ConnectDial
  <2>2. CASE DialError /\ state' = "Disconnected" /\ Finish(c) /\ UNCHANGED <<tcpConn, nctx>>
    <3>1. faults' \in Nat /\ UNCHANGED net
      BY <2>2, FaultTypes DEF DialError
    <3>2. me' \in [Clients -> Local]
      BY <2>2, FinishTypes
    <3> QED
      BY <2>1, <2>2, <3>1, <3>2 DEF prog, path, net, States
  <2>3. CASE /\ \E s \in Sockets : DialOk(s) /\ tcpConn' = s
             /\ Want(c, "Connect", "RegisterSession", 0, NoBody)
             /\ UNCHANGED <<state, faults>>
    <3>1. /\ tcpConn' \in Handles /\ sock' \in [Sockets -> Socket]
          /\ dials' \in 0 .. MaxSockets
      BY <2>3, DialledTypes
    <3>2. NoBody \in Bodies /\ 0 \in Handles /\ "RegisterSession" \in Commands
          /\ "Connect" \in Methods
      BY TransportAssumption, Zeros DEF Commands, Methods
    <3>4. me' \in [Clients -> Local] /\ nctx' \in Nat
      BY <1>2, <2>3, <3>2, WantTypes
    <3> QED
      BY <2>1, <2>3, <3>1, <3>4 DEF prog, path
  <2> QED
    BY <1>2, <2>2, <2>3 DEF ConnectDial
<1>3. CASE SendCount(c)
  <2>1. me' \in [Clients -> Local]
    BY <1>3, StepTypes DEF SendCount, Labels2
  <2>2. (seqNum + 1) % SeqMod \in 0 .. SeqMod - 1
    BY Zeros
  <2> QED
    BY <1>3, <2>1, <2>2 DEF SendCount, mon, path, net
<1>4. CASE SendBuild(c)
  <2>1. Body("Data", connID, seqNum) \in Bodies /\ "SendUnitData" \in Commands
        /\ "Send" \in Methods
    BY BodiesOf DEF Commands, Methods
  <2>2. me' \in [Clients -> Local] /\ nctx' \in Nat
    BY <1>4, <2>1, WantTypes DEF SendBuild
  <2> QED
    BY <1>4, <2>2 DEF SendBuild, conn, prog, mon, path, net
<1>5. CASE Lock(c)
  <2>1. me' \in [Clients -> Local]
    BY <1>5, StepTypes DEF Lock, Labels2
  <2>2. me[c].pkt \in Request
    BY <1>1 DEF Local
  <2>3. stack' \in Seq(Frame)
    BY <1>5, <2>2, CallStack DEF Lock
  <2> QED
    BY <1>5, <2>1, <2>3 DEF Lock, conn, prog, mon, net
<1> QED
  BY <1>2, <1>3, <1>4, <1>5

LEMMA CountedTypes ==
    ASSUME stats \in [connect : Nat, disconnect : Nat, reconnect : Nat],
           stats' = [stats EXCEPT !.disconnect = @ + 1]
    PROVE  stats' \in [connect : Nat, disconnect : Nat, reconnect : Nat]
OBVIOUS

\* What Close does after its look at t.tcpConn, but for the closing of the socket: it
\* touches neither the socket nor what belongs to a request.
WindsUp(c) == CloseRechecks(c) \/ CloseRecords(c) \/ CloseReports(c) \/ CloseResets(c)

LEMMA WindingUp ==
    ASSUME NEW c, WindsUp(c)
    PROVE  /\ me[c].pc \in {"recheck", "record", "report", "reset"}
           /\ Finish(c) \/ \E label \in {"reclose", "report", "reset"} : Step(c, label)
           /\ UNCHANGED <<tcpConn, session, stack, resp, panicked, dirty, sock, dials, faults,
                          nctx, calls, lock, seen>>
           /\ \/ UNCHANGED <<established, connID, seqNum, reconnectAttempts>>
              \/ /\ Finish(c) /\ established' = FALSE /\ connID' = 0 /\ seqNum' = 0
                 /\ reconnectAttempts' = 0
<1>1. CASE CloseRechecks(c)
  BY <1>1 DEF CloseRechecks, Client, conn, prog, path, net
<1>2. CASE CloseRecords(c)
  BY <1>2 DEF CloseRecords, Client, conn, prog, path, net
<1>3. CASE CloseReports(c)
  BY <1>3 DEF CloseReports, Client, conn, prog, path, net
<1>4. CASE CloseResets(c)
  BY <1>4 DEF CloseResets, Client, Reset, path, net
<1> QED
  BY <1>1, <1>2, <1>3, <1>4 DEF WindsUp

LEMMA WindsUpTypes ==
    ASSUME TypeOKAPI, NEW c \in Clients, WindsUp(c)
    PROVE  TypeOKAPI'
<1> USE DEF TypeOKAPI, TypeOK
<1>1. me' \in [Clients -> Local]
  <2>1. ASSUME NEW label \in {"reclose", "report", "reset"}, Step(c, label)
        PROVE  me' \in [Clients -> Local]
    BY <2>1, StepTypes DEF Labels2
  <2> QED
    BY <2>1, WindingUp, FinishTypes
<1>2. stats' \in [connect : Nat, disconnect : Nat, reconnect : Nat] /\ state' \in States
  <2>1. CASE CloseRecords(c)
    BY <2>1, CountedTypes DEF CloseRecords
  <2>2. CASE ~CloseRecords(c)
    BY <2>2 DEF WindsUp, CloseRechecks, CloseReports, CloseResets, States, mon
  <2> QED
    BY <2>1, <2>2
<1>3. /\ established' \in BOOLEAN /\ connID' \in 0 .. Garbage /\ seqNum' \in 0 .. SeqMod - 1
      /\ reconnectAttempts' \in Nat
  BY WindingUp, Zeros
<1>4. UNCHANGED <<tcpConn, session, stack, resp, panicked, dirty, sock, dials, faults, nctx,
                  calls, lock, seen>>
  BY WindingUp
<1> QED
  BY <1>1, <1>2, <1>3, <1>4

\* After the request.
LEMMA AfterTypes ==
    ASSUME TypeOKAPI, NEW c \in Clients,
           \/ Unlock(c) \/ ConnectDone(c) \/ CloseSocket(c) \/ ClearSocket(c) \/ WindsUp(c)
           \/ Legacy(c) \/ ForwardOpenDone(c) \/ ForwardCloseDone(c) \/ MethodReturns(c)
    PROVE  TypeOKAPI'
<1> USE DEF TypeOKAPI, TypeOK
<1>1. me[c] \in Local /\ me[c].reply \in Reply /\ me[c].pkt \in Request
  BY DEF Local
<1>2. CASE Unlock(c)
  <2> DEFINE l == [me[c] EXCEPT !.pc = "returned", !.ok = (stack[1].at = "ok"), !.reply = resp]
  <2>1. l \in Local
    BY <1>1 DEF Local
  <2>2. me' \in [Clients -> Local]
    <3>1. me' = [me EXCEPT ![c] = l]
      BY <1>2 DEF Unlock
    <3> HIDE DEF l
    <3> QED
      BY <2>1, <3>1
  <2>3. stack' \in Seq(Frame) /\ resp' \in Reply /\ lock' = None
    BY <1>2, FragmentFacts DEF Unlock, Pop
  <2> QED
    BY <1>2, <2>2, <2>3 DEF Unlock, conn, prog, mon, net
<1>3. CASE ConnectDone(c)
  <2>1. me' \in [Clients -> Local]
    BY <1>3, FinishTypes DEF ConnectDone
  <2>2. stats' \in [connect : Nat, disconnect : Nat, reconnect : Nat]
    <3>1. stats.connect + 1 \in Nat
      OBVIOUS
    <3>2. stats' = [stats EXCEPT !.connect = stats.connect + 1]
      BY <1>3 DEF ConnectDone
    <3> QED
      BY <3>1, <3>2
  <2>3. state' \in States
    BY <1>3 DEF ConnectDone, States
  <2> QED
    BY <1>3, <2>1, <2>2, <2>3 DEF ConnectDone, conn, prog, path, net
<1>4. CASE CloseSocket(c)
  <2>1. CASE tcpConn = Nil
    BY <1>4, <2>1 DEF CloseSocket, Panic, prog, mon, net
  <2>2. CASE tcpConn # Nil
    <3>1. sock' \in [Sockets -> Socket]
      BY <1>4, <2>2, ClosedTypes DEF CloseSocket
    <3>2. Step(c, "clear") \/ Step(c, "reclear")
      BY <1>4, <2>2 DEF CloseSocket
    <3>3. me' \in [Clients -> Local]
      BY <3>2, StepTypes DEF Labels2
    <3> QED
      BY <1>4, <2>2, <3>1, <3>3 DEF CloseSocket, conn, prog, mon, path
  <2> QED
    BY <2>1, <2>2
<1>5. CASE ClearSocket(c)
  <2>1. me' \in [Clients -> Local] /\ state' \in States
    <3>1. CASE state' = "Disconnected" /\ Finish(c)
      BY <3>1, FinishTypes DEF States
    <3>2. CASE UNCHANGED state /\ (Step(c, "recheck") \/ Step(c, "record"))
      BY <3>2, StepTypes DEF Labels2
    <3> QED
      BY <1>5, <3>1, <3>2 DEF ClearSocket
  <2>2. tcpConn' \in Handles
    BY <1>5, Zeros DEF ClearSocket, Nil
  <2> QED
    BY <1>5, <2>1, <2>2 DEF ClearSocket, prog, path, net
<1>6. CASE WindsUp(c)
  BY <1>6, WindsUpTypes
<1>7. CASE Legacy(c)
  <2> DEFINE p == [me[c].pkt EXCEPT !.cmd = "SendRRDataLegacy", !.sess = session]
             l == [me[c] EXCEPT !.pc = "want", !.pkt = p]
  <2>1. p \in Request
    BY <1>1 DEF Request, Commands
  <2>2. me' = [me EXCEPT ![c] = l]
    BY <1>7 DEF Legacy
  <2> HIDE DEF p
  <2>3. l \in Local
    BY <1>1, <2>1 DEF Local
  <2> HIDE DEF l
  <2>4. me' \in [Clients -> Local] /\ nctx' = nctx
    BY <1>7, <2>2, <2>3 DEF Legacy
  <2>5. UNCHANGED <<conn, mon, path, net, faults, calls, lock, seen>>
    BY <1>7 DEF Legacy
  <2> QED
    BY <2>4, <2>5 DEF Legacy, conn, prog, mon, path, net
<1>8. CASE ForwardOpenDone(c)
  <2>1. me' \in [Clients -> Local]
    BY <1>8, FinishTypes DEF ForwardOpenDone
  <2>2. me[c].reply.body \in ServiceBodies
    BY <1>1, ServicesAreBodies DEF Reply
  <2>3. connID' \in 0 .. Garbage
    BY <1>8, <2>2 DEF ForwardOpenDone, ServiceBodies, Garbage
  <2> QED
    BY <1>8, <2>1, <2>3 DEF ForwardOpenDone, mon, path, net
<1>9. CASE ForwardCloseDone(c)
  <2>1. me' \in [Clients -> Local]
    BY <1>9, FinishTypes DEF ForwardCloseDone
  <2> QED
    BY <1>9, <2>1, Zeros DEF ForwardCloseDone, mon, path, net
<1>10. CASE MethodReturns(c)
  <2>1. me' \in [Clients -> Local]
    BY <1>10, FinishTypes DEF MethodReturns
  <2> QED
    BY <1>10, <2>1 DEF MethodReturns, conn, prog, mon, path, net
<1> QED
  BY <1>2, <1>3, <1>4, <1>5, <1>6, <1>7, <1>8, <1>9, <1>10

\* The request in progress, the device.
LEMMA OthersTypes ==
    ASSUME TypeOKAPI, Requesting \/ DeviceMoves
    PROVE  TypeOKAPI'
<1>1. CASE Requesting
  <2>1. TypeOK'
    BY <1>1, RequestTypes DEF Requesting, TypeOKAPI
  <2>2. connID' \in 0 .. Garbage /\ seqNum' \in 0 .. SeqMod - 1
    <3>1. UNCHANGED <<connID, seqNum>> \/ (connID' = 0 /\ seqNum' = 0)
      BY <1>1, RequestCases, ReadTypes
         DEF Requesting, TypeOKAPI, MovesOn, Unwinds, Drops, Redials, Panic, Known, prog
    <3> QED
      BY <3>1, Zeros DEF TypeOKAPI
  <2> QED
    BY <1>1, <2>1, <2>2 DEF Requesting, api, TypeOKAPI
<1>2. CASE DeviceMoves
  <2>1. TypeOK' /\ UNCHANGED <<connID, seqNum, lock, me>>
    BY <1>2, DeviceEvolves DEF TypeOKAPI, TypeOK, SocketsEvolve
  <2>2. seen' \in [Sockets -> 0 .. SeqMod]
    <3>1. PICK s \in Sockets : DeviceServes(s) \/ DeviceDrops(s) \/ DeviceFails(s)
      BY <1>2 DEF DeviceMoves
    <3>2. CASE DeviceServes(s)
      <4> DEFINE r == Head(sock[s].in)
      <4>1. r \in Request
        BY <3>2, SocketFields, RangeOfTail DEF DeviceServes, TypeOKAPI, TypeOK
      <4>2. r.body.seq \in 0 .. SeqMod /\ SeqMod \in 0 .. SeqMod
        <5>1. r.body \in ServiceBodies
          BY <4>1, ServicesAreBodies DEF Request
        <5>2. r.body.seq \in 0 .. SeqMod - 1
          BY <5>1 DEF ServiceBodies
        <5> QED
          BY <5>2, Zeros
      <4>3. seen' \in {[seen EXCEPT ![s] = r.body.seq], [seen EXCEPT ![s] = SeqMod], seen}
        <5>1. \E body \in Responses(s, r) :
                seen' = IF r.cmd = "SendUnitData" THEN [seen EXCEPT ![s] = r.body.seq]
                        ELSE IF DeviceReply(s, r, body).body.conn = s
                        THEN [seen EXCEPT ![s] = SeqMod] ELSE seen
          BY <3>2 DEF DeviceServes
        <5> HIDE DEF r
        <5> QED
          BY <5>1
      <4> QED
        BY <4>2, <4>3 DEF TypeOKAPI
    <3>3. CASE UNCHANGED seen
      BY <3>3 DEF TypeOKAPI
    <3> QED
      BY <3>1, <3>2, <3>3 DEF DeviceDrops, DeviceFails
  <2> QED
    BY <2>1, <2>2 DEF TypeOKAPI
<1> QED
  BY <1>1, <1>2

\* Who makes a step.
LEMMA StepOfAPI ==
    ASSUME [NextAPI]_allVars
    PROVE  \/ \E c \in Clients : ClientCall(c) \/ Lock(c) \/ ClientStep(c)
           \/ Requesting
           \/ DeviceMoves
           \/ UNCHANGED allVars
BY DEF NextAPI, DeviceNext, DeviceMoves, AllStopped

LEMMA TypesNext ==
    ASSUME TypeOKAPI, [NextAPI]_allVars
    PROVE  TypeOKAPI'
<1>1. CASE UNCHANGED allVars
  BY <1>1 DEF allVars, vars, api, prog, mon, net, TypeOKAPI, TypeOK
<1> QED
  BY <1>1, StepOfAPI, CallTypes, BeforeTypes, AfterTypes, OthersTypes DEF ClientStep, WindsUp

LEMMA TypesInit ==
    ASSUME InitAPI
    PROVE  TypeOKAPI
<1>1. TypeOK /\ connID = 0 /\ seqNum = 0
  BY InvInit DEF InitAPI, Init, Inv
<1> QED
  BY <1>1, IdleIsLocal, Zeros DEF InitAPI, TypeOKAPI

\* The variables keep their types whatever methods the goroutines call.
THEOREM SharedTypes == SpecAPI => []TypeOKAPI
BY TypesInit, TypesNext, PTL DEF SpecAPI

-----------------------------------------------------------------------------
(* Requests and replies in step, and one request at a time.                *)

\* A request keeps its outermost call until that returns.
LEMMA RequestKeepsCall ==
    ASSUME TypeOK, RequestStep
    PROVE  stack # << >> /\ stack' # << >> /\ stack'[1].pkt = stack[1].pkt
<1>1. stack \in Seq(Frame) /\ stack # << >> /\ 1 \in 1 .. Len(stack) /\ Len(stack) \in Nat \ {0}
  BY RequestCases, TopOfStack DEF TypeOK
<1>2. ASSUME NEW l \in Labels, Goto(l) PROVE stack' # << >> /\ stack'[1].pkt = stack[1].pkt
  BY <1>1, <1>2, GotoStack
<1>3. ASSUME NEW n \in {0, 1}, Fail(n) PROVE stack' # << >> /\ stack'[1].pkt = stack[1].pkt
  BY <1>1, <1>3, FailStack
<1>4. CASE MovesOn \/ Drops
  BY <1>1, <1>2, <1>4 DEF MovesOn, Drops, Labels, Working
<1>5. CASE Unwinds
  BY <1>1, <1>3, <1>5 DEF Unwinds
<1>6. CASE Reads
  <2>1. CASE Goto("ok")
    BY <1>1, <1>2, <2>1 DEF Labels, Finished
  <2>2. CASE Len(stack) > 1 /\ Resume
    <3>1. 1 \in 1 .. Len(stack) - 1 /\ Len(stack) \in Nat \ {0, 1}
      BY <1>1, <2>2
    <3> QED
      BY <1>1, <2>2, <3>1, ResumeStack
  <2> QED
    BY <1>6, <2>1, <2>2 DEF Reads, ReadReply, Succeed
<1>7. ASSUME NEW s \in Sockets, Redials(s)
      PROVE  stack' # << >> /\ stack'[1].pkt = stack[1].pkt
  <2>1. Packet("RegisterSession", nctx + 1, 0, NoBody) \in Request
    BY TransportAssumption DEF TypeOK, Packet, Request, Commands, Handles
  <2> QED
    BY <1>1, <1>7, <2>1, CallStack DEF Redials
<1>8. CASE Panic
  BY <1>1, <1>8 DEF Panic
<1> QED
  BY <1>1, <1>4, <1>5, <1>6, <1>7, <1>8, RequestCases

\* The steps that take and give back requestLock.
LEMMA LockHeld ==
    ASSUME TypeOKAPI, HoldsLock, NEW c \in Clients, Lock(c)
    PROVE  HoldsLock' /\ stack = << >> /\ UNCHANGED <<tcpConn, sock, dirty>>
<1>1. /\ lock = None /\ stack = << >> /\ lock' = c /\ c # None
      /\ \A d \in Clients : me[d].pc # "locked"
  BY EIPTCPAssumption DEF Lock, HoldsLock
<1>2. me[c] \in Local /\ me[c].pkt \in Request /\ me \in [Clients -> Local]
  BY DEF TypeOKAPI, Local
<1>3. stack' # << >> /\ stack'[1].pkt = me[c].pkt
  BY <1>1, <1>2, CallAlone DEF Lock
<1>4. PICK l \in Local : Becomes(c, l) /\ l.pc = "locked" /\ l.pkt = me[c].pkt
  BY <1>2, StepBecomes DEF Lock, Labels2
<1>5. me'[c] = l /\ \A d \in Clients \ {c} : me'[d] = me[d]
  BY <1>2, <1>4, BecomesTypes
<1>6. \A d \in Clients :
         /\ me'[d].pc = "locked" <=> lock' = d
         /\ lock' = d => stack'[1].pkt = me'[d].pkt
  BY <1>1, <1>3, <1>4, <1>5
<1>7. HoldsLock'
  BY <1>1, <1>3, <1>6 DEF HoldsLock
<1> QED
  BY <1>1, <1>7 DEF Lock, conn, net

LEMMA LockReleased ==
    ASSUME TypeOKAPI, HoldsLock, NEW c \in Clients, Unlock(c)
    PROVE  HoldsLock' /\ ~Reading /\ UNCHANGED <<tcpConn, sock, dirty>>
<1>1. lock = c /\ lock' = None /\ stack' = << >> /\ UNCHANGED <<tcpConn, sock, dirty>>
  BY DEF Unlock, Pop, conn, net
<1>2. \A d \in Clients \ {c} : me[d].pc # "locked" /\ me'[d] = me[d]
  BY <1>1 DEF HoldsLock, Unlock, TypeOKAPI
<1>3. me'[c].pc = "returned"
  BY DEF Unlock, TypeOKAPI, Local
<1>4. \A d \in Clients : me'[d].pc # "locked" /\ lock' # d
  BY <1>1, <1>2, <1>3, EIPTCPAssumption
<1>5. ~Reading
  BY DEF Unlock, Returned, At, Reading
<1> QED
  BY <1>1, <1>4, <1>5 DEF HoldsLock

\* The other steps of a goroutine: it is not under requestLock before or after.
Outside(c) ==
    ConnectBegin(c) \/ MethodBegins(c) \/ SendBegin(c) \/ ConnectDial(c) \/ SendCount(c)
        \/ SendBuild(c) \/ ConnectDone(c) \/ CloseSocket(c) \/ ClearSocket(c)
        \/ WindsUp(c) \/ Legacy(c) \/ ForwardOpenDone(c) \/ ForwardCloseDone(c)
        \/ MethodReturns(c)

LEMMA OutsideLock ==
    ASSUME TypeOKAPI, NEW c \in Clients, Outside(c)
    PROVE  /\ UNCHANGED <<lock, stack>>
           /\ me[c].pc # "locked"
           /\ me' = me \/ \E l \in Local : Becomes(c, l) /\ l.pc # "locked"
<1>1. me \in [Clients -> Local] /\ me[c] \in Local /\ nctx \in Nat /\ session \in Handles
  BY DEF TypeOKAPI, TypeOK
<1>2. ASSUME NEW op \in Methods, NEW cmd \in Commands, NEW sess \in Handles,
             NEW body \in Bodies, Want(c, op, cmd, sess, body)
      PROVE  \E l \in Local : Becomes(c, l) /\ l.pc # "locked"
  BY <1>1, <1>2, WantBecomes
<1>3. ASSUME NEW label \in Labels2 \ {"locked"}, Step(c, label)
      PROVE  \E l \in Local : Becomes(c, l) /\ l.pc # "locked"
  BY <1>1, <1>3, StepBecomes
<1>4. ASSUME Finish(c) PROVE \E l \in Local : Becomes(c, l) /\ l.pc # "locked"
  <2>1. IdleClient.pc = "idle"
    BY DEF IdleClient
  <2> QED
    BY <1>4, <2>1, FinishBecomes
<1>5. /\ NoBody \in Bodies /\ Body("ForwardOpen", 0, 0) \in Bodies
      /\ Body("ForwardClose", connID, 0) \in Bodies /\ Body("Data", 0, 0) \in Bodies
      /\ Body("Data", connID, seqNum) \in Bodies /\ 0 \in Handles
  BY TransportAssumption, BodiesOf, Zeros DEF TypeOKAPI
<1> USE DEF path
<1>6. CASE ConnectBegin(c)
  <2> DEFINE l == [IdleClient EXCEPT !.pc = "dial", !.op = "Connect"]
  <2>1. l \in Local /\ l.pc # "locked"
    BY IdleIsLocal DEF Local, Methods
  <2>2. Becomes(c, l) /\ UNCHANGED <<lock, stack>> /\ me[c].pc # "locked"
    BY <1>6 DEF ConnectBegin, Begin, Client, Becomes
  <2> HIDE DEF l
  <2> QED
    BY <2>1, <2>2
<1>7. CASE MethodBegins(c)
  BY <1>1, <1>2, <1>5, <1>7 DEF MethodBegins, Begin, Client, Methods, Commands
<1>8. CASE SendBegin(c)
  <2> DEFINE l == [IdleClient EXCEPT !.pc = "count", !.op = "Send"]
  <2>1. l \in Local /\ l.pc # "locked"
    BY IdleIsLocal DEF Local, Methods
  <2>2. UNCHANGED <<lock, stack>> /\ me[c].pc # "locked"
    BY <1>8 DEF SendBegin, Begin, Client
  <2>3. me' = [me EXCEPT ![c] = l] \/ Want(c, "Send", "SendRRData", session, Body("Data", 0, 0))
    BY <1>8 DEF SendBegin
  <2> HIDE DEF l
  <2> QED
    BY <1>1, <1>2, <1>5, <2>1, <2>2, <2>3 DEF Methods, Commands, Becomes
<1>9. CASE ConnectDial(c)
  BY <1>2, <1>4, <1>5, <1>9 DEF ConnectDial, Client, Methods, Commands
<1>10. CASE SendCount(c)
  BY <1>3, <1>10 DEF SendCount, Client, Labels2
<1>11. CASE SendBuild(c)
  BY <1>1, <1>2, <1>5, <1>11 DEF SendBuild, Client, Methods, Commands
<1>12. CASE ConnectDone(c) \/ ForwardOpenDone(c) \/ ForwardCloseDone(c) \/ MethodReturns(c)
  BY <1>4, <1>12 DEF ConnectDone, ForwardOpenDone, ForwardCloseDone, MethodReturns, Answered,
     Back, Client
<1>13. CASE CloseSocket(c)
  <2>1. CASE tcpConn = Nil
    BY <1>13, <2>1 DEF CloseSocket, Back, Client, Panic
  <2>2. CASE tcpConn # Nil
    BY <1>3, <1>13, <2>2 DEF CloseSocket, Back, Client, Labels2
  <2> QED
    BY <2>1, <2>2
<1>14. CASE ClearSocket(c)
  BY <1>3, <1>4, <1>14 DEF ClearSocket, Client, Labels2
<1>15. CASE WindsUp(c)
  <2>1. UNCHANGED <<lock, stack>> /\ me[c].pc # "locked"
    BY <1>15, WindingUp
  <2>2. ASSUME NEW label \in {"reclose", "report", "reset"}, Step(c, label)
        PROVE  \E l \in Local : Becomes(c, l) /\ l.pc # "locked"
    BY <1>3, <2>2 DEF Labels2
  <2> QED
    BY <1>4, <1>15, <2>1, <2>2, WindingUp
<1>16. CASE Legacy(c)
  <2> DEFINE p == [me[c].pkt EXCEPT !.cmd = "SendRRDataLegacy", !.sess = session]
             l == [me[c] EXCEPT !.pc = "want", !.pkt = p]
  <2>1. p \in Request
    BY <1>1 DEF Local, Request, Commands
  <2>2. Becomes(c, l) /\ UNCHANGED <<lock, stack>> /\ me[c].pc # "locked"
    BY <1>16 DEF Legacy, Becomes, Client
  <2> HIDE DEF p
  <2>3. l \in Local /\ l.pc # "locked"
    BY <1>1, <2>1 DEF Local
  <2> HIDE DEF l
  <2> QED
    BY <2>2, <2>3
<1> QED
  BY <1>6, <1>7, <1>8, <1>9, <1>10, <1>11, <1>12, <1>13, <1>14, <1>15, <1>16 DEF Outside

LEMMA LockOutside ==
    ASSUME TypeOKAPI, HoldsLock, NEW c \in Clients, Outside(c)
    PROVE  HoldsLock'
<1>1. UNCHANGED <<lock, stack>> /\ me[c].pc # "locked" /\ me \in [Clients -> Local]
  BY OutsideLock DEF TypeOKAPI
<1>2. CASE UNCHANGED me
  BY <1>1, <1>2 DEF HoldsLock
<1>3. ASSUME NEW l \in Local, Becomes(c, l), l.pc # "locked" PROVE HoldsLock'
  <2>1. me'[c] = l /\ \A d \in Clients \ {c} : me'[d] = me[d]
    BY <1>1, <1>3, BecomesTypes
  <2>2. lock # c
    BY <1>1 DEF HoldsLock
  <2>3. \A d \in Clients : /\ me'[d].pc = "locked" <=> lock' = d
                           /\ lock' = d => stack'[1].pkt = me'[d].pkt
    BY <1>1, <1>3, <2>1, <2>2 DEF HoldsLock
  <2> QED
    BY <1>1, <2>3 DEF HoldsLock
<1> QED
  BY <1>1, <1>2, <1>3, OutsideLock

LEMMA LockNext ==
    ASSUME TypeOKAPI, HoldsLock, [NextAPI]_allVars
    PROVE  HoldsLock'
<1>1. CASE Requesting
  <2>1. /\ UNCHANGED <<lock, me>> /\ stack # << >> /\ stack' # << >>
        /\ stack'[1].pkt = stack[1].pkt
    BY <1>1, RequestKeepsCall DEF Requesting, api, TypeOKAPI
  <2> QED
    BY <2>1 DEF HoldsLock
<1>2. CASE DeviceMoves
  <2>1. UNCHANGED <<lock, me, stack>>
    BY <1>2, DeviceEvolves DEF TypeOKAPI
  <2> QED
    BY <2>1 DEF HoldsLock
<1>3. CASE UNCHANGED allVars
  BY <1>3 DEF allVars, vars, api, HoldsLock
<1>4. ASSUME NEW c \in Clients, ClientCall(c) \/ Lock(c) \/ ClientStep(c) PROVE HoldsLock'
  BY <1>4, LockHeld, LockReleased, LockOutside DEF ClientCall, ClientStep, Outside, WindsUp
<1> QED
  BY <1>1, <1>2, <1>3, <1>4, StepOfAPI

LEMMA LockInit ==
    ASSUME InitAPI
    PROVE  HoldsLock
BY EIPTCPAssumption DEF InitAPI, Init, HoldsLock, IdleClient

\* requestLock lets one request in at a time: whoever is in the request path holds it, and
\* the packet in the path is the holder's.
THEOREM OneRequestAtATime == SpecAPI => []HoldsLock
<1>1. TypeOKAPI /\ HoldsLock /\ [NextAPI]_allVars => HoldsLock'
  BY LockNext
<1> QED
  BY <1>1, LockInit, SharedTypes, PTL DEF SpecAPI

\* What a goroutine does outside requestLock leaves the queues as they are, or drops them.
LEMMA InFlightOutside ==
    ASSUME TypeOKAPI, OneInFlight, NEW c \in Clients, Outside(c)
    PROVE  OneInFlight'
<1>1. TypeOK /\ UNCHANGED stack
  BY OutsideLock DEF TypeOKAPI
<1>2. ASSUME UNCHANGED <<tcpConn, sock, dirty>> PROVE OneInFlight'
  BY <1>1, <1>2 DEF OneInFlight, Reading, Top
<1>3. CASE \/ ConnectBegin(c) \/ MethodBegins(c) \/ SendBegin(c) \/ SendCount(c) \/ SendBuild(c)
           \/ ConnectDone(c) \/ Legacy(c) \/ ForwardOpenDone(c) \/ ForwardCloseDone(c)
           \/ MethodReturns(c)
  <2>1. UNCHANGED <<tcpConn, sock, dirty>>
    BY <1>3 DEF ConnectBegin, MethodBegins, SendBegin, SendCount, SendBuild, ConnectDone, Legacy,
       ForwardOpenDone, ForwardCloseDone, MethodReturns, conn, path, net
  <2> QED
    BY <1>2, <2>1
<1>4. CASE ConnectDial(c)
  <2>1. CASE DialError /\ UNCHANGED tcpConn
    BY <1>2, <1>4, <2>1 DEF ConnectDial, DialError, path, net
  <2>2. ASSUME NEW s \in Sockets, DialOk(s), tcpConn' = s PROVE OneInFlight'
    BY <1>1, <2>2, DialInFlight
  <2> QED
    BY <1>4, <2>1, <2>2 DEF ConnectDial
<1>5. CASE CloseSocket(c)
  <2>1. CASE tcpConn = Nil
    BY <1>2, <1>5, <2>1 DEF CloseSocket, Panic, net
  <2>2. CASE tcpConn # Nil
    <3>1. sock' = [sock EXCEPT ![tcpConn] = ClosedSocket] /\ UNCHANGED tcpConn
      BY <1>5, <2>2 DEF CloseSocket, Closed, conn
    <3>2. tcpConn \in Sockets /\ sock \in [Sockets -> Socket]
      BY <1>1, <2>2, ConnIsSocket DEF TypeOK
    <3>3. sock'[tcpConn] = ClosedSocket
      BY <3>1, <3>2
    <3> QED
      BY <3>1, <3>3 DEF OneInFlight, Quiet, ClosedSocket
  <2> QED
    BY <2>1, <2>2
<1>6. CASE ClearSocket(c)
  BY <1>6 DEF ClearSocket, OneInFlight
<1>7. CASE WindsUp(c)
  BY <1>2, <1>7, WindingUp
<1> QED
  BY <1>3, <1>4, <1>5, <1>6, <1>7 DEF Outside

\* The device that drops a message leaves the socket with what it had, or less.
LEMMA InFlightDropped ==
    ASSUME TypeOKAPI, OneInFlight, NEW s \in Sockets, DeviceDrops(s)
    PROVE  OneInFlight'
<1> DEFINE k == sock[tcpConn]
<1>1. UNCHANGED <<tcpConn, dirty, stack>> /\ TypeOK
  BY DEF DeviceDrops, DeviceUnchanged, TypeOKAPI
<1>2. SUFFICES ASSUME tcpConn # Nil, tcpConn \notin dirty
               PROVE  Quiet(sock'[tcpConn]) \/ (Reading /\ Carries(sock'[tcpConn], Top.pkt.ctx))
  BY <1>1 DEF OneInFlight, Reading, Top
<1>3. /\ tcpConn \in Sockets /\ k \in Socket /\ sock \in [Sockets -> Socket]
      /\ sock[s] \in Socket
  BY <1>1, <1>2, ConnIsSocket DEF TypeOK
<1>4. CASE s # tcpConn
  BY <1>2, <1>3, <1>4 DEF DeviceDrops, OneInFlight
<1>5. CASE s = tcpConn
  <2>1. k.in # << >> /\ sock'[tcpConn] = [k EXCEPT !.in = Tail(@)]
    BY <1>3, <1>5 DEF DeviceDrops, UnknownConnection
  <2>2. sock'[tcpConn].in = Tail(k.in) /\ sock'[tcpConn].out = k.out
    BY <1>3, <2>1 DEF Socket
  <2>3. k.out = << >> /\ Tail(k.in) = << >>
    BY <1>1, <1>2, <2>1, OnlyRequest
  <2> QED
    BY <2>2, <2>3 DEF Quiet
<1> QED
  BY <1>4, <1>5

LEMMA InFlightNextAPI ==
    ASSUME TypeOKAPI, HoldsLock, OneInFlight, [NextAPI]_allVars
    PROVE  OneInFlight'
<1>1. TypeOK
  BY DEF TypeOKAPI
<1>2. CASE Requesting
  BY <1>1, <1>2, InFlightByProgram DEF Requesting
<1>3. CASE DeviceMoves
  <2>1. PICK s \in Sockets : DeviceServes(s) \/ DeviceDrops(s) \/ DeviceFails(s)
    BY <1>3 DEF DeviceMoves
  <2>2. CASE DeviceServes(s) \/ DeviceFails(s)
    <3>1. ASSUME NEW body \in Responses(s, Head(sock[s].in)), Serve(s, body), sock[s].in # << >>
          PROVE  body \in Bodies
      <4>1. s \in 0 .. Garbage /\ Garbage \in 0 .. Garbage
        BY TransportAssumption DEF Sockets, Garbage
      <4> QED
        BY <3>1, <4>1, BodiesOf, Zeros DEF Responses
    <3>2. Device
      BY <2>2, <3>1 DEF Device, DeviceServes, DeviceFails
    <3> QED
      BY <1>1, <3>2, DeviceInFlight
  <2> QED
    BY <2>1, <2>2, InFlightDropped
<1>4. CASE UNCHANGED allVars
  BY <1>4 DEF allVars, vars, net, OneInFlight, Reading, Top
<1>5. ASSUME NEW c \in Clients, ClientCall(c) \/ Lock(c) \/ ClientStep(c) PROVE OneInFlight'
  <2>1. CASE Lock(c)
    <3>1. ~Reading /\ UNCHANGED <<tcpConn, sock, dirty>>
      BY <2>1, LockHeld DEF Reading
    <3> QED
      BY <3>1 DEF OneInFlight
  <2>2. CASE Unlock(c)
    <3>1. ~Reading /\ UNCHANGED <<tcpConn, sock, dirty>>
      BY <2>2, LockReleased
    <3> QED
      BY <3>1 DEF OneInFlight
  <2> QED
    BY <1>5, <2>1, <2>2, InFlightOutside DEF ClientCall, ClientStep, Outside, WindsUp
<1> QED
  BY <1>2, <1>3, <1>4, <1>5, StepOfAPI

LEMMA InFlightInitAPI ==
    ASSUME InitAPI
    PROVE  OneInFlight
BY InFlightInit DEF InitAPI

LEMMA SharedInFlight == SpecAPI => [](TypeOKAPI /\ OneInFlight)
<1>1. TypeOKAPI /\ HoldsLock /\ OneInFlight /\ [NextAPI]_allVars => OneInFlight'
  BY InFlightNextAPI
<1> QED
  BY <1>1, InFlightInitAPI, SharedTypes, OneRequestAtATime, PTL DEF SpecAPI

\* Requests and replies stay in step on a socket that no call has given up on, whatever
\* Connect, Close and UnRegisterSession do to t.tcpConn without requestLock.
THEOREM SharedInStep == SpecAPI => []InStep
<1>1. TypeOKAPI /\ OneInFlight => InStep
  BY InFlightInStep DEF TypeOKAPI
<1> QED
  BY <1>1, SharedInFlight, PTL

\* No goroutine gets the answer to another's request, unless an earlier call gave up on
\* the same socket.
THEOREM SharedRepliesAreOwn == SpecAPI => OwnReply
<1>1. TypeOKAPI /\ OneInFlight /\ [NextAPI]_allVars
         => [ReadReply /\ tcpConn \notin dirty
                => Head(sock[tcpConn].out).ctx = Top.pkt.ctx]_vars
  <2> SUFFICES ASSUME TypeOKAPI, OneInFlight, ReadReply, tcpConn \notin dirty
               PROVE  Head(sock[tcpConn].out).ctx = Top.pkt.ctx
    OBVIOUS
  <2> QED
    BY WholeReply DEF ReadReply, TypeOKAPI
<1> QED
  BY <1>1, SharedInFlight, PTL DEF SpecAPI, OwnReply

-----------------------------------------------------------------------------
(* Handles, and what is in flight.                                         *)

\* What a step does to the sockets and to t.tcpConn: nothing that is not in Evolves, and
\* a socket that t.tcpConn comes to point at has just been dialled.
LEMMA SocketsOutside ==
    ASSUME TypeOKAPI, NEW c \in Clients, Outside(c)
    PROVE  /\ SocketsEvolve /\ dials <= dials'
           /\ \/ tcpConn' \in {tcpConn, Nil}
              \/ /\ ConnectDial(c) /\ tcpConn' \in Sockets /\ tcpConn' = dials + 1
                 /\ dials' = tcpConn' /\ sock'[tcpConn'] = FreshSocket
<1>1. TypeOK /\ dials \in Nat
  BY TransportAssumption DEF TypeOKAPI, TypeOK
<1>2. CASE \/ ConnectBegin(c) \/ MethodBegins(c) \/ SendBegin(c) \/ SendCount(c) \/ SendBuild(c)
           \/ ConnectDone(c) \/ Legacy(c) \/ ForwardOpenDone(c) \/ ForwardCloseDone(c)
           \/ MethodReturns(c)
  <2>1. UNCHANGED <<tcpConn, sock, dials>>
    BY <1>2 DEF ConnectBegin, MethodBegins, SendBegin, SendCount, SendBuild, ConnectDone, Legacy,
       ForwardOpenDone, ForwardCloseDone, MethodReturns, conn, path, net
  <2> QED
    BY <1>1, <2>1, UnchangedEvolves
<1>3. CASE ConnectDial(c)
  <2>1. CASE DialError /\ UNCHANGED tcpConn
    <3>1. UNCHANGED <<sock, dials>>
      BY <2>1 DEF DialError, net
    <3> QED
      BY <1>1, <2>1, <3>1, UnchangedEvolves
  <2>2. ASSUME NEW s \in Sockets, DialOk(s), tcpConn' = s
        PROVE  /\ SocketsEvolve /\ dials <= dials' /\ tcpConn' \in Sockets
               /\ tcpConn' = dials + 1 /\ dials' = tcpConn' /\ sock'[tcpConn'] = FreshSocket
    BY <1>1, <2>2, DialledEvolves
  <2> QED
    BY <1>3, <2>1, <2>2 DEF ConnectDial
<1>4. CASE CloseSocket(c)
  <2>1. CASE tcpConn = Nil
    <3>1. UNCHANGED <<tcpConn, sock, dials>>
      BY <1>4, <2>1 DEF CloseSocket, Panic, net
    <3> QED
      BY <1>1, <3>1, UnchangedEvolves
  <2>2. CASE tcpConn # Nil
    <3>1. sock' = Closed(tcpConn) /\ UNCHANGED <<tcpConn, dials>>
      BY <1>4, <2>2 DEF CloseSocket, conn
    <3> QED
      BY <1>1, <2>2, <3>1, ClosedEvolves
  <2> QED
    BY <2>1, <2>2
<1>5. CASE ClearSocket(c)
  <2>1. UNCHANGED <<sock, dials>> /\ tcpConn' = Nil
    BY <1>5 DEF ClearSocket, net
  <2> QED
    BY <1>1, <2>1, UnchangedEvolves
<1>6. CASE WindsUp(c)
  <2>1. UNCHANGED <<tcpConn, sock, dials>>
    BY <1>6, WindingUp
  <2> QED
    BY <1>1, <2>1, UnchangedEvolves
<1> QED
  BY <1>2, <1>3, <1>4, <1>5, <1>6 DEF Outside

LEMMA SocketsNext ==
    ASSUME TypeOKAPI, [NextAPI]_allVars
    PROVE  /\ SocketsEvolve /\ dials <= dials'
           /\ \/ tcpConn' \in {tcpConn, Nil}
              \/ /\ tcpConn' \in Sockets /\ tcpConn' = dials + 1
                 /\ dials' = tcpConn' /\ sock'[tcpConn'] = FreshSocket
<1>1. TypeOK /\ dials \in Nat
  BY TransportAssumption DEF TypeOKAPI, TypeOK
<1>2. CASE Requesting
  <2>1. SocketsEvolve /\ RequestStep
    BY <1>1, <1>2, RequestSockets DEF Requesting
  <2>2. ASSUME NEW s \in Sockets, Redials(s)
        PROVE  /\ dials <= dials' /\ tcpConn' \in Sockets /\ tcpConn' = dials + 1
               /\ dials' = tcpConn' /\ sock'[tcpConn'] = FreshSocket
    BY <1>1, <2>2, DialledEvolves DEF Redials
  <2>3. CASE MovesOn \/ Unwinds \/ Drops \/ Panic
    BY <1>1, <2>1, <2>3 DEF MovesOn, Unwinds, Drops, Panic, Known, net
  <2>4. CASE Reads
    BY <1>1, <2>1, <2>4, RequestCases, ReadTypes
  <2> QED
    BY <2>1, <2>2, <2>3, <2>4, RequestCases
<1>3. CASE DeviceMoves
  BY <1>1, <1>3, DeviceEvolves
<1>4. CASE UNCHANGED allVars
  BY <1>1, <1>4, UnchangedEvolves DEF allVars, vars, net
<1>5. ASSUME NEW c \in Clients, Lock(c) \/ Unlock(c)
      PROVE  SocketsEvolve /\ dials <= dials' /\ tcpConn' = tcpConn
  <2>1. UNCHANGED <<tcpConn, sock, dials>>
    BY <1>5 DEF Lock, Unlock, conn, net
  <2> QED
    BY <1>1, <2>1, UnchangedEvolves
<1> QED
  BY <1>2, <1>3, <1>4, <1>5, SocketsOutside, StepOfAPI DEF ClientCall, ClientStep, Outside, WindsUp

\* What is in a socket after a step.
LEMMA InAfter ==
    ASSUME SocketsEvolve, NEW s \in Sockets, NEW i \in DOMAIN sock'[s].in
    PROVE  \/ \E j \in DOMAIN sock[s].in : sock'[s].in[i] = sock[s].in[j]
           \/ stack # << >> /\ s = tcpConn /\ sock'[s].in[i] = Top.pkt
<1>1. sock'[s].in[i] \in Range(sock'[s].in)
  BY DEF Range
<1> QED
  BY <1>1 DEF SocketsEvolve, Evolves, Range

LEMMA OutAfter ==
    ASSUME SocketsEvolve, NEW s \in Sockets, NEW i \in DOMAIN sock'[s].out
    PROVE  \/ \E j \in DOMAIN sock[s].out : sock'[s].out[i] = sock[s].out[j]
           \/ sock'[s].out[i] = Fragment
           \/ \E j \in DOMAIN sock[s].in : AnswerOf(s, sock[s].in[j], sock'[s].out[i])
<1>1. sock'[s].out[i] \in Range(sock'[s].out)
  BY DEF Range
<1> QED
  BY <1>1 DEF SocketsEvolve, Evolves, Range

LEMMA RequestsIn ==
    ASSUME TypeOK, NEW s \in Sockets, NEW j \in DOMAIN sock[s].in
    PROVE  sock[s].in[j] \in Request /\ sock[s].in # << >> /\ sock[s].in[j].sess \in Nat
<1>1. sock[s].in \in Seq(Request)
  BY SocketFields DEF TypeOK
<1>2. sock[s].in[j] \in Request /\ sock[s].in # << >>
  BY <1>1
<1> QED
  BY <1>2, TransportAssumption DEF Request, Handles

LEMMA RepliesNext ==
    ASSUME TypeOKAPI, RepliesNameSocket, [NextAPI]_allVars
    PROVE  RepliesNameSocket'
<1> SUFFICES ASSUME NEW s \in Sockets, NEW i \in DOMAIN sock'[s].out
             PROVE  sock'[s].out[i].body.conn \in {0, Garbage, s}
  BY DEF RepliesNameSocket
<1>1. ASSUME NEW j \in DOMAIN sock[s].in, AnswerOf(s, sock[s].in[j], sock'[s].out[i])
      PROVE  sock'[s].out[i].body.conn \in {0, Garbage, s}
  BY <1>1, RequestsIn, AnswerFacts DEF TypeOKAPI
<1> QED
  BY <1>1, SocketsNext, OutAfter, FragmentFacts DEF RepliesNameSocket

LEMMA RepliesInit ==
    ASSUME InitAPI
    PROVE  RepliesNameSocket
BY DEF InitAPI, Init, RepliesNameSocket, ClosedSocket

\* The packets on the stack after a step of a request: the ones before, or the registration
\* of a new connection.
LEMMA PacketsAfter ==
    ASSUME TypeOK, RequestStep, NEW i \in DOMAIN stack'
    PROVE  stack'[i].pkt.sess = 0 \/ \E j \in DOMAIN stack : stack'[i].pkt = stack[j].pkt
<1>1. /\ stack \in Seq(Frame) /\ stack # << >> /\ Len(stack) \in Nat \ {0}
      /\ DOMAIN stack = 1 .. Len(stack) /\ 1 \in DOMAIN stack
  BY RequestCases, TopOfStack, LenProperties DEF TypeOK
<1>2. ASSUME NEW l \in Labels, Goto(l) PROVE \E j \in DOMAIN stack : stack'[i].pkt = stack[j].pkt
  <2>1. /\ stack' \in Seq(Frame) /\ Len(stack') = Len(stack)
        /\ \A j \in 1 .. Len(stack) : stack'[j].pkt = stack[j].pkt
    BY <1>1, <1>2, GotoStack
  <2> QED
    BY <1>1, <2>1, LenProperties
<1>3. ASSUME NEW n \in {0, 1}, Fail(n) PROVE \E j \in DOMAIN stack : stack'[i].pkt = stack[j].pkt
  <2>1. stack' \in Seq(Frame) /\ Len(stack') = 1 /\ stack'[1].pkt = stack[1].pkt
    BY <1>1, <1>3, FailStack
  <2>2. i = 1
    BY <2>1, LenProperties
  <2> QED
    BY <1>1, <2>1, <2>2
<1>4. CASE MovesOn \/ Drops
  BY <1>2, <1>4 DEF MovesOn, Drops, Labels, Working
<1>5. CASE Unwinds
  BY <1>3, <1>5 DEF Unwinds
<1>6. CASE Reads
  <2>1. CASE Goto("ok")
    BY <1>2, <2>1 DEF Labels, Finished
  <2>2. CASE Len(stack) > 1 /\ Resume
    <3>1. /\ stack' \in Seq(Frame) /\ Len(stack') = Len(stack) - 1
          /\ \A j \in 1 .. Len(stack) - 1 : stack'[j].pkt = stack[j].pkt
      BY <1>1, <2>2, ResumeStack
    <3>2. i \in 1 .. Len(stack) - 1
      BY <3>1, LenProperties
    <3>3. i \in 1 .. Len(stack)
      BY <1>1, <3>2
    <3> QED
      BY <1>1, <3>1, <3>2, <3>3
  <2> QED
    BY <1>6, <2>1, <2>2 DEF Reads, ReadReply, Succeed
<1>7. ASSUME NEW s \in Sockets, Redials(s)
      PROVE  stack'[i].pkt.sess = 0 \/ \E j \in DOMAIN stack : stack'[i].pkt = stack[j].pkt
  <2> DEFINE p == Packet("RegisterSession", nctx + 1, 0, NoBody)
  <2>1. p \in Request /\ p.sess = 0
    BY TransportAssumption DEF TypeOK, Packet, Request, Commands, Handles
  <2>2. Call(p)
    BY <1>7 DEF Redials
  <2> HIDE DEF p
  <2>3. /\ stack' \in Seq(Frame) /\ Len(stack') = Len(stack) + 1
        /\ \A j \in 1 .. Len(stack) : stack'[j] = stack[j]
        /\ stack'[Len(stack) + 1] = [pkt |-> p, at |-> "enter"]
    BY <1>1, <2>1, <2>2, CallStack
  <2>4. i \in 1 .. Len(stack) \/ i = Len(stack) + 1
    <3>1. i \in 1 .. Len(stack) + 1
      BY <2>3, LenProperties
    <3> QED
      BY <1>1, <3>1
  <2> QED
    BY <1>1, <2>1, <2>3, <2>4
<1>8. CASE Panic
  BY <1>8 DEF Panic
<1> QED
  BY <1>4, <1>5, <1>6, <1>7, <1>8, RequestCases

\* What a goroutine's packet says of the session after a step outside requestLock.
LEMMA SessionsOutside ==
    ASSUME TypeOKAPI, NEW c \in Clients, Outside(c)
    PROVE  /\ UNCHANGED session
           /\ \A d \in Clients : me'[d].pkt.sess \in {0, session, me[d].pkt.sess}
<1>1. me \in [Clients -> Local] /\ me[c] \in Local /\ nctx \in Nat /\ session \in Handles
  BY DEF TypeOKAPI, TypeOK
<1>2. ASSUME NEW l \in Local, Becomes(c, l), l.pkt.sess \in {0, session, me[c].pkt.sess}
      PROVE  \A d \in Clients : me'[d].pkt.sess \in {0, session, me[d].pkt.sess}
  BY <1>1, <1>2, BecomesTypes
<1>3. ASSUME NEW op \in Methods, NEW cmd \in Commands, NEW sess \in {0, session},
             NEW body \in Bodies, Want(c, op, cmd, sess, body)
      PROVE  \A d \in Clients : me'[d].pkt.sess \in {0, session, me[d].pkt.sess}
  <2>1. sess \in Handles
    BY <1>1, Zeros
  <2>2. PICK l \in Local :
           /\ Becomes(c, l)
           /\ l.pkt = [cmd |-> cmd, ctx |-> nctx + 1, sess |-> sess, body |-> body]
    BY <1>1, <1>3, <2>1, WantBecomes
  <2>3. l.pkt.sess = sess
    BY <2>2
  <2> QED
    BY <1>2, <2>2, <2>3
<1>4. ASSUME NEW label \in Labels2, Step(c, label)
      PROVE  \A d \in Clients : me'[d].pkt.sess \in {0, session, me[d].pkt.sess}
  BY <1>1, <1>2, <1>4, StepBecomes
<1>5. IdleClient.pkt.sess = 0
  BY DEF IdleClient, NoPacket, Packet
<1>6. ASSUME Finish(c)
      PROVE  \A d \in Clients : me'[d].pkt.sess \in {0, session, me[d].pkt.sess}
  BY <1>2, <1>5, <1>6, FinishBecomes
<1>7. /\ NoBody \in Bodies /\ Body("ForwardOpen", 0, 0) \in Bodies
      /\ Body("ForwardClose", connID, 0) \in Bodies /\ Body("Data", 0, 0) \in Bodies
      /\ Body("Data", connID, seqNum) \in Bodies
  BY TransportAssumption, BodiesOf, Zeros DEF TypeOKAPI
<1> USE DEF conn, prog
<1>8. CASE ConnectBegin(c)
  <2> DEFINE l == [IdleClient EXCEPT !.pc = "dial", !.op = "Connect"]
  <2>1. l \in Local /\ l.pkt.sess = 0
    BY <1>5, IdleIsLocal DEF Local, Methods
  <2>2. Becomes(c, l) /\ UNCHANGED session
    BY <1>8 DEF ConnectBegin, Becomes
  <2> HIDE DEF l
  <2> QED
    BY <1>2, <2>1, <2>2
<1>9. CASE MethodBegins(c)
  BY <1>3, <1>7, <1>9 DEF MethodBegins, Methods, Commands
<1>10. CASE SendBegin(c)
  <2> DEFINE l == [IdleClient EXCEPT !.pc = "count", !.op = "Send"]
  <2>1. l \in Local /\ l.pkt.sess = 0
    BY <1>5, IdleIsLocal DEF Local, Methods
  <2>2. UNCHANGED session
    BY <1>10 DEF SendBegin
  <2>3. me' = [me EXCEPT ![c] = l] \/ Want(c, "Send", "SendRRData", session, Body("Data", 0, 0))
    BY <1>10 DEF SendBegin
  <2> HIDE DEF l
  <2> QED
    BY <1>2, <1>3, <1>7, <2>1, <2>2, <2>3 DEF Methods, Commands, Becomes
<1>11. CASE ConnectDial(c)
  BY <1>3, <1>6, <1>7, <1>11 DEF ConnectDial, Methods, Commands
<1>12. CASE SendCount(c)
  BY <1>4, <1>12 DEF SendCount, Labels2
<1>13. CASE SendBuild(c)
  BY <1>3, <1>7, <1>13 DEF SendBuild, Methods, Commands
<1>14. CASE ConnectDone(c) \/ ForwardOpenDone(c) \/ ForwardCloseDone(c) \/ MethodReturns(c)
  BY <1>6, <1>14 DEF ConnectDone, ForwardOpenDone, ForwardCloseDone, MethodReturns
<1>15. CASE CloseSocket(c)
  <2>1. CASE tcpConn = Nil
    BY <1>15, <2>1 DEF CloseSocket, Panic
  <2>2. CASE tcpConn # Nil
    BY <1>4, <1>15, <2>2 DEF CloseSocket, Labels2
  <2> QED
    BY <2>1, <2>2
<1>16. CASE ClearSocket(c)
  BY <1>4, <1>6, <1>16 DEF ClearSocket, Labels2
<1>17. CASE WindsUp(c)
  <2>1. ASSUME NEW label \in {"reclose", "report", "reset"}, Step(c, label)
        PROVE  \A d \in Clients : me'[d].pkt.sess \in {0, session, me[d].pkt.sess}
    BY <1>4, <2>1 DEF Labels2
  <2> QED
    BY <1>6, <1>17, <2>1, WindingUp
<1>18. CASE Legacy(c)
  <2> DEFINE p == [me[c].pkt EXCEPT !.cmd = "SendRRDataLegacy", !.sess = session]
             l == [me[c] EXCEPT !.pc = "want", !.pkt = p]
  <2>1. p \in Request /\ p.sess = session
    BY <1>1 DEF Local, Request, Commands
  <2>2. Becomes(c, l) /\ UNCHANGED session
    BY <1>18 DEF Legacy, Becomes
  <2> HIDE DEF p
  <2>3. l \in Local /\ l.pkt.sess = session
    BY <1>1, <2>1 DEF Local
  <2> HIDE DEF l
  <2> QED
    BY <1>2, <2>2, <2>3
<1> QED
  BY <1>8, <1>9, <1>10, <1>11, <1>12, <1>13, <1>14, <1>15, <1>16, <1>17, <1>18 DEF Outside

\* The handles that a step brings.
LEMMA SessionsNext ==
    ASSUME TypeOKAPI, HoldsLock, [NextAPI]_allVars
    PROVE  /\ \/ UNCHANGED session
              \/ /\ tcpConn # Nil /\ sock[tcpConn].out # << >>
                 /\ session' = Head(sock[tcpConn].out).sess
           /\ \A d \in Clients : me'[d].pkt.sess \in {0, session, me[d].pkt.sess}
           /\ \A i \in DOMAIN stack' :
                 \/ stack'[i].pkt.sess = 0
                 \/ \E j \in DOMAIN stack : stack'[i].pkt = stack[j].pkt
                 \/ \E d \in Clients : stack'[i].pkt = me[d].pkt
<1>1. CASE Requesting
  <2>1. UNCHANGED me /\ RequestStep /\ TypeOK
    BY <1>1 DEF Requesting, api, TypeOKAPI
  <2>2. CASE Reads
    <3>1. tcpConn # Nil /\ sock[tcpConn].out # << >> /\ Succeed(Head(sock[tcpConn].out))
      BY <2>2 DEF Reads, ReadReply
    <3>2. session' = Head(sock[tcpConn].out).sess \/ UNCHANGED session
      BY <3>1 DEF Succeed, TakeSession
    <3> QED
      BY <2>1, <3>1, <3>2, PacketsAfter
  <2>3. CASE MovesOn \/ Unwinds \/ Drops \/ Panic \/ \E s \in Sockets : Redials(s)
    <3>1. UNCHANGED session
      BY <2>3 DEF MovesOn, Unwinds, Drops, Panic, Redials, Known, prog
    <3> QED
      BY <2>1, <3>1, PacketsAfter
  <2> QED
    BY <2>1, <2>2, <2>3, RequestCases
<1>2. CASE DeviceMoves \/ UNCHANGED allVars
  BY <1>2, DeviceEvolves DEF TypeOKAPI, allVars, vars, prog, api
<1>3. ASSUME NEW c \in Clients, Outside(c)
      PROVE  /\ UNCHANGED <<session, stack>>
             /\ \A d \in Clients : me'[d].pkt.sess \in {0, session, me[d].pkt.sess}
  BY <1>3, SessionsOutside, OutsideLock
<1>4. ASSUME NEW c \in Clients, Lock(c)
      PROVE  /\ UNCHANGED session
             /\ \A d \in Clients : me'[d].pkt.sess = me[d].pkt.sess
             /\ \A i \in DOMAIN stack' : stack'[i].pkt = me[c].pkt
  <2>1. me \in [Clients -> Local] /\ me[c].pkt \in Request /\ stack = << >>
    BY <1>4, LockHeld DEF TypeOKAPI, Local
  <2>2. PICK l \in Local : Becomes(c, l) /\ l.pkt = me[c].pkt
    BY <1>4, <2>1, StepBecomes DEF Lock, Labels2
  <2>3. \A d \in Clients : me'[d].pkt.sess = me[d].pkt.sess
    BY <2>1, <2>2, BecomesTypes
  <2>4. stack \in Seq(Frame) /\ Len(stack') = 1 /\ stack'[1].pkt = me[c].pkt
    BY <1>4, <2>1, CallAlone DEF Lock, TypeOKAPI, TypeOK
  <2>5. stack' \in Seq(Frame)
    BY <1>4, <2>1, <2>4, CallStack DEF Lock
  <2>6. \A i \in DOMAIN stack' : i = 1
    BY <2>4, <2>5, LenProperties
  <2> QED
    BY <1>4, <2>3, <2>4, <2>6 DEF Lock, conn, prog
<1>5. ASSUME NEW c \in Clients, Unlock(c)
      PROVE  /\ UNCHANGED session
             /\ \A d \in Clients : me'[d].pkt.sess = me[d].pkt.sess
             /\ DOMAIN stack' = {}
  <2>1. me \in [Clients -> Local] /\ me[c] \in Local /\ resp \in Reply
    BY DEF TypeOKAPI, TypeOK
  <2>2. me'[c].pkt = me[c].pkt /\ \A d \in Clients \ {c} : me'[d] = me[d]
    BY <1>5, <2>1 DEF Unlock, Local
  <2>3. UNCHANGED session /\ stack' = << >>
    BY <1>5 DEF Unlock, Pop, conn, prog
  <2> QED
    BY <2>2, <2>3
<1> QED
  BY <1>1, <1>2, <1>3, <1>4, <1>5, StepOfAPI DEF ClientCall, ClientStep, Outside, WindsUp

LEMMA HandlesNext ==
    ASSUME TypeOKAPI, HoldsLock, HandlesDialled, [NextAPI]_allVars
    PROVE  HandlesDialled'
<1>1. TypeOK /\ TypeOKAPI'
  BY TypesNext DEF TypeOKAPI
<1>2. /\ dials \in Nat /\ dials' \in Nat /\ dials <= dials'
      /\ \A h \in Handles : h \in Nat
      /\ tcpConn \in Nat /\ session \in Nat
  <2>1. MaxSockets \in Nat /\ dials <= dials'
    BY SocketsNext, TransportAssumption
  <2>2. dials \in 0 .. MaxSockets /\ dials' \in 0 .. MaxSockets
    BY <1>1 DEF TypeOKAPI, TypeOK
  <2>3. tcpConn \in Handles /\ session \in Handles
    BY <1>1 DEF TypeOK
  <2> QED
    BY <2>1, <2>2, <2>3 DEF Handles
<1>3. \A h \in Nat : h <= dials => h <= dials'
  BY <1>2
<1>4. ASSUME tcpConn # Nil, sock[tcpConn].out # << >>
      PROVE  Head(sock[tcpConn].out).sess <= dials
  <2>1. sock[tcpConn].out \in Seq(Reply) /\ tcpConn \in Sockets
    BY <1>1, <1>4, ConnIsSocket, SocketFields
  <2>2. 1 \in DOMAIN sock[tcpConn].out /\ Head(sock[tcpConn].out) = sock[tcpConn].out[1]
    BY <1>4, <2>1, EmptySeq, LenProperties
  <2> QED
    BY <2>1, <2>2 DEF HandlesDialled
<1>5. session' <= dials'
  <2>1. session' \in Nat
    BY <1>1, TransportAssumption DEF TypeOKAPI, TypeOK, Handles
  <2> QED
    BY <1>3, <1>4, <2>1, SessionsNext DEF HandlesDialled
<1>6. tcpConn' <= dials'
  <2>1. CASE tcpConn' \in {tcpConn, Nil}
    BY <1>2, <1>3, <2>1 DEF HandlesDialled, Nil
  <2>2. CASE tcpConn' = dials + 1 /\ dials' = tcpConn'
    BY <1>2, <2>2
  <2> QED
    BY <2>1, <2>2, SocketsNext
<1>7. \A i \in DOMAIN stack : stack[i].pkt.sess <= dials /\ stack[i].pkt.sess \in Nat
  <2>1. \A i \in DOMAIN stack : stack[i] \in Frame
    BY <1>1 DEF TypeOK
  <2> QED
    BY <1>2, <2>1 DEF HandlesDialled, Frame, Request
<1>8. \A c \in Clients : me[c].pkt.sess <= dials /\ me[c].pkt.sess \in Nat
  BY <1>2 DEF HandlesDialled, TypeOKAPI, Local, Request
<1>9. \A i \in DOMAIN stack' : stack'[i].pkt.sess <= dials'
  BY <1>2, <1>3, <1>7, <1>8, SessionsNext
<1>10. \A c \in Clients : me'[c].pkt.sess <= dials'
  <2>1. \A c \in Clients : me'[c].pkt.sess \in {0, session, me[c].pkt.sess}
    BY SessionsNext
  <2> QED
    BY <1>2, <1>3, <1>8, <2>1 DEF HandlesDialled
<1>11. ASSUME NEW s \in Sockets, NEW r \in Request,
              \/ \E j \in DOMAIN sock[s].in : r = sock[s].in[j]
              \/ stack # << >> /\ s = tcpConn /\ r = Top.pkt
       PROVE  s <= dials' /\ r.sess <= dials' /\ s \in Nat /\ r.sess \in Nat
  <2>1. s \in Nat /\ r.sess \in Nat
    BY <1>2 DEF Sockets, Request
  <2>2. CASE \E j \in DOMAIN sock[s].in : r = sock[s].in[j]
    BY <1>1, <1>3, <2>1, <2>2, RequestsIn DEF HandlesDialled
  <2>3. CASE stack # << >> /\ s = tcpConn /\ r = Top.pkt
    <3>1. Len(stack) \in DOMAIN stack
      BY <1>1, <2>3, TopOfStack, LenProperties DEF TypeOK
    <3> QED
      BY <1>3, <1>7, <2>1, <2>3, <3>1 DEF Top, HandlesDialled
  <2> QED
    BY <1>11, <2>1, <2>2, <2>3
<1>12. ASSUME NEW s \in Sockets, NEW i \in DOMAIN sock'[s].in
       PROVE  s <= dials' /\ sock'[s].in[i].sess <= dials'
  <2>1. sock'[s].in[i] \in Request
    <3>1. sock' \in [Sockets -> Socket]
      BY <1>1 DEF TypeOKAPI, TypeOK
    <3>2. sock'[s].in \in Seq(Request)
      BY <3>1 DEF Socket
    <3> QED
      BY <3>2
  <2> QED
    BY <1>11, <2>1, SocketsNext, InAfter
<1>13. ASSUME NEW s \in Sockets, NEW i \in DOMAIN sock'[s].out
       PROVE  sock'[s].out[i].sess <= dials'
  <2>1. CASE \E j \in DOMAIN sock[s].out : sock'[s].out[i] = sock[s].out[j]
    <3>1. PICK j \in DOMAIN sock[s].out : sock'[s].out[i] = sock[s].out[j]
      BY <2>1
    <3>2. sock[s].out \in Seq(Reply)
      BY <1>1, SocketFields DEF TypeOK
    <3>3. sock[s].out[j].sess \in Nat
      <4>1. sock[s].out[j] \in Reply
        BY <3>1, <3>2
      <4> QED
        BY <1>2, <4>1 DEF Reply
    <3> QED
      BY <1>3, <3>1, <3>3 DEF HandlesDialled
  <2>2. CASE sock'[s].out[i] = Fragment
    BY <1>2, <2>2, FragmentFacts
  <2>3. ASSUME NEW j \in DOMAIN sock[s].in, AnswerOf(s, sock[s].in[j], sock'[s].out[i])
        PROVE  sock'[s].out[i].sess <= dials'
    <3>1. sock[s].in[j] \in Request
      BY <1>1, RequestsIn
    <3>2. s <= dials' /\ sock[s].in[j].sess <= dials'
      BY <1>11, <3>1
    <3>3. sock'[s].out[i].sess \in {0, s, sock[s].in[j].sess}
      BY <2>3, <3>1, AnswerFacts
    <3> QED
      BY <1>2, <3>2, <3>3
  <2> QED
    BY <2>1, <2>2, <2>3, SocketsNext, OutAfter
<1>14. ASSUME NEW s \in Sockets, sock'[s].in # << >> PROVE s <= dials'
  <2>1. sock' \in [Sockets -> Socket]
    BY <1>1 DEF TypeOKAPI, TypeOK
  <2>2. sock'[s].in \in Seq(Request)
    BY <2>1 DEF Socket
  <2>3. 1 \in DOMAIN sock'[s].in
    BY <1>14, <2>2, EmptySeq, LenProperties
  <2> QED
    BY <1>12, <2>3
<1> QED
  BY <1>5, <1>6, <1>9, <1>10, <1>12, <1>13, <1>14 DEF HandlesDialled

LEMMA HandlesInit ==
    ASSUME InitAPI
    PROVE  HandlesDialled
<1>1. \A s \in Sockets : sock[s].in = << >> /\ sock[s].out = << >>
  BY DEF InitAPI, Init, ClosedSocket
<1>2. IdleClient.pkt.sess = 0
  BY DEF IdleClient, NoPacket, Packet
<1> QED
  BY <1>1, <1>2 DEF InitAPI, Init, HandlesDialled, Nil

\* Outside requestLock nobody touches the response, or gives up on a socket.
LEMMA ResponseOutside ==
    ASSUME NEW c \in Clients, Outside(c)
    PROVE  UNCHANGED <<resp, dirty>>
<1>1. CASE CloseSocket(c)
  BY <1>1 DEF CloseSocket, Panic, path
<1>2. CASE WindsUp(c)
  BY <1>2, WindingUp
<1> QED
  BY <1>1, <1>2 DEF Outside, ConnectBegin, MethodBegins, SendBegin, ConnectDial, SendCount,
     SendBuild, ConnectDone, ClearSocket, Legacy, ForwardOpenDone, ForwardCloseDone,
     MethodReturns, path

\* A request that makes a step is at work.
LEMMA RequestWorks ==
    ASSUME RequestStep
    PROVE  Top.at \in Working
BY DEF RequestStep, Enter, FirstWrite, RetryWrite, Write, FirstWriteFails, RetryWriteFails,
   WriteError, ReadReply, FirstReadFails, RetryReadFails, ReadError, NilDereference,
   ReconnectBegin, Reconnect, RedialOk, RedialFails, At, Working

\* A response is held only by a call that has ended.
LEMMA ResponseNext ==
    ASSUME TypeOKAPI, HoldsLock, ResponseOfOk, [NextAPI]_allVars
    PROVE  ResponseOfOk'
<1>1. TypeOK /\ stack \in Seq(Frame)
  BY DEF TypeOKAPI, TypeOK
<1>2. ASSUME UNCHANGED <<stack, resp>> PROVE ResponseOfOk'
  BY <1>2 DEF ResponseOfOk, Top
<1>3. CASE Requesting
  <2>1. RequestStep /\ stack # << >>
    BY <1>3, RequestCases DEF Requesting
  <2>2. CASE MovesOn \/ Unwinds \/ Drops \/ \E s \in Sockets : Redials(s)
    <3>1. UNCHANGED resp
      BY <2>2 DEF MovesOn, Unwinds, Drops, Redials, Known
    <3>2. Top.at # "ok"
      <4>1. Top.at \in Working
        BY <1>1, <2>1, RequestWorks
      <4> QED
        BY <4>1 DEF Working
    <3> QED
      BY <3>1, <3>2 DEF ResponseOfOk
  <2>3. CASE Reads
    <3>1. CASE Goto("ok")
      BY <1>1, <2>1, <3>1, GotoStack DEF ResponseOfOk, Labels, Finished
    <3>2. CASE UNCHANGED resp
      BY <2>3, <3>2 DEF Reads, ResponseOfOk
    <3> QED
      BY <2>3, <3>1, <3>2 DEF Reads, ReadReply, Succeed
  <2>4. CASE Panic
    BY <1>2, <2>4 DEF Panic
  <2> QED
    BY <2>1, <2>2, <2>3, <2>4, RequestCases
<1>4. CASE DeviceMoves \/ UNCHANGED allVars
  BY <1>1, <1>2, <1>4, DeviceEvolves DEF allVars, vars
<1>5. ASSUME NEW c \in Clients, Outside(c) PROVE ResponseOfOk'
  BY <1>2, <1>5, OutsideLock, ResponseOutside
<1>6. ASSUME NEW c \in Clients, Lock(c) PROVE ResponseOfOk'
  BY <1>6, LockHeld DEF Lock, ResponseOfOk
<1>7. ASSUME NEW c \in Clients, Unlock(c) PROVE ResponseOfOk'
  BY <1>7 DEF Unlock, Pop, ResponseOfOk
<1> QED
  BY <1>3, <1>4, <1>5, <1>6, <1>7, StepOfAPI DEF ClientCall, ClientStep, Outside, WindsUp

LEMMA ResponseInit ==
    ASSUME InitAPI
    PROVE  ResponseOfOk
BY DEF InitAPI, Init, ResponseOfOk

-----------------------------------------------------------------------------
(* What a request in progress finds on its socket is its own.              *)

\* A request that reads after a step read, or was told to, before it, on the same socket.
LEMMA ReadingKeepsPacket ==
    ASSUME TypeOK, RequestStep, Reading'
    PROVE  Top'.pkt = Top.pkt /\ UNCHANGED <<tcpConn, dirty>>
<1>1. stack \in Seq(Frame) /\ stack # << >>
  BY RequestCases DEF TypeOK
<1>2. ASSUME NEW l \in Labels, Goto(l) PROVE Top'.pkt = Top.pkt /\ Top'.at = l
  BY <1>1, <1>2, GotoStack
<1>3. CASE MovesOn
  BY <1>2, <1>3 DEF MovesOn, Known, Labels
<1>4. CASE Unwinds
  <2>1. Top'.at = "error"
    BY <1>1, <1>4, FailStack DEF Unwinds
  <2> QED
    BY <2>1 DEF Reading
<1>5. CASE Reads
  <2>1. CASE Goto("ok")
    <3>1. Top'.at = "ok"
      BY <1>2, <2>1 DEF Labels, Finished
    <3> QED
      BY <3>1 DEF Reading
  <2>2. CASE Len(stack) > 1 /\ Resume
    <3>1. Top'.at \in {"rewriteW", "rewriteR"}
      BY <1>1, <2>2, ResumeStack
    <3> QED
      BY <3>1 DEF Reading
  <2> QED
    BY <1>5, <2>1, <2>2 DEF Reads, ReadReply, Succeed
<1>6. CASE Drops
  <2>1. Top'.at \in {"dialW", "dialR"}
    BY <1>2, <1>6 DEF Drops, Labels, Working
  <2> QED
    BY <2>1 DEF Reading
<1>7. ASSUME NEW s \in Sockets, Redials(s) PROVE FALSE
  <2> DEFINE p == Packet("RegisterSession", nctx + 1, 0, NoBody)
  <2>1. p \in Request /\ Call(p)
    BY <1>7, TransportAssumption DEF Redials, TypeOK, Packet, Request, Commands, Handles
  <2> HIDE DEF p
  <2>2. Top' = [pkt |-> p, at |-> "enter"]
    BY <1>1, <2>1, CallStack
  <2>3. Top'.at = "enter"
    BY <2>2
  <2> QED
    BY <2>3 DEF Reading
<1>8. CASE Panic
  BY <1>8 DEF Panic, Top
<1> QED
  BY <1>3, <1>4, <1>5, <1>6, <1>7, <1>8, RequestCases

\* On the same socket, what is in flight is still the packet of the request in progress and
\* the answers to it.
LEMMA AnswersKept ==
    ASSUME TypeOK, AnswersInFlight, SocketsEvolve, UNCHANGED <<tcpConn, dirty>>,
           stack # << >>, Top'.pkt = Top.pkt
    PROVE  AnswersInFlight'
<1> SUFFICES ASSUME tcpConn # Nil, tcpConn \notin dirty
             PROVE  /\ \A i \in DOMAIN sock'[tcpConn].in : sock'[tcpConn].in[i] = Top.pkt
                    /\ \A i \in DOMAIN sock'[tcpConn].out :
                          sock'[tcpConn].out[i] # Fragment =>
                              Answers(sock'[tcpConn].out[i], Top.pkt, tcpConn)
  BY DEF AnswersInFlight
<1>1. tcpConn \in Sockets
  BY ConnIsSocket
<1>2. \A i \in DOMAIN sock'[tcpConn].in : sock'[tcpConn].in[i] = Top.pkt
  BY <1>1, InAfter DEF AnswersInFlight
<1>3. ASSUME NEW i \in DOMAIN sock'[tcpConn].out, sock'[tcpConn].out[i] # Fragment
      PROVE  Answers(sock'[tcpConn].out[i], Top.pkt, tcpConn)
  <2>1. CASE \E j \in DOMAIN sock[tcpConn].out :
                sock'[tcpConn].out[i] = sock[tcpConn].out[j]
    BY <1>3, <2>1 DEF AnswersInFlight
  <2>2. ASSUME NEW j \in DOMAIN sock[tcpConn].in,
               AnswerOf(tcpConn, sock[tcpConn].in[j], sock'[tcpConn].out[i])
        PROVE  Answers(sock'[tcpConn].out[i], Top.pkt, tcpConn)
    <3>1. sock[tcpConn].in[j] = Top.pkt
      BY DEF AnswersInFlight
    <3>2. Top.pkt \in Request
      BY TopTypes
    <3> QED
      BY <1>1, <2>2, <3>1, <3>2, AnswerFacts
  <2> QED
    BY <1>1, <1>3, <2>1, <2>2, OutAfter
<1> QED
  BY <1>2, <1>3

LEMMA AnswersNext ==
    ASSUME TypeOKAPI, HoldsLock, OneInFlight, AnswersInFlight, [NextAPI]_allVars
    PROVE  AnswersInFlight'
<1>1. TypeOK /\ SocketsEvolve /\ OneInFlight'
  BY SocketsNext, InFlightNextAPI DEF TypeOKAPI
<1>2. ASSUME tcpConn' # Nil, Quiet(sock'[tcpConn']) PROVE AnswersInFlight'
  BY <1>2 DEF Quiet, AnswersInFlight
<1>3. CASE ~Reading'
  BY <1>1, <1>2, <1>3 DEF OneInFlight, AnswersInFlight
<1>4. ASSUME Reading', UNCHANGED <<stack, dirty>> PROVE AnswersInFlight'
  <2>1. stack # << >> /\ Top'.pkt = Top.pkt
    BY <1>4 DEF Reading, Top
  <2>2. CASE UNCHANGED tcpConn
    BY <1>1, <1>4, <2>1, <2>2, AnswersKept
  <2>3. CASE tcpConn' = Nil
    BY <2>3 DEF AnswersInFlight
  <2>4. CASE sock'[tcpConn'] = FreshSocket
    BY <1>2, <2>4 DEF Quiet, FreshSocket, AnswersInFlight
  <2> QED
    BY <2>2, <2>3, <2>4, SocketsNext
<1>5. CASE Reading' /\ Requesting
  <2>1. Top'.pkt = Top.pkt /\ UNCHANGED <<tcpConn, dirty>> /\ stack # << >>
    BY <1>1, <1>5, ReadingKeepsPacket, RequestCases DEF Requesting
  <2> QED
    BY <1>1, <2>1, AnswersKept
<1>6. CASE Reading' /\ (DeviceMoves \/ UNCHANGED allVars)
  BY <1>1, <1>4, <1>6, DeviceEvolves DEF allVars, vars
<1>7. ASSUME NEW c \in Clients, Outside(c), Reading' PROVE AnswersInFlight'
  BY <1>4, <1>7, OutsideLock, ResponseOutside
<1>8. ASSUME NEW c \in Clients, Lock(c), Reading' PROVE FALSE
  <2>1. me[c].pkt \in Request /\ stack = << >>
    BY <1>8, LockHeld DEF TypeOKAPI, Local
  <2>2. Len(stack') = 1 /\ stack'[1].at = "enter"
    BY <1>8, <2>1, CallAlone DEF Lock
  <2> QED
    BY <1>8, <2>2 DEF Reading, Top
<1>9. ASSUME NEW c \in Clients, Unlock(c), Reading' PROVE FALSE
  BY <1>9 DEF Unlock, Pop, Reading
<1> QED
  BY <1>3, <1>5, <1>6, <1>7, <1>8, <1>9, StepOfAPI DEF ClientCall, ClientStep, Outside, WindsUp

LEMMA AnswersInit ==
    ASSUME InitAPI
    PROVE  AnswersInFlight
BY DEF InitAPI, Init, AnswersInFlight

-----------------------------------------------------------------------------
(* When the goroutines take turns, the CIP connection and the session are  *)
(* those of the socket in use.                                             *)

\* What the lock, the handles and the queues say, whoever runs.
Shared ==
    /\ TypeOKAPI /\ HoldsLock /\ ResponseOfOk /\ HandlesDialled
    /\ OneInFlight /\ AnswersInFlight /\ RepliesNameSocket

LEMMA SharedNext ==
    ASSUME Shared, [NextAPI]_allVars
    PROVE  Shared'
BY TypesNext, LockNext, ResponseNext, HandlesNext, InFlightNextAPI, AnswersNext, RepliesNext
   DEF Shared

LEMMA SharedInit ==
    ASSUME InitAPI
    PROVE  Shared
BY TypesInit, LockInit, ResponseInit, HandlesInit, InFlightInitAPI, AnswersInit, RepliesInit
   DEF Shared

\* A goroutine that is alone in a call and not under requestLock finds no request.
LEMMA NoRequest ==
    ASSUME Shared, SequentialInv, Sequential, NEW c \in Clients, Outside(c)
    PROVE  /\ \A d \in Clients \ {c} : me[d].pc = "idle"
           /\ stack = << >> /\ resp = Fragment
           /\ RequestKnowsConnection'
<1>1. me[c].pc # "idle" \/ \E op \in Ops : Begin(c, op)
  BY WindingUp DEF Outside, ConnectBegin, MethodBegins, SendBegin, ConnectDial, SendCount,
     SendBuild, ConnectDone, CloseSocket, ClearSocket, Legacy, ForwardOpenDone,
     ForwardCloseDone, MethodReturns, Answered, Back, Client, Begin
<1>2. \A d \in Clients \ {c} : me[d].pc = "idle"
  <2>1. CASE me[c].pc # "idle"
    BY <2>1 DEF SequentialInv, OneAtATime
  <2>2. ASSUME NEW op \in Ops, Begin(c, op) PROVE \A d \in Clients \ {c} : me[d].pc = "idle"
    BY <2>2 DEF Begin, Sequential
  <2> QED
    BY <1>1, <2>1, <2>2
<1>3. UNCHANGED <<lock, stack>> /\ me[c].pc # "locked"
  BY OutsideLock DEF Shared
<1>4. stack = << >>
  <2>1. \A d \in Clients : lock # d
    BY <1>2, <1>3 DEF Shared, HoldsLock
  <2> QED
    BY <2>1 DEF Shared, HoldsLock, TypeOKAPI
<1>5. resp = Fragment /\ UNCHANGED resp
  BY <1>4, ResponseOutside DEF Shared, ResponseOfOk
<1>6. stack' = << >> /\ Len(stack') = 0
  BY <1>3, <1>4
<1>7. RequestKnowsConnection'
  BY <1>5, <1>6, FragmentFacts DEF RequestKnowsConnection, NamesSocket
<1> QED
  BY <1>2, <1>4, <1>5, <1>7

\* The goroutine knows the connection after its step.
KnowsAfter(c) == \E l \in Local : Becomes(c, l) /\ KnowsConnection(l)'

LEMMA TurnTaken ==
    ASSUME me \in [Clients -> Local], SequentialInv, NEW c \in Clients,
           \A d \in Clients \ {c} : me[d].pc = "idle", KnowsAfter(c)
    PROVE  OneAtATime' /\ \A d \in Clients : KnowsConnection(me[d])'
<1>1. PICK l \in Local : Becomes(c, l) /\ KnowsConnection(l)'
  BY DEF KnowsAfter
<1>2. me'[c] = l /\ \A d \in Clients \ {c} : me'[d] = me[d]
  BY <1>1, BecomesTypes
<1>3. OneAtATime'
  BY <1>2 DEF OneAtATime
<1>4. KnowsConnection(me[c])'
  BY <1>1, <1>2 DEF KnowsConnection
<1>5. ASSUME NEW d \in Clients \ {c} PROVE KnowsConnection(me[d])'
  <2>1. me'[d] = me[d] /\ me[d].pc = "idle" /\ KnowsConnection(me[d])
    BY <1>2 DEF SequentialInv
  <2> QED
    BY <2>1 DEF KnowsConnection
<1> QED
  BY <1>3, <1>4, <1>5

LEMMA WantKnows ==
    ASSUME Shared, NEW c \in Clients, NEW op \in Methods, NEW cmd \in Commands,
           NEW sess \in Handles, NEW body \in Bodies, Want(c, op, cmd, sess, body),
           cmd \notin SessionCommands \/ sess = session', 
           op \in {"ForwardOpen", "ForwardClose"} => cmd = "SendRRData"
    PROVE  KnowsAfter(c)
<1>1. me \in [Clients -> Local] /\ nctx \in Nat
  BY DEF Shared, TypeOKAPI, TypeOK
<1>2. PICK l \in Local :
         /\ Becomes(c, l) /\ l.pc = "want" /\ l.op = op
         /\ l.pkt = [cmd |-> cmd, ctx |-> nctx + 1, sess |-> sess, body |-> body]
  BY <1>1, WantBecomes
<1>3. l.pkt.cmd = cmd /\ l.pkt.sess = sess
  BY <1>2
<1>4. KnowsConnection(l)'
  BY <1>2, <1>3 DEF KnowsConnection, Current
<1> QED
  BY <1>2, <1>4 DEF KnowsAfter

LEMMA FinishKnows ==
    ASSUME NEW c, Finish(c)
    PROVE  KnowsAfter(c)
<1>1. KnowsConnection(IdleClient)'
  BY DEF KnowsConnection, IdleClient
<1> QED
  BY <1>1, FinishBecomes DEF KnowsAfter

LEMMA StepKnows ==
    ASSUME Shared, SequentialInv, NEW c \in Clients,
           NEW label \in {"build", "clear", "recheck", "reclose", "reclear", "record", "report",
                          "reset"}, Step(c, label)
    PROVE  KnowsAfter(c)
<1>1. PICK l \in Local : Becomes(c, l) /\ l.pc = label /\ l.op = me[c].op /\ l.pkt = me[c].pkt
  BY StepBecomes DEF Shared, TypeOKAPI, Labels2
<1>2. KnowsConnection(l)'
  BY <1>1 DEF SequentialInv, KnowsConnection
<1> QED
  BY <1>1, <1>2 DEF KnowsAfter

\* A step that leaves the connection as it is.
ConnectionKept == UNCHANGED <<tcpConn, session, established, connID, dirty>>

LEMMA KeptConnection ==
    ASSUME SequentialInv, ConnectionKept
    PROVE  NamesSocket(connID)' /\ SessionOfCleanSocket'
BY DEF SequentialInv, ConnectionKept, NamesSocket, SessionOfCleanSocket, SessionOfSocket,
   IsConnected

\* A method begins.
LEMMA CallKnows ==
    ASSUME Shared, SequentialInv, NEW c \in Clients, ClientCall(c)
    PROVE  KnowsAfter(c) /\ NamesSocket(connID)' /\ SessionOfCleanSocket'
<1>1. session \in Handles /\ 0 \in Handles
  BY Zeros DEF Shared, TypeOKAPI, TypeOK
<1>2. CASE ConnectBegin(c)
  <2> DEFINE l == [IdleClient EXCEPT !.pc = "dial", !.op = "Connect"]
  <2>1. l \in Local /\ l.pc = "dial" /\ l.op = "Connect"
    BY IdleIsLocal DEF Local, Methods
  <2>2. Becomes(c, l) /\ connID' = 0 /\ established' = FALSE
    BY <1>2 DEF ConnectBegin, Reset, Becomes
  <2> HIDE DEF l
  <2>3. KnowsConnection(l)'
    BY <2>1, <2>2 DEF KnowsConnection
  <2> QED
    BY <2>1, <2>2, <2>3
       DEF KnowsAfter, NamesSocket, SessionOfCleanSocket, SessionOfSocket, IsConnected
<1>3. CASE MethodBegins(c)
  <2>1. /\ NoBody \in Bodies /\ Body("ForwardOpen", 0, 0) \in Bodies
        /\ Body("ForwardClose", connID, 0) \in Bodies
    BY TransportAssumption, BodiesOf, Zeros DEF Shared, TypeOKAPI
  <2>2. ConnectionKept
    BY <1>3 DEF MethodBegins, ConnectionKept, conn, prog, path
  <2>3. KnowsAfter(c)
    <3>1. CASE Want(c, "RegisterSession", "RegisterSession", 0, NoBody)
      BY <1>1, <2>1, <3>1, WantKnows DEF Methods, Commands, SessionCommands
    <3>2. CASE Want(c, "ListIdentity", "ListIdentity", 0, NoBody)
      BY <1>1, <2>1, <3>2, WantKnows DEF Methods, Commands, SessionCommands
    <3>3. CASE Want(c, "ForwardOpen", "SendRRData", session, Body("ForwardOpen", 0, 0))
      BY <1>1, <2>1, <2>2, <3>3, WantKnows DEF Methods, Commands, ConnectionKept
    <3>4. CASE Want(c, "ForwardClose", "SendRRData", session, Body("ForwardClose", connID, 0))
      BY <1>1, <2>1, <2>2, <3>4, WantKnows DEF Methods, Commands, ConnectionKept
    <3>5. CASE Want(c, "Close", "UnRegisterSession", session, NoBody)
      BY <1>1, <2>1, <3>5, WantKnows DEF Methods, Commands, SessionCommands
    <3> QED
      BY <1>3, <3>1, <3>2, <3>3, <3>4, <3>5 DEF MethodBegins
  <2> QED
    BY <2>2, <2>3, KeptConnection
<1>4. CASE SendBegin(c)
  <2> DEFINE l == [IdleClient EXCEPT !.pc = "count", !.op = "Send"]
  <2>1. "Send" \in Methods /\ Body("Data", 0, 0) \in Bodies /\ "SendRRData" \in Commands
    BY BodiesOf, Zeros DEF Methods, Commands
  <2>2. ConnectionKept
    BY <1>4 DEF SendBegin, ConnectionKept, conn, prog, path
  <2>3. l \in Local /\ l.pc = "count" /\ l.op = "Send"
    BY <2>1, IdleIsLocal DEF Local
  <2>4. Becomes(c, l) \/ Want(c, "Send", "SendRRData", session, Body("Data", 0, 0))
    BY <1>4 DEF SendBegin, Becomes
  <2> HIDE DEF l
  <2>5. KnowsConnection(l)'
    BY <2>3 DEF KnowsConnection
  <2>6. CASE Becomes(c, l)
    BY <2>2, <2>3, <2>5, <2>6, KeptConnection DEF KnowsAfter
  <2>7. CASE Want(c, "Send", "SendRRData", session, Body("Data", 0, 0))
    <3>1. KnowsAfter(c)
      BY <1>1, <2>1, <2>2, <2>7, WantKnows DEF ConnectionKept
    <3> QED
      BY <2>2, <3>1, KeptConnection
  <2> QED
    BY <2>4, <2>6, <2>7
<1> QED
  BY <1>2, <1>3, <1>4 DEF ClientCall

\* A method goes on outside requestLock.
LEMMA DialKnows ==
    ASSUME Shared, SequentialInv, NEW c \in Clients, ConnectDial(c)
    PROVE  KnowsAfter(c) /\ NamesSocket(connID)' /\ SessionOfCleanSocket'
<1>1. connID' = 0 /\ established' = FALSE
  <2>1. me[c].pc = "dial" /\ KnowsConnection(me[c])
    BY DEF ConnectDial, Client, SequentialInv
  <2>2. connID = 0 /\ established = FALSE
    BY <2>1 DEF KnowsConnection, Shared, TypeOKAPI, TypeOK
  <2>3. connID' = connID /\ established' = established
    BY DEF ConnectDial, prog
  <2> QED
    BY <2>2, <2>3
<1>2. NamesSocket(connID)' /\ SessionOfCleanSocket'
  BY <1>1 DEF NamesSocket, SessionOfCleanSocket, SessionOfSocket, IsConnected
<1>3. NoBody \in Bodies /\ 0 \in Handles
  BY TransportAssumption, Zeros
<1>4. KnowsAfter(c)
  BY <1>3, FinishKnows, WantKnows DEF ConnectDial, Methods, Commands, SessionCommands
<1> QED
  BY <1>2, <1>4

LEMMA SendKnows ==
    ASSUME Shared, SequentialInv, NEW c \in Clients, SendCount(c) \/ SendBuild(c)
    PROVE  KnowsAfter(c) /\ NamesSocket(connID)' /\ SessionOfCleanSocket'
<1>1. ConnectionKept
  BY DEF SendCount, SendBuild, ConnectionKept, conn, prog, path
<1>2. CASE SendCount(c)
  BY <1>1, <1>2, StepKnows, KeptConnection DEF SendCount
<1>3. CASE SendBuild(c)
  <2>1. Body("Data", connID, seqNum) \in Bodies /\ session \in Handles /\ "Send" \in Methods
        /\ "SendUnitData" \in Commands
    BY BodiesOf DEF Shared, TypeOKAPI, TypeOK, Methods, Commands
  <2>2. KnowsAfter(c)
    BY <1>1, <1>3, <2>1, WantKnows DEF SendBuild, ConnectionKept
  <2> QED
    BY <1>1, <2>2, KeptConnection
<1> QED
  BY <1>2, <1>3

LEMMA LegacyKnows ==
    ASSUME Shared, SequentialInv, NEW c \in Clients, Legacy(c)
    PROVE  KnowsAfter(c) /\ NamesSocket(connID)' /\ SessionOfCleanSocket'
<1> DEFINE p == [me[c].pkt EXCEPT !.cmd = "SendRRDataLegacy", !.sess = session]
           j == [me[c] EXCEPT !.pc = "want", !.pkt = p]
<1>1. me[c] \in Local /\ me[c].pkt \in Request /\ session \in Handles
  BY DEF Shared, TypeOKAPI, TypeOK, Local
<1>2. p \in Request /\ p.sess = session /\ p.cmd = "SendRRDataLegacy"
  BY <1>1 DEF Request, Commands
<1>3. Becomes(c, j) /\ ConnectionKept
  BY DEF Legacy, Becomes, ConnectionKept, conn, prog, path
<1> HIDE DEF p
<1>4. j \in Local /\ j.pc = "want" /\ j.pkt = p
  BY <1>1, <1>2 DEF Local
<1> HIDE DEF j
<1>5. PICK l \in Local : /\ Becomes(c, l) /\ l.pc = "want" /\ l.pkt.sess = session
                         /\ l.pkt.cmd = "SendRRDataLegacy"
  BY <1>2, <1>3, <1>4
<1>6. KnowsConnection(l)'
  BY <1>3, <1>5 DEF KnowsConnection, Current, ConnectionKept
<1> QED
  BY <1>3, <1>5, <1>6, KeptConnection DEF KnowsAfter

\* The response of a forward open names the socket, and it came in the session in use.
LEMMA OpenKnows ==
    ASSUME Shared, SequentialInv, NEW c \in Clients, ForwardOpenDone(c)
    PROVE  KnowsAfter(c) /\ NamesSocket(connID)' /\ SessionOfCleanSocket'
<1>1. /\ me[c].pc = "returned" /\ me[c].op = "ForwardOpen" /\ me[c].reply.has = "items"
      /\ connID' = me[c].reply.body.conn /\ UNCHANGED <<tcpConn, session, dirty>>
  BY DEF ForwardOpenDone, Answered, Back, Client, path
<1>2. /\ NamesSocket(me[c].reply.body.conn) /\ Current(me[c].pkt)
      /\ CleanConn => Answers(me[c].reply, me[c].pkt, tcpConn)
      /\ me[c].pkt.cmd \in SessionCommands
  BY <1>1 DEF SequentialInv, KnowsConnection, SessionCommands
<1>3. NamesSocket(connID)'
  BY <1>1, <1>2 DEF NamesSocket
<1>4. CleanConn => session = tcpConn
  BY <1>1, <1>2 DEF Answers, Current, CleanConn
<1>5. SessionOfCleanSocket'
  BY <1>1, <1>4 DEF SessionOfCleanSocket, SessionOfSocket, IsConnected, CleanConn
<1> QED
  BY <1>3, <1>5, FinishKnows DEF ForwardOpenDone

LEMMA DoneKnows ==
    ASSUME Shared, SequentialInv, NEW c \in Clients,
           ConnectDone(c) \/ ForwardCloseDone(c) \/ MethodReturns(c)
    PROVE  KnowsAfter(c) /\ NamesSocket(connID)' /\ SessionOfCleanSocket'
<1>1. KnowsAfter(c)
  BY FinishKnows DEF ConnectDone, ForwardCloseDone, MethodReturns
<1>2. CASE ConnectDone(c) \/ MethodReturns(c)
  <2>1. ConnectionKept
    BY <1>2 DEF ConnectDone, MethodReturns, ConnectionKept, conn, prog, path
  <2> QED
    BY <1>1, <2>1, KeptConnection
<1>3. CASE ForwardCloseDone(c)
  <2>1. connID' = 0 /\ UNCHANGED <<tcpConn, session, established, dirty>>
    BY <1>3 DEF ForwardCloseDone, path
  <2> QED
    BY <1>1, <2>1 DEF SequentialInv, NamesSocket, SessionOfCleanSocket, SessionOfSocket,
       IsConnected
<1> QED
  BY <1>2, <1>3

LEMMA ClosingKnows ==
    ASSUME Shared, SequentialInv, NEW c \in Clients,
           \/ CloseSocket(c) /\ tcpConn # Nil
           \/ ClearSocket(c) \/ WindsUp(c)
    PROVE  KnowsAfter(c) /\ NamesSocket(connID)' /\ SessionOfCleanSocket'
<1>1. ASSUME tcpConn' = Nil PROVE NamesSocket(connID)' /\ SessionOfCleanSocket'
  BY <1>1 DEF NamesSocket, SessionOfCleanSocket, SessionOfSocket, IsConnected
<1>2. CASE CloseSocket(c) /\ tcpConn # Nil
  <2>1. (Step(c, "clear") \/ Step(c, "reclear")) /\ ConnectionKept
    BY <1>2 DEF CloseSocket, ConnectionKept, conn, prog, path
  <2> QED
    BY <2>1, StepKnows, KeptConnection
<1>3. CASE ClearSocket(c)
  BY <1>1, <1>3, FinishKnows, StepKnows DEF ClearSocket
<1>4. CASE WindsUp(c)
  <2>1. KnowsAfter(c)
    BY <1>4, WindingUp, FinishKnows, StepKnows
  <2>2. CASE UNCHANGED <<established, connID>>
    <3>1. ConnectionKept
      BY <1>4, <2>2, WindingUp DEF ConnectionKept
    <3> QED
      BY <2>1, <3>1, KeptConnection
  <2>3. CASE connID' = 0 /\ established' = FALSE
    BY <2>1, <2>3 DEF NamesSocket, SessionOfCleanSocket, SessionOfSocket, IsConnected
  <2> QED
    BY <1>4, <2>2, <2>3, WindingUp
<1> QED
  BY <1>2, <1>3, <1>4

\* Nothing that SequentialInv speaks of changes.
LEMMA SequentialKept ==
    ASSUME SequentialInv,
           UNCHANGED <<me, tcpConn, session, established, connID, resp, stack, dirty>>
    PROVE  SequentialInv'
<1>1. NamesSocket(connID)' /\ SessionOfCleanSocket'
  BY KeptConnection DEF ConnectionKept
<1>2. OneAtATime'
  BY DEF SequentialInv, OneAtATime
<1>3. ASSUME NEW c \in Clients PROVE KnowsConnection(me[c])'
  BY DEF SequentialInv, KnowsConnection, NamesSocket, CleanConn, Current
<1>4. RequestKnowsConnection'
  BY DEF SequentialInv, RequestKnowsConnection, NamesSocket, CleanConn, Top
<1> QED
  BY <1>1, <1>2, <1>3, <1>4 DEF SequentialInv

LEMMA SequentialOutside ==
    ASSUME Shared, SequentialInv, Sequential, NEW c \in Clients, Outside(c)
    PROVE  SequentialInv'
<1>1. CASE CloseSocket(c) /\ tcpConn = Nil
  BY <1>1, SequentialKept DEF CloseSocket, Panic, prog
<1>2. CASE ~(CloseSocket(c) /\ tcpConn = Nil)
  <2>1. KnowsAfter(c) /\ NamesSocket(connID)' /\ SessionOfCleanSocket'
    BY <1>2, CallKnows, DialKnows, SendKnows, LegacyKnows, OpenKnows, DoneKnows, ClosingKnows
       DEF Outside, ClientCall
  <2>2. /\ \A d \in Clients \ {c} : me[d].pc = "idle"
        /\ RequestKnowsConnection'
    BY NoRequest
  <2>3. OneAtATime' /\ \A d \in Clients : KnowsConnection(me[d])'
    BY <2>1, <2>2, TurnTaken DEF Shared, TypeOKAPI
  <2> QED
    BY <2>1, <2>2, <2>3 DEF SequentialInv
<1> QED
  BY <1>1, <1>2

\* The packet goes to the request path, and the answer comes back.
LEMMA SequentialLock ==
    ASSUME Shared, SequentialInv, NEW c \in Clients, Lock(c)
    PROVE  SequentialInv'
<1>1. /\ me \in [Clients -> Local] /\ me[c].pkt \in Request /\ stack = << >>
      /\ me[c].pc = "want" /\ ConnectionKept /\ UNCHANGED resp
  BY LockHeld DEF Shared, TypeOKAPI, Local, Lock, Client, ConnectionKept, conn, prog
<1>2. PICK l \in Local : /\ Becomes(c, l) /\ l.pc = "locked" /\ l.op = me[c].op
                         /\ l.pkt = me[c].pkt
  BY <1>1, StepBecomes DEF Lock, Labels2
<1>3. KnowsAfter(c)
  <2>1. KnowsConnection(l)'
    BY <1>1, <1>2 DEF SequentialInv, KnowsConnection, Current, ConnectionKept
  <2> QED
    BY <1>2, <2>1 DEF KnowsAfter
<1>4. OneAtATime' /\ \A d \in Clients : KnowsConnection(me[d])'
  BY <1>1, <1>3, TurnTaken DEF SequentialInv, OneAtATime
<1>5. RequestKnowsConnection'
  <2>1. Len(stack') = 1 /\ Top'.at = "enter"
    BY <1>1, CallAlone DEF Lock, Top
  <2> QED
    BY <1>1, <2>1 DEF SequentialInv, RequestKnowsConnection, NamesSocket, ConnectionKept
<1> QED
  BY <1>1, <1>4, <1>5, KeptConnection DEF SequentialInv

LEMMA SequentialUnlock ==
    ASSUME Shared, SequentialInv, NEW c \in Clients, Unlock(c)
    PROVE  SequentialInv'
<1> DEFINE j == [me[c] EXCEPT !.pc = "returned", !.ok = (stack[1].at = "ok"), !.reply = resp]
<1>1. /\ me \in [Clients -> Local] /\ me[c] \in Local /\ resp \in Reply
      /\ me[c].pc = "locked" /\ stack # << >> /\ Top.pkt = me[c].pkt
      /\ Top.at \in {"ok", "error"}
      /\ stack' = << >> /\ resp' = Fragment /\ ConnectionKept
  <2>1. lock = c /\ stack # << >> /\ Len(stack) = 1 /\ Top.at \in {"ok", "error"}
    BY DEF Unlock, Returned, At
  <2>2. Top = stack[1]
    BY <2>1 DEF Top
  <2>3. me[c].pc = "locked" /\ Top.pkt = me[c].pkt
    BY <2>1, <2>2 DEF Shared, HoldsLock
  <2>4. me \in [Clients -> Local] /\ me[c] \in Local /\ resp \in Reply
    BY DEF Shared, TypeOKAPI, TypeOK
  <2>5. stack' = << >> /\ resp' = Fragment
    BY DEF Unlock, Pop
  <2>6. ConnectionKept
    BY DEF Unlock, ConnectionKept, conn, prog
  <2> QED
    BY <2>1, <2>3, <2>4, <2>5, <2>6
<1>2. Becomes(c, j)
  BY DEF Unlock, Becomes
<1>3. PICK l \in Local : /\ Becomes(c, l) /\ l.pc = "returned" /\ l.op = me[c].op
                         /\ l.pkt = me[c].pkt /\ l.reply = resp
  <2>1. j \in Local /\ j.pc = "returned" /\ j.op = me[c].op /\ j.pkt = me[c].pkt /\ j.reply = resp
    BY <1>1 DEF Local
  <2> HIDE DEF j
  <2> QED
    BY <1>2, <2>1
<1>4. CleanConn => Answers(resp, Top.pkt, tcpConn)
  <2>1. CASE Top.at = "ok"
    BY <1>1, <2>1 DEF SequentialInv, RequestKnowsConnection
  <2>2. CASE Top.at = "error"
    <3>1. resp = Fragment
      BY <2>2 DEF Shared, ResponseOfOk
    <3> QED
      BY <3>1, FragmentFacts DEF Answers
  <2> QED
    BY <1>1, <2>1, <2>2
<1>5. NamesSocket(resp.body.conn)
  BY DEF SequentialInv, RequestKnowsConnection
<1>6. KnowsAfter(c)
  <2>1. KnowsConnection(l)'
    BY <1>1, <1>3, <1>4, <1>5
       DEF SequentialInv, KnowsConnection, Current, ConnectionKept, CleanConn, NamesSocket
  <2> QED
    BY <1>3, <2>1 DEF KnowsAfter
<1>7. OneAtATime' /\ \A d \in Clients : KnowsConnection(me[d])'
  BY <1>1, <1>6, TurnTaken DEF SequentialInv, OneAtATime
<1>8. RequestKnowsConnection'
  <2>1. Len(stack') = 0
    BY <1>1
  <2> QED
    BY <1>1, <2>1, FragmentFacts DEF RequestKnowsConnection, NamesSocket
<1> QED
  BY <1>1, <1>7, <1>8, KeptConnection DEF SequentialInv

\* Under requestLock everybody but the holder is at rest.
LEMMA HolderKnows ==
    ASSUME Shared, SequentialInv, stack # << >>, UNCHANGED me,
           stack'[1].pkt = stack[1].pkt, Current(stack[1].pkt)'
    PROVE  OneAtATime' /\ \A d \in Clients : KnowsConnection(me[d])'
<1>1. PICK h \in Clients : lock = h
  BY DEF Shared, HoldsLock, TypeOKAPI
<1>2. me[h].pc = "locked" /\ me[h].pkt = stack[1].pkt
  BY <1>1 DEF Shared, HoldsLock
<1>3. \A d \in Clients \ {h} : me[d].pc = "idle"
  BY <1>2 DEF SequentialInv, OneAtATime
<1>4. ASSUME NEW d \in Clients \ {h} PROVE KnowsConnection(me[d])'
  <2>1. me'[d] = me[d] /\ me[d].pc = "idle" /\ KnowsConnection(me[d])
    BY <1>3 DEF SequentialInv
  <2> QED
    BY <2>1 DEF KnowsConnection
<1>5. KnowsConnection(me[h])'
  <2>1. me'[h] = me[h] /\ me[h].pc = "locked" /\ KnowsConnection(me[h])
    BY <1>2 DEF SequentialInv
  <2>2. Current(me[h].pkt)'
    BY <1>2, <2>1 DEF Current
  <2> QED
    BY <2>1, <2>2 DEF KnowsConnection
<1>6. OneAtATime'
  BY DEF SequentialInv, OneAtATime
<1> QED
  BY <1>4, <1>5, <1>6

\* The packet that waits for an answer, whatever happens to the socket meanwhile.
LEMMA CurrentPacket ==
    ASSUME Shared, SequentialInv, stack # << >>
    PROVE  Current(stack[1].pkt)
<1>1. PICK h \in Clients : lock = h
  BY DEF Shared, HoldsLock, TypeOKAPI
<1>2. me[h].pc = "locked" /\ me[h].pkt = stack[1].pkt
  BY <1>1 DEF Shared, HoldsLock
<1> QED
  BY <1>2 DEF SequentialInv, KnowsConnection

LEMMA SequentialMovesOn ==
    ASSUME Shared, SequentialInv, RequestStep, UNCHANGED me, MovesOn \/ Unwinds
    PROVE  SequentialInv'
<1>1. /\ stack \in Seq(Frame) /\ stack # << >> /\ Len(stack) \in Nat \ {0}
      /\ stack'[1].pkt = stack[1].pkt
  BY RequestKeepsCall, TopOfStack DEF Shared, TypeOKAPI, TypeOK
<1>2. UNCHANGED <<tcpConn, session, established, connID, resp>> /\ dirty \subseteq dirty'
  BY DEF MovesOn, Unwinds, Known, Fail
<1>3. Current(stack[1].pkt)'
  BY <1>1, <1>2, CurrentPacket DEF Current
<1>4. OneAtATime' /\ \A d \in Clients : KnowsConnection(me[d])'
  BY <1>1, <1>3, HolderKnows
<1>5. NamesSocket(connID)' /\ SessionOfCleanSocket'
  BY <1>2 DEF SequentialInv, NamesSocket, SessionOfCleanSocket, SessionOfSocket, IsConnected
<1>6. NamesSocket(resp.body.conn)'
  BY <1>2 DEF SequentialInv, RequestKnowsConnection, NamesSocket
<1>7. CASE MovesOn
  <2>1. PICK l \in Working \ {"dialW", "dialR"} : Goto(l)
    BY <1>7 DEF MovesOn
  <2>2. Top'.at = l /\ Len(stack') = Len(stack)
    BY <1>1, <2>1, GotoStack DEF Labels
  <2>3. Top'.at \notin {"dialW", "dialR", "ok"}
    BY <2>2 DEF Working
  <2>4. Len(stack') > 1 /\ tcpConn' # Nil => stack'[1].pkt.sess # tcpConn'
    BY <1>1, <1>2, <2>2 DEF SequentialInv, RequestKnowsConnection
  <2>5. RequestKnowsConnection'
    BY <1>6, <2>3, <2>4 DEF RequestKnowsConnection
  <2> QED
    BY <1>4, <1>5, <2>5 DEF SequentialInv
<1>8. CASE Unwinds
  <2>1. Top'.at = "error" /\ Len(stack') = 1
    BY <1>1, <1>8, FailStack DEF Unwinds
  <2>2. RequestKnowsConnection'
    BY <1>6, <2>1 DEF RequestKnowsConnection
  <2> QED
    BY <1>4, <1>5, <2>2 DEF SequentialInv
<1> QED
  BY <1>7, <1>8

LEMMA SequentialDrops ==
    ASSUME Shared, SequentialInv, RequestStep, UNCHANGED me, Drops
    PROVE  SequentialInv'
<1>1. /\ stack # << >> /\ stack'[1].pkt = stack[1].pkt
      /\ tcpConn' = Nil /\ connID' = 0 /\ established' = FALSE /\ UNCHANGED resp
  BY RequestKeepsCall DEF Drops, Shared, TypeOKAPI
<1>2. Current(stack[1].pkt)'
  BY <1>1 DEF Current
<1>3. OneAtATime' /\ \A d \in Clients : KnowsConnection(me[d])'
  BY <1>1, <1>2, HolderKnows
<1>4. RequestKnowsConnection'
  BY <1>1 DEF RequestKnowsConnection, NamesSocket, CleanConn
<1>5. NamesSocket(connID)' /\ SessionOfCleanSocket'
  BY <1>1 DEF NamesSocket, SessionOfCleanSocket, SessionOfSocket, IsConnected
<1> QED
  BY <1>3, <1>4, <1>5 DEF SequentialInv

\* No packet carries the handle of the socket that was just dialled.
LEMMA SequentialRedials ==
    ASSUME Shared, SequentialInv, RequestStep, UNCHANGED me, NEW s \in Sockets, Redials(s)
    PROVE  SequentialInv'
<1> DEFINE p == Packet("RegisterSession", nctx + 1, 0, NoBody)
<1>1. /\ stack \in Seq(Frame) /\ stack # << >> /\ Len(stack) \in Nat \ {0}
      /\ stack'[1].pkt = stack[1].pkt /\ 1 \in DOMAIN stack
  BY RequestKeepsCall, TopOfStack, LenProperties DEF Shared, TypeOKAPI, TypeOK
<1>2. tcpConn' = s /\ s = dials + 1 /\ UNCHANGED <<connID, established, resp>>
  BY DEF Redials, DialOk
<1>3. connID = 0 /\ established = FALSE
  <2>1. Top.at \in {"dialW", "dialR"} /\ established \in BOOLEAN
    BY DEF Redials, Shared, TypeOKAPI, TypeOK
  <2> QED
    BY <1>1, <2>1 DEF SequentialInv, RequestKnowsConnection
<1>4. resp = Fragment
  <2>1. Top.at # "ok"
    BY DEF Redials
  <2> QED
    BY <2>1 DEF Shared, ResponseOfOk
<1>5. stack[1].pkt.sess # s
  <2>1. stack[1].pkt.sess \in Nat /\ dials \in Nat
    <3>1. stack[1] \in Frame
      BY <1>1 DEF Shared, TypeOKAPI, TypeOK
    <3>2. stack[1].pkt \in Request
      BY <3>1 DEF Frame
    <3>3. stack[1].pkt.sess \in Handles
      BY <3>2 DEF Request
    <3>4. dials \in 0 .. MaxSockets
      BY DEF Shared, TypeOKAPI, TypeOK
    <3> QED
      BY <3>3, <3>4, TransportAssumption DEF Handles
  <2>2. stack[1].pkt.sess <= dials
    BY <1>1 DEF Shared, HandlesDialled
  <2> QED
    BY <1>2, <2>1, <2>2
<1>6. Current(stack[1].pkt)'
  BY <1>1, <1>2, <1>5 DEF Current
<1>7. OneAtATime' /\ \A d \in Clients : KnowsConnection(me[d])'
  BY <1>1, <1>6, HolderKnows
<1>8. Top'.at = "enter"
  <2>1. p \in Request /\ Call(p)
    BY TransportAssumption
       DEF Redials, Shared, TypeOKAPI, TypeOK, Packet, Request, Commands, Handles
  <2> HIDE DEF p
  <2>2. Top' = [pkt |-> p, at |-> "enter"]
    BY <1>1, <2>1, CallStack
  <2> QED
    BY <2>2
<1>9. NamesSocket(resp.body.conn)'
  BY <1>2, <1>4, FragmentFacts DEF NamesSocket
<1>10. RequestKnowsConnection'
  BY <1>1, <1>2, <1>5, <1>8, <1>9 DEF RequestKnowsConnection
<1>11. NamesSocket(connID)' /\ SessionOfCleanSocket'
  BY <1>2, <1>3 DEF NamesSocket, SessionOfCleanSocket, SessionOfSocket, IsConnected
<1> QED
  BY <1>7, <1>10, <1>11 DEF SequentialInv

\* The session changes when a registration on the socket in use is answered, and a packet
\* that carries the socket's handle then waits for no answer.
LEMMA SequentialReads ==
    ASSUME Shared, SequentialInv, RequestStep, UNCHANGED me, Reads
    PROVE  SequentialInv'
<1> DEFINE r == Head(sock[tcpConn].out)
<1>1. /\ stack \in Seq(Frame) /\ stack # << >> /\ Len(stack) \in Nat \ {0}
      /\ stack'[1].pkt = stack[1].pkt
  BY RequestKeepsCall, TopOfStack DEF Shared, TypeOKAPI, TypeOK
<1>2. /\ tcpConn # Nil /\ sock[tcpConn].out # << >> /\ r # Fragment /\ Succeed(r)
      /\ UNCHANGED <<tcpConn, connID, dirty>>
  BY DEF Reads, ReadReply, Succeed, TakeSession
<1>3. /\ r.body.conn \in {0, Garbage, tcpConn} /\ r.sess \in Nat
      /\ tcpConn \notin dirty => Answers(r, Top.pkt, tcpConn)
  <2>1. tcpConn \in Sockets /\ sock[tcpConn].out \in Seq(Reply)
    BY <1>2, ConnIsSocket, SocketFields DEF Shared, TypeOKAPI
  <2>2. 1 \in DOMAIN sock[tcpConn].out /\ r = sock[tcpConn].out[1] /\ r \in Reply
    BY <1>2, <2>1, RangeOfTail, EmptySeq, LenProperties
  <2>3. r.sess \in Nat
    BY <2>2, TransportAssumption DEF Reply, Handles
  <2> QED
    BY <1>2, <2>1, <2>2, <2>3 DEF Shared, RepliesNameSocket, AnswersInFlight
<1> HIDE DEF r
<1>4. Current(stack[1].pkt)'
  <2>1. CASE UNCHANGED session
    BY <1>1, <1>2, <2>1, CurrentPacket DEF Current
  <2>2. CASE Top.pkt.cmd = "RegisterSession"
    <3>1. CASE Len(stack) = 1
      BY <1>1, <2>2, <3>1 DEF Top, Current, SessionCommands
    <3>2. CASE Len(stack) # 1
      <4>1. Len(stack) > 1
        BY <1>1, <3>2, OneOrMore
      <4>2. stack[1].pkt.sess # tcpConn
        BY <1>2, <4>1 DEF SequentialInv, RequestKnowsConnection
      <4> QED
        BY <1>1, <1>2, <4>2 DEF Current
    <3> QED
      BY <3>1, <3>2
  <2> QED
    BY <1>2, <2>1, <2>2 DEF Succeed, TakeSession
<1>5. OneAtATime' /\ \A d \in Clients : KnowsConnection(me[d])'
  BY <1>1, <1>4, HolderKnows
<1>6. NamesSocket(connID)'
  BY <1>2 DEF SequentialInv, NamesSocket
<1>7. SessionOfCleanSocket'
  <2>1. CASE UNCHANGED <<session, established>>
    BY <1>2, <2>1 DEF SequentialInv, SessionOfCleanSocket, SessionOfSocket, IsConnected
  <2>2. CASE Top.pkt.cmd = "RegisterSession" /\ session' = r.sess /\ established' = (r.sess # 0)
    <3>1. CASE tcpConn \in dirty
      BY <1>2, <3>1 DEF SessionOfCleanSocket
    <3>2. CASE r.sess = 0
      <4>1. ~established'
        BY <2>2, <3>2
      <4> QED
        BY <4>1 DEF SessionOfCleanSocket, SessionOfSocket, IsConnected
    <3>3. CASE tcpConn \notin dirty /\ r.sess # 0
      <4>1. r.sess = tcpConn
        BY <1>3, <2>2, <3>3 DEF Answers
      <4> QED
        BY <1>2, <2>2, <4>1 DEF SessionOfCleanSocket, SessionOfSocket
    <3> QED
      BY <3>1, <3>2, <3>3
  <2> QED
    BY <1>2, <2>1, <2>2 DEF Succeed, TakeSession
<1>8. RequestKnowsConnection'
  <2>1. CASE Len(stack) = 1 /\ Goto("ok") /\ resp' = r
    <3>1. Top'.at = "ok" /\ Top'.pkt = Top.pkt /\ Len(stack') = 1
      BY <1>1, <2>1, GotoStack DEF Labels, Finished
    <3>2. NamesSocket(resp.body.conn)'
      BY <1>2, <1>3, <2>1 DEF NamesSocket
    <3>3. CleanConn' => Answers(resp', Top'.pkt, tcpConn')
      BY <1>2, <1>3, <2>1, <3>1 DEF CleanConn
    <3>4. (CleanConn => Answers(resp, Top.pkt, tcpConn))'
      BY <3>3
    <3> QED
      BY <3>1, <3>2, <3>4 DEF RequestKnowsConnection
  <2>2. CASE Len(stack) > 1 /\ Resume /\ UNCHANGED resp
    <3>1. Top'.at \in {"rewriteW", "rewriteR"}
      BY <1>1, <2>2, ResumeStack
    <3>2. NamesSocket(resp.body.conn)'
      BY <1>2, <2>2 DEF SequentialInv, RequestKnowsConnection, NamesSocket
    <3>3. stack'[1].pkt.sess # tcpConn'
      BY <1>1, <1>2, <2>2 DEF SequentialInv, RequestKnowsConnection
    <3> QED
      BY <3>1, <3>2, <3>3 DEF RequestKnowsConnection
  <2> QED
    BY <1>2, <2>1, <2>2 DEF Succeed
<1> QED
  BY <1>5, <1>6, <1>7, <1>8 DEF SequentialInv

LEMMA SequentialNext ==
    ASSUME Shared, SequentialInv, Sequential, [NextAPI]_allVars
    PROVE  SequentialInv'
<1>1. CASE Requesting
  <2>1. RequestStep /\ UNCHANGED me
    BY <1>1 DEF Requesting, api
  <2>2. CASE Panic
    BY <2>1, <2>2, SequentialKept DEF Panic, prog
  <2> QED
    BY <2>1, <2>2, RequestCases, SequentialMovesOn, SequentialDrops, SequentialRedials,
       SequentialReads
<1>2. CASE DeviceMoves
  BY <1>2, DeviceEvolves, SequentialKept DEF Shared, TypeOKAPI
<1>3. CASE UNCHANGED allVars
  BY <1>3, SequentialKept DEF allVars, vars, prog, api
<1> QED
  BY <1>1, <1>2, <1>3, StepOfAPI, SequentialOutside, SequentialLock, SequentialUnlock
     DEF ClientCall, ClientStep, Outside, WindsUp

LEMMA SequentialInit ==
    ASSUME InitAPI
    PROVE  SequentialInv
<1>1. /\ tcpConn = Nil /\ connID = 0 /\ stack = << >> /\ resp = Fragment /\ Len(stack) = 0
      /\ me = [c \in Clients |-> IdleClient]
  BY DEF InitAPI, Init
<1>2. OneAtATime /\ \A c \in Clients : KnowsConnection(me[c])
  BY <1>1 DEF OneAtATime, KnowsConnection, IdleClient
<1> QED
  BY <1>1, <1>2 DEF SequentialInv, RequestKnowsConnection, NamesSocket, SessionOfCleanSocket,
     SessionOfSocket, IsConnected

LEMMA SequentialHolds ==
    ASSUME Sequential
    PROVE  SpecAPI => [](Shared /\ SequentialInv)
<1>1. Shared /\ SequentialInv /\ [NextAPI]_allVars => Shared' /\ SequentialInv'
  BY SharedNext, SequentialNext
<1>2. InitAPI => Shared /\ SequentialInv
  BY SharedInit, SequentialInit
<1> QED
  BY <1>1, <1>2, PTL DEF SpecAPI

\* When goroutines take turns, a message is sent on a CIP connection of the socket in use,
\* however the connection was lost and made again since it was opened.
THEOREM MessagesNameTheirSocket ==
    ASSUME Sequential
    PROVE  SpecAPI => []ConnectionOfSocket
<1>1. SequentialInv => ConnectionOfSocket
  BY DEF SequentialInv, NamesSocket, ConnectionOfSocket
<1> QED
  BY <1>1, SequentialHolds, PTL

\* When goroutines take turns, a connection that says it is connected has the session of the
\* socket in use, unless a request was given up on that socket: ForwardOpen too sets
\* t.established, and only after an answer that proves the session.
THEOREM SessionIsOfCleanSocket ==
    ASSUME Sequential
    PROVE  SpecAPI => []SessionOfCleanSocket
<1>1. SequentialInv => SessionOfCleanSocket
  BY DEF SequentialInv
<1> QED
  BY <1>1, SequentialHolds, PTL

-----------------------------------------------------------------------------
(* The stack, the sockets and the contexts, whoever makes a step.          *)

\* A socket that is dialled next is not dirty, and a request has a context.
DirtyDialled == \A s \in dirty : s <= dials
HasContext ==
    \A c \in Clients : me[c].pc \in {"want", "locked", "returned"} => me[c].pkt.ctx # 0

\* The calls around a registration wait for it, whoever changes the connection.
LEMMA ShapeNext ==
    ASSUME TypeOKAPI, HoldsLock, StackShape, [NextAPI]_allVars
    PROVE  StackShape'
<1>1. stack \in Seq(Frame) /\ TypeOK /\ Len(stack) \in Nat
  BY LenProperties DEF TypeOKAPI, TypeOK
<1>2. CASE UNCHANGED stack
  BY <1>2 DEF StackShape
<1>3. CASE Requesting
  <2>1. RequestStep /\ stack # << >>
    BY <1>3, RequestCases DEF Requesting
  <2>2. CASE MovesOn \/ Drops
    BY <1>1, <2>1, <2>2, GotoShape DEF MovesOn, Drops, Labels, Working
  <2>3. CASE Unwinds
    BY <1>1, <2>1, <2>3, FailShape DEF Unwinds
  <2>4. ASSUME NEW s \in Sockets, Redials(s) PROVE StackShape'
    <3> DEFINE p == Packet("RegisterSession", nctx + 1, 0, NoBody)
    <3>1. p \in Request /\ Call(p) /\ p.cmd = "RegisterSession"
      BY <2>4, TransportAssumption
         DEF Redials, TypeOKAPI, TypeOK, Packet, Request, Commands, Handles
    <3> HIDE DEF p
    <3> QED
      BY <1>1, <2>1, <2>4, <3>1, CallShape DEF Redials
  <2>5. CASE Reads
    <3>1. (Len(stack) = 1 /\ Goto("ok")) \/ (Len(stack) > 1 /\ Resume)
      BY <2>5 DEF Reads, ReadReply, Succeed
    <3> QED
      BY <1>1, <2>1, <3>1, GotoShape, ResumeShape DEF Labels, Finished
  <2> QED
    BY <1>2, <2>1, <2>2, <2>3, <2>4, <2>5, RequestCases DEF Panic
<1>4. ASSUME NEW c \in Clients, Lock(c) PROVE StackShape'
  <2>1. stack = << >> /\ Call(me[c].pkt) /\ me[c].pkt \in Request
    BY <1>4, LockHeld DEF Lock, TypeOKAPI, Local
  <2>2. Len(stack') = 1
    BY <2>1, CallAlone
  <2> QED
    BY <2>2 DEF StackShape
<1>5. ASSUME NEW c \in Clients, Unlock(c) PROVE StackShape'
  BY <1>5 DEF Unlock, Pop, StackShape
<1>6. CASE DeviceMoves
  BY <1>1, <1>2, <1>6, DeviceEvolves
<1>7. ASSUME NEW c \in Clients, Outside(c) PROVE StackShape'
  BY <1>2, <1>7, OutsideLock
<1>8. CASE UNCHANGED allVars
  BY <1>2, <1>8 DEF allVars, vars
<1> QED
  BY <1>3, <1>4, <1>5, <1>6, <1>7, <1>8, StepOfAPI DEF ClientCall, ClientStep, Outside, WindsUp

LEMMA DirtyNext ==
    ASSUME Shared, DirtyDialled, [NextAPI]_allVars
    PROVE  DirtyDialled'
<1>1. /\ tcpConn <= dials /\ dials \in Nat /\ \A s \in dirty : s \in Nat
      /\ TypeOK
  BY TransportAssumption DEF Shared, HandlesDialled, TypeOKAPI, TypeOK, Sockets
<1>2. ASSUME UNCHANGED dirty, dials' = dials \/ dials' = dials + 1
      PROVE  DirtyDialled'
  BY <1>1, <1>2 DEF DirtyDialled
<1>3. CASE Requesting
  <2>1. RequestStep
    BY <1>3 DEF Requesting
  <2>2. CASE Unwinds
    <3>1. dirty' \subseteq dirty \cup {tcpConn} /\ UNCHANGED dials
      BY <2>2 DEF Unwinds, Fail, Known
    <3> QED
      BY <1>1, <3>1 DEF DirtyDialled
  <2>3. CASE ~Unwinds
    BY <1>2, <2>1, <2>3, RequestCases DEF MovesOn, Reads, ReadReply, Drops, Redials, DialOk,
       Panic, Known, net
  <2> QED
    BY <2>2, <2>3
<1>4. CASE DeviceMoves \/ UNCHANGED allVars
  BY <1>1, <1>2, <1>4, DeviceEvolves DEF allVars, vars, net
<1>5. ASSUME NEW c \in Clients, Lock(c) \/ Unlock(c) PROVE DirtyDialled'
  BY <1>2, <1>5 DEF Lock, Unlock, net
<1>6. ASSUME NEW c \in Clients, Outside(c) PROVE DirtyDialled'
  <2>1. UNCHANGED dirty
    BY <1>6, ResponseOutside
  <2>2. dials' = dials \/ dials' = dials + 1
    BY <1>6, WindingUp DEF Outside, ConnectBegin, MethodBegins, SendBegin, ConnectDial,
       DialError, DialOk, SendCount, SendBuild, ConnectDone, CloseSocket, Panic, ClearSocket,
       Legacy, ForwardOpenDone, ForwardCloseDone, MethodReturns, net
  <2> QED
    BY <1>2, <2>1, <2>2
<1> QED
  BY <1>3, <1>4, <1>5, <1>6, StepOfAPI DEF ClientCall, ClientStep, Outside, WindsUp

\* What a goroutine does outside requestLock: it asks for something, goes on without a
\* request, is done with one, or repeats one.
Asking == {"want", "locked", "returned"}
Asks(c, l) ==
    /\ me[c].pc \notin Asking
    /\ l.pc = "want" /\ l.pkt.ctx = nctx + 1 /\ nctx' = nctx + 1
CarriesOn(c, l) == me[c].pc \notin Asking /\ l.pc \notin Asking /\ UNCHANGED nctx
IsDone(c, l) ==
    me[c].pc = "returned" /\ l.pc \notin Asking /\ UNCHANGED <<nctx, tcpConn>>
AsksAgain(c, l) ==
    /\ me[c].pc = "returned" /\ me[c].ok
    /\ l.pc = "want" /\ l.pkt.ctx = me[c].pkt.ctx
    /\ UNCHANGED <<nctx, tcpConn>>

LEMMA OutsideSteps ==
    ASSUME TypeOKAPI, NEW c \in Clients, Outside(c)
    PROVE  \/ UNCHANGED <<me, nctx, tcpConn>>
           \/ \E l \in Local :
                 Becomes(c, l) /\ (Asks(c, l) \/ CarriesOn(c, l) \/ IsDone(c, l) \/ AsksAgain(c, l))
<1> DEFINE Goal == \E l \in Local :
               Becomes(c, l) /\ (Asks(c, l) \/ CarriesOn(c, l) \/ IsDone(c, l) \/ AsksAgain(c, l))
<1>1. me \in [Clients -> Local] /\ me[c] \in Local /\ nctx \in Nat /\ session \in Handles
  BY DEF TypeOKAPI, TypeOK
<1>2. ASSUME NEW op \in Methods, NEW cmd \in Commands, NEW sess \in Handles,
             NEW body \in Bodies, Want(c, op, cmd, sess, body), me[c].pc \notin Asking
      PROVE  Goal
  <2>1. PICK l \in Local :
           /\ Becomes(c, l) /\ l.pc = "want"
           /\ l.pkt = [cmd |-> cmd, ctx |-> nctx + 1, sess |-> sess, body |-> body]
    BY <1>1, <1>2, WantBecomes
  <2>2. l.pkt.ctx = nctx + 1 /\ nctx' = nctx + 1
    BY <1>2, <2>1 DEF Want
  <2> QED
    BY <1>2, <2>1, <2>2 DEF Asks
<1>3. ASSUME NEW label \in Labels2 \ Asking, Step(c, label), UNCHANGED nctx,
             me[c].pc \notin Asking \/ (me[c].pc = "returned" /\ UNCHANGED tcpConn)
      PROVE  Goal
  <2>1. PICK l \in Local : Becomes(c, l) /\ l.pc = label
    BY <1>1, <1>3, StepBecomes
  <2> QED
    BY <1>3, <2>1 DEF CarriesOn, IsDone
<1>4. ASSUME Finish(c), UNCHANGED nctx,
             me[c].pc \notin Asking \/ (me[c].pc = "returned" /\ UNCHANGED tcpConn)
      PROVE  Goal
  <2>1. IdleClient.pc \notin Asking
    BY DEF IdleClient, Asking
  <2> QED
    BY <1>4, <2>1, FinishBecomes DEF CarriesOn, IsDone
<1>5. /\ NoBody \in Bodies /\ Body("ForwardOpen", 0, 0) \in Bodies
      /\ Body("ForwardClose", connID, 0) \in Bodies /\ Body("Data", 0, 0) \in Bodies
      /\ Body("Data", connID, seqNum) \in Bodies /\ 0 \in Handles
  BY TransportAssumption, BodiesOf, Zeros DEF TypeOKAPI
<1>6. CASE ConnectBegin(c)
  <2> DEFINE l == [IdleClient EXCEPT !.pc = "dial", !.op = "Connect"]
  <2>1. l \in Local /\ l.pc \notin Asking
    BY IdleIsLocal DEF Local, Methods, Asking
  <2>2. Becomes(c, l) /\ UNCHANGED nctx /\ me[c].pc \notin Asking
    BY <1>6 DEF ConnectBegin, Begin, Client, Becomes, Asking
  <2> HIDE DEF l
  <2> QED
    BY <2>1, <2>2 DEF CarriesOn
<1>7. CASE MethodBegins(c)
  <2>1. me[c].pc \notin Asking
    BY <1>7 DEF MethodBegins, Begin, Client, Asking
  <2> QED
    BY <1>1, <1>2, <1>5, <1>7, <2>1 DEF MethodBegins, Methods, Commands
<1>8. CASE SendBegin(c)
  <2> DEFINE l == [IdleClient EXCEPT !.pc = "count", !.op = "Send"]
  <2>1. l \in Local /\ l.pc \notin Asking
    BY IdleIsLocal DEF Local, Methods, Asking
  <2>2. me[c].pc \notin Asking
    BY <1>8 DEF SendBegin, Begin, Client, Asking
  <2>3. \/ me' = [me EXCEPT ![c] = l] /\ UNCHANGED nctx
        \/ Want(c, "Send", "SendRRData", session, Body("Data", 0, 0))
    BY <1>8 DEF SendBegin
  <2> HIDE DEF l
  <2> QED
    BY <1>1, <1>2, <1>5, <2>1, <2>2, <2>3 DEF Methods, Commands, Becomes, CarriesOn
<1>9. CASE ConnectDial(c)
  <2>1. me[c].pc \notin Asking
    BY <1>9 DEF ConnectDial, Client, Asking
  <2> QED
    BY <1>2, <1>4, <1>5, <1>9, <2>1 DEF ConnectDial, Methods, Commands
<1>10. CASE SendCount(c)
  BY <1>3, <1>10 DEF SendCount, Client, Labels2, Asking
<1>11. CASE SendBuild(c)
  <2>1. me[c].pc \notin Asking
    BY <1>11 DEF SendBuild, Client, Asking
  <2> QED
    BY <1>1, <1>2, <1>5, <1>11, <2>1 DEF SendBuild, Methods, Commands
<1>12. CASE ConnectDone(c) \/ ForwardOpenDone(c) \/ ForwardCloseDone(c) \/ MethodReturns(c)
  <2>1. Finish(c) /\ UNCHANGED <<nctx, tcpConn>> /\ me[c].pc = "returned"
    BY <1>12 DEF ConnectDone, ForwardOpenDone, ForwardCloseDone, MethodReturns, Answered, Back,
       Client, conn
  <2> QED
    BY <1>4, <2>1
<1>13. CASE CloseSocket(c)
  <2>1. UNCHANGED <<nctx, tcpConn>> /\ me[c].pc \in {"returned", "reclose"}
    BY <1>13 DEF CloseSocket, Back, Client, Panic, conn
  <2>2. UNCHANGED me \/ Step(c, "clear") \/ Step(c, "reclear")
    BY <1>13 DEF CloseSocket
  <2> QED
    BY <1>3, <2>1, <2>2 DEF Labels2, Asking
<1>14. CASE ClearSocket(c)
  <2>1. UNCHANGED nctx /\ me[c].pc \notin Asking 
        /\ (Finish(c) \/ Step(c, "recheck") \/ Step(c, "record"))
    BY <1>14 DEF ClearSocket, Client, Asking
  <2> QED
    BY <1>3, <1>4, <2>1 DEF Labels2, Asking
<1>15. CASE WindsUp(c)
  <2>1. UNCHANGED nctx /\ me[c].pc \notin Asking
    BY <1>15, WindingUp DEF Asking
  <2>2. Finish(c) \/ \E label \in Labels2 \ Asking : Step(c, label)
    BY <1>15, WindingUp DEF Labels2, Asking
  <2> QED
    BY <1>3, <1>4, <2>1, <2>2
<1>16. CASE Legacy(c)
  <2> DEFINE p == [me[c].pkt EXCEPT !.cmd = "SendRRDataLegacy", !.sess = session]
             l == [me[c] EXCEPT !.pc = "want", !.pkt = p]
  <2>1. p \in Request /\ p.ctx = me[c].pkt.ctx
    BY <1>1 DEF Local, Request, Commands
  <2>2. Becomes(c, l) /\ UNCHANGED <<nctx, tcpConn>> /\ me[c].pc = "returned" /\ me[c].ok
    BY <1>16 DEF Legacy, Becomes, Client, conn
  <2> HIDE DEF p
  <2>3. l \in Local /\ l.pc = "want" /\ l.pkt = p
    BY <1>1, <2>1 DEF Local
  <2> HIDE DEF l
  <2> QED
    BY <2>1, <2>2, <2>3 DEF AsksAgain
<1> QED
  BY <1>6, <1>7, <1>8, <1>9, <1>10, <1>11, <1>12, <1>13, <1>14, <1>15, <1>16 DEF Outside

\* None of it makes a connection that was to be trusted one that is not.
LEMMA OutsideRenews ==
    ASSUME TypeOKAPI, DirtyDialled, NEW c \in Clients, Outside(c)
    PROVE  tcpConn \notin dirty => tcpConn' \notin dirty'
<1>1. UNCHANGED dirty
  BY ResponseOutside
<1>2. dials \in Nat /\ dirty \subseteq Sockets /\ Nil \notin dirty /\ dials + 1 \notin dirty
  BY TransportAssumption DEF TypeOKAPI, TypeOK, DirtyDialled, Sockets, Nil
<1>3. tcpConn' \in {tcpConn, Nil, dials + 1}
  BY WindingUp DEF Outside, ConnectBegin, MethodBegins, SendBegin, ConnectDial, DialError,
     DialOk, SendCount, SendBuild, ConnectDone, CloseSocket, Panic, ClearSocket, Legacy,
     ForwardOpenDone, ForwardCloseDone, MethodReturns, conn
<1> QED
  BY <1>1, <1>2, <1>3

LEMMA ContextNext ==
    ASSUME TypeOKAPI, HoldsLock, HasContext, [NextAPI]_allVars
    PROVE  HasContext'
<1>1. me \in [Clients -> Local] /\ nctx \in Nat
  BY DEF TypeOKAPI, TypeOK
<1>2. ASSUME UNCHANGED me PROVE HasContext'
  BY <1>2 DEF HasContext
<1>3. CASE Requesting \/ DeviceMoves \/ UNCHANGED allVars
  <2>1. UNCHANGED me
    BY <1>3, DeviceEvolves DEF Requesting, api, allVars, TypeOKAPI
  <2> QED
    BY <1>2, <2>1
<1>4. ASSUME NEW c \in Clients, NEW l \in Local, Becomes(c, l),
             l.pc \in Asking => l.pkt.ctx # 0
      PROVE  HasContext'
  <2>1. me'[c] = l /\ \A d \in Clients \ {c} : me'[d] = me[d]
    BY <1>1, <1>4, BecomesTypes
  <2> QED
    BY <1>4, <2>1 DEF HasContext, Asking
<1>5. ASSUME NEW c \in Clients, Lock(c) PROVE HasContext'
  <2>1. PICK l \in Local : Becomes(c, l) /\ l.pkt = me[c].pkt
    BY <1>1, <1>5, StepBecomes DEF Lock, Labels2
  <2>2. me[c].pkt.ctx # 0
    BY <1>5 DEF HasContext, Lock, Client
  <2> QED
    BY <1>4, <2>1, <2>2
<1>6. ASSUME NEW c \in Clients, Unlock(c) PROVE HasContext'
  <2>1. me[c].pc = "locked"
    BY <1>6 DEF HoldsLock, Unlock
  <2>2. /\ me'[c].pkt = me[c].pkt /\ me[c].pkt.ctx # 0
        /\ \A d \in Clients \ {c} : me'[d] = me[d]
    BY <1>1, <1>6, <2>1 DEF Unlock, HasContext, Local
  <2> QED
    BY <2>2 DEF HasContext
<1>7. ASSUME NEW c \in Clients, Outside(c) PROVE HasContext'
  <2>1. CASE UNCHANGED me
    BY <1>2, <2>1
  <2>2. ASSUME NEW l \in Local, Becomes(c, l),
               Asks(c, l) \/ CarriesOn(c, l) \/ IsDone(c, l) \/ AsksAgain(c, l)
        PROVE  HasContext'
    <3>1. l.pc \in Asking => l.pkt.ctx # 0
      BY <1>1, <2>2 DEF Asks, CarriesOn, IsDone, AsksAgain, HasContext, Asking
    <3> QED
      BY <1>4, <2>2, <3>1
  <2> QED
    BY <1>7, <2>1, <2>2, OutsideSteps
<1> QED
  BY <1>3, <1>5, <1>6, <1>7, StepOfAPI DEF ClientCall, ClientStep, Outside, WindsUp

-----------------------------------------------------------------------------
(* The connection does what RequestServer promises.                        *)

\* A state of the connection and the state of the server it stands for.
LEMMA TellsApart ==
    /\ Server!NoOutcome = Untold /\ Untold.is = "none"
    /\ \A reply : Told(FALSE, reply) = Server!Failed
    /\ \A ok, reply : Told(ok, reply) # Untold
    /\ \A reply : Told(TRUE, reply) = Server!Answer(reply.ctx)
                     /\ Told(TRUE, reply).is = "answer" /\ Told(TRUE, reply).ctx = reply.ctx
BY DEF Server!NoOutcome, Server!Failed, Server!Answer, Untold, Told

LEMMA Trusted ==
    ASSUME TypeOK
    PROVE  tcpConn = Nil => tcpConn \notin dirty
BY TransportAssumption DEF TypeOK, Sockets, Nil

LEMMA Renews ==
    ASSUME tcpConn \notin dirty => tcpConn' \notin dirty'
    PROVE  Server!MayRenew
<1>1. CASE (tcpConn \notin dirty)' = TRUE
  BY <1>1 DEF Server!MayRenew
<1>2. CASE (tcpConn \notin dirty)' = (tcpConn \notin dirty)
  BY <1>2 DEF Server!MayRenew
<1> QED
  BY <1>1, <1>2

\* One goroutine's request, and what it was told.
LEMMA OneAsks ==
    ASSUME me \in [Clients -> Local], NEW c \in Clients, NEW l \in Local, Becomes(c, l)
    PROVE  /\ Asked' = [Asked EXCEPT ![c] = AskedOf(l)]
           /\ Given' = [Given EXCEPT ![c] = GivenOf(l)]
           /\ Asked[c] = AskedOf(me[c]) /\ Given[c] = GivenOf(me[c])
           /\ AskedOf(l) = AskedOf(me[c]) => Asked' = Asked
           /\ GivenOf(l) = GivenOf(me[c]) => Given' = Given
<1>1. me'[c] = l /\ \A d \in Clients \ {c} : me'[d] = me[d]
  BY BecomesTypes
<1>2. \A d \in Clients : AskedOf(me'[d]) = IF d = c THEN AskedOf(l) ELSE AskedOf(me[d])
  BY <1>1
<1>3. \A d \in Clients : GivenOf(me'[d]) = IF d = c THEN GivenOf(l) ELSE GivenOf(me[d])
  BY <1>1
<1>4. /\ Asked' = [d \in Clients |-> AskedOf(me'[d])]
      /\ Given' = [d \in Clients |-> GivenOf(me'[d])]
      /\ Asked = [d \in Clients |-> AskedOf(me[d])]
      /\ Given = [d \in Clients |-> GivenOf(me[d])]
  BY DEF Asked, Given, AskedOf, GivenOf
<1> HIDE DEF AskedOf, GivenOf
<1> QED
  BY <1>2, <1>3, <1>4

LEMMA NobodyAsks ==
    ASSUME UNCHANGED me
    PROVE  UNCHANGED <<Asked, Given>>
BY DEF Asked, Given, AskedOf, GivenOf

\* Without a step of the request there is nothing new to tell of it.
LEMMA SameRequest ==
    ASSUME UNCHANGED <<stack, resp>>
    PROVE  UNCHANGED <<Sent, Outcome>>
BY DEF Sent, Outcome, SentAt

\* What the server does when a goroutine makes a step of its own.
LEMMA OutsideServed ==
    ASSUME TypeOKAPI, DirtyDialled, NEW c \in Clients, Outside(c)
    PROVE  Server!Next
<1>1. /\ UNCHANGED <<lock, Sent, Outcome>>
      /\ UNCHANGED dirty /\ me \in [Clients -> Local]
  BY OutsideLock, ResponseOutside, SameRequest DEF TypeOKAPI
<1>2. Server!MayRenew
  BY OutsideRenews, Renews
<1>3. CASE UNCHANGED <<me, nctx, tcpConn>>
  <2>1. Server!Renew
    BY <1>1, <1>2, <1>3, NobodyAsks DEF Server!Renew
  <2> QED
    BY <2>1 DEF Server!Next
<1>4. ASSUME NEW l \in Local, Becomes(c, l), Asks(c, l) PROVE Server!Next
  <2>1. /\ AskedOf(me[c]) = 0 /\ AskedOf(l) = nctx'
        /\ GivenOf(me[c]) = Untold /\ GivenOf(l) = Untold
    BY <1>4 DEF AskedOf, GivenOf, Asks, Asking
  <2>2. /\ Asked[c] = 0 /\ Asked' = [Asked EXCEPT ![c] = nctx'] /\ UNCHANGED Given
    BY <1>1, <1>4, <2>1, OneAsks
  <2>3. Server!Ask(c)
    BY <1>1, <1>2, <1>4, <2>2 DEF Server!Ask, Asks
  <2> QED
    BY <2>3 DEF Server!Next
<1>5. ASSUME NEW l \in Local, Becomes(c, l), CarriesOn(c, l) PROVE Server!Next
  <2>1. /\ AskedOf(me[c]) = 0 /\ AskedOf(l) = 0
        /\ GivenOf(me[c]) = Untold /\ GivenOf(l) = Untold
    BY <1>5 DEF AskedOf, GivenOf, CarriesOn, Asking
  <2>2. UNCHANGED <<Asked, Given, nctx>>
    BY <1>1, <1>5, <2>1, OneAsks DEF CarriesOn
  <2>3. Server!Renew
    BY <1>1, <1>2, <2>2 DEF Server!Renew
  <2> QED
    BY <2>3 DEF Server!Next
<1>6. ASSUME NEW l \in Local, Becomes(c, l), IsDone(c, l) PROVE Server!Next
  <2>1. /\ AskedOf(l) = 0 /\ GivenOf(l) = Untold
        /\ GivenOf(me[c]) = Told(me[c].ok, me[c].reply)
    BY <1>6 DEF AskedOf, GivenOf, IsDone, Asking
  <2>2. /\ Asked' = [Asked EXCEPT ![c] = 0] /\ Given' = [Given EXCEPT ![c] = Untold]
        /\ Given[c] # Untold
    BY <1>1, <1>6, <2>1, OneAsks, TellsApart
  <2>3. UNCHANGED <<nctx, lock, Sent, Outcome, tcpConn \notin dirty>>
    BY <1>1, <1>6 DEF IsDone
  <2>4. Server!Done(c)
    BY <2>2, <2>3, TellsApart DEF Server!Done
  <2> QED
    BY <2>4 DEF Server!Next
<1>7. ASSUME NEW l \in Local, Becomes(c, l), AsksAgain(c, l) PROVE Server!Next
  <2>1. /\ AskedOf(l) = AskedOf(me[c]) /\ GivenOf(l) = Untold
        /\ GivenOf(me[c]) = Told(TRUE, me[c].reply)
    BY <1>1, <1>7 DEF AskedOf, GivenOf, AsksAgain, Local
  <2>2. /\ UNCHANGED Asked /\ Given' = [Given EXCEPT ![c] = Untold]
        /\ Given[c] = Told(TRUE, me[c].reply)
    BY <1>1, <1>7, <2>1, OneAsks
  <2>3. UNCHANGED <<nctx, lock, Sent, Outcome, tcpConn \notin dirty>>
    BY <1>1, <1>7 DEF AsksAgain
  <2>4. Given[c].is = "answer"
    BY <2>2, TellsApart
  <2>5. Server!Repeat(c)
    BY <2>2, <2>3, <2>4, TellsApart DEF Server!Repeat
  <2> QED
    BY <2>5 DEF Server!Next
<1> QED
  BY <1>3, <1>4, <1>5, <1>6, <1>7, OutsideSteps

LEMMA LockServed ==
    ASSUME TypeOKAPI, HoldsLock, HasContext, NEW c \in Clients, Lock(c)
    PROVE  Server!Serve(c)
<1>1. /\ me \in [Clients -> Local] /\ me[c].pc = "want" /\ lock = None /\ lock' = c
      /\ stack = << >> /\ Call(me[c].pkt) /\ me[c].pkt \in Request
      /\ UNCHANGED <<nctx, tcpConn, dirty>>
  BY LockHeld DEF TypeOKAPI, Lock, Client, Local, conn
<1>2. PICK l \in Local : Becomes(c, l) /\ l.pc = "locked" /\ l.pkt = me[c].pkt
  BY <1>1, StepBecomes DEF Lock, Labels2
<1>3. /\ AskedOf(l) = AskedOf(me[c]) /\ AskedOf(me[c]) # 0
      /\ GivenOf(l) = Untold /\ GivenOf(me[c]) = Untold
  BY <1>1, <1>2 DEF AskedOf, GivenOf, HasContext
<1>4. UNCHANGED <<Asked, Given>> /\ Asked[c] # 0 /\ Given[c] = Untold
  BY <1>1, <1>2, <1>3, OneAsks
<1>5. stack' # << >> /\ stack'[1].at = "enter"
  BY <1>1, CallAlone
<1>6. UNCHANGED <<Sent, Outcome>>
  BY <1>1, <1>5 DEF Sent, SentAt, Outcome, Finished
<1>7. UNCHANGED (tcpConn \notin dirty)
  BY <1>1
<1> QED
  BY <1>1, <1>4, <1>6, <1>7, TellsApart DEF Server!Serve

LEMMA UnlockServed ==
    ASSUME TypeOKAPI, HoldsLock, NEW c \in Clients, Unlock(c)
    PROVE  Server!Return(c)
<1>1. /\ me \in [Clients -> Local] /\ me[c] \in Local /\ me[c].pc = "locked"
      /\ resp \in Reply /\ lock = c /\ lock' = None
      /\ stack # << >> /\ stack[1].at \in {"ok", "error"} /\ stack' = << >>
      /\ UNCHANGED <<nctx, tcpConn, dirty>>
  BY DEF TypeOKAPI, TypeOK, HoldsLock, Unlock, Returned, At, Top, Pop, conn
<1> DEFINE l == [me[c] EXCEPT !.pc = "returned", !.ok = (stack[1].at = "ok"), !.reply = resp]
<1>2. /\ l \in Local /\ l.pc = "returned" /\ l.ok = (stack[1].at = "ok") /\ l.reply = resp
      /\ l.pkt = me[c].pkt
  BY <1>1 DEF Local
<1>3. Becomes(c, l)
  BY DEF Unlock, Becomes
<1> HIDE DEF l
<1>4. AskedOf(l) = AskedOf(me[c]) /\ GivenOf(l) = Outcome
  BY <1>1, <1>2 DEF AskedOf, GivenOf, Outcome, Finished
<1>5. UNCHANGED Asked /\ Given' = [Given EXCEPT ![c] = Outcome]
  BY <1>1, <1>2, <1>3, <1>4, OneAsks
<1>6. Outcome # Untold /\ Outcome' = Untold /\ UNCHANGED Sent
  BY <1>1, TellsApart DEF Outcome, Sent, SentAt, Finished
<1>7. UNCHANGED (tcpConn \notin dirty)
  BY <1>1
<1> QED
  BY <1>1, <1>5, <1>6, <1>7, TellsApart DEF Server!Return

\* Where a request goes from one step to the next.
Edges == {<<"enter", "write">>, <<"write", "read">>, <<"write", "reconnectW">>,
          <<"read", "reconnectR">>, <<"rewriteW", "read">>, <<"rewriteR", "reread">>,
          <<"reconnectW", "dialW">>, <<"reconnectR", "dialR">>}
Follows(from, to) ==
    /\ Top.at = from /\ Goto(to)
    /\ UNCHANGED <<resp, nctx, dirty>>
    /\ tcpConn' = tcpConn \/ (to \in {"dialW", "dialR"} /\ tcpConn' = Nil)

LEMMA RequestEdges ==
    ASSUME RequestStep
    PROVE  \/ \E e \in Edges : Follows(e[1], e[2])
           \/ Unwinds \/ Reads
           \/ \E s \in Sockets : Redials(s)
           \/ Panic
<1> USE DEF At, prog, net, mon
<1>e. ASSUME NEW from, NEW to, <<from, to>> \in Edges, Follows(from, to)
      PROVE  \E e \in Edges : Follows(e[1], e[2])
  <2>1. <<from, to>>[1] = from /\ <<from, to>>[2] = to
    OBVIOUS
  <2> QED
    BY <1>e, <2>1
<1>f. /\ <<"enter", "write">> \in Edges /\ <<"write", "read">> \in Edges
      /\ <<"write", "reconnectW">> \in Edges /\ <<"read", "reconnectR">> \in Edges
      /\ <<"rewriteW", "read">> \in Edges /\ <<"rewriteR", "reread">> \in Edges
      /\ <<"reconnectW", "dialW">> \in Edges /\ <<"reconnectR", "dialR">> \in Edges
  BY DEF Edges
<1>1. CASE Enter
  <2>1. (Follows("enter", "write")) \/ Unwinds
    BY <1>1 DEF Enter, Follows, Unwinds, Known, Finished
  <2> QED
    BY <1>e, <1>f, <2>1
<1>2. CASE FirstWrite \/ RetryWrite
  <2>1. \/ Follows("write", "read") \/ Follows("rewriteW", "read")
        \/ Follows("rewriteR", "reread")
    BY <1>2 DEF FirstWrite, RetryWrite, Write, Follows
  <2> QED
    BY <1>e, <1>f, <2>1
<1>3. CASE FirstWriteFails
  <2>1. Follows("write", "reconnectW")
    BY <1>3 DEF FirstWriteFails, WriteError, Follows
  <2> QED
    BY <1>e, <1>f, <2>1
<1>4. CASE FirstReadFails
  <2>1. Follows("read", "reconnectR")
    BY <1>4 DEF FirstReadFails, ReadError, Follows
  <2> QED
    BY <1>e, <1>f, <2>1
<1>5. CASE RetryWriteFails \/ RetryReadFails \/ RedialFails
  BY <1>5 DEF RetryWriteFails, WriteError, RetryReadFails, ReadError, RedialFails, DialError,
     Unwinds, Known, Finished
<1>6. CASE ReadReply
  BY <1>6 DEF ReadReply, Reads
<1>7. CASE NilDereference
  BY <1>7 DEF NilDereference
<1>8. CASE ReconnectBegin
  <2>1. \/ Follows("reconnectW", "dialW") \/ Follows("reconnectR", "dialR")
        \/ Unwinds
    BY <1>8 DEF ReconnectBegin, Reconnect, Reset, Follows, Unwinds, Known, Finished
  <2> QED
    BY <1>e, <1>f, <2>1
<1>9. ASSUME NEW s \in Sockets, RedialOk(s) PROVE Redials(s)
  BY <1>9 DEF RedialOk, Redials
<1> QED
  BY <1>1, <1>2, <1>3, <1>4, <1>5, <1>6, <1>7, <1>8, <1>9 DEF RequestStep

\* A step of a request is written once more, or not.
LEMMA EdgesSend ==
    ASSUME NEW e \in Edges
    PROVE  /\ e[1] \in Working /\ e[2] \in Working
           /\ \/ SentAt(e[2]) = SentAt(e[1])
              \/ /\ SentAt(e[1]) \in {0, 1} /\ SentAt(e[2]) = SentAt(e[1]) + 1
                 /\ e[2] \notin {"dialW", "dialR"}
BY DEF Edges, Working, SentAt

LEMMA InnerFrames ==
    ASSUME NEW n \in Nat, n > 1
    PROVE  /\ 1 \in 1 .. n /\ n # 1
           /\ n # 2 => 1 \in 1 .. n - 2
OBVIOUS

\* The request that is served, while it is at work.
LEMMA AtWork ==
    ASSUME TypeOKAPI, HoldsLock, StackShape, RequestStep
    PROVE  /\ stack \in Seq(Frame) /\ stack # << >> /\ Len(stack) \in Nat \ {0}
           /\ lock \in Clients /\ Asked[lock] = stack[1].pkt.ctx
           /\ \/ Len(stack) = 1 /\ Top = stack[1]
              \/ Len(stack) > 1 /\ Len(stack) # 1 /\ stack[1].at \in {"dialW", "dialR"}
           /\ Top.at \in Working
           /\ Sent = SentAt(stack[1].at) /\ Outcome = Untold /\ Server!Served
<1>1. stack \in Seq(Frame) /\ stack # << >> /\ Len(stack) \in Nat \ {0} /\ 1 \in 1 .. Len(stack)
  BY RequestCases, TopOfStack DEF TypeOKAPI, TypeOK
<1>2. lock \in Clients /\ lock # None /\ me[lock].pc = "locked" /\ me[lock].pkt = stack[1].pkt
  BY <1>1, EIPTCPAssumption DEF HoldsLock, TypeOKAPI
<1>3. Asked[lock] = stack[1].pkt.ctx
  BY <1>2 DEF Asked, AskedOf
<1>4. \/ Len(stack) = 1 /\ Top = stack[1]
      \/ Len(stack) > 1 /\ Len(stack) # 1 /\ stack[1].at \in {"dialW", "dialR"}
  <2>1. (Len(stack) = 1 /\ ~(Len(stack) > 1)) \/ (Len(stack) # 1 /\ Len(stack) > 1)
    BY <1>1, OneOrMore
  <2> QED
    BY <1>1, <2>1 DEF Top, StackShape
<1>5. Top.at \in Working
  BY RequestWorks
<1>6. stack[1].at \notin Finished
  BY <1>1, <1>4, <1>5 DEF Working, Finished
<1>7. Sent = SentAt(stack[1].at) /\ Outcome = Untold
  BY <1>1, <1>6 DEF Sent, Outcome
<1>8. Server!Served
  BY <1>2, <1>7, TellsApart DEF Server!Served
<1> QED
  BY <1>1, <1>2, <1>3, <1>4, <1>5, <1>7, <1>8

\* What the stack becomes says what the server knows of the request.
LEMMA StackSays ==
    ASSUME stack' # << >>
    PROVE  /\ Sent' = SentAt(stack'[1].at)
           /\ stack'[1].at \notin Finished => Outcome' = Untold
           /\ stack'[1].at \in Finished => Outcome' = Told(stack'[1].at = "ok", resp')
BY DEF Sent, Outcome, SentAt

\* A request that moves on in the path: it is sent, or there is nothing to tell.
LEMMA EdgeServed ==
    ASSUME TypeOKAPI, HoldsLock, StackShape, RequestStep, UNCHANGED <<lock, me>>,
           NEW e \in Edges, Follows(e[1], e[2])
    PROVE  Server!Next
<1>1. /\ stack \in Seq(Frame) /\ stack # << >> /\ Len(stack) \in Nat \ {0}
      /\ \/ Len(stack) = 1 /\ Top = stack[1]
         \/ Len(stack) > 1 /\ Len(stack) # 1 /\ stack[1].at \in {"dialW", "dialR"}
      /\ Sent = SentAt(stack[1].at) /\ Outcome = Untold /\ Server!Served
  BY AtWork
<1>2. e[2] \in Labels /\ e[2] \notin Finished
  BY EdgesSend DEF Labels, Working, Finished
<1>3. /\ stack' # << >>
      /\ \/ Len(stack) > 1 /\ Len(stack) # 1 /\ stack'[1] = stack[1]
         \/ Len(stack) = 1 /\ stack'[1].at = e[2] /\ stack[1].at = e[1]
  <2>1. /\ Len(stack') = Len(stack) /\ stack' # << >>
        /\ \A i \in 1 .. Len(stack) : i # Len(stack) => stack'[i] = stack[i]
        /\ Top' = [pkt |-> Top.pkt, at |-> e[2]]
    BY <1>1, <1>2, GotoStack DEF Follows
  <2>2. CASE Len(stack) = 1
    <3>1. stack'[1] = Top'
      BY <2>1, <2>2 DEF Top
    <3> QED
      BY <1>1, <2>1, <2>2, <3>1 DEF Follows
  <2>3. CASE Len(stack) > 1
    <3>1. 1 \in 1 .. Len(stack) /\ Len(stack) # 1
      BY <1>1, <2>3, InnerFrames
    <3> QED
      BY <2>1, <2>3, <3>1
  <2> QED
    BY <1>1, <2>2, <2>3
<1>4. UNCHANGED <<nctx, Asked, lock, Given>> /\ UNCHANGED Outcome
  <2>1. stack'[1].at \notin Finished
    BY <1>1, <1>2, <1>3 DEF Finished
  <2> QED
    BY <1>1, <1>3, <2>1, NobodyAsks, StackSays DEF Follows
<1>5. Server!MayRenew
  <2>1. Nil \notin dirty
    BY TransportAssumption DEF TypeOKAPI, TypeOK, Sockets, Nil
  <2> QED
    BY <2>1, Renews DEF Follows
<1>6. CASE UNCHANGED Sent
  <2>1. Server!Renew
    BY <1>4, <1>5, <1>6 DEF Server!Renew
  <2> QED
    BY <2>1 DEF Server!Next
<1>7. CASE Sent' # Sent
  <2>1. Sent' = SentAt(e[2]) /\ Sent = SentAt(e[1])
    BY <1>1, <1>3, <1>7, StackSays
  <2>2. Sent \in {0, 1} /\ Sent' = Sent + 1 /\ UNCHANGED tcpConn
    BY <1>7, <2>1, EdgesSend DEF Follows
  <2>3. Sent < 2 /\ UNCHANGED (tcpConn \notin dirty)
    BY <2>2 DEF Follows
  <2>4. Server!Send
    BY <1>1, <1>4, <2>2, <2>3 DEF Server!Send
  <2> QED
    BY <2>4 DEF Server!Next
<1> QED
  BY <1>6, <1>7

\* The request is given up.
LEMMA UnwindServed ==
    ASSUME TypeOKAPI, HoldsLock, StackShape, RequestStep, UNCHANGED <<lock, me>>, Unwinds
    PROVE  Server!Next
<1>1. stack \in Seq(Frame) /\ stack # << >> /\ Server!Served
  BY AtWork
<1>2. PICK n \in {0, 1} : Fail(n)
  BY DEF Unwinds
<1>3. stack' # << >> /\ stack'[1].at = "error"
  BY <1>1, <1>2, FailStack
<1>4. Outcome' = Server!Failed /\ Sent' = 0
  <2>1. Outcome' = Told(FALSE, resp') /\ Sent' = 0
    BY <1>3, StackSays DEF Finished, SentAt
  <2> QED
    BY <2>1, TellsApart
<1>5. UNCHANGED <<nctx, Asked, lock, Given>>
  BY NobodyAsks DEF Unwinds, Known
<1>6. (tcpConn \notin dirty)' \in {tcpConn \notin dirty, FALSE}
  <2>1. UNCHANGED tcpConn /\ dirty' = IF tcpConn = Nil THEN dirty ELSE dirty \cup {tcpConn}
    BY <1>2 DEF Unwinds, Known, Fail
  <2>2. CASE tcpConn = Nil
    <3>1. UNCHANGED (tcpConn \notin dirty)
      BY <2>1, <2>2
    <3> QED
      BY <3>1
  <2>3. CASE tcpConn # Nil
    <3>1. (tcpConn \notin dirty)' = FALSE
      BY <2>1, <2>3
    <3> QED
      BY <3>1
  <2> QED
    BY <2>2, <2>3
<1>7. Server!GiveUp
  BY <1>1, <1>4, <1>5, <1>6 DEF Server!GiveUp
<1> QED
  BY <1>7 DEF Server!Next

\* The call around a registration that has its answer writes its packet again.
LEMMA ResumeAlone ==
    ASSUME stack \in Seq(Frame), Len(stack) = 2, Resume
    PROVE  stack'[1].at = IF stack[1].at = "dialW" THEN "rewriteW" ELSE "rewriteR"
<1> DEFINE label == IF stack[1].at = "dialW" THEN "rewriteW" ELSE "rewriteR"
           r == SubSeq(stack, 1, 1)
<1>1. stack' = [r EXCEPT ![1] = [@ EXCEPT !.at = label]]
  BY DEF Resume
<1>2. 1 \in 1 .. Len(stack) + 1 /\ 1 \in 1 .. Len(stack) /\ 1 \in 1 .. 1
  OBVIOUS
<1>3. /\ r \in Seq(Frame) /\ Len(r) = 1 /\ r[1] = stack[1]
      /\ DOMAIN r = 1 .. Len(r) /\ stack[1] \in Frame
  BY <1>2, SubSeqProperties, LenProperties, ElementOfSeq
<1> HIDE DEF r
<1> QED
  BY <1>1, <1>2, <1>3 DEF Frame

\* The request has its answer, or a registration inside it has.
LEMMA ReadServed ==
    ASSUME Shared, StackShape, RequestStep, UNCHANGED <<lock, me>>, Reads
    PROVE  [Server!Next]_(Server!vars)
<1> DEFINE reply == Head(sock[tcpConn].out)
<1>1. /\ stack \in Seq(Frame) /\ stack # << >> /\ Len(stack) \in Nat \ {0}
      /\ \/ Len(stack) = 1 /\ Top = stack[1]
         \/ Len(stack) > 1 /\ Len(stack) # 1 /\ stack[1].at \in {"dialW", "dialR"}
      /\ Sent = SentAt(stack[1].at) /\ Outcome = Untold /\ Server!Served
      /\ Asked[lock] = stack[1].pkt.ctx
  BY AtWork DEF Shared
<1>2. /\ Top.at \in {"read", "reread"} /\ tcpConn # Nil
      /\ sock[tcpConn].out # << >> /\ reply # Fragment
      /\ Succeed(reply)
      /\ UNCHANGED <<tcpConn, dirty, nctx, Asked, lock, Given>>
  BY NobodyAsks DEF Reads, ReadReply
<1>3. UNCHANGED (tcpConn \notin dirty)
  BY <1>2
<1>4. tcpConn \notin dirty => reply.ctx = Top.pkt.ctx
  BY <1>2, WholeReply DEF Shared, TypeOKAPI
<1> HIDE DEF reply
<1>5. CASE Len(stack) = 1
  <2>1. Goto("ok") /\ resp' = reply
    BY <1>2, <1>5 DEF Succeed
  <2>2. stack' # << >> /\ stack'[1].at = "ok"
    <3>1. stack' # << >> /\ Len(stack') = 1 /\ Top'.at = "ok"
      BY <1>1, <1>5, <2>1, GotoStack DEF Labels, Finished
    <3> QED
      BY <3>1 DEF Top
  <2>3. Sent > 0 /\ Sent' = 0 /\ Outcome' = Told(TRUE, reply)
    <3>1. stack[1].at \in {"read", "reread"}
      BY <1>1, <1>2, <1>5
    <3>2. Sent > 0
      BY <1>1, <3>1 DEF SentAt
    <3>3. Sent' = 0 /\ Outcome' = Told(TRUE, reply)
      BY <2>1, <2>2, StackSays DEF SentAt, Finished
    <3> QED
      BY <3>2, <3>3
  <2>4. Outcome' = Server!Answer(Outcome'.ctx) /\ Outcome'.ctx = reply.ctx
    BY <2>3, TellsApart
  <2>5. tcpConn \notin dirty => Outcome'.ctx = Asked[lock]
    BY <1>1, <1>4, <1>5, <2>4
  <2>6. Server!Succeed
    BY <1>1, <1>2, <1>3, <2>3, <2>4, <2>5 DEF Server!Succeed
  <2> QED
    BY <2>6 DEF Server!Next
<1>6. CASE Len(stack) > 1
  <2>0. /\ Len(stack) # 1 /\ stack[1].at \in {"dialW", "dialR"}
        /\ Len(stack) # 2 => 1 \in 1 .. Len(stack) - 2
    BY <1>1, <1>6, InnerFrames
  <2>1. Resume /\ UNCHANGED resp
    BY <1>2, <2>0 DEF Succeed
  <2>2. /\ stack' # << >> /\ Len(stack') = Len(stack) - 1
        /\ \A i \in 1 .. Len(stack) - 2 : stack'[i] = stack[i]
    BY <1>1, <1>6, <2>1, ResumeStack
  <2>3. SentAt(stack'[1].at) = SentAt(stack[1].at) /\ stack'[1].at \notin Finished
    <3>1. CASE Len(stack) = 2
      <4>1. stack'[1].at = IF stack[1].at = "dialW" THEN "rewriteW" ELSE "rewriteR"
        BY <1>1, <2>1, <3>1, ResumeAlone
      <4> QED
        BY <2>0, <4>1 DEF SentAt, Finished
    <3>2. CASE Len(stack) # 2
      <4>1. 1 \in 1 .. Len(stack) - 2
        BY <2>0, <3>2
      <4>2. stack'[1] = stack[1]
        BY <2>2, <4>1
      <4> QED
        BY <2>0, <4>2 DEF Finished
    <3> QED
      BY <3>1, <3>2
  <2>4. UNCHANGED <<Sent, Outcome>>
    BY <1>1, <2>2, <2>3, StackSays
  <2> QED
    BY <1>2, <1>3, <2>4 DEF Server!vars
<1> QED
  BY <1>1, <1>5, <1>6

\* A reconnection that has a socket registers a session on it.
LEMMA RedialServed ==
    ASSUME TypeOKAPI, DirtyDialled, HoldsLock, StackShape, RequestStep, UNCHANGED <<lock, me>>,
           NEW s \in Sockets, Redials(s)
    PROVE  Server!Next
<1> DEFINE p == Packet("RegisterSession", nctx + 1, 0, NoBody)
<1>1. stack \in Seq(Frame) /\ stack # << >> /\ Len(stack) \in Nat \ {0}
  BY AtWork
<1>2. p \in Request /\ Call(p)
  BY TransportAssumption DEF Redials, TypeOKAPI, TypeOK, Packet, Request, Commands, Handles
<1> HIDE DEF p
<1>3. stack' # << >> /\ stack'[1] = stack[1]
  <2>1. 1 \in 1 .. Len(stack)
    BY <1>1
  <2> QED
    BY <1>1, <1>2, <2>1, CallStack
<1>4. nctx' = nctx + 1 /\ UNCHANGED <<Asked, lock, Given, Sent, Outcome>>
  <2>1. UNCHANGED <<Sent, Outcome>>
    BY <1>1, <1>3 DEF Redials, Sent, Outcome, SentAt
  <2> QED
    BY <2>1, NobodyAsks DEF Redials
<1>5. Server!MayRenew
  <2>1. s \notin dirty
    BY DEF Redials, DialOk, DirtyDialled, TypeOKAPI, TypeOK
  <2> QED
    BY <2>1, Renews DEF Redials
<1>6. Server!Register
  BY <1>4, <1>5 DEF Server!Register
<1> QED
  BY <1>6 DEF Server!Next

ServerInv == Shared /\ StackShape /\ DirtyDialled /\ HasContext

LEMMA StepServed ==
    ASSUME ServerInv, [NextAPI]_allVars
    PROVE  [Server!Next]_(Server!vars)
<1>1. Shared /\ StackShape /\ DirtyDialled /\ HasContext /\ TypeOKAPI /\ HoldsLock /\ TypeOK
  BY DEF ServerInv, Shared, TypeOKAPI
<1>2. ASSUME UNCHANGED <<tcpConn, dirty, nctx, lock, me, stack, resp>>
      PROVE  UNCHANGED Server!vars
  <2>1. UNCHANGED (tcpConn \notin dirty)
    BY <1>2
  <2> QED
    BY <1>2, <2>1, NobodyAsks, SameRequest DEF Server!vars
<1>3. CASE Requesting
  <2>1. RequestStep /\ UNCHANGED <<lock, me>>
    BY <1>3 DEF Requesting, api
  <2>2. CASE Panic
    BY <1>2, <2>1, <2>2 DEF Panic
  <2> QED
    BY <1>1, <2>1, <2>2, RequestEdges, EdgeServed, UnwindServed, ReadServed, RedialServed
<1>4. CASE DeviceMoves
  <2>1. UNCHANGED <<tcpConn, dirty, nctx, lock, me, stack, resp>>
    BY <1>1, <1>4, DeviceEvolves
  <2> QED
    BY <1>2, <2>1
<1>5. CASE UNCHANGED allVars
  BY <1>2, <1>5 DEF allVars, vars, api
<1>6. ASSUME NEW c \in Clients, Lock(c) PROVE Server!Next
  BY <1>1, <1>6, LockServed DEF Server!Next
<1>7. ASSUME NEW c \in Clients, Unlock(c) PROVE Server!Next
  BY <1>1, <1>7, UnlockServed DEF Server!Next
<1>8. ASSUME NEW c \in Clients, Outside(c) PROVE Server!Next
  BY <1>1, <1>8, OutsideServed
<1> QED
  BY <1>3, <1>4, <1>5, <1>6, <1>7, <1>8, StepOfAPI DEF ClientCall, ClientStep, Outside, WindsUp

LEMMA ServerNext ==
    ASSUME ServerInv, [NextAPI]_allVars
    PROVE  ServerInv'
BY SharedNext, ShapeNext, DirtyNext, ContextNext DEF ServerInv, Shared

LEMMA ServerInit ==
    ASSUME InitAPI
    PROVE  ServerInv /\ Server!Init
<1>1. Shared
  BY SharedInit
<1>2. StackShape /\ DirtyDialled /\ HasContext
  BY EmptySeq DEF InitAPI, Init, StackShape, DirtyDialled, HasContext, IdleClient
<1>3. Sent = 0 /\ Outcome = Untold /\ (tcpConn \notin dirty) = TRUE
  BY DEF InitAPI, Init, Sent, Outcome
<1>4. /\ \A c \in Clients : AskedOf(me[c]) = 0 /\ GivenOf(me[c]) = Untold
  BY DEF InitAPI, IdleClient, AskedOf, GivenOf
<1>5. Asked = [c \in Clients |-> 0] /\ Given = [c \in Clients |-> Untold]
  <2> HIDE DEF AskedOf, GivenOf
  <2> QED
    BY <1>4 DEF Asked, Given
<1>6. Server!Init
  BY <1>3, <1>5, TellsApart DEF Server!Init, InitAPI, Init
<1> QED
  BY <1>1, <1>2, <1>6 DEF ServerInv

\* Whatever the goroutines, the device and the network do, the connection serves the requests
\* one at a time, writes each at most twice, and gives every caller an error or the answer to
\* its own request, as long as no request was given up on the socket in use.
THEOREM ConnectionServesRequests == SpecAPI => ServesRequests
<1>1. InitAPI => ServerInv /\ Server!Init
  BY ServerInit
<1>2. ServerInv /\ [NextAPI]_allVars => ServerInv'
  BY ServerNext
<1>3. ServerInv /\ [NextAPI]_allVars => [Server!Next]_(Server!vars)
  BY StepServed
<1> QED
  BY <1>1, <1>2, <1>3, PTL DEF SpecAPI, ServesRequests, Server!Spec
=============================================================================
