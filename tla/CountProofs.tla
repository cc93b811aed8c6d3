------------------------------ MODULE CountProofs ------------------------------
(***************************************************************************)
(* The sequence count of connected messages.  When goroutines take turns,  *)
(* no message that Send numbers repeats the count that the device saw last *)
(* on that CIP connection, whatever is lost, refused or torn in between,   *)
(* as long as the faults are too few for the count to come round.          *)
(***************************************************************************)
EXTENDS EIPTCPProofs

-----------------------------------------------------------------------------
(* What makes FreshSequence inductive, with Shared and SequentialInv.      *)

\* Nothing is on its way to a device that is gone.
DownIsEmpty == \A s \in Sockets : sock[s].in # << >> => sock[s].up

\* A message that was counted, or is built and not sent.
Pending(l) == l.pc = "build" \/ (l.pc = "want" /\ l.pkt.cmd = "SendUnitData")

\* A connection of a socket that was dialled.
Dialled(id) == id <= dials \/ id = Garbage
ConnsDialled ==
    /\ Dialled(connID) /\ Dialled(resp.body.conn)
    /\ \A c \in Clients : Dialled(me[c].pkt.body.conn) /\ Dialled(me[c].reply.body.conn)

\* A socket that was left carries nothing, unless a request was given up on it.
QuietElsewhere == \A s \in Sockets \ dirty : s # tcpConn => sock[s].in = << >>

\* After a reconnection there is no CIP connection.
Reconnected ==
    stack # << >> /\ (Len(stack) > 1 \/ Top.at \in {"rewriteW", "rewriteR"}) => connID = 0

\* A connected message on the connection in use has the last count.
Numbered(pkt) ==
    pkt.cmd = "SendUnitData" =>
        /\ pkt.body.svc = "Data"
        /\ tcpConn # Nil => (pkt.body.conn = tcpConn <=> connID = tcpConn)
        /\ tcpConn # Nil /\ connID = tcpConn => pkt.body.seq = seqNum

\* An answer that names a connection of the socket came before any message on it.
NewFor(id) == CleanConn /\ id = tcpConn => seen[tcpConn] = SeqMod
KnowsCount(l) ==
    /\ l.pc \in {"want", "locked"} => Numbered(l.pkt)
    /\ l.pc = "returned" => NewFor(l.reply.body.conn)
RepliesFresh ==
    /\ CleanConn => \A i \in DOMAIN sock[tcpConn].out : NewFor(sock[tcpConn].out[i].body.conn)
    /\ NewFor(resp.body.conn)

\* How far the count is ahead of the one that the device saw last: by one for the message
\* under way, and by one for every message that a fault kept from being answered.
Gap(s) == IF seen[s] <= seqNum THEN seqNum - seen[s] ELSE seqNum + SeqMod - seen[s]
OnItsWay ==
    /\ stack # << >> /\ Top.pkt.cmd = "SendUnitData"
    /\ Top.at \in {"enter", "write", "reconnectW"} \/ sock[tcpConn].in # << >>
Uncounted == OnItsWay \/ \E c \in Clients : Pending(me[c])
InUse == CleanConn /\ connID = tcpConn /\ sock[tcpConn].up
GapBounded ==
    InUse /\ seen[tcpConn] # SeqMod =>
        IF Uncounted THEN Gap(tcpConn) \in 1 .. faults + 1 ELSE Gap(tcpConn) <= faults

\* The counts are fresh, with Shared and SequentialInv.
CountInv ==
    /\ faults <= MaxFaults /\ DownIsEmpty /\ StackShape /\ ConnsDialled /\ QuietElsewhere
    /\ Reconnected /\ (\A c \in Clients : KnowsCount(me[c])) /\ RepliesFresh /\ GapBounded

-----------------------------------------------------------------------------
(* Faults, closed sockets and nested calls.                                *)

\* A fault is spent, as long as there are any.
FaultsGrow == faults' = faults \/ (faults < MaxFaults /\ faults' = faults + 1)

LEMMA FaultSpent ==
    ASSUME NEW free, Fault(free)
    PROVE  FaultsGrow
BY DEF Fault, FaultsGrow

LEMMA FaultsNext ==
    ASSUME [NextAPI]_allVars
    PROVE  FaultsGrow
<1> USE FaultSpent DEF FaultsGrow
<1>1. CASE Requesting
  <2>1. RequestStep
    BY <1>1 DEF Requesting
  <2>2. CASE \/ Enter \/ FirstWrite \/ RetryWrite \/ ReadReply \/ NilDereference \/ ReconnectBegin
             \/ \E s \in Sockets : RedialOk(s)
    BY <2>2 DEF Enter, FirstWrite, RetryWrite, Write, ReadReply, NilDereference, Panic,
       ReconnectBegin, Reconnect, RedialOk
  <2>3. CASE FirstWriteFails \/ RetryWriteFails
    BY <2>3 DEF FirstWriteFails, RetryWriteFails, WriteError
  <2>4. CASE FirstReadFails \/ RetryReadFails
    <3>1. PICK from : ReadError(from)
      BY <2>4 DEF FirstReadFails, RetryReadFails
    <3> QED
      BY <3>1 DEF ReadError
  <2>5. CASE RedialFails
    BY <2>5 DEF RedialFails, DialError
  <2> QED
    BY <2>1, <2>2, <2>3, <2>4, <2>5 DEF RequestStep
<1>2. CASE DeviceMoves
  <2>1. PICK s \in Sockets : DeviceServes(s) \/ DeviceDrops(s) \/ DeviceFails(s)
    BY <1>2 DEF DeviceMoves
  <2>2. CASE DeviceServes(s) \/ DeviceDrops(s)
    BY <2>2 DEF DeviceServes, Serve, DeviceAnswers, DeviceUnRegisters, DeviceDrops
  <2>3. CASE DeviceFails(s)
    BY <2>3 DEF DeviceFails, Misbehave, DeviceRefuses, DeviceSilent, HangUp, Tear
  <2> QED
    BY <2>1, <2>2, <2>3
<1>3. CASE UNCHANGED allVars
  BY <1>3 DEF allVars, vars
<1>4. ASSUME NEW c \in Clients, ClientCall(c) \/ Lock(c) \/ Unlock(c)
      PROVE  FaultsGrow
  BY <1>4 DEF ClientCall, ConnectBegin, MethodBegins, SendBegin, Lock, Unlock
<1>5. ASSUME NEW c \in Clients, ClientStep(c), ~Unlock(c)
      PROVE  FaultsGrow
  <2>1. CASE ConnectDial(c)
    BY <2>1 DEF ConnectDial, DialError
  <2>2. CASE ~ConnectDial(c)
    BY <1>5, <2>2, WindingUp DEF ClientStep, SendCount, SendBuild, ConnectDone, CloseSocket,
       Panic, ClearSocket, WindsUp, Legacy, ForwardOpenDone, ForwardCloseDone, MethodReturns
  <2> QED
    BY <2>1, <2>2
<1> QED
  BY <1>1, <1>2, <1>3, <1>4, <1>5, StepOfAPI

LEMMA OneDown ==
    ASSUME TypeOK, DownIsEmpty, NEW s \in Sockets, NEW k \in Socket,
           sock' = [sock EXCEPT ![s] = k], k.in # << >> => k.up
    PROVE  DownIsEmpty'
BY PutSocket DEF DownIsEmpty, TypeOK

LEMMA DownKept ==
    ASSUME DownIsEmpty, UNCHANGED sock
    PROVE  DownIsEmpty'
BY DEF DownIsEmpty

LEMMA DownNext ==
    ASSUME TypeOKAPI, DownIsEmpty, [NextAPI]_allVars
    PROVE  DownIsEmpty'
<1>1. TypeOK /\ sock \in [Sockets -> Socket]
  BY DEF TypeOKAPI, TypeOK
<1>2. ASSUME tcpConn # Nil, sock' = Closed(tcpConn) PROVE DownIsEmpty'
  BY <1>1, <1>2, ConnIsSocket, EmptySockets, OneDown DEF Closed, ClosedSocket
<1>3. ASSUME NEW s \in Sockets, DialOk(s) PROVE DownIsEmpty'
  BY <1>1, <1>3, EmptySockets, OneDown DEF DialOk, FreshSocket
<1>4. CASE Requesting
  <2>1. RequestStep
    BY <1>4 DEF Requesting
  <2>2. CASE Enter \/ FirstWriteFails \/ RetryWriteFails \/ NilDereference \/ RedialFails
    BY <2>2, DownKept DEF Enter, FirstWriteFails, RetryWriteFails, NilDereference, Panic,
       RedialFails, DialError, net
  <2>3. CASE FirstWrite \/ RetryWrite
    <3>1. /\ tcpConn # Nil
          /\ \/ sock[tcpConn].up /\ sock' = [sock EXCEPT ![tcpConn].in = Append(@, Top.pkt)]
             \/ UNCHANGED sock
      BY <2>3 DEF FirstWrite, RetryWrite, Write
    <3>2. tcpConn \in Sockets
      BY <1>1, <3>1, ConnIsSocket
    <3>3. ASSUME sock[tcpConn].up, sock' = [sock EXCEPT ![tcpConn].in = Append(@, Top.pkt)]
          PROVE  DownIsEmpty'
      <4>1. \A r \in Sockets : sock'[r].up = sock[r].up /\ (r # tcpConn => sock'[r] = sock[r])
        BY <1>1, <3>2, <3>3 DEF Socket
      <4> QED
        BY <3>3, <4>1 DEF DownIsEmpty
    <3> QED
      BY <3>1, <3>3, DownKept
  <2>4. CASE ReadReply \/ FirstReadFails \/ RetryReadFails
    <3>1. tcpConn # Nil
      BY <2>4 DEF ReadReply, FirstReadFails, RetryReadFails, ReadError
    <3>2. \/ UNCHANGED sock
          \/ sock' = [sock EXCEPT ![tcpConn].out = Tail(@)]
          \/ sock' = [sock EXCEPT ![tcpConn].out = << >>]
      BY <2>4 DEF ReadReply, FirstReadFails, RetryReadFails, ReadError
    <3>3. \A r \in Sockets : sock'[r].up = sock[r].up /\ sock'[r].in = sock[r].in
      <4>1. CASE UNCHANGED sock
        BY <4>1
      <4>2. CASE sock' = [sock EXCEPT ![tcpConn].out = Tail(@)]
        BY <1>1, <3>1, <4>2, ConnIsSocket DEF Socket
      <4>3. CASE sock' = [sock EXCEPT ![tcpConn].out = << >>]
        BY <1>1, <3>1, <4>3, ConnIsSocket DEF Socket
      <4> QED
        BY <3>2, <4>1, <4>2, <4>3
    <3> QED
      BY <3>3 DEF DownIsEmpty
  <2>5. CASE ReconnectBegin
    <3>1. UNCHANGED sock \/ (tcpConn # Nil /\ sock' = Closed(tcpConn))
      BY <2>5 DEF ReconnectBegin, Reconnect
    <3> QED
      BY <1>2, <3>1, DownKept
  <2>6. ASSUME NEW s \in Sockets, RedialOk(s) PROVE DownIsEmpty'
    BY <1>3, <2>6 DEF RedialOk
  <2> QED
    BY <2>1, <2>2, <2>3, <2>4, <2>5, <2>6 DEF RequestStep
<1>5. CASE DeviceMoves
  <2>1. PICK s \in Sockets : DeviceServes(s) \/ DeviceDrops(s) \/ DeviceFails(s)
    BY <1>5 DEF DeviceMoves
  <2>2. \A r \in Sockets \ {s} : sock'[r] = sock[r]
    BY <1>1, <2>1 DEF DeviceServes, Serve, DeviceAnswers, DeviceUnRegisters, DeviceDrops,
       DeviceFails, Misbehave, DeviceRefuses, DeviceSilent, HangUp, Tear
  <2>3. sock[s] \in Socket
    BY <1>1
  <2>4. \/ sock'[s].in = << >>
        \/ sock'[s].up = sock[s].up /\ (sock[s].up \/ sock'[s].in = sock[s].in)
    <3>1. CASE DeviceDrops(s)
      BY <1>1, <2>3, <3>1 DEF DeviceDrops, Socket
    <3>3. CASE DeviceServes(s)
      <4>1. PICK body : DeviceAnswers(s, body) \/ DeviceUnRegisters(s)
        BY <3>3 DEF DeviceServes, Serve
      <4>2. CASE DeviceAnswers(s, body)
        BY <1>1, <2>3, <4>2 DEF DeviceAnswers, Socket
      <4>3. CASE DeviceUnRegisters(s)
        BY <1>1, <2>3, <4>3 DEF DeviceUnRegisters, Socket
      <4> QED
        BY <4>1, <4>2, <4>3
    <3>2. CASE DeviceFails(s)
      BY <1>1, <2>3, <3>2 DEF DeviceFails, Misbehave, DeviceRefuses, DeviceSilent, HangUp, Tear, Socket
    <3> QED
      BY <2>1, <3>1, <3>2, <3>3
  <2> QED
    BY <2>2, <2>4 DEF DownIsEmpty
<1>6. CASE UNCHANGED allVars
  BY <1>6, DownKept DEF allVars, vars, net
<1>7. ASSUME NEW c \in Clients, ClientCall(c) \/ Lock(c) \/ ClientStep(c)
      PROVE  DownIsEmpty'
  <2>1. \/ UNCHANGED sock
        \/ tcpConn # Nil /\ sock' = Closed(tcpConn)
        \/ \E s \in Sockets : DialOk(s)
    <3>1. CASE ClientCall(c) \/ Lock(c)
      BY <3>1 DEF ClientCall, ConnectBegin, MethodBegins, SendBegin, Lock, net
    <3>2. CASE ClientStep(c)
      BY <3>2, WindingUp DEF ClientStep, ConnectDial, DialError, SendCount, SendBuild, Unlock,
         ConnectDone, CloseSocket, Panic, ClearSocket, WindsUp, Legacy, ForwardOpenDone,
         ForwardCloseDone, MethodReturns, net
    <3> QED
      BY <1>7, <3>1, <3>2
  <2> QED
    BY <1>2, <1>3, <2>1, DownKept
<1> QED
  BY <1>4, <1>5, <1>6, <1>7, StepOfAPI

-----------------------------------------------------------------------------
(* What a step outside requestLock does to the sequence count.             *)

\* The goroutine goes on without a connected message.
Plain(c, l) ==
    /\ Becomes(c, l)
    /\ ~Pending(l) /\ l.pc \notin {"locked", "returned"}
    /\ l.pkt.body.conn \in {0, connID, me[c].pkt.body.conn}
    /\ l.reply.body.conn \in {0, me[c].reply.body.conn}
GoesOn(c) == \E l \in Local : Plain(c, l)

\* The connection is left, or the CIP connection forgotten.
Leaves == tcpConn' = Nil \/ connID' = 0 \/ ~sock'[tcpConn'].up

LEMMA BodyConns ==
    /\ Fragment.body.conn = 0 /\ NoBody.conn = 0 /\ NoPacket.body.conn = 0
    /\ IdleClient.pkt.body.conn = 0 /\ IdleClient.reply.body.conn = 0
    /\ \A svc, id, seq : Body(svc, id, seq).conn = id
BY ServicesAreBodies DEF Fragment, EmptyBody, NoPacket, Packet, IdleClient, Body

LEMMA FinishGoesOn ==
    ASSUME NEW c, Finish(c)
    PROVE  GoesOn(c)
<1>1. Becomes(c, IdleClient) /\ IdleClient \in Local
  BY FinishBecomes
<1>2. IdleClient.pc = "idle"
  BY DEF IdleClient
<1> QED
  BY <1>1, <1>2, BodyConns DEF GoesOn, Plain, Pending

LEMMA WantGoesOn ==
    ASSUME TypeOKAPI, NEW c \in Clients, NEW op \in Methods, NEW cmd \in Commands,
           NEW sess \in Handles, NEW body \in Bodies, Want(c, op, cmd, sess, body),
           cmd # "SendUnitData", body.conn \in {0, connID}
    PROVE  GoesOn(c)
<1>1. nctx \in Nat
  BY DEF TypeOKAPI, TypeOK
<1>2. PICK l \in Local :
         /\ Becomes(c, l) /\ l.pc = "want" /\ l.reply = Fragment
         /\ l.pkt = [cmd |-> cmd, ctx |-> nctx + 1, sess |-> sess, body |-> body]
  BY <1>1, WantBecomes
<1>3. l.pkt.cmd = cmd /\ l.pkt.body = body
  BY <1>2
<1> QED
  BY <1>2, <1>3, BodyConns DEF GoesOn, Plain, Pending

LEMMA StepGoesOn ==
    ASSUME TypeOKAPI, NEW c \in Clients,
           NEW label \in {"clear", "recheck", "reclose", "reclear", "record", "report", "reset"},
           Step(c, label)
    PROVE  GoesOn(c)
<1>1. PICK l \in Local : /\ Becomes(c, l) /\ l.pc = label /\ l.pkt = me[c].pkt
                         /\ l.reply = me[c].reply
  BY StepBecomes DEF TypeOKAPI, Labels2
<1> QED
  BY <1>1 DEF GoesOn, Plain, Pending

\* A method begins.
LEMMA BeginGoesOn ==
    ASSUME TypeOKAPI, NEW c \in Clients, ClientCall(c)
    PROVE  /\ GoesOn(c) /\ ~Pending(me[c]) /\ UNCHANGED <<tcpConn, sock, dirty, faults, seen>>
           /\ UNCHANGED <<connID, seqNum>> \/ connID' = 0
<1>1. session \in Handles /\ 0 \in Handles
  BY Zeros DEF TypeOKAPI, TypeOK
<1>2. me[c].pc = "idle"
  BY DEF ClientCall, ConnectBegin, MethodBegins, SendBegin, Begin, Client
<1>3. CASE ConnectBegin(c)
  <2> DEFINE l == [IdleClient EXCEPT !.pc = "dial", !.op = "Connect"]
  <2>1. /\ l \in Local /\ l.pc = "dial" /\ l.pkt = IdleClient.pkt /\ l.reply = IdleClient.reply
    BY IdleIsLocal DEF Local, Methods
  <2>2. Becomes(c, l) /\ connID' = 0 /\ UNCHANGED <<tcpConn, sock, dirty, faults, seen>>
    BY <1>3 DEF ConnectBegin, Reset, Becomes, net, path
  <2> HIDE DEF l
  <2> QED
    BY <1>2, <2>1, <2>2, BodyConns DEF GoesOn, Plain, Pending
<1>4. CASE MethodBegins(c)
  <2>1. /\ NoBody \in Bodies /\ Body("ForwardOpen", 0, 0) \in Bodies
        /\ Body("ForwardClose", connID, 0) \in Bodies
    BY TransportAssumption, BodiesOf, Zeros DEF TypeOKAPI
  <2>2. UNCHANGED <<tcpConn, sock, dirty, faults, seen, connID, seqNum>>
    BY <1>4 DEF MethodBegins, conn, prog, path, net
  <2>3. GoesOn(c)
    <3>1. CASE Want(c, "RegisterSession", "RegisterSession", 0, NoBody)
      BY <1>1, <2>1, <3>1, WantGoesOn, BodyConns DEF Methods, Commands
    <3>2. CASE Want(c, "ListIdentity", "ListIdentity", 0, NoBody)
      BY <1>1, <2>1, <3>2, WantGoesOn, BodyConns DEF Methods, Commands
    <3>3. CASE Want(c, "ForwardOpen", "SendRRData", session, Body("ForwardOpen", 0, 0))
      BY <1>1, <2>1, <3>3, WantGoesOn, BodyConns DEF Methods, Commands
    <3>4. CASE Want(c, "ForwardClose", "SendRRData", session, Body("ForwardClose", connID, 0))
      BY <1>1, <2>1, <3>4, WantGoesOn, BodyConns DEF Methods, Commands
    <3>5. CASE Want(c, "Close", "UnRegisterSession", session, NoBody)
      BY <1>1, <2>1, <3>5, WantGoesOn, BodyConns DEF Methods, Commands
    <3> QED
      BY <1>4, <3>1, <3>2, <3>3, <3>4, <3>5 DEF MethodBegins
  <2> QED
    BY <1>2, <2>2, <2>3 DEF Pending
<1>5. CASE SendBegin(c)
  <2> DEFINE l == [IdleClient EXCEPT !.pc = "count", !.op = "Send"]
  <2>1. "Send" \in Methods /\ Body("Data", 0, 0) \in Bodies /\ "SendRRData" \in Commands
    BY BodiesOf, Zeros DEF Methods, Commands
  <2>2. UNCHANGED <<tcpConn, sock, dirty, faults, seen, connID, seqNum>>
    BY <1>5 DEF SendBegin, conn, prog, path, net
  <2>3. /\ l \in Local /\ l.pc = "count" /\ l.pkt = IdleClient.pkt /\ l.reply = IdleClient.reply
    BY <2>1, IdleIsLocal DEF Local
  <2>4. Becomes(c, l) \/ Want(c, "Send", "SendRRData", session, Body("Data", 0, 0))
    BY <1>5 DEF SendBegin, Becomes
  <2> HIDE DEF l
  <2>5. Becomes(c, l) => GoesOn(c)
    BY <2>3, BodyConns DEF GoesOn, Plain, Pending
  <2>6. CASE Want(c, "Send", "SendRRData", session, Body("Data", 0, 0))
    BY <1>1, <1>2, <2>1, <2>2, <2>6, WantGoesOn, BodyConns DEF Pending
  <2> QED
    BY <1>2, <2>2, <2>4, <2>5, <2>6 DEF Pending
<1> QED
  BY <1>3, <1>4, <1>5 DEF ClientCall

\* A method goes on or returns.
LEMMA OutsideCases ==
    ASSUME Shared, SequentialInv, NEW c \in Clients, Outside(c)
    PROVE  /\ UNCHANGED seen
           /\ \/ /\ GoesOn(c) /\ ~Pending(me[c])
                 /\ UNCHANGED <<tcpConn, connID, seqNum, sock, dirty, faults>>
              \/ GoesOn(c) /\ Leaves /\ connID' \in {0, connID}
              \/ SendCount(c) \/ SendBuild(c) \/ ForwardOpenDone(c)
              \/ UNCHANGED <<me, tcpConn, connID, seqNum, sock, dirty, faults>>
<1>1. TypeOKAPI /\ 0 \in Handles /\ session \in Handles
  BY Zeros DEF Shared, TypeOKAPI, TypeOK
<1>2. UNCHANGED seen
  BY WindingUp DEF Outside, ConnectBegin, MethodBegins, SendBegin, ConnectDial, SendCount,
     SendBuild, ConnectDone, CloseSocket, ClearSocket, Legacy, ForwardOpenDone,
     ForwardCloseDone, MethodReturns
<1>3. CASE ClientCall(c)
  BY <1>1, <1>2, <1>3, BeginGoesOn DEF Leaves
<1>4. CASE ConnectDial(c)
  <2>1. connID = 0 /\ UNCHANGED connID
    BY <1>4 DEF ConnectDial, Client, SequentialInv, KnowsConnection, prog
  <2>2. NoBody \in Bodies
    BY TransportAssumption
  <2>3. GoesOn(c)
    <3>1. Finish(c) \/ Want(c, "Connect", "RegisterSession", 0, NoBody)
      BY <1>4 DEF ConnectDial
    <3> QED
      BY <1>1, <2>2, <3>1, FinishGoesOn, WantGoesOn, BodyConns DEF Methods, Commands
  <2> QED
    BY <1>2, <2>1, <2>3 DEF Leaves
<1>5. CASE ConnectDone(c) \/ MethodReturns(c)
  <2>1. Finish(c) /\ UNCHANGED <<tcpConn, connID, seqNum, sock, dirty, faults>>
    BY <1>5 DEF ConnectDone, MethodReturns, conn, prog, path, net
  <2>2. me[c].pc = "returned"
    BY <1>5 DEF ConnectDone, MethodReturns, Answered, Back, Client
  <2> QED
    BY <1>2, <2>1, <2>2, FinishGoesOn DEF Pending
<1>6. CASE CloseSocket(c)
  <2>1. CASE tcpConn = Nil
    BY <1>2, <1>6, <2>1 DEF CloseSocket, Panic, prog, net
  <2>2. CASE tcpConn # Nil
    <3>1. /\ Step(c, "clear") \/ Step(c, "reclear")
          /\ sock' = Closed(tcpConn) /\ UNCHANGED <<tcpConn, connID>>
      BY <1>6, <2>2 DEF CloseSocket, conn, prog
    <3>2. tcpConn \in Sockets /\ sock \in [Sockets -> Socket]
      BY <1>1, <2>2, ConnIsSocket DEF TypeOKAPI, TypeOK
    <3>3. ~sock'[tcpConn'].up
      BY <3>1, <3>2 DEF Closed, ClosedSocket
    <3> QED
      BY <1>1, <1>2, <3>1, <3>3, StepGoesOn DEF Leaves
  <2> QED
    BY <2>1, <2>2
<1>7. CASE ClearSocket(c)
  <2>1. /\ tcpConn' = Nil /\ UNCHANGED connID
        /\ Finish(c) \/ Step(c, "recheck") \/ Step(c, "record")
    BY <1>7 DEF ClearSocket, prog
  <2> QED
    BY <1>1, <1>2, <2>1, FinishGoesOn, StepGoesOn DEF Leaves
<1>8. CASE WindsUp(c)
  <2>1. GoesOn(c) /\ ~Pending(me[c]) /\ UNCHANGED <<tcpConn, sock, dirty, faults>>
    BY <1>1, <1>8, WindingUp, FinishGoesOn, StepGoesOn DEF Pending
  <2>2. UNCHANGED <<connID, seqNum>> \/ connID' = 0
    BY <1>8, WindingUp
  <2> QED
    BY <1>2, <2>1, <2>2 DEF Leaves
<1>9. CASE Legacy(c)
  <2> DEFINE p == [me[c].pkt EXCEPT !.cmd = "SendRRDataLegacy", !.sess = session]
             j == [me[c] EXCEPT !.pc = "want", !.pkt = p]
  <2>1. me[c] \in Local /\ me[c].pkt \in Request
    BY <1>1 DEF TypeOKAPI, Local
  <2>2. p \in Request /\ p.cmd = "SendRRDataLegacy" /\ p.body = me[c].pkt.body
    BY <1>1, <2>1 DEF Request, Commands
  <2>3. /\ Becomes(c, j) /\ me[c].pc = "returned"
        /\ UNCHANGED <<tcpConn, connID, seqNum, sock, dirty, faults>>
    BY <1>9 DEF Legacy, Client, Becomes, conn, prog, path, net
  <2> HIDE DEF p
  <2>4. j \in Local /\ j.pc = "want" /\ j.pkt = p /\ j.reply = me[c].reply
    BY <2>1, <2>2 DEF Local
  <2> HIDE DEF j
  <2>5. GoesOn(c)
    BY <2>2, <2>3, <2>4 DEF GoesOn, Plain, Pending
  <2> QED
    BY <1>2, <2>3, <2>5 DEF Pending
<1>10. CASE ForwardCloseDone(c)
  <2>1. Finish(c) /\ connID' = 0
    BY <1>10 DEF ForwardCloseDone
  <2> QED
    BY <1>2, <2>1, FinishGoesOn DEF Leaves
<1> QED
  BY <1>2, <1>3, <1>4, <1>5, <1>6, <1>7, <1>8, <1>9, <1>10 DEF Outside, ClientCall

-----------------------------------------------------------------------------
(* The request in progress.                                                *)

\* While a request is in progress everybody but the holder of requestLock is at rest.
LEMMA Holder ==
    ASSUME Shared, SequentialInv, stack # << >>
    PROVE  \E h \in Clients :
              /\ me[h].pc = "locked" /\ me[h].pkt = stack[1].pkt
              /\ \A d \in Clients \ {h} : me[d].pc = "idle"
<1>1. PICK h \in Clients : lock = h
  BY DEF Shared, HoldsLock, TypeOKAPI
<1>2. me[h].pc = "locked" /\ me[h].pkt = stack[1].pkt
  BY <1>1 DEF Shared, HoldsLock
<1>3. \A d \in Clients \ {h} : me[d].pc = "idle"
  BY <1>2 DEF SequentialInv, OneAtATime
<1> QED
  BY <1>2, <1>3

LEMMA HolderWaits ==
    ASSUME Shared, SequentialInv, stack # << >>
    PROVE  \A c \in Clients : ~Pending(me[c]) /\ me[c].pc \in {"idle", "locked"}
<1>1. PICK h \in Clients : /\ me[h].pc = "locked"
                           /\ \A d \in Clients \ {h} : me[d].pc = "idle"
  BY Holder
<1> QED
  BY <1>1 DEF Pending

\* A connected message is written by the outermost call.
LEMMA Outermost ==
    ASSUME Shared, SequentialInv, StackShape, stack # << >>, Top.pkt.cmd = "SendUnitData",
           \A c \in Clients : KnowsCount(me[c])
    PROVE  Len(stack) = 1 /\ Numbered(Top.pkt)
<1>1. stack \in Seq(Frame) /\ Len(stack) \in Nat \ {0}
  BY TopOfStack DEF Shared, TypeOKAPI, TypeOK
<1>2. Len(stack) = 1
  <2>1. CASE Len(stack) > 1
    <3>1. Len(stack) \in 1 .. Len(stack) /\ Len(stack) > 1
      BY <1>1, <2>1
    <3>2. Top.pkt.cmd = "RegisterSession"
      BY <3>1 DEF StackShape, Top
    <3> QED
      BY <3>2
  <2> QED
    BY <1>1, <2>1, OneOrMore
<1>3. PICK h \in Clients : me[h].pc = "locked" /\ me[h].pkt = stack[1].pkt
  BY Holder
<1>4. Numbered(me[h].pkt)
  BY <1>3 DEF KnowsCount
<1> QED
  BY <1>2, <1>3, <1>4 DEF Top

\* Nothing is given up and taken back.
LEMMA DirtyGrows ==
    ASSUME TypeOKAPI, [NextAPI]_allVars
    PROVE  dirty \subseteq dirty'
<1>1. CASE Requesting
  <2>1. RequestStep
    BY <1>1 DEF Requesting
  <2> QED
    BY <2>1, RequestCases DEF MovesOn, Unwinds, Fail, Reads, ReadReply, Drops, Redials, Panic
<1>2. CASE DeviceMoves
  BY <1>2, DeviceEvolves DEF TypeOKAPI
<1>3. CASE UNCHANGED allVars
  BY <1>3 DEF allVars, vars
<1>4. ASSUME NEW c \in Clients, Lock(c) \/ Unlock(c) PROVE dirty \subseteq dirty'
  BY <1>4, LockHeld DEF Lock, Unlock
<1>5. ASSUME NEW c \in Clients, Outside(c) PROVE dirty \subseteq dirty'
  BY <1>5, ResponseOutside
<1> QED
  BY <1>1, <1>2, <1>3, <1>4, <1>5, StepOfAPI DEF ClientCall, ClientStep, Outside, WindsUp

\* What a step of a request does to the socket in use.
LEMMA RequestAtSocket ==
    ASSUME TypeOK, RequestStep, tcpConn # Nil
    PROVE  \/ /\ tcpConn' = tcpConn /\ sock'[tcpConn].up = sock[tcpConn].up
              /\ Range(sock'[tcpConn].out) \subseteq Range(sock[tcpConn].out)
           \/ tcpConn' = Nil /\ sock'[tcpConn].in = << >>
           \/ /\ Top.at \in {"dialW", "dialR"} /\ \E s \in Sockets : RedialOk(s)
              /\ sock'[tcpConn].in \in {sock[tcpConn].in, << >>}
<1>1. tcpConn \in Sockets /\ sock \in [Sockets -> Socket] /\ sock[tcpConn] \in Socket
  BY ConnIsSocket DEF TypeOK
<1>2. CASE Enter \/ FirstWriteFails \/ RetryWriteFails \/ NilDereference \/ RedialFails
  BY <1>2 DEF Enter, FirstWriteFails, RetryWriteFails, NilDereference, Panic,
     RedialFails, DialError, net
<1>3. CASE FirstWrite \/ RetryWrite
  <2>1. /\ UNCHANGED tcpConn
        /\ UNCHANGED sock \/ sock' = [sock EXCEPT ![tcpConn].in = Append(@, Top.pkt)]
    BY <1>3 DEF FirstWrite, RetryWrite, Write
  <2> QED
    BY <1>1, <2>1 DEF Socket
<1>4. CASE ReadReply \/ FirstReadFails \/ RetryReadFails
  <2>1. /\ UNCHANGED tcpConn
        /\ \/ UNCHANGED sock
           \/ sock[tcpConn].out # << >> /\ sock' = [sock EXCEPT ![tcpConn].out = Tail(@)]
           \/ sock' = [sock EXCEPT ![tcpConn].out = << >>]
    BY <1>4 DEF ReadReply, FirstReadFails, RetryReadFails, ReadError
  <2>2. /\ sock'[tcpConn].up = sock[tcpConn].up
        /\ \/ sock'[tcpConn].out \in {sock[tcpConn].out, << >>}
           \/ sock[tcpConn].out # << >> /\ sock'[tcpConn].out = Tail(sock[tcpConn].out)
    BY <1>1, <2>1 DEF Socket
  <2>3. sock[tcpConn].out # << >> =>
           Range(Tail(sock[tcpConn].out)) \subseteq Range(sock[tcpConn].out)
    BY <1>1, SocketFields, RangeOfTail
  <2> QED
    BY <2>1, <2>2, <2>3, RangeOfEmpty
<1>5. CASE ReconnectBegin
  <2>1. UNCHANGED <<tcpConn, sock>> \/ (tcpConn' = Nil /\ sock' = Closed(tcpConn))
    BY <1>5, <1>1 DEF ReconnectBegin, Reconnect
  <2> QED
    BY <1>1, <2>1 DEF Closed, ClosedSocket
<1>6. ASSUME NEW s \in Sockets, RedialOk(s)
      PROVE  /\ Top.at \in {"dialW", "dialR"}
             /\ sock'[tcpConn].in \in {sock[tcpConn].in, << >>}
  <2>1. Top.at \in {"dialW", "dialR"} /\ sock' = [sock EXCEPT ![s] = FreshSocket]
    BY <1>6 DEF RedialOk, DialOk, At
  <2> QED
    BY <1>1, <2>1 DEF FreshSocket
<1> QED
  BY <1>2, <1>3, <1>4, <1>5, <1>6 DEF RequestStep

LEMMA RequestResponds ==
    ASSUME RequestStep
    PROVE  \/ UNCHANGED resp
           \/ /\ tcpConn # Nil /\ UNCHANGED tcpConn /\ sock[tcpConn].out # << >>
              /\ resp' = Head(sock[tcpConn].out)
<1>1. CASE Reads
  BY <1>1 DEF Reads, ReadReply, Succeed
<1> QED
  BY <1>1, RequestCases DEF MovesOn, Unwinds, Known, Drops, Redials, Panic

\* After a step of a request on the CIP connection of the socket in use, the connection, the
\* socket and the message under way are those of before.
LEMMA RequestKeepsCount ==
    ASSUME Shared, SequentialInv, Reconnected, RequestStep, InUse'
    PROVE  /\ UNCHANGED <<tcpConn, connID, seqNum, dirty>>
           /\ sock[tcpConn].up
           /\ OnItsWay' <=> OnItsWay
<1>1. /\ stack \in Seq(Frame) /\ stack # << >> /\ Len(stack) \in Nat \ {0}
      /\ TypeOK /\ tcpConn' # Nil /\ tcpConn' \notin dirty' /\ connID' = tcpConn'
      /\ sock \in [Sockets -> Socket]
  BY RequestCases, TopOfStack DEF Shared, TypeOKAPI, TypeOK, InUse, CleanConn
<1>2. Nil = 0
  BY DEF Nil
<1>3. ASSUME NEW n, Fail(n), UNCHANGED tcpConn PROVE FALSE
  BY <1>1, <1>3 DEF Fail
<1>4. ASSUME NEW l \in Labels, Goto(l)
      PROVE  Top'.pkt = Top.pkt /\ Top'.at = l /\ stack' # << >> /\ Len(stack') = Len(stack)
  BY <1>1, <1>4, GotoStack
<1>5. CASE Enter
  <2>1. Goto("write") /\ Top.at = "enter" /\ UNCHANGED <<tcpConn, connID, seqNum, dirty, sock>>
    BY <1>1, <1>3, <1>5 DEF Enter, At, prog, net
  <2>2. Top'.pkt = Top.pkt /\ Top'.at = "write" /\ stack' # << >>
    BY <1>4, <2>1 DEF Labels, Working
  <2> QED
    BY <1>1, <2>1, <2>2 DEF OnItsWay, InUse
<1>6. CASE FirstWrite
  <2>1. /\ Goto("read") /\ Top.at = "write" /\ UNCHANGED <<tcpConn, connID, seqNum, dirty>>
        /\ \/ sock[tcpConn].up /\ sock' = [sock EXCEPT ![tcpConn].in = Append(@, Top.pkt)]
           \/ ~sock[tcpConn].up /\ UNCHANGED sock
    BY <1>6 DEF FirstWrite, Write, At, prog
  <2>2. Top'.pkt = Top.pkt /\ Top'.at = "read" /\ stack' # << >>
    BY <1>4, <2>1 DEF Labels, Working
  <2>3. sock[tcpConn].up /\ sock' = [sock EXCEPT ![tcpConn].in = Append(@, Top.pkt)]
    BY <2>1 DEF InUse
  <2>4. sock'[tcpConn].in # << >>
    <3>1. tcpConn \in Sockets /\ sock[tcpConn] \in Socket /\ Top.pkt \in Request
      BY <1>1, <2>1, ConnIsSocket, TopTypes
    <3>2. sock'[tcpConn].in = Append(sock[tcpConn].in, Top.pkt) /\ sock[tcpConn].in \in Seq(Request)
      BY <1>1, <2>3, <3>1 DEF Socket
    <3> QED
      BY <3>1, <3>2
  <2> QED
    BY <1>1, <2>1, <2>2, <2>3, <2>4 DEF OnItsWay
<1>7. CASE RetryWrite
  <2>1. Top.at \in {"rewriteW", "rewriteR"} /\ UNCHANGED connID
    BY <1>7 DEF RetryWrite, Write, At, prog
  <2> QED
    BY <1>1, <1>2, <2>1 DEF Reconnected
<1>8. CASE FirstWriteFails
  <2>1. /\ Goto("reconnectW") /\ Top.at = "write"
        /\ UNCHANGED <<tcpConn, connID, seqNum, dirty, sock>>
    BY <1>8 DEF FirstWriteFails, WriteError, At, prog, net
  <2>2. Top'.pkt = Top.pkt /\ Top'.at = "reconnectW" /\ stack' # << >>
    BY <1>4, <2>1 DEF Labels, Working
  <2> QED
    BY <1>1, <2>1, <2>2 DEF OnItsWay, InUse
<1>9. CASE ReadReply
  <2>1. /\ Top.at \in {"read", "reread"} /\ UNCHANGED <<tcpConn, connID, seqNum, dirty>>
        /\ sock[tcpConn].out # << >> /\ Head(sock[tcpConn].out) # Fragment
        /\ \/ Len(stack) = 1 /\ Goto("ok")
           \/ Len(stack) > 1
        /\ \/ sock' = [sock EXCEPT ![tcpConn].out = Tail(@)]
           \/ sock' = [sock EXCEPT ![tcpConn].out = << >>]
    BY <1>9 DEF ReadReply, At, Succeed, TakeSession
  <2>2. Len(stack) = 1 /\ Goto("ok")
    BY <1>1, <1>2, <2>1 DEF Reconnected
  <2>3. Top'.at = "ok"
    BY <1>4, <2>2 DEF Labels, Finished
  <2>4. sock[tcpConn].in = << >>
    BY <1>1, <2>1, WholeReply DEF Shared
  <2>5. sock'[tcpConn].in = sock[tcpConn].in /\ sock'[tcpConn].up = sock[tcpConn].up
    BY <1>1, <2>1, ConnIsSocket DEF Socket
  <2> QED
    BY <1>1, <2>1, <2>3, <2>4, <2>5 DEF OnItsWay, InUse
<1>10. CASE FirstReadFails
  <2>1. /\ Goto("reconnectR") /\ Top.at = "read"
        /\ UNCHANGED <<tcpConn, connID, seqNum, dirty>>
        /\ \/ UNCHANGED sock
           \/ sock' = [sock EXCEPT ![tcpConn].out = Tail(@)]
           \/ sock' = [sock EXCEPT ![tcpConn].out = << >>]
    BY <1>10 DEF FirstReadFails, ReadError, At, prog
  <2>2. Top'.pkt = Top.pkt /\ Top'.at = "reconnectR" /\ stack' # << >>
    BY <1>4, <2>1 DEF Labels, Working
  <2>3. sock'[tcpConn].in = sock[tcpConn].in /\ sock'[tcpConn].up = sock[tcpConn].up
    BY <1>1, <2>1, ConnIsSocket DEF Socket
  <2> QED
    BY <1>1, <2>1, <2>2, <2>3 DEF OnItsWay, InUse
<1>11. CASE RetryReadFails \/ RetryWriteFails \/ RedialFails
  BY <1>3, <1>11 DEF RetryReadFails, RetryWriteFails, RedialFails
<1>12. CASE NilDereference
  BY <1>1, <1>12 DEF NilDereference, Panic
<1>13. CASE ReconnectBegin
  <2>1. tcpConn' = Nil \/ (Fail(0) /\ UNCHANGED tcpConn)
    BY <1>13 DEF ReconnectBegin, Reconnect
  <2> QED
    BY <1>1, <1>3, <2>1
<1>14. ASSUME NEW s \in Sockets, RedialOk(s) PROVE FALSE
  <2>1. Top.at \in {"dialW", "dialR"} /\ UNCHANGED connID
    BY <1>14 DEF RedialOk, At, prog
  <2>2. connID = 0
    BY <1>1, <2>1 DEF SequentialInv, RequestKnowsConnection
  <2> QED
    BY <1>1, <1>2, <2>1, <2>2
<1> QED
  BY <1>5, <1>6, <1>7, <1>8, <1>9, <1>10, <1>11, <1>12, <1>13, <1>14 DEF RequestStep

\* What becomes of the connections that are named somewhere.
LEMMA ConnsAfter ==
    ASSUME Shared, SequentialInv, [NextAPI]_allVars
    PROVE  /\ connID' \in {0, connID} \/ \E c \in Clients : connID' = me[c].reply.body.conn
           /\ resp'.body.conn \in {0, resp.body.conn, Garbage}
              \/ (tcpConn # Nil /\ resp'.body.conn = tcpConn)
           /\ \A c \in Clients :
                 /\ me'[c].pkt.body.conn \in {0, connID, me[c].pkt.body.conn}
                 /\ me'[c].reply.body.conn \in {0, resp.body.conn, me[c].reply.body.conn}
<1>0. TypeOKAPI /\ me \in [Clients -> Local]
  BY DEF Shared, TypeOKAPI
<1>1. ASSUME NEW c \in Clients, NEW l \in Local, Becomes(c, l),
             l.pkt.body.conn \in {0, connID, me[c].pkt.body.conn},
             l.reply.body.conn \in {0, resp.body.conn, me[c].reply.body.conn}
      PROVE  \A d \in Clients :
                /\ me'[d].pkt.body.conn \in {0, connID, me[d].pkt.body.conn}
                /\ me'[d].reply.body.conn \in {0, resp.body.conn, me[d].reply.body.conn}
  BY <1>0, <1>1, BecomesTypes
<1>2. ASSUME NEW c \in Clients, GoesOn(c)
      PROVE  \A d \in Clients :
                /\ me'[d].pkt.body.conn \in {0, connID, me[d].pkt.body.conn}
                /\ me'[d].reply.body.conn \in {0, resp.body.conn, me[d].reply.body.conn}
  BY <1>1, <1>2 DEF GoesOn, Plain
<1>3. CASE UNCHANGED <<me, connID, resp>>
  BY <1>3
<1>4. CASE Requesting
  <2>1. RequestStep /\ UNCHANGED me
    BY <1>4 DEF Requesting, api
  <2>2. CASE MovesOn \/ Unwinds \/ Panic
    BY <1>3, <2>1, <2>2 DEF MovesOn, Unwinds, Known, Panic, prog
  <2>3. CASE Drops \/ \E s \in Sockets : Redials(s)
    BY <2>1, <2>3 DEF Drops, Redials
  <2>4. CASE Reads
    <3>1. /\ tcpConn # Nil /\ sock[tcpConn].out # << >> /\ UNCHANGED connID
          /\ resp' \in {resp, Head(sock[tcpConn].out)}
      BY <2>4 DEF Reads, ReadReply, Succeed, TakeSession
    <3>2. tcpConn \in Sockets /\ sock[tcpConn].out \in Seq(Reply)
      BY <1>0, <3>1, ConnIsSocket, SocketFields DEF TypeOKAPI
    <3>3. 1 \in DOMAIN sock[tcpConn].out /\ Head(sock[tcpConn].out) = sock[tcpConn].out[1]
      BY <3>1, <3>2, EmptySeq, LenProperties
    <3>4. Head(sock[tcpConn].out).body.conn \in {0, Garbage, tcpConn}
      BY <3>2, <3>3 DEF Shared, RepliesNameSocket
    <3> QED
      BY <2>1, <3>1, <3>4
  <2> QED
    BY <2>1, <2>2, <2>3, <2>4, RequestCases
<1>5. CASE DeviceMoves
  BY <1>0, <1>3, <1>5, DeviceEvolves DEF TypeOKAPI
<1>6. CASE UNCHANGED allVars
  BY <1>3, <1>6 DEF allVars, vars, prog, api
<1>7. ASSUME NEW c \in Clients, Lock(c)
      PROVE  /\ UNCHANGED <<connID, resp>>
             /\ \A d \in Clients : me'[d].pkt = me[d].pkt /\ me'[d].reply = me[d].reply
  <2>1. me' = [me EXCEPT ![c].pc = "locked"] /\ UNCHANGED <<connID, resp>>
    BY <1>7 DEF Lock, Step, conn, prog
  <2> QED
    BY <1>0, <2>1 DEF Local
<1>8. ASSUME NEW c \in Clients, Unlock(c)
      PROVE  /\ UNCHANGED connID /\ resp' = Fragment
             /\ \A d \in Clients :
                   me'[d].pkt = me[d].pkt /\ me'[d].reply \in {resp, me[d].reply}
  <2> DEFINE j == [me[c] EXCEPT !.pc = "returned", !.ok = (stack[1].at = "ok"), !.reply = resp]
  <2>1. j \in Local /\ j.pkt = me[c].pkt /\ j.reply = resp
    BY <1>0 DEF Local, Shared, TypeOKAPI, TypeOK
  <2>2. Becomes(c, j) /\ UNCHANGED connID /\ resp' = Fragment
    BY <1>8 DEF Unlock, Becomes, conn, prog, Pop
  <2> HIDE DEF j
  <2> QED
    BY <1>0, <2>1, <2>2, BecomesTypes
<1>9. ASSUME NEW c \in Clients, SendCount(c)
      PROVE  /\ UNCHANGED connID
             /\ \A d \in Clients : me'[d].pkt = me[d].pkt /\ me'[d].reply = me[d].reply
  <2>1. me' = [me EXCEPT ![c].pc = "build"] /\ UNCHANGED connID
    BY <1>9 DEF SendCount, Step
  <2> QED
    BY <1>0, <2>1 DEF Local
<1>10. ASSUME NEW c \in Clients, SendBuild(c)
       PROVE  /\ UNCHANGED connID
              /\ \E l \in Local : /\ Becomes(c, l) /\ l.pkt.body.conn = connID
                                  /\ l.reply.body.conn = 0
  <2>1. /\ UNCHANGED connID /\ session \in Handles /\ nctx \in Nat
        /\ Body("Data", connID, seqNum) \in Bodies
    BY <1>0, <1>10, BodiesOf DEF TypeOKAPI, TypeOK, SendBuild, conn, prog
  <2>2. Want(c, "Send", "SendUnitData", session, Body("Data", connID, seqNum))
    BY <1>10 DEF SendBuild
  <2>3. PICK l \in Local : /\ Becomes(c, l) /\ l.reply = Fragment
                           /\ l.pkt = [cmd |-> "SendUnitData", ctx |-> nctx + 1, sess |-> session,
                                       body |-> Body("Data", connID, seqNum)]
    BY <2>1, <2>2, WantBecomes DEF Methods, Commands
  <2>4. l.pkt.body = Body("Data", connID, seqNum)
    BY <2>3
  <2> QED
    BY <2>1, <2>3, <2>4, BodyConns
<1>11. ASSUME NEW c \in Clients, ForwardOpenDone(c)
       PROVE  connID' = me[c].reply.body.conn /\ GoesOn(c)
  BY <1>11, FinishGoesOn DEF ForwardOpenDone
<1>12. ASSUME NEW c \in Clients, Outside(c)
       PROVE  /\ connID' \in {0, connID} \/ connID' = me[c].reply.body.conn
              /\ UNCHANGED resp
              /\ \A d \in Clients :
                    /\ me'[d].pkt.body.conn \in {0, connID, me[d].pkt.body.conn}
                    /\ me'[d].reply.body.conn \in {0, resp.body.conn, me[d].reply.body.conn}
  <2>1. UNCHANGED resp
    BY <1>12, ResponseOutside
  <2>2. CASE SendCount(c)
    BY <1>9, <2>1, <2>2
  <2>3. CASE SendBuild(c)
    BY <1>1, <1>10, <2>1, <2>3
  <2>4. CASE ForwardOpenDone(c)
    BY <1>2, <1>11, <2>1, <2>4
  <2>5. CASE GoesOn(c) /\ connID' \in {0, connID}
    BY <1>2, <2>1, <2>5
  <2>6. CASE UNCHANGED <<me, connID>>
    BY <2>1, <2>6
  <2> QED
    BY <1>12, <2>2, <2>3, <2>4, <2>5, <2>6, OutsideCases
<1> QED
  BY <1>4, <1>5, <1>6, <1>7, <1>8, <1>12, BodyConns, StepOfAPI
     DEF ClientCall, ClientStep, Outside, WindsUp

LEMMA ConnsNext ==
    ASSUME Shared, SequentialInv, ConnsDialled, [NextAPI]_allVars
    PROVE  ConnsDialled'
<1>1. /\ dials \in Nat /\ dials' \in Nat /\ dials <= dials' /\ tcpConn <= dials /\ tcpConn \in Nat
      /\ tcpConn # Nil => tcpConn \in Nat
  <2>1. TypeOKAPI' /\ TypeOKAPI
    BY TypesNext DEF Shared
  <2>2. dials \in 0 .. MaxSockets /\ dials' \in 0 .. MaxSockets /\ tcpConn \in 0 .. MaxSockets
    BY <2>1 DEF TypeOKAPI, TypeOK, Handles
  <2> QED
    BY <2>1, <2>2, SocketsNext, TransportAssumption DEF Shared, HandlesDialled
<1>2. ASSUME NEW id \in 0 .. Garbage, Dialled(id) PROVE Dialled(id)'
  BY <1>1, <1>2, Zeros DEF Dialled, Garbage
<1>3. Dialled(0)
  BY <1>1 DEF Dialled
<1>4. /\ connID \in 0 .. Garbage /\ resp.body.conn \in 0 .. Garbage
      /\ resp'.body.conn \in 0 .. Garbage
      /\ \A c \in Clients : me[c].pkt.body.conn \in 0 .. Garbage
                            /\ me[c].reply.body.conn \in 0 .. Garbage
  <2>1. ASSUME NEW b \in Bodies PROVE b.conn \in 0 .. Garbage
    BY ServicesAreBodies DEF ServiceBodies, Garbage
  <2>2. TypeOKAPI /\ TypeOKAPI'
    BY TypesNext DEF Shared
  <2>3. resp \in Reply /\ resp' \in Reply /\ connID \in 0 .. Garbage
    BY <2>2 DEF TypeOKAPI, TypeOK
  <2>4. \A c \in Clients : me[c].pkt \in Request /\ me[c].reply \in Reply
    BY <2>2 DEF TypeOKAPI, Local
  <2> QED
    BY <2>1, <2>3, <2>4 DEF Request, Reply
<1>5. Dialled(connID)'
  BY <1>2, <1>3, <1>4, Zeros, ConnsAfter DEF ConnsDialled
<1>6. Dialled(resp.body.conn)'
  <2>1. CASE resp'.body.conn \in {0, resp.body.conn}
    BY <1>2, <1>3, <1>4, <2>1, Zeros DEF ConnsDialled
  <2>2. CASE resp'.body.conn = Garbage \/ (tcpConn # Nil /\ resp'.body.conn = tcpConn)
    BY <1>1, <2>2, Zeros DEF Dialled, Garbage
  <2> QED
    BY <2>1, <2>2, ConnsAfter
<1>7. ASSUME NEW c \in Clients
      PROVE  (Dialled(me[c].pkt.body.conn) /\ Dialled(me[c].reply.body.conn))'
  <2>1. /\ me'[c].pkt.body.conn \in {0, connID, me[c].pkt.body.conn}
        /\ me'[c].reply.body.conn \in {0, resp.body.conn, me[c].reply.body.conn}
    BY ConnsAfter
  <2> QED
    BY <1>2, <1>3, <1>4, <2>1, Zeros DEF ConnsDialled
<1> QED
  BY <1>5, <1>6, <1>7 DEF ConnsDialled

LEMMA QuietNext ==
    ASSUME Shared, SequentialInv, Sequential, QuietElsewhere, [NextAPI]_allVars
    PROVE  QuietElsewhere'
<1> SUFFICES ASSUME NEW s \in Sockets, s \notin dirty', s # tcpConn', sock'[s].in # << >>
             PROVE  FALSE
  BY DEF QuietElsewhere
<1>1. /\ TypeOK /\ TypeOKAPI /\ s \notin dirty /\ SocketsEvolve /\ s # Nil
  BY SocketsNext, DirtyGrows DEF Shared, TypeOKAPI, Sockets, Nil
<1>2. \E i \in DOMAIN sock'[s].in : TRUE
  <2>1. sock'[s].in \in Seq(Request)
    BY <1>1, SocketFields DEF SocketsEvolve
  <2>2. Len(sock'[s].in) \in Nat \ {0} /\ DOMAIN sock'[s].in = 1 .. Len(sock'[s].in)
    BY <2>1, EmptySeq, LenProperties
  <2>3. 1 \in DOMAIN sock'[s].in
    BY <2>2, SMT
  <2> WITNESS 1 \in DOMAIN sock'[s].in
  <2> QED
    OBVIOUS
<1>3. ASSUME sock[s].in = << >>, ~(stack # << >> /\ s = tcpConn) PROVE FALSE
  BY <1>1, <1>2, <1>3, InAfter
<1>4. s = tcpConn /\ tcpConn' # tcpConn
  BY <1>1, <1>3 DEF QuietElsewhere
<1>5. ASSUME ~Reading PROVE sock[s].in = << >>
  BY <1>1, <1>4, <1>5, QuietUnlessReading DEF Quiet, Shared
<1>6. CASE stack = << >>
  BY <1>3, <1>5, <1>6 DEF Reading
<1>7. CASE Requesting
  <2>1. RequestStep
    BY <1>7 DEF Requesting
  <2>2. Top.at \in {"dialW", "dialR"} /\ sock'[s].in \in {sock[s].in, << >>}
    BY <1>1, <1>4, <2>1, RequestAtSocket
  <2>3. ~Reading
    BY <2>2 DEF Reading
  <2> QED
    BY <1>5, <2>2, <2>3
<1>8. CASE UNCHANGED tcpConn
  BY <1>4, <1>8
<1>9. DeviceMoves => UNCHANGED tcpConn
  BY <1>1, DeviceEvolves
<1>10. \A c \in Clients : Lock(c) \/ Unlock(c) => UNCHANGED tcpConn
  BY DEF Lock, Unlock, conn
<1>11. \A c \in Clients : Outside(c) => stack = << >>
  BY NoRequest
<1> QED
  BY <1>6, <1>7, <1>8, <1>9, <1>10, <1>11, StepOfAPI
     DEF ClientCall, ClientStep, Outside, WindsUp, allVars, vars

LEMMA ReconnectedNext ==
    ASSUME Shared, SequentialInv, Sequential, Reconnected, [NextAPI]_allVars
    PROVE  Reconnected'
<1>1. TypeOKAPI /\ TypeOK /\ stack \in Seq(Frame) /\ Len(stack) \in Nat
  BY LenProperties DEF Shared, TypeOKAPI, TypeOK
<1>2. CASE Requesting
  <2>1. RequestStep /\ stack # << >>
    BY <1>2, RequestCases DEF Requesting
  <2>2. ASSUME NEW l \in Labels \ {"rewriteW", "rewriteR"}, Goto(l), UNCHANGED connID
        PROVE  Reconnected'
    <3>1. Top'.at = l /\ Len(stack') = Len(stack)
      BY <1>1, <2>1, <2>2, GotoStack
    <3> QED
      BY <2>1, <2>2, <3>1 DEF Reconnected
  <2>3. ASSUME NEW n \in {0, 1}, Fail(n) PROVE Reconnected'
    <3>1. Len(stack') = 1 /\ Top'.at = "error"
      BY <1>1, <2>1, <2>3, FailStack
    <3> QED
      BY <3>1 DEF Reconnected
  <2>4. ASSUME connID' = 0 PROVE Reconnected'
    BY <2>4 DEF Reconnected
  <2>5. CASE Enter \/ RetryWriteFails \/ RetryReadFails \/ RedialFails
    BY <2>2, <2>3, <2>5 DEF Enter, RetryWriteFails, RetryReadFails, RedialFails, prog, Labels, Working
  <2>6. CASE FirstWrite \/ RetryWrite \/ FirstWriteFails \/ FirstReadFails
    BY <2>2, <2>6 DEF FirstWrite, RetryWrite, Write, FirstWriteFails, FirstReadFails, prog,
       Labels, Working
  <2>7. CASE ReadReply
    <3>1. UNCHANGED connID /\ (Goto("ok") \/ Len(stack) > 1)
      BY <2>7 DEF ReadReply, Succeed, TakeSession
    <3> QED
      BY <2>1, <2>2, <2>4, <3>1 DEF Reconnected, Labels, Finished
  <2>8. CASE NilDereference
    BY <2>8 DEF NilDereference, Panic, prog, Reconnected, Top
  <2>9. CASE ReconnectBegin
    BY <2>3, <2>4, <2>9 DEF ReconnectBegin, Reconnect, Reset
  <2>10. ASSUME NEW s \in Sockets, RedialOk(s) PROVE Reconnected'
    <3>1. Top.at \in {"dialW", "dialR"} /\ UNCHANGED connID
      BY <2>10 DEF RedialOk, At, prog
    <3> QED
      BY <2>1, <2>4, <3>1 DEF SequentialInv, RequestKnowsConnection
  <2> QED
    BY <2>1, <2>5, <2>6, <2>7, <2>8, <2>9, <2>10 DEF RequestStep
<1>3. CASE UNCHANGED <<stack, connID>>
  BY <1>3 DEF Reconnected, Top
<1>4. DeviceMoves => UNCHANGED <<stack, connID>>
  BY <1>1, DeviceEvolves
<1>5. ASSUME NEW c \in Clients, Lock(c) PROVE Reconnected'
  <2>1. stack = << >> /\ Call(me[c].pkt) /\ me[c].pkt \in Request
    BY <1>1, <1>5, LockHeld DEF Lock, Shared, TypeOKAPI, Local
  <2>2. Len(stack') = 1 /\ stack'[1].at = "enter"
    BY <2>1, CallAlone
  <2> QED
    BY <2>2 DEF Reconnected, Top
<1>6. ASSUME NEW c \in Clients, Unlock(c) PROVE Reconnected'
  BY <1>6 DEF Unlock, Pop, Reconnected
<1>7. ASSUME NEW c \in Clients, Outside(c) PROVE Reconnected'
  <2>1. stack' = << >>
    BY <1>1, <1>7, NoRequest, OutsideLock
  <2> QED
    BY <2>1 DEF Reconnected
<1> QED
  BY <1>2, <1>3, <1>4, <1>5, <1>6, <1>7, StepOfAPI
     DEF ClientCall, ClientStep, Outside, WindsUp, allVars, vars, prog

LEMMA GapTypes ==
    ASSUME TypeOKAPI, NEW s \in Sockets
    PROVE  /\ seen[s] \in Nat /\ seen[s] <= SeqMod /\ seqNum \in Nat /\ seqNum < SeqMod
           /\ Gap(s) \in Nat
<1>1. /\ seen[s] \in 0 .. SeqMod /\ seqNum \in 0 .. SeqMod - 1 /\ SeqMod \in Nat \ {0, 1}
  BY Zeros DEF TypeOKAPI
<1> QED
  BY <1>1 DEF Gap

\* Neither the count nor what the device saw changes, nobody has a message that is not sent,
\* and a message that is under way was so before.
LEMMA GapKept ==
    ASSUME TypeOKAPI, TypeOKAPI', GapBounded, FaultsGrow,
           InUse' => /\ UNCHANGED <<tcpConn, connID, seqNum, dirty>> /\ sock[tcpConn].up
                     /\ seen'[tcpConn] = seen[tcpConn]
                     /\ Uncounted' => Uncounted
                     /\ Uncounted => Uncounted' \/ faults' = faults + 1
    PROVE  GapBounded'
<1>1. faults \in Nat /\ faults' \in Nat
  BY DEF TypeOKAPI, TypeOK
<1> SUFFICES ASSUME InUse', seen'[tcpConn'] # SeqMod
             PROVE  (IF Uncounted THEN Gap(tcpConn) \in 1 .. faults + 1 ELSE Gap(tcpConn) <= faults)'
  BY DEF GapBounded
<1>2. InUse /\ tcpConn' = tcpConn /\ seen[tcpConn] # SeqMod /\ tcpConn # Nil
  BY DEF InUse, CleanConn
<1>3. tcpConn \in Sockets
  BY <1>2, ConnIsSocket DEF TypeOKAPI
<1>4. Gap(tcpConn)' = Gap(tcpConn) /\ Gap(tcpConn) \in Nat
  BY <1>2, <1>3, GapTypes DEF Gap
<1>5. IF Uncounted THEN Gap(tcpConn) \in 1 .. faults + 1 ELSE Gap(tcpConn) <= faults
  BY <1>2 DEF GapBounded
<1>6. faults' = faults \/ faults' = faults + 1
  BY DEF FaultsGrow
<1> HIDE DEF Gap, Uncounted
<1>7. CASE Uncounted'
  <2>1. Gap(tcpConn) \in 1 .. faults' + 1
    BY <1>1, <1>4, <1>5, <1>6, <1>7
  <2>2. Gap(tcpConn)' \in 1 .. faults' + 1
    BY <2>1, <1>4
  <2> QED
    BY <1>7, <2>2
<1>8. CASE ~Uncounted'
  <2>1. Gap(tcpConn) <= faults'
    BY <1>1, <1>4, <1>5, <1>6, <1>8
  <2>2. Gap(tcpConn)' <= faults'
    BY <2>1, <1>4
  <2> QED
    BY <1>8, <2>2
<1> QED
  BY <1>7, <1>8

LEMMA RequestNumbers ==
    ASSUME Shared, SequentialInv, ConnsDialled, RequestStep,
           NEW c \in Clients, me[c].pc = "locked", Numbered(me[c].pkt)
    PROVE  Numbered(me[c].pkt)'
           \/ me'[c] # me[c]
<1> SUFFICES ASSUME me'[c] = me[c]
             PROVE  Numbered(me[c].pkt)'
  OBVIOUS
<1>1. CASE UNCHANGED <<tcpConn, connID, seqNum>>
  BY <1>1 DEF Numbered
<1>2. CASE Drops
  BY <1>2 DEF Drops, Numbered
<1>3. ASSUME NEW s \in Sockets, Redials(s) PROVE Numbered(me[c].pkt)'
  <2>1. tcpConn' = s /\ s = dials + 1 /\ connID' = connID /\ Top.at \in {"dialW", "dialR"}
    BY <1>3 DEF Redials, DialOk
  <2>2. connID = 0
    BY <2>1, RequestCases DEF SequentialInv, RequestKnowsConnection
  <2>3. Dialled(me[c].pkt.body.conn) /\ dials \in Nat /\ s # 0 /\ s # Garbage
    <3>1. dials \in 0 .. MaxSockets /\ MaxSockets \in Nat
      BY TransportAssumption DEF Shared, TypeOKAPI, TypeOK
    <3> QED
      BY <3>1, <2>1 DEF ConnsDialled, Sockets, Garbage
  <2>4. me[c].pkt.body.conn # s
    <3>1. me[c].pkt.body.conn = Garbage \/ me[c].pkt.body.conn <= dials
      BY <2>3 DEF Dialled
    <3> QED
      BY <2>1, <2>3, <3>1
  <2> QED
    BY <2>1, <2>2, <2>3, <2>4 DEF Numbered
<1>4. CASE Reads
  BY <1>1, <1>4 DEF Reads, ReadReply, Succeed, TakeSession
<1> QED
  BY <1>1, <1>2, <1>3, <1>4, RequestCases DEF MovesOn, Unwinds, Known, Panic, prog

LEMMA RepliesRequest ==
    ASSUME Shared, SequentialInv, RepliesFresh, Requesting, [NextAPI]_allVars
    PROVE  RepliesFresh'
<1>1. RequestStep /\ UNCHANGED seen
  BY DEF Requesting
<1>2. TypeOKAPI /\ TypeOK /\ dirty \subseteq dirty'
  BY DirtyGrows DEF Shared, TypeOKAPI
<1>3. CASE tcpConn' = tcpConn
  <2> SUFFICES ASSUME CleanConn'
               PROVE  RepliesFresh'
    BY DEF RepliesFresh, NewFor
  <2>2. CleanConn /\ tcpConn \in Sockets /\ sock[tcpConn].out \in Seq(Reply)
    BY <1>2, <1>3, ConnIsSocket, SocketFields DEF CleanConn
  <2>3. \A a \in Range(sock[tcpConn].out) : a.body.conn = tcpConn => seen[tcpConn] = SeqMod
    BY <2>2 DEF RepliesFresh, Range, NewFor
  <2>4. Range(sock'[tcpConn].out) \subseteq Range(sock[tcpConn].out)
    <3>1. ASSUME NEW s \in Sockets, RedialOk(s) PROVE FALSE
      <4>1. tcpConn = dials + 1 /\ tcpConn <= dials /\ dials \in 0 .. MaxSockets
        BY <1>2, <1>3, <3>1 DEF RedialOk, DialOk, Shared, HandlesDialled, TypeOK
      <4>2. \A n \in 0 .. MaxSockets : ~(n + 1 <= n)
        BY TransportAssumption
      <4> QED
        BY <4>1, <4>2
    <3> QED
      BY <1>1, <1>2, <1>3, <2>2, <3>1, RequestAtSocket DEF CleanConn
  <2>5. \A i \in DOMAIN sock'[tcpConn].out :
           sock'[tcpConn].out[i].body.conn = tcpConn => seen[tcpConn] = SeqMod
    BY <2>3, <2>4 DEF Range
  <2>6. resp'.body.conn = tcpConn => seen[tcpConn] = SeqMod
    <3>1. CASE UNCHANGED resp
      BY <2>2, <3>1 DEF RepliesFresh, NewFor
    <3>2. CASE sock[tcpConn].out # << >> /\ resp' = Head(sock[tcpConn].out)
      BY <2>2, <2>3, <3>2, RangeOfTail
    <3> QED
      BY <1>1, <3>1, <3>2, RequestResponds
  <2> QED
    BY <1>1, <1>3, <2>5, <2>6 DEF RepliesFresh, NewFor
<1>4. CASE tcpConn' = Nil
  BY <1>4 DEF RepliesFresh, NewFor, CleanConn
<1>5. CASE tcpConn' # tcpConn /\ tcpConn' # Nil
  <2>1. sock'[tcpConn'] = FreshSocket
    BY <1>2, <1>5, SocketsNext
  <2>2. DOMAIN sock'[tcpConn'].out = {}
    BY <2>1 DEF FreshSocket
  <2>3. UNCHANGED resp
    BY <1>1, <1>5, RequestResponds
  <2>4. PICK s \in Sockets : Redials(s)
    <3>1. ~MovesOn /\ ~Unwinds /\ ~Drops /\ ~Panic /\ ~Reads
      BY <1>5 DEF MovesOn, Unwinds, Known, Drops, Panic, Reads, ReadReply
    <3> QED
      BY <1>1, <3>1, RequestCases
  <2>5. resp = Fragment
    BY <1>1, <2>4, RequestCases DEF Redials, Shared, ResponseOfOk
  <2>6. resp'.body.conn = 0
    BY <2>3, <2>5, BodyConns
  <2>7. NewFor(resp.body.conn)'
    BY <1>5, <2>6 DEF NewFor, Nil
  <2> QED
    BY <2>2, <2>7 DEF RepliesFresh
<1> QED
  BY <1>3, <1>4, <1>5

LEMMA CountRequest ==
    ASSUME Shared, SequentialInv, CountInv, Requesting, [NextAPI]_allVars
    PROVE  (\A c \in Clients : KnowsCount(me[c])') /\ RepliesFresh' /\ GapBounded'
<1>1. RequestStep /\ UNCHANGED <<me, seen>> /\ stack # << >>
  BY RequestCases DEF Requesting, api
<1>2. TypeOKAPI /\ TypeOKAPI'
  BY TypesNext DEF Shared
<1>3. \A c \in Clients : ~Pending(me[c]) /\ me[c].pc \in {"idle", "locked"}
  BY <1>1, HolderWaits
<1>4. ASSUME NEW c \in Clients PROVE KnowsCount(me[c])'
  <2>1. me'[c] = me[c] /\ me[c].pc \in {"idle", "locked"}
    BY <1>1, <1>3
  <2>2. CASE me[c].pc = "locked"
    <3>1. Numbered(me[c].pkt)
      BY <2>2 DEF CountInv, KnowsCount
    <3>2. Numbered(me[c].pkt)'
      BY <1>1, <2>1, <2>2, <3>1, RequestNumbers DEF CountInv
    <3> QED
      BY <2>1, <2>2, <3>2 DEF KnowsCount
  <2> QED
    BY <2>1, <2>2 DEF KnowsCount
<1>5. RepliesFresh'
  BY RepliesRequest DEF CountInv
<1>6. GapBounded'
  <2>1. FaultsGrow
    BY FaultsNext
  <2>2. Uncounted <=> OnItsWay
    BY <1>3 DEF Uncounted
  <2>3. Uncounted' <=> OnItsWay'
    BY <1>1, <1>3 DEF Uncounted, Pending
  <2>4. InUse' => /\ UNCHANGED <<tcpConn, connID, seqNum, dirty>> /\ sock[tcpConn].up
                  /\ OnItsWay' <=> OnItsWay
    BY <1>1, RequestKeepsCount DEF CountInv
  <2>5. Reconnected /\ GapBounded
    BY DEF CountInv
  <2> HIDE DEF Uncounted, OnItsWay
  <2>6. InUse' => (Uncounted' <=> Uncounted)
    BY <2>2, <2>3, <2>4
  <2> QED
    BY <1>1, <1>2, <2>1, <2>4, <2>5, <2>6, GapKept
<1> QED
  BY <1>4, <1>5, <1>6

\* The device's step keeps what the goroutines know.
LEMMA DeviceKeepsCount ==
    ASSUME TypeOKAPI, DeviceMoves
    PROVE  UNCHANGED <<tcpConn, connID, seqNum, stack, resp, dirty, me>>
BY DeviceEvolves DEF TypeOKAPI

LEMMA KnowsKept ==
    ASSUME NEW c \in Clients, KnowsCount(me[c]),
           UNCHANGED <<tcpConn, connID, seqNum, dirty>>, me'[c] = me[c],
           \/ seen'[tcpConn] \in {seen[tcpConn], SeqMod}
           \/ me[c].pc # "returned"
    PROVE  KnowsCount(me[c])'
<1>1. (me[c].pc \in {"want", "locked"} => Numbered(me[c].pkt))'
  BY DEF KnowsCount, Numbered
<1>2. (me[c].pc = "returned" => NewFor(me[c].reply.body.conn))'
  BY DEF KnowsCount, NewFor, CleanConn
<1> QED
  BY <1>1, <1>2 DEF KnowsCount

\* On the socket in use the device has the request in progress, and nothing else.
LEMMA DeviceHasRequest ==
    ASSUME Shared, SequentialInv, CleanConn, sock[tcpConn].in # << >>
    PROVE  /\ stack # << >> /\ Top.at \notin {"enter", "write", "reconnectW"}
           /\ sock[tcpConn].out = << >> /\ Tail(sock[tcpConn].in) = << >>
           /\ Head(sock[tcpConn].in) = Top.pkt /\ Top.pkt \in Request
           /\ resp = Fragment
           /\ \A c \in Clients : me[c].pc # "returned"
<1>1. TypeOK /\ OneInFlight /\ AnswersInFlight
  BY DEF Shared, TypeOKAPI
<1>2. /\ Reading /\ sock[tcpConn].out = << >> /\ Tail(sock[tcpConn].in) = << >>
  BY <1>1, OnlyRequest DEF CleanConn
<1>3. tcpConn \in Sockets /\ sock[tcpConn].in \in Seq(Request)
  BY <1>1, ConnIsSocket, SocketFields DEF CleanConn
<1>4. 1 \in DOMAIN sock[tcpConn].in /\ Head(sock[tcpConn].in) = sock[tcpConn].in[1]
      /\ Head(sock[tcpConn].in) \in Request
  BY <1>3, EmptySeq, LenProperties, RangeOfTail
<1>5. Head(sock[tcpConn].in) = Top.pkt
  BY <1>1, <1>4 DEF AnswersInFlight, CleanConn
<1>6. stack # << >> /\ Top.at \in {"read", "reread", "reconnectR"}
  BY <1>2 DEF Reading
<1>7. resp = Fragment
  BY <1>6 DEF Shared, ResponseOfOk
<1>8. \A c \in Clients : me[c].pc # "returned"
  BY <1>6, HolderWaits
<1> QED
  BY <1>2, <1>4, <1>5, <1>6, <1>7, <1>8

\* The device of another socket.
LEMMA CountElsewhere ==
    ASSUME Shared, CountInv, DeviceMoves, [NextAPI]_allVars,
           ~CleanConn \/ (sock'[tcpConn] = sock[tcpConn] /\ seen'[tcpConn] = seen[tcpConn])
    PROVE  (\A c \in Clients : KnowsCount(me[c])') /\ RepliesFresh' /\ GapBounded'
<1>1. UNCHANGED <<tcpConn, connID, seqNum, stack, resp, dirty, me>> /\ TypeOKAPI /\ TypeOKAPI'
  BY DeviceKeepsCount, TypesNext DEF Shared
<1>2. CASE ~CleanConn
  <2>1. ~CleanConn'
    BY <1>1, <1>2 DEF CleanConn
  <2>2. ASSUME NEW c \in Clients PROVE KnowsCount(me[c])'
    BY <1>1, <2>1 DEF CountInv, KnowsCount, Numbered, NewFor
  <2>3. RepliesFresh' /\ GapBounded'
    BY <2>1 DEF RepliesFresh, NewFor, GapBounded, InUse
  <2> QED
    BY <2>2, <2>3
<1>3. CASE sock'[tcpConn] = sock[tcpConn] /\ seen'[tcpConn] = seen[tcpConn]
  <2>1. ASSUME NEW c \in Clients PROVE KnowsCount(me[c])'
    BY <1>1, <1>3, KnowsKept DEF CountInv
  <2>2. RepliesFresh'
    BY <1>1, <1>3 DEF CountInv, RepliesFresh, NewFor, CleanConn
  <2>3. Uncounted' <=> Uncounted
    BY <1>1, <1>3 DEF Uncounted, OnItsWay, Top
  <2>4. FaultsGrow /\ GapBounded
    BY FaultsNext DEF CountInv
  <2>5. InUse' => sock[tcpConn].up
    BY <1>1, <1>3 DEF InUse
  <2> HIDE DEF Uncounted
  <2>6. GapBounded'
    BY <1>1, <1>3, <2>3, <2>4, <2>5, GapKept
  <2> QED
    BY <2>1, <2>2, <2>6
<1> QED
  BY <1>2, <1>3

\* The device takes the message under way: it has then seen the last count.
LEMMA CountServes ==
    ASSUME Shared, SequentialInv, CountInv, CleanConn, DeviceServes(tcpConn), [NextAPI]_allVars
    PROVE  (\A c \in Clients : KnowsCount(me[c])') /\ RepliesFresh' /\ GapBounded'
<1> DEFINE s == tcpConn
           r == Head(sock[tcpConn].in)
<1>1. /\ s \in Sockets /\ sock \in [Sockets -> Socket] /\ sock[s] \in Socket
      /\ seen \in [Sockets -> 0 .. SeqMod] /\ TypeOKAPI /\ TypeOKAPI' /\ s # Nil
  BY ConnIsSocket, TypesNext DEF Shared, TypeOKAPI, TypeOK, CleanConn
<1>2. UNCHANGED <<tcpConn, connID, seqNum, stack, resp, dirty, me>>
  BY <1>1, DeviceKeepsCount DEF DeviceMoves
<1>3. sock[s].in # << >> /\ ~UnknownConnection(s)
  BY DEF DeviceServes
<1>4. /\ stack # << >> /\ Top.at \notin {"enter", "write", "reconnectW"}
      /\ sock[s].out = << >> /\ Tail(sock[s].in) = << >>
      /\ r = Top.pkt /\ r \in Request /\ resp = Fragment
      /\ \A c \in Clients : me[c].pc # "returned"
  BY <1>3, DeviceHasRequest
<1>5. r.cmd = "SendUnitData" =>
         /\ r.body.svc = "Data" /\ r.body.conn = s /\ connID = s /\ r.body.seq = seqNum
  <2>1. ASSUME r.cmd = "SendUnitData" PROVE Numbered(r) /\ r.body.conn = s
    BY <1>3, <1>4, <2>1, Outermost DEF CountInv, UnknownConnection
  <2> QED
    BY <1>1, <2>1 DEF Numbered
<1>6. Garbage # s /\ s # 0 /\ seen'[s] \in 0 .. SeqMod
  <2>1. s \in 1 .. MaxSockets /\ MaxSockets \in Nat
    BY <1>1, TransportAssumption DEF Sockets
  <2>2. Garbage # s /\ s # 0
    BY <2>1 DEF Garbage
  <2>3. seen' \in [Sockets -> 0 .. SeqMod]
    BY <1>1 DEF TypeOKAPI
  <2> QED
    BY <1>1, <2>2, <2>3
<1>7. PICK body \in Responses(s, r) :
         /\ DeviceAnswers(s, body) \/ DeviceUnRegisters(s)
         /\ seen' = IF r.cmd = "SendUnitData" THEN [seen EXCEPT ![s] = r.body.seq]
                    ELSE IF DeviceReply(s, r, body).body.conn = s
                    THEN [seen EXCEPT ![s] = SeqMod] ELSE seen
  BY DEF DeviceServes, Serve
<1> DEFINE a == DeviceReply(s, r, body)
<1>8. /\ r.cmd = "SendUnitData" => seen'[s] = r.body.seq
      /\ r.cmd # "SendUnitData" => seen'[s] \in {seen[s], SeqMod}
      /\ a.body.conn = s => seen'[s] = SeqMod
  <2>1. a.body \in {NoBody, body}
    BY DEF DeviceReply
  <2>2. r.cmd = "SendUnitData" => body.conn = Garbage
    BY <1>5, BodyConns DEF Responses
  <2>3. r.cmd = "SendUnitData" => a.body.conn # s
    BY <1>6, <2>1, <2>2, BodyConns
  <2> HIDE DEF r, a
  <2>4. seen' = IF r.cmd = "SendUnitData" THEN [seen EXCEPT ![s] = r.body.seq]
                ELSE IF a.body.conn = s THEN [seen EXCEPT ![s] = SeqMod] ELSE seen
    BY <1>7 DEF a
  <2> QED
    BY <1>1, <2>3, <2>4
<1>9. sock'[s].in = << >> /\ sock'[s].out \in {<< >>, <<a>>}
  <2>1. CASE DeviceUnRegisters(s)
    BY <1>1, <1>4, <2>1 DEF DeviceUnRegisters, Socket
  <2>2. CASE DeviceAnswers(s, body)
    <3>1. sock'[s].in = Tail(sock[s].in) /\ sock'[s].out = Append(sock[s].out, a)
      BY <1>1, <2>2 DEF DeviceAnswers, Socket
    <3> HIDE DEF a
    <3> QED
      BY <1>4, <3>1
  <2> QED
    BY <1>7, <2>1, <2>2
<1> HIDE DEF r, a
<1>10. ASSUME NEW c \in Clients PROVE KnowsCount(me[c])'
  BY <1>2, <1>4, KnowsKept DEF CountInv
<1>11. RepliesFresh'
  <2>1. resp'.body.conn # s
    BY <1>2, <1>4, <1>6, BodyConns
  <2>2. ASSUME NEW i \in DOMAIN sock'[s].out, sock'[s].out[i].body.conn = s
        PROVE  seen'[s] = SeqMod
    <3>1. sock'[s].out[i] = a
      BY <1>9, <2>2
    <3> QED
      BY <1>8, <2>2, <3>1
  <2> QED
    BY <1>2, <2>1, <2>2 DEF RepliesFresh, NewFor
<1>12. GapBounded'
  <2>1. ~OnItsWay' /\ ~Uncounted'
    <3>1. \A c \in Clients : ~Pending(me[c])
      BY <1>4, HolderWaits
    <3>2. Top'.at = Top.at
      BY <1>2 DEF Top
    <3> QED
      BY <1>2, <1>4, <1>9, <3>1, <3>2 DEF OnItsWay, Uncounted, Pending
  <2>2. faults' \in Nat
    BY <1>1 DEF TypeOKAPI, TypeOK
  <2>3. CASE r.cmd = "SendUnitData"
    <3>1. seen'[s] = seqNum /\ seqNum' = seqNum /\ seqNum \in Nat
      BY <1>1, <1>2, <1>5, <1>8, <2>3, GapTypes
    <3>2. Gap(tcpConn)' = 0
      BY <1>2, <3>1 DEF Gap
    <3> HIDE DEF Gap, Uncounted
    <3> QED
      BY <2>1, <2>2, <3>2 DEF GapBounded
  <2>4. CASE seen'[s] = SeqMod
    BY <1>2, <2>4 DEF GapBounded
  <2>5. CASE r.cmd # "SendUnitData" /\ seen'[s] = seen[s]
    <3>1. ~Uncounted
      BY <1>4, <2>5, HolderWaits DEF Uncounted, OnItsWay
    <3>2. sock'[s].up => sock[s].up
      BY DEF DeviceServes, Serve, DeviceAnswers, DeviceUnRegisters
    <3>3. FaultsGrow /\ GapBounded
      BY FaultsNext DEF CountInv
    <3>4. InUse' => sock[tcpConn].up
      BY <1>2, <3>2 DEF InUse
    <3> HIDE DEF Uncounted
    <3> QED
      BY <1>1, <1>2, <2>1, <2>5, <3>1, <3>3, <3>4, GapKept
  <2> QED
    BY <1>8, <2>3, <2>4, <2>5
<1> QED
  BY <1>10, <1>11, <1>12

\* A message that the device drops is not one of the connection in use.
LEMMA CountDrops ==
    ASSUME Shared, SequentialInv, CountInv, CleanConn, DeviceDrops(tcpConn), [NextAPI]_allVars
    PROVE  (\A c \in Clients : KnowsCount(me[c])') /\ RepliesFresh' /\ GapBounded'
<1> DEFINE s == tcpConn
<1>1. /\ s \in Sockets /\ sock \in [Sockets -> Socket] /\ sock[s] \in Socket
      /\ TypeOKAPI /\ TypeOKAPI' /\ s # Nil
  BY ConnIsSocket, TypesNext DEF Shared, TypeOKAPI, TypeOK, CleanConn
<1>2. UNCHANGED <<tcpConn, connID, seqNum, stack, resp, dirty, me, seen>>
  BY <1>1, DeviceKeepsCount DEF DeviceMoves, DeviceDrops
<1>3. /\ sock[s].in # << >> /\ Head(sock[s].in).cmd = "SendUnitData"
      /\ Head(sock[s].in).body.conn # s
  BY DEF DeviceDrops, UnknownConnection
<1>4. stack # << >> /\ Head(sock[s].in) = Top.pkt /\ sock[s].out = << >>
  BY <1>3, DeviceHasRequest
<1>5. Numbered(Top.pkt)
  BY <1>3, <1>4, Outermost DEF CountInv
<1>6. connID # s
  BY <1>1, <1>3, <1>4, <1>5 DEF Numbered
<1>7. sock'[s].out = sock[s].out
  BY <1>1 DEF DeviceDrops, Socket
<1>8. ASSUME NEW c \in Clients PROVE KnowsCount(me[c])'
  BY <1>2, KnowsKept DEF CountInv
<1>9. RepliesFresh'
  BY <1>2, <1>7 DEF CountInv, RepliesFresh, NewFor, CleanConn
<1>10. GapBounded'
  BY <1>2, <1>6 DEF GapBounded, InUse
<1> QED
  BY <1>8, <1>9, <1>10

\* A message that is not answered costs a fault.
LEMMA CountFails ==
    ASSUME Shared, SequentialInv, CountInv, CleanConn, DeviceFails(tcpConn), [NextAPI]_allVars
    PROVE  (\A c \in Clients : KnowsCount(me[c])') /\ RepliesFresh' /\ GapBounded'
<1> DEFINE s == tcpConn
<1>1. /\ s \in Sockets /\ sock \in [Sockets -> Socket] /\ sock[s] \in Socket
      /\ TypeOKAPI /\ TypeOKAPI' /\ s # Nil /\ s # 0
  BY ConnIsSocket, TypesNext DEF Shared, TypeOKAPI, TypeOK, CleanConn, Nil
<1>2. UNCHANGED <<tcpConn, connID, seqNum, stack, resp, dirty, me, seen>>
  BY <1>1, DeviceKeepsCount DEF DeviceMoves, DeviceFails
<1>3. faults' = faults + 1
  BY DEF DeviceFails, Misbehave, DeviceRefuses, DeviceSilent, HangUp, Tear, Fault
<1>4. /\ sock'[s].up => sock[s].up
      /\ sock[s].in = << >> => sock'[s].in = << >>
      /\ \A a \in Range(sock'[s].out) :
            a \in Range(sock[s].out) \/ a.body.conn = 0
  <2>1. CASE DeviceRefuses(s)
    <3> DEFINE a == [ctx |-> Head(sock[s].in).ctx, sess |-> 0, has |-> "none", body |-> NoBody]
    <3>1. /\ sock[s].in # << >> /\ sock'[s].up = sock[s].up
          /\ sock'[s].out = Append(sock[s].out, a)
      BY <1>1, <2>1 DEF DeviceRefuses, Socket
    <3>2. sock[s].out = << >>
      BY <3>1, DeviceHasRequest
    <3>3. a.body.conn = 0
      BY BodyConns
    <3> HIDE DEF a
    <3>4. sock'[s].out = <<a>>
      BY <3>1, <3>2
    <3> QED
      BY <3>1, <3>3, <3>4 DEF Range
  <2>2. CASE DeviceSilent(s)
    BY <1>1, <2>2 DEF DeviceSilent, Socket
  <2>3. CASE HangUp(s)
    <3>1. sock'[s].in = << >> /\ ~sock'[s].up /\ sock'[s].out \in {sock[s].out, << >>}
      BY <1>1, <2>3 DEF HangUp, Socket
    <3> QED
      BY <3>1, RangeOfEmpty
  <2>4. CASE Tear(s)
    <3>1. /\ sock[s].out # << >> /\ sock'[s].in = sock[s].in /\ sock'[s].up = sock[s].up
          /\ sock'[s].out = <<Fragment, Fragment>> \o Tail(sock[s].out)
      BY <1>1, <2>4 DEF Tear, Socket
    <3>2. Range(sock'[s].out) \subseteq Range(sock[s].out) \cup {Fragment}
      BY <1>1, <3>1, SocketFields, FragmentFacts, RangeOfTorn
    <3> QED
      BY <3>1, <3>2, BodyConns
  <2> QED
    BY <2>1, <2>2, <2>3, <2>4 DEF DeviceFails, Misbehave
<1>5. ASSUME NEW c \in Clients PROVE KnowsCount(me[c])'
  BY <1>2, KnowsKept DEF CountInv
<1>6. RepliesFresh'
  <2>1. \A a \in Range(sock[s].out) : a.body.conn = s => seen[s] = SeqMod
    BY DEF CountInv, RepliesFresh, NewFor, Range
  <2>2. \A i \in DOMAIN sock'[s].out : sock'[s].out[i].body.conn = s => seen[s] = SeqMod
    BY <1>1, <1>4, <2>1 DEF Range
  <2> QED
    BY <1>2, <2>2 DEF CountInv, RepliesFresh, NewFor, CleanConn
<1>7. GapBounded'
  <2>1. Uncounted' => Uncounted
    BY <1>2, <1>4 DEF Uncounted, OnItsWay, Top
  <2>2. FaultsGrow /\ GapBounded
    BY FaultsNext DEF CountInv
  <2>3. InUse' => sock[tcpConn].up
    BY <1>2, <1>4 DEF InUse
  <2> HIDE DEF Uncounted
  <2> QED
    BY <1>1, <1>2, <1>3, <2>1, <2>2, <2>3, GapKept
<1> QED
  BY <1>5, <1>6, <1>7

LEMMA CountDevice ==
    ASSUME Shared, SequentialInv, CountInv, DeviceMoves, [NextAPI]_allVars
    PROVE  (\A c \in Clients : KnowsCount(me[c])') /\ RepliesFresh' /\ GapBounded'
<1>1. PICK s \in Sockets : DeviceServes(s) \/ DeviceDrops(s) \/ DeviceFails(s)
  BY DEF DeviceMoves
<1>2. CASE s = tcpConn /\ CleanConn
  BY <1>1, <1>2, CountServes, CountDrops, CountFails
<1>3. CASE s # tcpConn /\ CleanConn
  <2>1. sock \in [Sockets -> Socket] /\ seen \in [Sockets -> 0 .. SeqMod] /\ tcpConn \in Sockets
    BY <1>3, ConnIsSocket DEF Shared, TypeOKAPI, TypeOK, CleanConn
  <2>2. sock'[tcpConn] = sock[tcpConn]
    BY <1>1, <1>3, <2>1 DEF DeviceServes, Serve, DeviceAnswers, DeviceUnRegisters, DeviceDrops,
       DeviceFails, Misbehave, DeviceRefuses, DeviceSilent, HangUp, Tear
  <2>3. seen'[tcpConn] = seen[tcpConn]
    <3>1. \/ UNCHANGED seen
          \/ \E n : seen' = [seen EXCEPT ![s] = n]
      BY <1>1 DEF DeviceServes, DeviceDrops, DeviceFails
    <3> QED
      BY <1>3, <2>1, <3>1
  <2> QED
    BY <2>2, <2>3, CountElsewhere
<1> QED
  BY <1>2, <1>3, CountElsewhere

\* requestLock is taken: a message that was to be sent is under way.
LEMMA CountLock ==
    ASSUME Shared, SequentialInv, CountInv, NEW c \in Clients, Lock(c), [NextAPI]_allVars
    PROVE  (\A d \in Clients : KnowsCount(me[d])') /\ RepliesFresh' /\ GapBounded'
<1>1. /\ TypeOKAPI /\ TypeOKAPI' /\ me \in [Clients -> Local] /\ me[c].pkt \in Request
      /\ me[c].pc = "want"
  BY TypesNext DEF Shared, TypeOKAPI, Local, Lock, Client
<1>2. stack = << >> /\ Call(me[c].pkt)
  BY LockHeld DEF Shared, Lock
<1>3. stack' # << >> /\ Len(stack') = 1 /\ stack'[1].pkt = me[c].pkt /\ stack'[1].at = "enter"
  BY <1>1, <1>2, CallAlone
<1>4. Top'.pkt = me[c].pkt /\ Top'.at = "enter"
  BY <1>3 DEF Top
<1>5. UNCHANGED <<tcpConn, connID, seqNum, dirty, resp, sock, faults, seen>>
  BY DEF Lock, conn, prog, net
<1>6. me'[c].pc = "locked" /\ me'[c].pkt = me[c].pkt /\ \A d \in Clients \ {c} : me'[d] = me[d]
  BY <1>1 DEF Lock, Step, Local
<1>7. \A d \in Clients \ {c} : me[d].pc = "idle"
  BY <1>1 DEF SequentialInv, OneAtATime
<1>8. ASSUME NEW d \in Clients PROVE KnowsCount(me[d])'
  <2>1. CASE d = c
    <3>1. Numbered(me[c].pkt)
      BY <1>1 DEF CountInv, KnowsCount
    <3>2. Numbered(me[c].pkt)'
      BY <1>5, <1>6, <3>1 DEF Numbered
    <3> QED
      BY <1>6, <2>1, <3>2 DEF KnowsCount
  <2>2. CASE d # c
    BY <1>6, <1>7, <2>2 DEF KnowsCount
  <2> QED
    BY <2>1, <2>2
<1>9. RepliesFresh'
  BY <1>5 DEF CountInv, RepliesFresh, NewFor, CleanConn
<1>10. GapBounded'
  <2>1. Uncounted <=> me[c].pkt.cmd = "SendUnitData"
    BY <1>1, <1>2, <1>7 DEF Uncounted, OnItsWay, Pending
  <2>2. Uncounted' <=> me[c].pkt.cmd = "SendUnitData"
    BY <1>3, <1>4, <1>6, <1>7 DEF Uncounted, OnItsWay, Pending
  <2>3. FaultsGrow /\ GapBounded
    BY FaultsNext DEF CountInv
  <2>4. InUse' => InUse
    BY <1>5 DEF InUse, CleanConn
  <2> HIDE DEF Uncounted
  <2> QED
    BY <1>1, <1>5, <2>1, <2>2, <2>3, <2>4, GapKept DEF InUse
<1> QED
  BY <1>8, <1>9, <1>10

\* It is given back: nothing is under way.
LEMMA CountUnlock ==
    ASSUME Shared, SequentialInv, CountInv, NEW c \in Clients, Unlock(c), [NextAPI]_allVars
    PROVE  (\A d \in Clients : KnowsCount(me[d])') /\ RepliesFresh' /\ GapBounded'
<1> DEFINE j == [me[c] EXCEPT !.pc = "returned", !.ok = (stack[1].at = "ok"), !.reply = resp]
<1>1. /\ TypeOKAPI /\ TypeOKAPI' /\ TypeOK /\ me \in [Clients -> Local] /\ me[c] \in Local
      /\ resp \in Reply /\ OneInFlight
  BY TypesNext DEF Shared, TypeOKAPI, TypeOK
<1>2. /\ lock = c /\ Len(stack) = 1 /\ stack # << >> /\ stack[1].at \in {"ok", "error"}
      /\ stack' = << >> /\ resp' = Fragment
      /\ UNCHANGED <<tcpConn, connID, seqNum, dirty, sock, faults, seen>>
  BY DEF Unlock, Returned, At, Top, Pop, conn, prog, net
<1>3. Top.at \in {"ok", "error"} /\ ~Reading
  BY <1>2 DEF Top, Reading
<1>4. me[c].pc = "locked" /\ \A d \in Clients : ~Pending(me[d]) /\ (d # c => me[d].pc = "idle")
  <2>1. me[c].pc = "locked"
    BY <1>2 DEF Shared, HoldsLock
  <2> QED
    BY <1>2, <2>1, HolderWaits DEF SequentialInv, OneAtATime
<1>5. j \in Local /\ j.pc = "returned" /\ j.reply = resp
  BY <1>1 DEF Local
<1>6. Becomes(c, j)
  BY DEF Unlock, Becomes
<1> HIDE DEF j
<1>7. me'[c] = j /\ \A d \in Clients \ {c} : me'[d] = me[d]
  BY <1>1, <1>5, <1>6, BecomesTypes
<1>8. ASSUME NEW d \in Clients PROVE KnowsCount(me[d])'
  <2>1. CASE d = c
    <3>1. NewFor(resp.body.conn)
      BY DEF CountInv, RepliesFresh
    <3>2. me'[d].reply = resp /\ me'[d].pc = "returned"
      BY <1>5, <1>7, <2>1
    <3> QED
      BY <1>2, <3>1, <3>2 DEF KnowsCount, NewFor, CleanConn
  <2>2. CASE d # c
    BY <1>4, <1>7, <2>2 DEF KnowsCount
  <2> QED
    BY <2>1, <2>2
<1>9. RepliesFresh'
  <2>1. tcpConn # Nil => resp'.body.conn # tcpConn
    BY <1>2, BodyConns DEF Nil
  <2> QED
    BY <1>2, <2>1 DEF CountInv, RepliesFresh, NewFor, CleanConn
<1>10. GapBounded'
  <2>1. CleanConn => ~Uncounted
    <3>1. CleanConn => sock[tcpConn].in = << >>
      BY <1>1, <1>3, QuietUnlessReading DEF CleanConn, Quiet
    <3> QED
      BY <1>3, <1>4, <3>1 DEF Uncounted, OnItsWay
  <2>2. ~Uncounted'
    BY <1>2, <1>4, <1>5, <1>7 DEF Uncounted, OnItsWay, Pending
  <2>3. FaultsGrow /\ GapBounded
    BY FaultsNext DEF CountInv
  <2>4. InUse' => CleanConn /\ sock[tcpConn].up
    BY <1>2 DEF InUse, CleanConn
  <2> HIDE DEF Uncounted
  <2> QED
    BY <1>1, <1>2, <2>1, <2>2, <2>3, <2>4, GapKept
<1> QED
  BY <1>8, <1>9, <1>10

\* Outside requestLock nothing is under way.
LEMMA RepliesOutside ==
    ASSUME Shared, SequentialInv, Sequential, NEW c \in Clients, Outside(c)
    PROVE  RepliesFresh'
<1>1. TypeOKAPI /\ TypeOK /\ OneInFlight
  BY DEF Shared, TypeOKAPI
<1>2. stack = << >> /\ resp' = Fragment /\ UNCHANGED dirty
  BY NoRequest, ResponseOutside
<1>3. NewFor(resp.body.conn)'
  BY <1>2, BodyConns DEF NewFor, CleanConn, Nil
<1> SUFFICES ASSUME CleanConn', NEW i \in DOMAIN sock'[tcpConn'].out
             PROVE  sock'[tcpConn'].out[i].body.conn = 0
  BY <1>3 DEF RepliesFresh, NewFor, CleanConn, Nil
<1>4. CASE tcpConn' = tcpConn
  <2>1. Quiet(sock[tcpConn])
    BY <1>1, <1>2, <1>4, QuietUnlessReading DEF Reading, CleanConn
  <2>2. tcpConn \in Sockets /\ SocketsEvolve
    BY <1>1, <1>4, ConnIsSocket, SocketsOutside DEF CleanConn
  <2>3. sock'[tcpConn].out[i] = Fragment
    BY <1>4, <2>1, <2>2, OutAfter DEF Quiet
  <2> QED
    BY <1>4, <2>3, BodyConns
<1>5. CASE tcpConn' # tcpConn
  <2>1. sock'[tcpConn'] = FreshSocket
    BY <1>1, <1>5, SocketsOutside DEF CleanConn
  <2> QED
    BY <2>1 DEF FreshSocket
<1> QED
  BY <1>4, <1>5

\* The next count, which wraps at 16 bits.
LEMMA NextCount ==
    ASSUME NEW m \in Nat \ {0, 1}, NEW n \in 0 .. m - 1
    PROVE  (n + 1) % m = IF n + 1 = m THEN 0 ELSE n + 1
<1>1. CASE n + 1 = m
  <2>1. m % m = 0
    BY SMT
  <2> QED
    BY <1>1, <2>1
<1>2. CASE n + 1 # m
  <2>1. n + 1 \in 0 .. m - 1
    BY <1>2
  <2>2. \A k \in 0 .. m - 1 : k % m = k
    BY SMT
  <2> QED
    BY <1>2, <2>1, <2>2
<1> QED
  BY <1>1, <1>2

LEMMA GapGrows ==
    ASSUME NEW m \in Nat \ {0, 1}, NEW n \in 0 .. m - 1, NEW s \in 0 .. m - 1,
           NEW f \in Nat, f + 1 < m,
           (IF s <= n THEN n - s ELSE n + m - s) <= f
    PROVE  LET k == (n + 1) % m IN
           (IF s <= k THEN k - s ELSE k + m - s) \in 1 .. f + 1
<1>1. CASE n + 1 = m
  <2>1. (n + 1) % m = 0
    BY <1>1, NextCount
  <2> QED
    BY <1>1, <2>1
<1>2. CASE n + 1 # m
  <2>1. (n + 1) % m = n + 1
    BY <1>2, NextCount
  <2> QED
    BY <1>2, <2>1
<1> QED
  BY <1>1, <1>2

\* The goroutine in a call goes on without a connected message.
LEMMA GoesOnKnows ==
    ASSUME me \in [Clients -> Local], NEW c \in Clients, GoesOn(c),
           \A d \in Clients \ {c} : me[d].pc = "idle"
    PROVE  /\ \A d \in Clients : ~Pending(me'[d])
           /\ (\A d \in Clients : KnowsCount(me[d])')
<1>1. PICK l \in Local : Plain(c, l)
  BY DEF GoesOn
<1>2. me'[c] = l /\ \A d \in Clients \ {c} : me'[d] = me[d]
  BY <1>1, BecomesTypes DEF Plain
<1>3. ~Pending(l) /\ l.pc \notin {"locked", "returned"}
  BY <1>1 DEF Plain
<1>4. ASSUME NEW d \in Clients PROVE ~Pending(me'[d]) /\ KnowsCount(me[d])'
  <2>1. CASE d = c
    BY <1>2, <1>3, <2>1 DEF KnowsCount, Pending, Numbered
  <2>2. CASE d # c
    BY <1>2, <2>2 DEF KnowsCount, Pending
  <2> QED
    BY <2>1, <2>2
<1> QED
  BY <1>4

LEMMA CountOutside ==
    ASSUME Shared, SequentialInv, Sequential, SeqMod > MaxFaults + 1, CountInv,
           NEW c \in Clients, Outside(c), [NextAPI]_allVars
    PROVE  (\A d \in Clients : KnowsCount(me[d])') /\ RepliesFresh' /\ GapBounded'
<1>1. /\ TypeOKAPI /\ TypeOKAPI' /\ me \in [Clients -> Local]
      /\ FaultsGrow /\ GapBounded
  BY TypesNext, FaultsNext DEF Shared, TypeOKAPI, CountInv
<1>2. /\ stack = << >> /\ stack' = << >> /\ UNCHANGED <<dirty, seen>>
      /\ \A d \in Clients \ {c} : me[d].pc = "idle"
  BY <1>1, NoRequest, OutsideLock, ResponseOutside, OutsideCases
<1>3. RepliesFresh'
  BY RepliesOutside
<1>4. /\ Uncounted <=> Pending(me[c])
      /\ Uncounted' <=> \E d \in Clients : Pending(me'[d])
  BY <1>2 DEF Uncounted, OnItsWay, Pending
<1>5. CASE GoesOn(c) /\ ~Pending(me[c])
           /\ UNCHANGED <<tcpConn, connID, seqNum, sock, dirty, faults>>
  <2>1. ~Uncounted /\ ~Uncounted' /\ (\A d \in Clients : KnowsCount(me[d])')
    BY <1>1, <1>2, <1>4, <1>5, GoesOnKnows
  <2>2. InUse' => InUse
    BY <1>5 DEF InUse, CleanConn
  <2> HIDE DEF Uncounted
  <2>3. GapBounded'
    BY <1>1, <1>2, <1>5, <2>1, <2>2, GapKept DEF InUse
  <2> QED
    BY <1>3, <2>1, <2>3
<1>6. CASE GoesOn(c) /\ Leaves
  <2>1. (\A d \in Clients : KnowsCount(me[d])')
    BY <1>1, <1>2, <1>6, GoesOnKnows
  <2>2. ~InUse'
    BY <1>6 DEF Leaves, InUse, CleanConn, Nil
  <2> QED
    BY <1>3, <2>1, <2>2 DEF GapBounded
<1>7. CASE SendCount(c)
  <2>1. /\ me[c].pc = "count" /\ me' = [me EXCEPT ![c].pc = "build"]
        /\ seqNum' = (seqNum + 1) % SeqMod
        /\ UNCHANGED <<tcpConn, connID, sock, faults>>
    BY <1>7 DEF SendCount, Client, Step, net
  <2>2. me'[c].pc = "build" /\ \A d \in Clients \ {c} : me'[d] = me[d]
    BY <1>1, <2>1 DEF Local
  <2>3. (\A d \in Clients : KnowsCount(me[d])')
    BY <1>2, <2>2 DEF KnowsCount
  <2>4. ~Uncounted /\ Uncounted'
    BY <1>4, <2>1, <2>2 DEF Pending
  <2> HIDE DEF Uncounted
  <2>5. ASSUME InUse', seen'[tcpConn'] # SeqMod PROVE Gap(tcpConn)' \in 1 .. faults + 1
    <3>1. InUse /\ seen[tcpConn] # SeqMod /\ tcpConn # Nil
      BY <1>2, <2>1, <2>5 DEF InUse, CleanConn
    <3>2. Gap(tcpConn) <= faults
      BY <1>1, <2>4, <3>1 DEF GapBounded
    <3>3. /\ seen[tcpConn] \in 0 .. SeqMod - 1 /\ seqNum \in 0 .. SeqMod - 1
          /\ SeqMod \in Nat \ {0, 1} /\ faults \in Nat /\ faults + 1 < SeqMod
      <4>1. tcpConn \in Sockets
        BY <1>1, <3>1, ConnIsSocket DEF TypeOKAPI
      <4>2. seen[tcpConn] \in 0 .. SeqMod /\ SeqMod \in Nat \ {0, 1}
        BY <1>1, <4>1, Zeros DEF TypeOKAPI
      <4>3. faults \in Nat /\ faults <= MaxFaults /\ MaxFaults \in Nat
        BY <1>1, TransportAssumption DEF TypeOKAPI, TypeOK, CountInv
      <4> QED
        BY <1>1, <3>1, <4>2, <4>3 DEF TypeOKAPI
    <3>4. LET k == (seqNum + 1) % SeqMod IN
             (IF seen[tcpConn] <= k THEN k - seen[tcpConn]
              ELSE k + SeqMod - seen[tcpConn]) \in 1 .. faults + 1
      BY <3>2, <3>3, GapGrows DEF Gap
    <3>5. Gap(tcpConn)' = IF seen[tcpConn] <= seqNum' THEN seqNum' - seen[tcpConn]
                          ELSE seqNum' + SeqMod - seen[tcpConn]
      BY <1>2, <2>1 DEF Gap
    <3> QED
      BY <2>1, <3>4, <3>5
  <2>6. GapBounded'
    BY <2>1, <2>4, <2>5 DEF GapBounded
  <2> QED
    BY <1>3, <2>3, <2>6
<1>8. CASE SendBuild(c)
  <2>1. /\ me[c].pc = "build" /\ UNCHANGED <<tcpConn, connID, seqNum, sock, faults>>
        /\ session \in Handles /\ nctx \in Nat /\ connID \in 0 .. Garbage /\ seqNum \in 0 .. SeqMod - 1
        /\ Want(c, "Send", "SendUnitData", session, Body("Data", connID, seqNum))
    BY <1>1, <1>8 DEF SendBuild, Client, conn, prog, net, TypeOKAPI, TypeOK
  <2> DEFINE b == Body("Data", connID, seqNum)
  <2>2. b \in Bodies /\ b.svc = "Data" /\ b.conn = connID /\ b.seq = seqNum
    BY <2>1, BodiesOf DEF Body
  <2> HIDE DEF b
  <2>3. PICK l \in Local :
           /\ Becomes(c, l) /\ l.pc = "want"
           /\ l.pkt = [cmd |-> "SendUnitData", ctx |-> nctx + 1, sess |-> session, body |-> b]
    BY <2>1, <2>2, WantBecomes DEF Methods, Commands, b
  <2>4. l.pkt.cmd = "SendUnitData" /\ l.pkt.body = b
    BY <2>3
  <2>5. me'[c] = l /\ \A d \in Clients \ {c} : me'[d] = me[d]
    BY <1>1, <2>3, BecomesTypes
  <2>6. Numbered(l.pkt)'
    BY <2>1, <2>2, <2>4 DEF Numbered
  <2>7. ASSUME NEW d \in Clients PROVE KnowsCount(me[d])'
    <3>1. CASE d = c
      BY <2>3, <2>5, <2>6, <3>1 DEF KnowsCount, Numbered
    <3>2. CASE d # c
      BY <1>2, <2>5, <3>2 DEF KnowsCount
    <3> QED
      BY <3>1, <3>2
  <2>8. Uncounted /\ Uncounted'
    BY <1>4, <2>1, <2>3, <2>4, <2>5 DEF Pending
  <2>9. InUse' => InUse
    BY <1>2, <2>1 DEF InUse, CleanConn
  <2> HIDE DEF Uncounted
  <2>10. GapBounded'
    BY <1>1, <1>2, <2>1, <2>8, <2>9, GapKept DEF InUse
  <2> QED
    BY <1>3, <2>7, <2>10
<1>9. CASE ForwardOpenDone(c)
  <2>1. /\ Finish(c) /\ connID' = me[c].reply.body.conn /\ me[c].pc = "returned"
        /\ UNCHANGED <<tcpConn, sock>>
    BY <1>9 DEF ForwardOpenDone, Answered, Back, Client, net
  <2>2. (\A d \in Clients : KnowsCount(me[d])')
    BY <1>1, <1>2, <2>1, FinishGoesOn, GoesOnKnows
  <2>3. InUse' => seen'[tcpConn'] = SeqMod
    <3>1. NewFor(me[c].reply.body.conn)
      BY <2>1 DEF CountInv, KnowsCount
    <3>2. ASSUME InUse' PROVE CleanConn /\ me[c].reply.body.conn = tcpConn
      BY <1>2, <2>1, <3>2 DEF InUse, CleanConn
    <3>3. InUse' => seen[tcpConn] = SeqMod
      BY <3>1, <3>2 DEF NewFor
    <3> QED
      BY <1>2, <2>1, <3>3
  <2>4. GapBounded'
    BY <2>3 DEF GapBounded
  <2> QED
    BY <1>3, <2>2, <2>4
<1>10. CASE UNCHANGED <<me, tcpConn, connID, seqNum, sock, dirty, faults>>
  <2>1. Uncounted' <=> Uncounted
    BY <1>2, <1>4, <1>10 DEF Pending
  <2>2. ASSUME NEW d \in Clients PROVE KnowsCount(me[d])'
    BY <1>2, <1>10, KnowsKept DEF CountInv
  <2>3. InUse' => InUse
    BY <1>10 DEF InUse, CleanConn
  <2> HIDE DEF Uncounted
  <2>4. GapBounded'
    BY <1>1, <1>2, <1>10, <2>1, <2>3, GapKept DEF InUse
  <2> QED
    BY <1>3, <2>2, <2>4
<1> QED
  BY <1>5, <1>6, <1>7, <1>8, <1>9, <1>10, OutsideCases

LEMMA CountNext ==
    ASSUME Shared, SequentialInv, Sequential, SeqMod > MaxFaults + 1, CountInv,
           [NextAPI]_allVars
    PROVE  CountInv'
<1>1. TypeOKAPI /\ HoldsLock
  BY DEF Shared
<1>2. faults' <= MaxFaults
  <2>1. faults \in Nat /\ MaxFaults \in Nat
    BY <1>1, TransportAssumption DEF TypeOKAPI, TypeOK
  <2> QED
    BY <2>1, FaultsNext DEF FaultsGrow, CountInv
<1>3. DownIsEmpty' /\ StackShape' /\ ConnsDialled' /\ QuietElsewhere' /\ Reconnected'
  BY <1>1, DownNext, ShapeNext, ConnsNext, QuietNext, ReconnectedNext DEF CountInv, Shared
<1>4. CASE UNCHANGED allVars
  <2>1. UNCHANGED <<tcpConn, connID, seqNum, stack, resp, dirty, me, sock, seen, faults>>
    BY <1>4 DEF allVars, vars, prog, net, api
  <2>2. ASSUME NEW d \in Clients PROVE KnowsCount(me[d])'
    BY <2>1, KnowsKept DEF CountInv
  <2>3. RepliesFresh'
    BY <2>1 DEF CountInv, RepliesFresh, NewFor, CleanConn
  <2>4. GapBounded'
    BY <2>1 DEF CountInv, GapBounded, InUse, CleanConn, Gap, Uncounted, OnItsWay, Top
  <2> QED
    BY <1>2, <1>3, <2>2, <2>3, <2>4 DEF CountInv
<1>5. CASE Requesting \/ DeviceMoves
  BY <1>2, <1>3, <1>5, CountRequest, CountDevice DEF CountInv
<1>6. ASSUME NEW c \in Clients, Lock(c) \/ Unlock(c) \/ Outside(c)
      PROVE  (\A d \in Clients : KnowsCount(me[d])') /\ RepliesFresh' /\ GapBounded'
  BY <1>6, CountLock, CountUnlock, CountOutside
<1> QED
  BY <1>2, <1>3, <1>4, <1>5, <1>6, StepOfAPI
     DEF CountInv, ClientCall, ClientStep, Outside, WindsUp

LEMMA CountInit ==
    ASSUME InitAPI
    PROVE  CountInv
<1>1. /\ tcpConn = Nil /\ connID = 0 /\ stack = << >> /\ resp = Fragment /\ Len(stack) = 0
      /\ faults = 0 /\ dials = 0 /\ sock = [s \in Sockets |-> ClosedSocket]
      /\ me = [c \in Clients |-> IdleClient]
  BY DEF InitAPI, Init
<1>2. faults <= MaxFaults
  BY <1>1, TransportAssumption
<1>3. DownIsEmpty /\ QuietElsewhere
  BY <1>1 DEF DownIsEmpty, QuietElsewhere, ClosedSocket
<1>4. StackShape /\ Reconnected
  BY <1>1 DEF StackShape, Reconnected
<1>5. ConnsDialled
  BY <1>1, BodyConns DEF ConnsDialled, Dialled
<1>6. \A c \in Clients : KnowsCount(me[c])
  BY <1>1 DEF KnowsCount, IdleClient
<1>7. RepliesFresh /\ GapBounded
  BY <1>1 DEF RepliesFresh, NewFor, GapBounded, InUse, CleanConn
<1> QED
  BY <1>2, <1>3, <1>4, <1>5, <1>6, <1>7 DEF CountInv

LEMMA FreshFromCount ==
    ASSUME Shared, SequentialInv, CountInv
    PROVE  FreshSequence
<1> SUFFICES ASSUME NEW s \in Sockets \ dirty, sock[s].in # << >>,
                    Head(sock[s].in).cmd = "SendUnitData", ~UnknownConnection(s)
             PROVE  Head(sock[s].in).body.seq # seen[s]
  BY DEF FreshSequence
<1>1. s = tcpConn /\ CleanConn /\ sock[s].up /\ tcpConn # Nil
  <2>1. s = tcpConn /\ sock[s].up
    BY DEF CountInv, QuietElsewhere, DownIsEmpty
  <2> QED
    BY <2>1 DEF CleanConn, Sockets, Nil
<1>2. stack # << >> /\ Head(sock[s].in) = Top.pkt
  BY <1>1, DeviceHasRequest
<1>3. Numbered(Top.pkt) /\ Top.pkt.body.conn = s
  BY <1>2, Outermost DEF CountInv, UnknownConnection
<1>4. connID = s /\ Top.pkt.body.seq = seqNum
  BY <1>1, <1>2, <1>3 DEF Numbered
<1>5. seen[s] \in Nat /\ seqNum \in Nat /\ seqNum < SeqMod /\ faults \in Nat
  BY GapTypes DEF Shared, TypeOKAPI, TypeOK
<1>6. CASE seen[s] = SeqMod
  BY <1>2, <1>4, <1>5, <1>6
<1>7. CASE seen[s] # SeqMod
  <2>1. Uncounted
    BY <1>1, <1>2 DEF Uncounted, OnItsWay
  <2>2. Gap(s) \in 1 .. faults + 1
    BY <1>1, <1>4, <1>7, <2>1 DEF CountInv, GapBounded, InUse
  <2>3. seen[s] # seqNum
    BY <1>5, <2>2 DEF Gap
  <2> QED
    BY <1>2, <1>4, <2>3
<1> QED
  BY <1>6, <1>7

\* When goroutines take turns, and the count does not come round while faults keep the
\* device from seeing messages, no connected message repeats the count of the one before,
\* on a socket that no request was given up on.
THEOREM CountsAreFresh ==
    ASSUME Sequential, SeqMod > MaxFaults + 1
    PROVE  SpecAPI => []FreshSequence
<1>1. /\ InitAPI => Shared /\ SequentialInv /\ CountInv
      /\ Shared /\ SequentialInv /\ CountInv /\ [NextAPI]_allVars
         => Shared' /\ SequentialInv' /\ CountInv'
  BY SharedInit, SequentialInit, CountInit, SharedNext, SequentialNext, CountNext
<1>2. Shared /\ SequentialInv /\ CountInv => FreshSequence
  BY FreshFromCount
<1> QED
  BY <1>1, <1>2, PTL DEF SpecAPI

=============================================================================
