------------------------------ MODULE Transport ------------------------------
(***************************************************************************)
(* The request path of one EIPTCP connection (tcp.go, request.go):         *)
(* request/requestLocked write a packet and read one reply, and on a       *)
(* failed write or read call reconnectLocked, which closes the socket,     *)
(* dials a new one and registers a session on it by calling requestLocked  *)
(* AGAIN.  The recursion is the variable "stack": one frame for each       *)
(* requestLocked in progress, the outermost first.                         *)
(*                                                                         *)
(* Spec is the sequential use of the connection: one goroutine that calls  *)
(* Connect, with or without a connection, a request method, or Close.  The *)
(* step operators are reused by module EIPTCP, where several goroutines    *)
(* share the connection and call the other methods, too.                   *)
(*                                                                         *)
(* The network and the device are external: a socket is a pair of FIFO     *)
(* queues, and every misbehaviour (a refused dial, a timeout, a silent     *)
(* device, a torn reply, a hang-up) spends one of MaxFaults faults.        *)
(***************************************************************************)
EXTENDS Integers, Sequences

CONSTANTS
    MaxReconnect,   \* t.maxReconnect, 3 in NewTCP
    MaxSockets,     \* bound: a dial after that many is refused
    MaxFaults,      \* bound on the misbehaviours of network and device
    MaxCalls,       \* bound on the calls of Connect, Close and the requests
    Bodies,         \* what a packet carries beyond its header
    NoBody

ASSUME TransportAssumption ==
    /\ MaxReconnect \in Nat \ {0}
    /\ MaxSockets \in Nat \ {0}
    /\ MaxFaults \in Nat
    /\ MaxCalls \in Nat
    /\ NoBody \in Bodies

VARIABLES
    tcpConn,            \* t.tcpConn: the socket in use, Nil when there is none
    session,            \* t.session
    established,        \* t.established
    connID,             \* t.connID
    seqNum,             \* t.seqNum
    reconnectAttempts,  \* t.reconnectAttempts
    state,              \* t.monitor.currentState
    stats,              \* the counters of t.monitor.stats
    stack,              \* the requestLocked calls in progress
    resp,               \* the packet the outermost requestLocked returned
    panicked,           \* the process died of a nil pointer
    sock,               \* the sockets dialled so far, both ends
    dials,              \* how many were dialled
    faults,             \* how many faults were spent
    nctx,               \* how many sender contexts were generated
    dirty,              \* history: sockets kept in use after a request failed on them
    calls               \* how many calls were made

prog == <<session, established, connID, seqNum>>
mon == <<state, stats>>
net == <<sock, dials>>
vars == <<tcpConn, prog, reconnectAttempts, mon, stack, resp, panicked, net,
          faults, nctx, dirty, calls>>

-----------------------------------------------------------------------------
Nil == 0
Sockets == 1 .. MaxSockets
Handles == 0 .. MaxSockets      \* session handles: the device uses the socket's
Commands == {"RegisterSession", "UnRegisterSession", "ListIdentity",
             "SendRRData", "SendRRDataLegacy", "SendUnitData"}
States == {"Disconnected", "Connecting", "Connected", "Reconnecting"}

Request == [cmd : Commands, ctx : Nat, sess : Handles, body : Bodies]
Contents == {"none", "data", "items"}     \* what follows the header of a reply
Reply == [ctx : Nat, sess : Handles, has : Contents, body : Bodies]

\* Bytes parse() rejects: a part of a reply.
Fragment == [ctx |-> 0, sess |-> 0, has |-> "none", body |-> NoBody]

\* Where a requestLocked call is: W marks the recovery of its first write,
\* R the recovery of its first read.
Working == {"enter", "write", "reconnectW", "dialW", "rewriteW", "read",
            "reconnectR", "dialR", "rewriteR", "reread"}
Finished == {"ok", "error"}
Frame == [pkt : Request, at : Working \cup Finished]

\* One TCP connection: the client's end, the device's end, the session the
\* device holds for it, the requests and the replies in flight.
Socket == [open : BOOLEAN, up : BOOLEAN, registered : BOOLEAN,
           in : Seq(Request), out : Seq(Reply)]
FreshSocket == [open |-> TRUE, up |-> TRUE, registered |-> FALSE,
                in |-> << >>, out |-> << >>]
ClosedSocket == [open |-> FALSE, up |-> FALSE, registered |-> FALSE,
                 in |-> << >>, out |-> << >>]

Packet(cmd, ctx, sess, body) ==
    [cmd |-> cmd, ctx |-> ctx, sess |-> sess, body |-> body]

Top == stack[Len(stack)]
Idle == stack = << >> /\ ~panicked
At(label) == stack # << >> /\ ~panicked /\ Top.at = label
Goto(label) == stack' = [stack EXCEPT ![Len(stack)] = [@ EXCEPT !.at = label]]
Returned(label) == Len(stack) = 1 /\ At(label)

IsConnected == tcpConn # Nil /\ established

\* A free failure is one nobody has to cause; another one spends a fault.
Fault(free) ==
    \/ free /\ UNCHANGED faults
    \/ ~free /\ faults < MaxFaults /\ faults' = faults + 1

Closed(s) == [sock EXCEPT ![s] = ClosedSocket]

\* Seeded bug: reset() forgets t.established.
ResetKeepsSession(attempts) ==
    /\ connID' = 0
    /\ seqNum' = 0
    /\ reconnectAttempts' = attempts
    /\ UNCHANGED established

\* Seeded bug: reset() forgets t.connID.
ResetKeepsConnection(attempts) ==
    /\ established' = FALSE
    /\ seqNum' = 0
    /\ reconnectAttempts' = attempts
    /\ UNCHANGED connID

\* EIPTCP.reset, with the value reconnectLocked puts back afterwards.
Reset(attempts) ==
    /\ established' = FALSE
    /\ connID' = 0
    /\ seqNum' = 0
    /\ reconnectAttempts' = attempts

\* requestLocked is called with a packet: by request, by registerSessionLocked.
Call(pkt) == stack' = Append(stack, [pkt |-> pkt, at |-> "enter"])

Panic ==
    /\ panicked' = TRUE
    /\ UNCHANGED <<tcpConn, prog, reconnectAttempts, mon, stack, resp, net,
                   faults, nctx, dirty>>

-----------------------------------------------------------------------------
\* The innermost call returns an error.  Each call around it is inside
\* reconnectLocked, which counts the failed registration as an attempt and
\* returns the error, which the call returns in turn: the whole stack unwinds.
Fail(failedDials) ==
    /\ stack' = <<[pkt |-> stack[1].pkt, at |-> "error"]>>
    /\ reconnectAttempts' = reconnectAttempts + failedDials + (Len(stack) - 1)
    /\ dirty' = IF tcpConn = Nil THEN dirty ELSE dirty \cup {tcpConn}

\* Seeded bug: the session is taken from the wrong field of the header.
TakeContext(reply) ==
    /\ IF Top.pkt.cmd = "RegisterSession"
       THEN session' = reply.ctx /\ established' = (reply.sess # 0)
       ELSE UNCHANGED <<session, established>>
    /\ UNCHANGED <<connID, seqNum>>

\* The innermost call returns a reply.  A RegisterSession reply sets the session.
TakeSession(reply) ==
    /\ IF Top.pkt.cmd = "RegisterSession"
       THEN session' = reply.sess /\ established' = (reply.sess # 0)
       ELSE UNCHANGED <<session, established>>
    /\ UNCHANGED <<connID, seqNum>>

\* Inside reconnectLocked it also ends the reconnection, and the call around it
\* goes on to write its packet again.
Resume ==
    LET n == Len(stack) - 1
        label == IF stack[n].at = "dialW" THEN "rewriteW" ELSE "rewriteR"
    IN  stack' = [SubSeq(stack, 1, n) EXCEPT ![n] = [@ EXCEPT !.at = label]]

\* Seeded bug: a reconnection is not counted.
ReconnectUncounted ==
    /\ state' = "Connected"
    /\ reconnectAttempts' = 0
    /\ UNCHANGED stats

ReconnectDone ==
    /\ stats' = [stats EXCEPT !.reconnect = @ + 1]
    /\ state' = "Connected"
    /\ reconnectAttempts' = 0

Succeed(reply) ==
    /\ TakeSession(reply)
    /\ \/ /\ Len(stack) = 1
          /\ Goto("ok")
          /\ resp' = reply
          /\ UNCHANGED <<mon, reconnectAttempts>>
       \/ /\ Len(stack) > 1
          /\ Resume
          /\ ReconnectDone
          /\ UNCHANGED resp

\* Seeded bug: requestLocked does not look whether there is a connection.
EnterUnchecked ==
    /\ At("enter")
    /\ Goto("write")
    /\ UNCHANGED <<tcpConn, prog, reconnectAttempts, mon, resp, panicked, net,
                   faults, nctx, dirty>>

\* Seeded bug: it waits for one instead of returning an error.
EnterWaits ==
    /\ At("enter")
    /\ tcpConn # Nil
    /\ Goto("write")
    /\ UNCHANGED <<tcpConn, prog, reconnectAttempts, mon, resp, panicked, net,
                   faults, nctx, dirty>>

\* requestLocked refuses to work without a connection.
Enter ==
    /\ At("enter")
    /\ IF tcpConn = Nil
       THEN Fail(0)
       ELSE Goto("write") /\ UNCHANGED <<reconnectAttempts, dirty>>
    /\ UNCHANGED <<tcpConn, prog, mon, resp, panicked, net, faults, nctx>>

\* t.write succeeds: to a peer that is gone the packet is lost.
Write(from, to) ==
    /\ At(from)
    /\ tcpConn # Nil
    /\ sock[tcpConn].open
    /\ IF sock[tcpConn].up
       THEN sock' = [sock EXCEPT ![tcpConn].in = Append(@, Top.pkt)]
       ELSE UNCHANGED sock
    /\ Goto(to)
    /\ UNCHANGED <<tcpConn, prog, reconnectAttempts, mon, resp, panicked,
                   dials, faults, nctx, dirty>>

\* t.write returns an error.
WriteError(from) ==
    /\ At(from)
    /\ tcpConn # Nil
    /\ Fault(~sock[tcpConn].open \/ ~sock[tcpConn].up)

FirstWrite == Write("write", "read")
RetryWrite == Write("rewriteW", "read") \/ Write("rewriteR", "reread")

FirstWriteFails ==
    /\ WriteError("write")
    /\ Goto("reconnectW")
    /\ UNCHANGED <<tcpConn, prog, reconnectAttempts, mon, resp, panicked, net,
                   nctx, dirty>>

RetryWriteFails ==
    /\ WriteError("rewriteW") \/ WriteError("rewriteR")
    /\ Fail(0)
    /\ UNCHANGED <<tcpConn, prog, mon, resp, panicked, net, nctx>>

\* t.read returns a reply.  Nothing compares it with the request, and parse()
\* takes a bare header with all the bytes after it for one packet.
ReadReply ==
    /\ At("read") \/ At("reread")
    /\ tcpConn # Nil
    /\ sock[tcpConn].open
    /\ sock[tcpConn].out # << >>
    /\ Head(sock[tcpConn].out) # Fragment
    /\ Succeed(Head(sock[tcpConn].out))
    /\ \/ sock' = [sock EXCEPT ![tcpConn].out = Tail(@)]
       \/ /\ Head(sock[tcpConn].out).has = "none"
          /\ sock' = [sock EXCEPT ![tcpConn].out = << >>]
    /\ UNCHANGED <<tcpConn, panicked, dials, faults, nctx, dirty>>

\* t.read returns an error: the socket is closed or at its end; the deadline
\* passes, which nobody has to cause when no reply is on its way; parse()
\* rejects a part of a reply, or several replies read in one go.
ReadError(from) ==
    /\ At(from)
    /\ tcpConn # Nil
    /\ LET k == sock[tcpConn] IN
       \/ /\ ~k.open \/ (~k.up /\ k.out = << >>)
          /\ UNCHANGED <<sock, faults>>
       \/ /\ k.open /\ k.up /\ k.out = << >>
          /\ Fault(k.in = << >>)
          /\ UNCHANGED sock
       \/ /\ k.open /\ k.out # << >> /\ Head(k.out) = Fragment
          /\ sock' = [sock EXCEPT ![tcpConn].out = Tail(@)]
          /\ UNCHANGED faults
       \/ /\ k.open /\ Len(k.out) > 1
          /\ Head(k.out).has # "none" \/ Head(k.out) = Fragment
          /\ sock' = [sock EXCEPT ![tcpConn].out = << >>]
          /\ UNCHANGED faults

\* Seeded bug: after a failed read the request is repeated on the same socket.
FirstReadRepeats ==
    /\ ReadError("read")
    /\ Goto("rewriteR")
    /\ UNCHANGED <<tcpConn, prog, reconnectAttempts, mon, resp, panicked,
                   dials, nctx, dirty>>

FirstReadFails ==
    /\ ReadError("read")
    /\ Goto("reconnectR")
    /\ UNCHANGED <<tcpConn, prog, reconnectAttempts, mon, resp, panicked,
                   dials, nctx, dirty>>

\* The second read's error is returned as it is; the socket stays in use.
RetryReadFails ==
    /\ ReadError("reread")
    /\ Fail(0)
    /\ UNCHANGED <<tcpConn, prog, mon, resp, panicked, dials, nctx>>

\* t.tcpConn is used while it is nil.
NilDereference ==
    /\ \E label \in {"write", "rewriteW", "rewriteR", "read", "reread"} : At(label)
    /\ tcpConn = Nil
    /\ Panic

\* Seeded bug: reconnectLocked does not close the socket it replaces.
ReconnectLeaks(from, to) ==
    /\ At(from)
    /\ reconnectAttempts < MaxReconnect
    /\ state' = "Reconnecting"
    /\ tcpConn' = Nil
    /\ Reset(reconnectAttempts)
    /\ Goto(to)
    /\ UNCHANGED <<session, dirty, stats, resp, panicked, net, faults, nctx>>

\* Seeded bug: it has no limit of attempts to stop at, and tries the same again.
ReconnectForever(from, to) ==
    /\ At(from)
    /\ reconnectAttempts < MaxReconnect
    /\ state' = "Reconnecting"
    /\ UNCHANGED <<tcpConn, prog, reconnectAttempts, stats, stack, resp, panicked,
                   net, faults, nctx, dirty>>

\* reconnectLocked up to the backoff sleep.
Reconnect(from, to) ==
    /\ At(from)
    /\ IF reconnectAttempts >= MaxReconnect
       THEN /\ state' = "Disconnected"
            /\ Fail(0)
            /\ UNCHANGED <<tcpConn, prog, sock>>
       ELSE /\ state' = "Reconnecting"
            /\ sock' = IF tcpConn = Nil THEN sock ELSE Closed(tcpConn)
            /\ tcpConn' = Nil
            /\ Reset(reconnectAttempts)
            /\ Goto(to)
            /\ UNCHANGED <<session, dirty>>
    /\ UNCHANGED <<stats, resp, panicked, dials, faults, nctx>>

ReconnectBegin == Reconnect("reconnectW", "dialW") \/ Reconnect("reconnectR", "dialR")

\* net.Dialer.Dial, with the socket options set afterwards.
DialOk(s) ==
    /\ dials < MaxSockets
    /\ s = dials + 1
    /\ dials' = s
    /\ sock' = [sock EXCEPT ![s] = FreshSocket]

DialError == Fault(dials = MaxSockets) /\ UNCHANGED net

\* reconnectLocked goes on to register a session, by requestLocked.
RedialOk(s) ==
    /\ At("dialW") \/ At("dialR")
    /\ DialOk(s)
    /\ tcpConn' = s
    /\ nctx' = nctx + 1
    /\ Call(Packet("RegisterSession", nctx + 1, 0, NoBody))
    /\ UNCHANGED <<prog, reconnectAttempts, mon, resp, panicked, faults, dirty>>

RedialFails ==
    /\ At("dialW") \/ At("dialR")
    /\ DialError
    /\ Fail(1)
    /\ UNCHANGED <<tcpConn, prog, mon, resp, panicked, nctx>>

RequestStep ==
    \/ Enter
    \/ FirstWrite \/ FirstWriteFails
    \/ RetryWrite \/ RetryWriteFails
    \/ ReadReply \/ FirstReadFails \/ RetryReadFails
    \/ NilDereference
    \/ ReconnectBegin
    \/ \E s \in Sockets : RedialOk(s)
    \/ RedialFails

-----------------------------------------------------------------------------
(* The device and the network: external.                                   *)

\* A request for a session the device does not hold for this socket.
BadSession(s, r) ==
    /\ r.cmd \in {"SendRRData", "SendRRDataLegacy", "SendUnitData"}
    /\ ~(sock[s].registered /\ r.sess = s)

\* The device answers: it registers the session of the socket, reports an
\* encapsulation error without items for an unknown session, and otherwise
\* returns the items the service produced.
DeviceReply(s, r, body) ==
    [ctx  |-> r.ctx,
     sess |-> IF r.cmd = "RegisterSession" THEN s ELSE r.sess,
     has  |-> IF r.cmd = "RegisterSession" THEN "data"
              ELSE IF BadSession(s, r) THEN "none" ELSE "items",
     body |-> IF BadSession(s, r) THEN NoBody ELSE body]

DeviceAnswers(s, body) ==
    /\ sock[s].up
    /\ sock[s].in # << >>
    /\ LET r == Head(sock[s].in) IN
       /\ r.cmd # "UnRegisterSession"
       /\ sock' = [sock EXCEPT ![s] =
                    [sock[s] EXCEPT !.in = Tail(@),
                              !.out = Append(@, DeviceReply(s, r, body)),
                              !.registered = @ \/ r.cmd = "RegisterSession"]]
    /\ UNCHANGED faults

\* The device refuses a request: no handle, no items.  registerSessionLocked
\* and the Decode functions look at these, nobody at the reply's status.
DeviceRefuses(s) ==
    /\ sock[s].up
    /\ sock[s].in # << >>
    /\ Fault(FALSE)
    /\ LET r == Head(sock[s].in) IN
       /\ r.cmd # "UnRegisterSession"
       /\ sock' = [sock EXCEPT ![s] =
                    [sock[s] EXCEPT !.in = Tail(@),
                              !.out = Append(@, [ctx |-> r.ctx, sess |-> 0,
                                                 has |-> "none", body |-> NoBody])]]

\* UnRegisterSession has no reply: the device ends the session and the
\* connection, or ignores a handle that is not the socket's.
DeviceUnRegisters(s) ==
    /\ sock[s].up
    /\ sock[s].in # << >>
    /\ Head(sock[s].in).cmd = "UnRegisterSession"
    /\ sock' = [sock EXCEPT ![s] =
                 IF sock[s].registered /\ Head(sock[s].in).sess = s
                 THEN [sock[s] EXCEPT !.in = << >>, !.up = FALSE, !.registered = FALSE]
                 ELSE [sock[s] EXCEPT !.in = Tail(@)]]
    /\ UNCHANGED faults

DeviceSilent(s) ==
    /\ sock[s].up
    /\ sock[s].in # << >>
    /\ Fault(FALSE)
    /\ sock' = [sock EXCEPT ![s].in = Tail(@)]

\* The device closes the connection or restarts: replies under way may be lost.
HangUp(s) ==
    /\ sock[s].up
    /\ Fault(FALSE)
    /\ \E left \in {sock[s].out, << >>} :
         sock' = [sock EXCEPT ![s] =
                   [sock[s] EXCEPT !.in = << >>, !.out = left, !.up = FALSE,
                             !.registered = FALSE]]

\* TCP keeps no message boundaries: a reply arrives in two parts.
Tear(s) ==
    /\ sock[s].out # << >>
    /\ Head(sock[s].out) # Fragment
    /\ Fault(FALSE)
    /\ sock' = [sock EXCEPT ![s].out = <<Fragment, Fragment>> \o Tail(@)]

DeviceUnchanged ==
    UNCHANGED <<tcpConn, prog, reconnectAttempts, mon, stack, resp, panicked,
                dials, nctx, dirty>>

Serve(s, body) ==
    /\ ~panicked
    /\ DeviceAnswers(s, body) \/ DeviceUnRegisters(s)
    /\ DeviceUnchanged

Misbehave(s) ==
    /\ ~panicked
    /\ DeviceRefuses(s) \/ DeviceSilent(s) \/ HangUp(s) \/ Tear(s)
    /\ DeviceUnchanged

Device ==
    /\ \E s \in Sockets : Misbehave(s) \/ \E body \in Bodies : Serve(s, body)
    /\ UNCHANGED calls

-----------------------------------------------------------------------------
(* The goroutine that uses the connection.                                 *)

NewCall == calls < MaxCalls /\ calls' = calls + 1

\* Connect: reset, dial, register.  A socket in use is not closed: t.tcpConn is
\* overwritten, or kept when the dial is refused.
Connect ==
    /\ Idle
    /\ NewCall
    /\ Reset(0)
    /\ \/ /\ DialError
          /\ state' = "Disconnected"
          /\ UNCHANGED <<tcpConn, stack, nctx>>
       \/ /\ \E s \in Sockets : DialOk(s) /\ tcpConn' = s
          /\ state' = "Connecting"
          /\ nctx' = nctx + 1
          /\ Call(Packet("RegisterSession", nctx + 1, 0, NoBody))
          /\ UNCHANGED faults
    /\ UNCHANGED <<session, stats, resp, panicked, dirty>>

\* A request method: one that needs no session, one that does.
BeginRequest(cmd, body) ==
    /\ Idle
    /\ NewCall
    /\ nctx' = nctx + 1
    /\ Call(Packet(cmd, nctx + 1, IF cmd = "ListIdentity" THEN 0 ELSE session, body))
    /\ UNCHANGED <<tcpConn, prog, reconnectAttempts, mon, resp, panicked, net,
                   faults, dirty>>

BeginClose ==
    /\ tcpConn # Nil
    /\ BeginRequest("UnRegisterSession", NoBody)

Pop == stack' = << >> /\ resp' = Fragment

\* Seeded bug: a connection is counted as a reconnection as well.
ConnectCountsTwice ==
    /\ Returned("ok")
    /\ stack[1].pkt.cmd = "RegisterSession"
    /\ Pop
    /\ state' = "Connected"
    /\ stats' = [stats EXCEPT !.connect = @ + 1, !.reconnect = @ + 1]
    /\ UNCHANGED <<tcpConn, prog, reconnectAttempts, panicked, net, faults, nctx,
                   dirty, calls>>

\* Connect after RegisterSession: its error path closes t.tcpConn without a
\* check, and reconnectLocked may have left it nil.
ConnectSucceeds ==
    /\ Returned("ok")
    /\ stack[1].pkt.cmd = "RegisterSession"
    /\ Pop
    /\ state' = "Connected"
    /\ stats' = [stats EXCEPT !.connect = @ + 1]
    /\ UNCHANGED <<tcpConn, prog, reconnectAttempts, panicked, net, faults, nctx,
                   dirty, calls>>

ConnectFails ==
    /\ Returned("error")
    /\ stack[1].pkt.cmd = "RegisterSession"
    /\ \/ tcpConn = Nil /\ Panic
       \/ /\ tcpConn # Nil
          /\ Pop
          /\ sock' = Closed(tcpConn)
          /\ tcpConn' = Nil
          /\ state' = "Disconnected"
          /\ UNCHANGED <<prog, reconnectAttempts, stats, panicked, dials, faults,
                         nctx, dirty>>
    /\ UNCHANGED calls

\* UnRegisterSession after its request, whatever it returned; Close ends there,
\* for t.tcpConn is nil when it looks again.
CloseReturns ==
    /\ Returned("ok") \/ Returned("error")
    /\ stack[1].pkt.cmd = "UnRegisterSession"
    /\ \/ tcpConn = Nil /\ Panic
       \/ /\ tcpConn # Nil
          /\ Pop
          /\ sock' = Closed(tcpConn)
          /\ tcpConn' = Nil
          /\ UNCHANGED <<prog, reconnectAttempts, mon, panicked, dials, faults,
                         nctx, dirty>>
    /\ UNCHANGED calls

RequestReturns ==
    /\ Returned("ok") \/ Returned("error")
    /\ stack[1].pkt.cmd \notin {"RegisterSession", "UnRegisterSession"}
    /\ Pop
    /\ UNCHANGED <<tcpConn, prog, reconnectAttempts, mon, panicked, net, faults,
                   nctx, dirty, calls>>

\* The goroutine makes no more calls, or the process is dead.
Stopped == (panicked \/ (stack = << >> /\ calls = MaxCalls)) /\ UNCHANGED vars

Init ==
    /\ tcpConn = Nil
    /\ session = 0 /\ established = FALSE /\ connID = 0 /\ seqNum = 0
    /\ reconnectAttempts = 0
    /\ state = "Disconnected"
    /\ stats = [connect |-> 0, disconnect |-> 0, reconnect |-> 0]
    /\ stack = << >> /\ resp = Fragment /\ panicked = FALSE
    /\ sock = [s \in Sockets |-> ClosedSocket]
    /\ dials = 0 /\ faults = 0 /\ nctx = 0 /\ dirty = {} /\ calls = 0

Return == ConnectSucceeds \/ ConnectFails \/ CloseReturns \/ RequestReturns
Program == (RequestStep /\ UNCHANGED calls) \/ Return

Next ==
    \/ Connect
    \/ \E cmd \in {"ListIdentity", "SendRRData"}, body \in Bodies :
          BeginRequest(cmd, body)
    \/ BeginClose
    \/ Program
    \/ Device
    \/ Stopped

Spec == Init /\ [][Next]_vars

FairSpec == Spec /\ WF_vars(Program) /\ WF_vars(Device)

-----------------------------------------------------------------------------
\* The types of the variables.
TypeOK ==
    /\ tcpConn \in Handles
    /\ session \in Handles
    /\ established \in BOOLEAN
    /\ connID \in Nat
    /\ seqNum \in Nat
    /\ reconnectAttempts \in Nat
    /\ state \in States
    /\ stats \in [connect : Nat, disconnect : Nat, reconnect : Nat]
    /\ stack \in Seq(Frame)
    /\ resp \in Reply
    /\ panicked \in BOOLEAN
    /\ sock \in [Sockets -> Socket]
    /\ dials \in 0 .. MaxSockets
    /\ faults \in Nat
    /\ nctx \in Nat
    /\ dirty \in SUBSET Sockets
    /\ calls \in Nat

\* A socket that is open and that t.tcpConn does not point at: nobody will close it.
Orphan(s) == sock[s].open /\ s # tcpConn

\* Only Connect, called on a connection (tcp.go:222), leaves a socket open that nobody will
\* close: reconnectLocked (tcp.go:84), Connect's error path (:225) and UnRegisterSession
\* (request.go:109) close every socket that t.tcpConn stops pointing at, and no dial of
\* theirs opens one that t.tcpConn does not get.
OnlyConnectOrphans ==
    [][\A s \in Sockets : Orphan(s)' => Orphan(s) \/ (Connect /\ s = tcpConn)]_vars

\* Used by one goroutine, requestLocked and reconnectLocked never touch a nil or
\* closed t.tcpConn (request.go:50-67), though reconnectLocked leaves nil behind
\* when its dial fails and requestLocked checks only on entry.
UsesLiveSocket ==
    At("write") \/ At("rewriteW") \/ At("rewriteR") \/ At("read") \/ At("reread")
        => tcpConn # Nil /\ sock[tcpConn].open

\* IsConnected (tcp.go:168) is true only with a session of the very socket in
\* use: no session of an earlier socket survives a reconnection.
SessionOfSocket == IsConnected => session = tcpConn

\* The lock step of requests and replies: on a socket on which no call has
\* failed, everything in flight belongs to the call in progress, and nothing is
\* in flight when a call starts or writes.  reconnectLocked must drop the
\* socket before the retry (request.go:59-67) for this to hold.
InStep ==
    tcpConn # Nil /\ tcpConn \notin dirty =>
        LET k == sock[tcpConn] IN
        /\ k.in # << >> \/ k.out # << >> =>
              stack # << >> /\ Top.at \in {"read", "reread", "reconnectR"}
        /\ \A i \in DOMAIN k.in : k.in[i].ctx = Top.pkt.ctx
        /\ \A i \in DOMAIN k.out : k.out[i].ctx \in {Top.pkt.ctx, 0}

\* No answer of the device goes to the wrong caller: the packet t.read returns
\* (request.go:59, :67) answers the request in progress, unless an earlier call
\* gave up on the same socket and left its answer behind.
OwnReply ==
    [][ReadReply /\ tcpConn \notin dirty
         => Head(sock[tcpConn].out).ctx = Top.pkt.ctx]_vars

\* Every connection and reconnection counted in the statistics (monitoring.go)
\* was dialled: the nested reconnections of one call are not counted twice.
CountsAreDialled == stats.connect + stats.reconnect <= dials

\* A socket was dialled for every registration that has not returned: those of nested
\* reconnections, and the one of Connect.
Registering ==
    IF stack = << >> THEN 0
    ELSE IF stack[1].pkt.cmd = "RegisterSession" THEN Len(stack) ELSE Len(stack) - 1

\* The dials that are not in the statistics, and never will be.
UncountedDials == dials - stats.connect - stats.reconnect - Registering

CallFails ==
    \/ stack # << >> /\ Top.at \notin Finished /\ stack'[1].at = "error"
    \/ ConnectFails

\* The statistics miss no connection either: a dial is left out of them only when a
\* call reports an error, however the reconnections nest (tcp.go:143, :231).
OnlyFailuresUncounted ==
    [][\/ UncountedDials' = UncountedDials
       \/ UncountedDials' > UncountedDials /\ CallFails]_vars

\* Once the network and the device stop failing, every call returns (tcp.go:244-256,
\* request.go:34-71): that they do is MaxFaults and MaxSockets.  How often a call redials
\* before, t.maxReconnect does not limit.  A request returns without a panic; Connect and
\* Close return or die of the nil pointer that NeverPanics is about.
CallsReturn ==
    /\ (stack # << >>) ~> (stack = << >> \/ panicked)
    /\ (stack # << >> /\ stack[1].pkt.cmd \notin {"RegisterSession", "UnRegisterSession"})
          ~> (stack = << >>)

-----------------------------------------------------------------------------
\* doc.go:258 says that every method returns its failures as an error.
NeverPanics == ~panicked

\* tcp.go:359: "GetConnectionState returns the current connection state".  Without a
\* connection, and with no call that makes one, that is Disconnected.
StateIsCurrent == Idle /\ tcpConn = Nil => state = "Disconnected"

\* request.go:248 "sends a MessageRouter request and returns the response".
ReturnsTheResponse == Returned("ok") => resp.ctx = stack[1].pkt.ctx
=============================================================================
