-------------------------------- MODULE EIPTCP --------------------------------
(***************************************************************************)
(* The methods of EIPTCP (tcp.go, request.go) called by several goroutines *)
(* at once.  request and RegisterSession hold requestLock around the       *)
(* request path of module Transport.  Everything else - Connect, Close,    *)
(* UnRegisterSession, Send, SendRRData, ForwardOpen, ForwardClose - reads  *)
(* and writes the fields of the connection without it, so each of these    *)
(* accesses is a step of its own; only reset() is taken as one.            *)
(*                                                                         *)
(* A reply is decoded in the step that takes it from request(); that it    *)
(* still lies in the read buffer of the connection is in module Tags.      *)
(*                                                                         *)
(* Ops says which methods the goroutines of a run call.                    *)
(***************************************************************************)
EXTENDS Transport

CONSTANTS
    Clients,        \* goroutines
    None,           \* not a goroutine: nobody holds requestLock
    Ops,            \* the methods they call
    Solo,           \* those called only while no other goroutine is in a call
    SeqMod          \* t.seqNum is a uint16: 65536

Methods == {"Connect", "Close", "RegisterSession", "ListIdentity",
            "Send", "ForwardOpen", "ForwardClose"}

ASSUME EIPTCPAssumption ==
    /\ None \notin Clients
    /\ Ops \subseteq Methods
    /\ Solo \subseteq Ops
    /\ SeqMod \in Nat \ {0, 1}

VARIABLES
    lock,       \* who holds t.requestLock
    me,         \* the locals of each goroutine
    seen        \* device: the last sequence count of each socket's CIP connection

api == <<lock, me>>
allVars == <<vars, api, seen>>

\* The device names a CIP connection after the socket it was opened on.  The
\* first four bytes of any other response are Garbage.
Garbage == MaxSockets + 1
ServiceBodies == [svc : {"none", "Data", "ForwardOpen", "ForwardClose"},
                  conn : 0 .. MaxSockets + 1, seq : 0 .. SeqMod - 1]
EmptyBody == [svc |-> "none", conn |-> 0, seq |-> 0]
Body(svc, conn, seq) == [svc |-> svc, conn |-> conn, seq |-> seq]

ASSUME ServicesAreBodies == Bodies = ServiceBodies /\ NoBody = EmptyBody

NoPacket == Packet("ListIdentity", 0, 0, NoBody)
IdleClient == [pc |-> "idle", op |-> "none", pkt |-> NoPacket,
               ok |-> FALSE, reply |-> Fragment]

Client(c, label) == me[c].pc = label /\ ~panicked
Finish(c) == me' = [me EXCEPT ![c] = IdleClient]
Step(c, label) == me' = [me EXCEPT ![c].pc = label]

\* A method is called.
Begin(c, op) ==
    /\ Client(c, "idle")
    /\ op \in Ops
    /\ op \in Solo => \A d \in Clients : me[d].pc = "idle"
    /\ \A d \in Clients : me[d].op \notin Solo
    /\ NewCall

\* A packet is built, with a new sender context, and goes to request().
Want(c, op, cmd, sess, body) ==
    /\ nctx' = nctx + 1
    /\ me' = [me EXCEPT ![c] = [IdleClient EXCEPT
                !.pc = "want", !.op = op, !.pkt = Packet(cmd, nctx + 1, sess, body)]]

conn == <<tcpConn, prog, reconnectAttempts>>
path == <<stack, resp, panicked, dirty>>

-----------------------------------------------------------------------------
(* Before the request.                                                     *)

ConnectBegin(c) ==
    /\ Begin(c, "Connect")
    /\ Reset(0)
    /\ state' = "Connecting"
    /\ me' = [me EXCEPT ![c] = [IdleClient EXCEPT !.pc = "dial", !.op = "Connect"]]
    /\ UNCHANGED <<tcpConn, session, stats, path, net, faults, nctx, lock, seen>>

\* A socket t.tcpConn still points at is not closed.
ConnectDial(c) ==
    /\ Client(c, "dial")
    /\ \/ /\ DialError
          /\ state' = "Disconnected"
          /\ Finish(c)
          /\ UNCHANGED <<tcpConn, nctx>>
       \/ /\ \E s \in Sockets : DialOk(s) /\ tcpConn' = s
          /\ Want(c, "Connect", "RegisterSession", 0, NoBody)
          /\ UNCHANGED <<state, faults>>
    /\ UNCHANGED <<prog, reconnectAttempts, stats, path, calls, lock, seen>>

\* RegisterSession and ListIdentity carry no session; ForwardOpen goes through
\* SendRRData, which reads t.session; so does UnRegisterSession, called by Close.
MethodBegins(c) ==
    /\ \/ /\ Begin(c, "RegisterSession")
          /\ Want(c, "RegisterSession", "RegisterSession", 0, NoBody)
       \/ /\ Begin(c, "ListIdentity")
          /\ Want(c, "ListIdentity", "ListIdentity", 0, NoBody)
       \/ /\ Begin(c, "ForwardOpen")
          /\ Want(c, "ForwardOpen", "SendRRData", session, Body("ForwardOpen", 0, 0))
       \/ /\ Begin(c, "ForwardClose")
          /\ connID # 0
          /\ Want(c, "ForwardClose", "SendRRData", session,
                  Body("ForwardClose", connID, 0))
       \/ /\ Begin(c, "Close")
          /\ tcpConn # Nil
          /\ Want(c, "Close", "UnRegisterSession", session, NoBody)
    /\ UNCHANGED <<conn, mon, path, net, faults, lock, seen>>

\* Send looks at t.connID ...
SendBegin(c) ==
    /\ Begin(c, "Send")
    /\ IF connID # 0
       THEN /\ me' = [me EXCEPT ![c] = [IdleClient EXCEPT !.pc = "count", !.op = "Send"]]
            /\ UNCHANGED nctx
       ELSE Want(c, "Send", "SendRRData", session, Body("Data", 0, 0))
    /\ UNCHANGED <<conn, mon, path, net, faults, lock, seen>>

\* Seeded bug: the sequence count does not wrap at 16 bits.
SendOverflows(c) ==
    /\ Client(c, "count")
    /\ seqNum' = seqNum + 1
    /\ Step(c, "build")
    /\ UNCHANGED <<tcpConn, session, established, connID, reconnectAttempts, mon,
                   path, net, faults, nctx, calls, lock, seen>>

\* Seeded bug: the message is not counted.
SendForgetsToCount(c) ==
    /\ Client(c, "count")
    /\ Step(c, "build")
    /\ UNCHANGED <<conn, mon, path, net, faults, nctx, calls, lock, seen>>

\* ... counts the message ...
SendCount(c) ==
    /\ Client(c, "count")
    /\ seqNum' = (seqNum + 1) % SeqMod
    /\ Step(c, "build")
    /\ UNCHANGED <<tcpConn, session, established, connID, reconnectAttempts, mon,
                   path, net, faults, nctx, calls, lock, seen>>

\* ... and reads t.connID, t.seqNum and t.session again to build the packet.
SendBuild(c) ==
    /\ Client(c, "build")
    /\ Want(c, "Send", "SendUnitData", session, Body("Data", connID, seqNum))
    /\ UNCHANGED <<conn, mon, path, net, faults, calls, lock, seen>>

-----------------------------------------------------------------------------
(* Under requestLock.                                                      *)

\* Seeded bug: request() does not take requestLock.
NoLock(c) ==
    /\ Client(c, "want")
    /\ lock' = c
    /\ Call(me[c].pkt)
    /\ Step(c, "locked")
    /\ UNCHANGED <<conn, mon, resp, panicked, dirty, net, faults, nctx, calls, seen>>

Lock(c) ==
    /\ Client(c, "want")
    /\ lock = None
    /\ lock' = c
    /\ Call(me[c].pkt)
    /\ Step(c, "locked")
    /\ UNCHANGED <<conn, mon, resp, panicked, dirty, net, faults, nctx, calls, seen>>

Requesting == RequestStep /\ UNCHANGED <<calls, api, seen>>

Unlock(c) ==
    /\ lock = c
    /\ Returned("ok") \/ Returned("error")
    /\ lock' = None
    /\ me' = [me EXCEPT ![c] = [@ EXCEPT !.pc = "returned",
                !.ok = (stack[1].at = "ok"), !.reply = resp]]
    /\ Pop
    /\ UNCHANGED <<conn, mon, panicked, dirty, net, faults, nctx, calls, seen>>

-----------------------------------------------------------------------------
(* After the request.                                                      *)

Back(c, op) == Client(c, "returned") /\ me[c].op = op

ConnectDone(c) ==
    /\ Back(c, "Connect") /\ me[c].ok
    /\ state' = "Connected"
    /\ stats' = [stats EXCEPT !.connect = @ + 1]
    /\ Finish(c)
    /\ UNCHANGED <<conn, path, net, faults, nctx, calls, lock, seen>>

\* t.tcpConn.Close(), in Connect's error path, in UnRegisterSession, in Close.
CloseSocket(c) ==
    /\ \/ Back(c, "Close")
       \/ Back(c, "Connect") /\ ~me[c].ok
       \/ Client(c, "reclose")
    /\ IF tcpConn = Nil
       THEN Panic /\ UNCHANGED me
       ELSE /\ sock' = Closed(tcpConn)
            /\ Step(c, IF me[c].pc = "reclose" THEN "reclear" ELSE "clear")
            /\ UNCHANGED <<conn, mon, path, dials, faults, nctx>>
    /\ UNCHANGED <<calls, lock, seen>>

\* t.tcpConn = nil, then Connect reports the failure.
ClearSocket(c) ==
    /\ \E label \in {"clear", "reclear"} : Client(c, label)
    /\ tcpConn' = Nil
    /\ IF me[c].op = "Connect"
       THEN state' = "Disconnected" /\ Finish(c)
       ELSE /\ Step(c, IF me[c].pc = "clear" THEN "recheck" ELSE "record")
            /\ UNCHANGED state
    /\ UNCHANGED <<prog, reconnectAttempts, stats, path, net, faults, nctx, calls,
                   lock, seen>>

\* Close after UnRegisterSession: only when another goroutine has dialled in the
\* meantime does it close a socket ...
CloseRechecks(c) ==
    /\ Client(c, "recheck")
    /\ IF tcpConn = Nil THEN Finish(c) ELSE Step(c, "reclose")
    /\ UNCHANGED <<conn, mon, path, net, faults, nctx, calls, lock, seen>>

\* ... and then count and report the disconnection and reset, whatever the
\* others have made of the connection since.
CloseRecords(c) ==
    /\ Client(c, "record")
    /\ stats' = [stats EXCEPT !.disconnect = @ + 1]
    /\ Step(c, "report")
    /\ UNCHANGED <<conn, state, path, net, faults, nctx, calls, lock, seen>>

CloseReports(c) ==
    /\ Client(c, "report")
    /\ state' = "Disconnected"
    /\ Step(c, "reset")
    /\ UNCHANGED <<conn, stats, path, net, faults, nctx, calls, lock, seen>>

CloseResets(c) ==
    /\ Client(c, "reset")
    /\ Reset(0)
    /\ Finish(c)
    /\ UNCHANGED <<tcpConn, session, mon, path, net, faults, nctx, calls, lock, seen>>

\* SendRRData repeats a request whose answer has no data item in the legacy
\* format, with the same context and the session of the moment.
Legacy(c) ==
    /\ Client(c, "returned")
    /\ me[c].pkt.cmd = "SendRRData" /\ me[c].ok /\ me[c].reply.has # "items"
    /\ me' = [me EXCEPT ![c] = [@ EXCEPT !.pc = "want",
                !.pkt = [me[c].pkt EXCEPT !.cmd = "SendRRDataLegacy", !.sess = session]]]
    /\ UNCHANGED <<conn, mon, path, net, faults, nctx, calls, lock, seen>>

\* The method has its final answer.
Answered(c, op) ==
    /\ Back(c, op)
    /\ ~(me[c].pkt.cmd = "SendRRData" /\ me[c].ok /\ me[c].reply.has # "items")

\* ForwardOpen takes the connection from the response, whatever its status; RL reads
\* 0 when the response has less than four bytes.
ForwardOpenDone(c) ==
    /\ Answered(c, "ForwardOpen") /\ me[c].ok /\ me[c].reply.has = "items"
    /\ connID' = me[c].reply.body.conn
    /\ established' = TRUE
    /\ Finish(c)
    /\ UNCHANGED <<tcpConn, session, seqNum, reconnectAttempts, mon, path, net,
                   faults, nctx, calls, lock, seen>>

\* An answer without items may still decode: ForwardClose accepts it.
ForwardCloseDone(c) ==
    /\ Answered(c, "ForwardClose") /\ me[c].ok
    /\ connID' = 0
    /\ seqNum' = 0
    /\ Finish(c)
    /\ UNCHANGED <<tcpConn, session, established, reconnectAttempts, mon, path, net,
                   faults, nctx, calls, lock, seen>>

\* The other methods, and the errors of these two.
MethodReturns(c) ==
    /\ \/ \E op \in {"RegisterSession", "ListIdentity", "Send"} : Answered(c, op)
       \/ \E op \in {"ForwardOpen", "ForwardClose"} :
             Answered(c, op) /\ ~(me[c].ok /\ me[c].reply.has = "items")
    /\ Finish(c)
    /\ UNCHANGED <<conn, mon, path, net, faults, nctx, calls, lock, seen>>

-----------------------------------------------------------------------------
(* The device's CIP connections: external.                                 *)

UnknownConnection(s) ==
    /\ sock[s].in # << >>
    /\ Head(sock[s].in).cmd = "SendUnitData"
    /\ Head(sock[s].in).body.conn # s

\* ForwardOpen opens a connection or is refused by its CIP status, with or without
\* four bytes of data.
Responses(s, r) ==
    IF r.body.svc = "ForwardOpen"
    THEN {Body("none", s, 0), Body("none", Garbage, 0), Body("none", 0, 0)}
    ELSE {Body("none", Garbage, 0)}

DeviceServes(s) ==
    /\ sock[s].in # << >>
    /\ ~UnknownConnection(s)
    /\ LET r == Head(sock[s].in) IN
       \E body \in Responses(s, r) :
          /\ Serve(s, body)
          /\ seen' = IF r.cmd = "SendUnitData" THEN [seen EXCEPT ![s] = r.body.seq]
                     ELSE IF DeviceReply(s, r, body).body.conn = s
                     THEN [seen EXCEPT ![s] = SeqMod] ELSE seen
    /\ UNCHANGED <<calls, api>>

\* A message of a connection the device does not know gets no answer.
DeviceDrops(s) ==
    /\ ~panicked
    /\ sock[s].up
    /\ UnknownConnection(s)
    /\ sock' = [sock EXCEPT ![s].in = Tail(@)]
    /\ UNCHANGED faults
    /\ DeviceUnchanged
    /\ UNCHANGED <<calls, api, seen>>

DeviceFails(s) == Misbehave(s) /\ UNCHANGED <<calls, api, seen>>

-----------------------------------------------------------------------------
ClientStep(c) ==
    \/ ConnectDial(c) \/ SendCount(c) \/ SendBuild(c)
    \/ Unlock(c)
    \/ ConnectDone(c) \/ CloseSocket(c) \/ ClearSocket(c) \/ CloseRechecks(c)
    \/ CloseRecords(c) \/ CloseReports(c) \/ CloseResets(c)
    \/ Legacy(c) \/ ForwardOpenDone(c) \/ ForwardCloseDone(c) \/ MethodReturns(c)

ClientCall(c) == ConnectBegin(c) \/ MethodBegins(c) \/ SendBegin(c)

DeviceNext == \E s \in Sockets : DeviceServes(s) \/ DeviceDrops(s)

AllStopped ==
    /\ panicked \/ (calls = MaxCalls /\ \A c \in Clients : me[c].pc = "idle")
    /\ UNCHANGED allVars

InitAPI ==
    /\ Init
    /\ lock = None
    /\ me = [c \in Clients |-> IdleClient]
    /\ seen = [s \in Sockets |-> SeqMod]

NextAPI ==
    \/ \E c \in Clients : ClientCall(c) \/ Lock(c) \/ ClientStep(c)
    \/ Requesting
    \/ DeviceNext
    \/ \E s \in Sockets : DeviceFails(s)
    \/ AllStopped

SpecAPI == InitAPI /\ [][NextAPI]_allVars

FairSpecAPI ==
    /\ SpecAPI
    /\ WF_allVars(Requesting) /\ WF_allVars(DeviceNext)
    /\ \A c \in Clients : WF_allVars(ClientStep(c)) /\ SF_allVars(Lock(c))

-----------------------------------------------------------------------------
Local == [pc : {"idle", "dial", "count", "build", "want", "locked", "returned",
                "clear", "recheck", "reclose", "reclear", "record", "report", "reset"},
          op : Methods \cup {"none"}, pkt : Request, ok : BOOLEAN, reply : Reply]

\* The types of the variables.
TypeOKAPI ==
    /\ TypeOK
    /\ connID \in 0 .. Garbage
    /\ seqNum \in 0 .. SeqMod - 1
    /\ lock \in Clients \cup {None}
    /\ me \in [Clients -> Local]
    /\ seen \in [Sockets -> 0 .. SeqMod]

\* As SessionOfSocket of module Transport, while no request has been given up on
\* the socket: then registerSessionLocked (request.go:94-95) may have taken the
\* late answer of another request for its own.
SessionOfCleanSocket == tcpConn \notin dirty => SessionOfSocket

\* Send addresses a CIP connection of the socket in use (request.go:250-256):
\* reset() (tcp.go:63-68) forgets t.connID on every reconnection, so that it
\* never names a connection of an earlier socket.
ConnectionOfSocket ==
    tcpConn # Nil /\ tcpConn \notin dirty => connID \in {0, Garbage, tcpConn}

\* The device drops a connected message whose sequence count repeats that of the
\* message before: Send (request.go:251-253) and the resets of t.seqNum in
\* ForwardClose and reset() never produce one, across the wrap at 16 bits too, on a
\* socket that no request was given up on: late answers to ForwardOpen may follow
\* the ForwardClose that started the count again (request.go:301-305, :375-376).
FreshSequence ==
    \A s \in Sockets \ dirty :
        sock[s].in # << >> /\ Head(sock[s].in).cmd = "SendUnitData"
            /\ ~UnknownConnection(s)
        => Head(sock[s].in).body.seq # seen[s]

\* Once the network and the device stop failing (MaxFaults, MaxSockets), every method
\* returns or dies of a nil t.tcpConn: whoever holds requestLock gives it up, and a
\* waiting goroutine gets its turn.  Until then t.maxReconnect does not bound how often
\* one call redials (tcp.go:138-140), and everybody else waits.
EveryCallReturns ==
    \A c \in Clients : (me[c].pc # "idle") ~> (me[c].pc = "idle" \/ panicked)

-----------------------------------------------------------------------------
(* What the connection promises: RequestServer.                            *)

Untold == [is |-> "none", ctx |-> 0]
Told(ok, reply) ==
    IF ok THEN [is |-> "answer", ctx |-> reply.ctx] ELSE [is |-> "error", ctx |-> 0]

\* What a goroutine with locals l asks for, and what it was told.
AskedOf(l) == IF l.pc \in {"want", "locked", "returned"} THEN l.pkt.ctx ELSE 0
GivenOf(l) == IF l.pc = "returned" THEN Told(l.ok, l.reply) ELSE Untold
Asked == [c \in Clients |-> AskedOf(me[c])]
Given == [c \in Clients |-> GivenOf(me[c])]

\* How often the request that holds requestLock was written, and how it ended.
SentAt(label) ==
    CASE label \in {"read", "reconnectR", "dialR", "rewriteR"} -> 1
      [] label = "reread" -> 2
      [] OTHER -> 0
Sent == IF stack = << >> THEN 0 ELSE SentAt(stack[1].at)
Outcome == IF stack # << >> /\ stack[1].at \in Finished
           THEN Told(stack[1].at = "ok", resp) ELSE Untold

Server == INSTANCE RequestServer
             WITH Callers <- Clients, Nobody <- None, next <- nctx, asked <- Asked,
                  serving <- lock, sent <- Sent, outcome <- Outcome, given <- Given,
                  trusted <- tcpConn \notin dirty

\* The goroutines that share a connection are served one at a time, each is given the
\* answer to its own request or an error, and no request is written more than twice,
\* whatever Connect, Close and reconnections do (request.go:34-71, tcp.go:70-148).
ServesRequests == Server!Spec
=============================================================================
