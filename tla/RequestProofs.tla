------------------------------ MODULE RequestProofs ----------------------------
(***************************************************************************)
(* More about the request path, on top of Inv: the statistics count every  *)
(* dial whose call succeeds, and count it once, and requests and replies   *)
(* stay in lock step on a socket that no call has given up on.             *)
(***************************************************************************)
EXTENDS TransportProofs

-----------------------------------------------------------------------------
(* What makes these invariants inductive.                                  *)

\* On a socket no call gave up on there is nothing in flight unless a call reads:
\* then its request, its reply, or what is left of its reply when it comes in parts.
Quiet(k) == k.in = << >> /\ k.out = << >>
Carries(k, ctx) ==
    \/ Len(k.in) = 1 /\ k.in[1].ctx = ctx /\ k.out = << >>
    \/ Len(k.out) = 1 /\ k.out[1].ctx = ctx /\ k.in = << >>
    \/ k.in = << >> /\ \A i \in DOMAIN k.out : k.out[i] = Fragment
Reading == stack # << >> /\ Top.at \in {"read", "reread", "reconnectR"}
OneInFlight ==
    tcpConn # Nil /\ tcpConn \notin dirty =>
        \/ Quiet(sock[tcpConn])
        \/ Reading /\ Carries(sock[tcpConn], Top.pkt.ctx)

-----------------------------------------------------------------------------
(* What a step of the program does to the stack.                           *)

\* The call that returned is the outermost one.
LEMMA ReturnedStack ==
    ASSUME Inv, NEW l \in Finished, Returned(l)
    PROVE  stack # << >> /\ Len(stack) = 1 /\ stack[1].at = l /\ ~panicked
BY DEF Returned, At, Top

\* A call of an idle goroutine is the only one.
LEMMA CallAlone ==
    ASSUME stack = << >>, NEW p \in Request, Call(p)
    PROVE  stack' # << >> /\ Len(stack') = 1 /\ stack'[1].pkt = p /\ stack'[1].at = "enter"
<1>1. stack \in Seq(Frame) /\ Len(stack) + 1 = 1
  BY EmptySeq
<1>2. /\ stack' # << >> /\ Len(stack') = Len(stack) + 1
      /\ Top' = [pkt |-> p, at |-> "enter"]
  BY <1>1, CallStack
<1> QED
  BY <1>1, <1>2 DEF Top

\* The steps of the program that stay in the request.
Moves(l) == Goto(l) /\ stack # << >> /\ Top.at \in Working /\ UNCHANGED <<stats, dials>>
GivesUp(n) == Fail(n) /\ stack # << >> /\ Top.at \in Working /\ UNCHANGED <<stats, dials>>
Recovers ==
    /\ stack # << >> /\ Len(stack) > 1 /\ Resume /\ ReconnectDone
    /\ UNCHANGED dials

LEMMA Steps ==
    ASSUME Inv, RequestStep
    PROVE  \/ \E l \in Labels : Moves(l)
           \/ \E n \in {0, 1} : GivesUp(n)
           \/ Recovers
           \/ \E s \in Sockets : RedialOk(s)
           \/ UNCHANGED <<stack, stats, dials, tcpConn, established, reconnectAttempts, state,
                          sock, dirty>>
<1>1. CASE Enter
  BY <1>1 DEF Enter, At, Moves, GivesUp, Labels, Working, mon, net
<1>2. CASE FirstWrite \/ FirstWriteFails
  BY <1>2 DEF FirstWrite, FirstWriteFails, Write, WriteError, At, Moves, Labels, Working, mon, net
<1>3. CASE RetryWrite
  BY <1>3 DEF RetryWrite, Write, At, Moves, Labels, Working, mon
<1>4. CASE RetryWriteFails \/ RetryReadFails
  BY <1>4 DEF RetryWriteFails, RetryReadFails, WriteError, ReadError, At, GivesUp, Working, mon, net
<1>5. CASE ReadReply
  <2>1. /\ stack # << >> /\ Top.at \in Working /\ UNCHANGED dials
        /\ Succeed(Head(sock[tcpConn].out))
    BY <1>5 DEF ReadReply, At, Working
  <2>2. CASE Len(stack) = 1 /\ Goto("ok") /\ UNCHANGED mon
    BY <2>1, <2>2 DEF Moves, Labels, Finished, mon
  <2>3. CASE Len(stack) > 1 /\ Resume /\ ReconnectDone
    BY <2>1, <2>3 DEF Recovers
  <2> QED
    BY <2>1, <2>2, <2>3 DEF Succeed
<1>6. CASE FirstReadFails
  BY <1>6 DEF FirstReadFails, ReadError, At, Moves, Labels, Working, mon
<1>7. CASE ReconnectBegin
  BY <1>7 DEF ReconnectBegin, Reconnect, At, Moves, GivesUp, Labels, Working
<1>8. CASE RedialFails
  BY <1>8 DEF RedialFails, At, GivesUp, Working, DialError, mon, net
<1>9. CASE NilDereference
  BY <1>9 DEF NilDereference, Panic, prog, mon, net
<1> QED
  BY <1>1, <1>2, <1>3, <1>4, <1>5, <1>6, <1>7, <1>8, <1>9 DEF RequestStep

-----------------------------------------------------------------------------
(* The statistics count each dial once, unless its call fails.             *)

Accounts ==
    \/ UncountedDials' = UncountedDials
    \/ UncountedDials' > UncountedDials /\ CallFails

LEMMA RegisteringIs ==
    ASSUME Inv
    PROVE  /\ Registering \in Nat
           /\ stack # << >> => Registering \in {Len(stack), Len(stack) - 1}
           /\ stack = << >> => Registering = 0
<1>1. stack \in Seq(Frame)
  BY DEF Inv, TypeOK
<1> QED
  BY <1>1, TopOfStack DEF Registering

LEMMA DialsAreCounted ==
    ASSUME Inv
    PROVE  /\ Registering \in Nat /\ dials \in Nat
           /\ stats.connect \in Nat /\ stats.reconnect \in Nat
BY RegisteringIs, TransportAssumption DEF Inv, TypeOK

\* A reconnection leaves the registrations and enters the statistics: the dials that are
\* in neither are as many as before.
LEMMA OneFromAnother ==
    ASSUME NEW d \in Nat, NEW a \in Nat, NEW b \in Nat, NEW g \in Nat
    PROVE  d - a - (b + 1) - (g - 1) = d - a - b - g
OBVIOUS

\* So they are when a dial starts a registration.
LEMMA OneToBoth ==
    ASSUME NEW d \in Nat, NEW a \in Nat, NEW b \in Nat, NEW g \in Nat
    PROVE  (d + 1) - a - b - (g + 1) = d - a - b - g
OBVIOUS

LEMMA DialsByProgram ==
    ASSUME Inv, RequestStep
    PROVE  Accounts
<1> DEFINE reg == stack[1].pkt.cmd = "RegisterSession"
<1>1. /\ stack \in Seq(Frame) /\ dials \in Nat
      /\ stats \in [connect : Nat, disconnect : Nat, reconnect : Nat]
      /\ stats.connect \in Nat /\ stats.reconnect \in Nat
  BY TransportAssumption DEF Inv, TypeOK
<1>2. ASSUME NEW l \in Labels, Moves(l) PROVE Accounts
  <2>1. /\ stack' # << >> /\ stack # << >> /\ Len(stack') = Len(stack)
        /\ stack'[1].pkt = stack[1].pkt /\ UNCHANGED <<stats, dials>>
    BY <1>1, <1>2, GotoStack, TopOfStack DEF Moves
  <2> QED
    BY <2>1 DEF Accounts, UncountedDials, Registering
<1>3. ASSUME NEW n \in {0, 1}, GivesUp(n) PROVE Accounts
  <2>1. /\ stack' # << >> /\ stack # << >> /\ Len(stack') = 1
        /\ stack'[1] = [pkt |-> stack[1].pkt, at |-> "error"]
        /\ UNCHANGED <<stats, dials>> /\ Len(stack) \in Nat \ {0}
    BY <1>1, <1>3, FailStack, TopOfStack DEF GivesUp
  <2>2. Registering' <= Registering /\ Registering' \in Nat /\ Registering \in Nat
    BY <2>1 DEF Registering
  <2>3. CallFails
    BY <1>3, <2>1 DEF CallFails, GivesUp, Working, Finished
  <2> QED
    BY <1>1, <2>1, <2>2, <2>3 DEF Accounts, UncountedDials
<1>4. CASE Recovers
  <2>1. /\ stack' # << >> /\ stack # << >> /\ Len(stack') = Len(stack) - 1
        /\ stack'[1].pkt = stack[1].pkt /\ UNCHANGED dials
        /\ Len(stack) \in Nat \ {0, 1}
    <3>1. Len(stack) \in Nat \ {0, 1} /\ 1 \in 1 .. Len(stack) - 1
      BY <1>1, <1>4, TopOfStack DEF Recovers
    <3> QED
      BY <1>1, <1>4, <3>1, ResumeStack DEF Recovers
  <2>2. stats'.reconnect = stats.reconnect + 1 /\ stats'.connect = stats.connect
    BY <1>1, <1>4 DEF Recovers, ReconnectDone
  <2>3. Registering' = Registering - 1 /\ Registering \in Nat
    BY <2>1 DEF Registering
  <2>4. UncountedDials' = dials - stats.connect - (stats.reconnect + 1) - (Registering - 1)
    BY <2>1, <2>2, <2>3 DEF UncountedDials
  <2>5. UncountedDials' = dials - stats.connect - stats.reconnect - Registering
    <3>1. dials \in Nat /\ stats.connect \in Nat /\ stats.reconnect \in Nat
      BY <1>1
    <3>2. dials - stats.connect - (stats.reconnect + 1) - (Registering - 1)
            = dials - stats.connect - stats.reconnect - Registering
      BY <3>1, <2>3, OneFromAnother
    <3> QED
      BY <2>4, <3>2
  <2> QED
    BY <2>5 DEF Accounts, UncountedDials
<1>5. ASSUME NEW s \in Sockets, RedialOk(s) PROVE Accounts
  <2>1. /\ stack # << >> /\ dials' = dials + 1 /\ UNCHANGED stats /\ nctx \in Nat
        /\ Call(Packet("RegisterSession", nctx + 1, 0, NoBody))
    BY <1>5 DEF RedialOk, At, DialOk, mon, Inv, TypeOK
  <2>2. Packet("RegisterSession", nctx + 1, 0, NoBody) \in Request
    BY <2>1, TransportAssumption DEF Packet, Request, Commands, Handles
  <2>3. stack' # << >> /\ Len(stack') = Len(stack) + 1 /\ stack'[1] = stack[1]
    BY <1>1, <2>1, <2>2, CallStack, TopOfStack
  <2>4. Registering' = Registering + 1 /\ Registering \in Nat
    BY <1>1, <2>1, <2>3, TopOfStack DEF Registering
  <2>5. UncountedDials' = (dials + 1) - stats.connect - stats.reconnect - (Registering + 1)
    BY <2>1, <2>4 DEF UncountedDials
  <2>6. UncountedDials' = dials - stats.connect - stats.reconnect - Registering
    <3>1. dials \in Nat /\ stats.connect \in Nat /\ stats.reconnect \in Nat
      BY <1>1
    <3>2. (dials + 1) - stats.connect - stats.reconnect - (Registering + 1)
            = dials - stats.connect - stats.reconnect - Registering
      BY <3>1, <2>4, OneToBoth
    <3> QED
      BY <2>5, <3>2
  <2> QED
    BY <2>6 DEF Accounts, UncountedDials
<1>6. ASSUME UNCHANGED <<stack, stats, dials>> PROVE Accounts
  BY <1>6 DEF Accounts, UncountedDials, Registering
<1> QED
  BY <1>2, <1>3, <1>4, <1>5, <1>6, Steps

LEMMA DialsByCalls ==
    ASSUME Inv,
           \/ Connect
           \/ \E cmd \in {"ListIdentity", "SendRRData", "UnRegisterSession"}, body \in Bodies :
                 BeginRequest(cmd, body)
           \/ Return
    PROVE  Accounts
<1>1. /\ stack \in Seq(Frame) /\ dials \in Nat /\ nctx \in Nat /\ session \in Handles
      /\ stats \in [connect : Nat, disconnect : Nat, reconnect : Nat]
      /\ stats.connect \in Nat /\ stats.reconnect \in Nat
  BY TransportAssumption DEF Inv, TypeOK
<1>2. CASE Connect
  <2>1. stack = << >> /\ UNCHANGED stats
    BY <1>2 DEF Connect, Idle
  <2>2. CASE UNCHANGED <<stack, dials>>
    BY <2>1, <2>2 DEF Accounts, UncountedDials, Registering
  <2>3. CASE dials' = dials + 1 /\ Call(Packet("RegisterSession", nctx + 1, 0, NoBody))
    <3>1. /\ Packet("RegisterSession", nctx + 1, 0, NoBody) \in Request
          /\ Packet("RegisterSession", nctx + 1, 0, NoBody).cmd = "RegisterSession"
      BY <1>1, TransportAssumption DEF Packet, Request, Commands, Handles
    <3>2. stack' # << >> /\ Len(stack') = 1 /\ stack'[1].pkt.cmd = "RegisterSession"
      BY <1>1, <2>1, <2>3, <3>1, CallAlone
    <3>3. Registering' = 1 /\ Registering = 0
      BY <2>1, <3>2 DEF Registering
    <3> QED
      BY <1>1, <2>1, <2>3, <3>3 DEF Accounts, UncountedDials
  <2> QED
    BY <1>2, <2>2, <2>3 DEF Connect, DialError, DialOk, net
<1>3. ASSUME NEW cmd \in {"ListIdentity", "SendRRData", "UnRegisterSession"},
             NEW body \in Bodies, BeginRequest(cmd, body)
      PROVE  Accounts
  <2> DEFINE p == Packet(cmd, nctx + 1, IF cmd = "ListIdentity" THEN 0 ELSE session, body)
  <2>1. stack = << >> /\ UNCHANGED <<stats, dials>> /\ Call(p)
    BY <1>3 DEF BeginRequest, Idle, mon, net
  <2>2. p \in Request /\ p.cmd # "RegisterSession"
    BY <1>1, TransportAssumption DEF Packet, Request, Commands, Handles
  <2>3. stack' # << >> /\ Len(stack') = 1 /\ stack'[1].pkt.cmd # "RegisterSession"
    <3> HIDE DEF p
    <3> QED
      BY <1>1, <2>1, <2>2, CallAlone
  <2>4. Registering' = 0 /\ Registering = 0
    BY <2>1, <2>3 DEF Registering
  <2> QED
    BY <1>1, <2>1, <2>4 DEF Accounts, UncountedDials
<1>4. CASE Return
  <2>1. CASE RequestReturns \/ (CloseReturns /\ ~Panic)
    <3>1. Registering = 0 /\ UNCHANGED <<stats, dials>> /\ stack' = << >>
      BY <2>1, ReturnedStack DEF RequestReturns, CloseReturns, Pop, Finished, Registering,
         mon, net
    <3> QED
      BY <3>1 DEF Accounts, UncountedDials, Registering
  <2>2. CASE ConnectFails /\ ~Panic
    <3>1. Registering = 1 /\ UNCHANGED <<stats, dials>> /\ stack' = << >>
      BY <2>2, ReturnedStack DEF ConnectFails, Pop, Finished, Registering
    <3>2. Registering' = 0
      BY <3>1 DEF Registering
    <3> QED
      BY <1>1, <2>2, <3>1, <3>2 DEF Accounts, UncountedDials, CallFails
  <2>3. CASE ConnectSucceeds
    <3>1. Registering = 1
      BY <2>3, ReturnedStack DEF ConnectSucceeds, Finished, Registering
    <3>2. Registering' = 0
      BY <2>3 DEF ConnectSucceeds, Pop, Registering
    <3>3. /\ stats'.connect = stats.connect + 1 /\ stats'.reconnect = stats.reconnect
          /\ dials' = dials
      BY <1>1, <2>3 DEF ConnectSucceeds, net
    <3> QED
      BY <1>1, <3>1, <3>2, <3>3 DEF Accounts, UncountedDials
  <2>4. CASE Panic
    BY <2>4 DEF Panic, Accounts, UncountedDials, Registering, mon, net
  <2> QED
    BY <1>4, <2>1, <2>2, <2>3, <2>4 DEF Return
<1> QED
  BY <1>2, <1>3, <1>4

\* Who makes a step.
LEMMA StepOf ==
    ASSUME [Next]_vars
    PROVE  \/ Connect
           \/ \E cmd \in {"ListIdentity", "SendRRData", "UnRegisterSession"}, body \in Bodies :
                 BeginRequest(cmd, body)
           \/ RequestStep
           \/ Return
           \/ Device
           \/ UNCHANGED vars
<1>1. BeginClose => \E body \in Bodies : BeginRequest("UnRegisterSession", body)
  BY TransportAssumption DEF BeginClose
<1> QED
  BY <1>1 DEF Next, Program, Stopped

LEMMA DeviceLeaves ==
    ASSUME Device \/ UNCHANGED vars
    PROVE  UNCHANGED <<tcpConn, session, established, reconnectAttempts, state, stats, stack,
                       panicked, dials, dirty>>
BY DEF Device, Misbehave, Serve, DeviceUnchanged, vars, prog, mon, net

LEMMA DialsNext ==
    ASSUME Inv, [Next]_vars
    PROVE  Accounts
<1>1. CASE Device \/ UNCHANGED vars
  BY <1>1, DeviceLeaves DEF Accounts, UncountedDials, Registering
<1> QED
  BY <1>1, StepOf, DialsByCalls, DialsByProgram

\* Every connection and reconnection that succeeds is counted, and once: a dial is left
\* out of the statistics only by a call that fails (tcp.go:143, :231).
THEOREM CountedOnce == Spec => OnlyFailuresUncounted
<1>1. Inv /\ [Next]_vars
         => [\/ UncountedDials' = UncountedDials
             \/ UncountedDials' > UncountedDials /\ CallFails]_vars
  BY DialsNext DEF Accounts
<1> QED
  BY <1>1, InvHolds, PTL DEF Spec, OnlyFailuresUncounted

\* No more connections and reconnections are counted than sockets were dialled.
THEOREM OnlyDialsCounted == Spec => []CountsAreDialled
<1>1. Init => UncountedDials >= 0
  BY DEF Init, UncountedDials, Registering
<1>2. Inv /\ UncountedDials >= 0 /\ [Next]_vars /\ Inv' => (UncountedDials >= 0)'
  <2> SUFFICES ASSUME Inv, UncountedDials >= 0, [Next]_vars, Inv'
               PROVE  UncountedDials' >= 0
    OBVIOUS
  <2>1. UncountedDials \in Int
    BY DialsAreCounted DEF UncountedDials
  <2>2. UncountedDials' \in Int
    <3>1. /\ stack' \in Seq(Frame) /\ dials' \in Nat
          /\ stats' \in [connect : Nat, disconnect : Nat, reconnect : Nat]
          /\ stats'.connect \in Nat /\ stats'.reconnect \in Nat
      BY TransportAssumption DEF Inv, TypeOK
    <3>2. Registering' \in Int
      BY <3>1 DEF Registering
    <3> QED
      BY <3>1, <3>2 DEF UncountedDials
  <2>3. Accounts
    BY DialsNext
  <2> HIDE DEF UncountedDials
  <2> QED
    BY <2>1, <2>2, <2>3 DEF Accounts
<1>3. ASSUME Inv, UncountedDials >= 0 PROVE CountsAreDialled
  BY <1>3, DialsAreCounted DEF UncountedDials, CountsAreDialled
<1> QED
  BY <1>1, <1>2, <1>3, InvHolds, PTL DEF Spec

-----------------------------------------------------------------------------
(* The lock step of requests and replies.                                  *)

LEMMA Single ==
    ASSUME NEW S, NEW q \in Seq(S), Len(q) = 1
    PROVE  q # << >> /\ Head(q) = q[1] /\ Tail(q) = << >> /\ DOMAIN q = {1}
<1>1. q # << >> /\ DOMAIN q = {1}
  <2>1. 1 .. 1 = {1} /\ Len(q) # 0
    OBVIOUS
  <2> QED
    BY <2>1, LenProperties, NotEmpty
<1>2. Head(q) = q[1] /\ Tail(q) \in Seq(S) /\ Len(Tail(q)) = 0
  BY <1>1, HeadTailProperties
<1> QED
  BY <1>1, <1>2, EmptySeq

\* A reply that is not a part of one is the only thing in flight.
LEMMA WholeReply ==
    ASSUME TypeOK, OneInFlight, tcpConn # Nil, tcpConn \notin dirty,
           sock[tcpConn].out # << >>, Head(sock[tcpConn].out) # Fragment
    PROVE  /\ Reading /\ sock[tcpConn].in = << >>
           /\ Len(sock[tcpConn].out) = 1 /\ sock[tcpConn].out[1].ctx = Top.pkt.ctx
           /\ Head(sock[tcpConn].out) = sock[tcpConn].out[1]
           /\ Tail(sock[tcpConn].out) = << >>
<1> DEFINE q == sock[tcpConn].out
<1>1. q \in Seq(Reply)
  BY ConnIsSocket, SocketFields
<1>2. 1 \in DOMAIN q /\ Head(q) = q[1]
  BY <1>1, EmptySeq, LenProperties, HeadTailProperties
<1>3. Reading /\ sock[tcpConn].in = << >> /\ Len(q) = 1 /\ q[1].ctx = Top.pkt.ctx
  BY <1>2 DEF OneInFlight, Quiet, Carries
<1> QED
  BY <1>1, <1>3, Single

\* A request in flight is the only thing in flight.
LEMMA OnlyRequest ==
    ASSUME TypeOK, OneInFlight, tcpConn # Nil, tcpConn \notin dirty, sock[tcpConn].in # << >>
    PROVE  /\ Reading /\ sock[tcpConn].out = << >> /\ Tail(sock[tcpConn].in) = << >>
           /\ Head(sock[tcpConn].in).ctx = Top.pkt.ctx
<1>1. sock[tcpConn].in \in Seq(Request)
  BY ConnIsSocket, SocketFields
<1>2. /\ Reading /\ sock[tcpConn].out = << >>
      /\ Len(sock[tcpConn].in) = 1 /\ sock[tcpConn].in[1].ctx = Top.pkt.ctx
  BY DEF OneInFlight, Quiet, Carries
<1> QED
  BY <1>1, <1>2, Single

\* The call is not reading: nothing is in flight.
LEMMA QuietUnlessReading ==
    ASSUME OneInFlight, ~Reading
    PROVE  tcpConn # Nil /\ tcpConn \notin dirty => Quiet(sock[tcpConn])
BY DEF OneInFlight

\* A call that fails gives up on its socket.
LEMMA FailInFlight ==
    ASSUME NEW n, Fail(n), UNCHANGED tcpConn
    PROVE  OneInFlight'
BY DEF Fail, OneInFlight

LEMMA GotoKeepsPacket ==
    ASSUME TypeOK, stack # << >>, NEW l \in Labels, Goto(l)
    PROVE  stack' # << >> /\ Top' = [pkt |-> Top.pkt, at |-> l]
BY GotoStack DEF TypeOK

LEMMA WriteInFlight ==
    ASSUME TypeOK, OneInFlight, NEW from \in {"write", "rewriteW", "rewriteR"},
           NEW to \in {"read", "reread"}, Write(from, to)
    PROVE  OneInFlight'
<1> DEFINE k == sock[tcpConn]
<1>1. /\ stack # << >> /\ Top.at = from /\ tcpConn # Nil /\ Goto(to)
      /\ UNCHANGED <<tcpConn, dirty>> /\ to \in Labels
  BY DEF Write, At, Labels, Working
<1>2. stack' # << >> /\ Top'.pkt = Top.pkt /\ Top'.at = to
  BY <1>1, GotoKeepsPacket
<1>3. tcpConn \notin dirty => Quiet(k)
  BY <1>1, QuietUnlessReading DEF Reading
<1>4. CASE UNCHANGED sock
  BY <1>1, <1>3, <1>4 DEF OneInFlight
<1>5. CASE sock' = [sock EXCEPT ![tcpConn].in = Append(@, Top.pkt)]
  <2>1. sock'[tcpConn].in = Append(k.in, Top.pkt) /\ sock'[tcpConn].out = k.out
    BY <1>1, <1>5, ConnIsSocket DEF TypeOK, Socket
  <2>2. Quiet(k) => Carries(sock'[tcpConn], Top.pkt.ctx)
    BY <2>1 DEF Quiet, Carries
  <2> QED
    BY <1>1, <1>2, <1>3, <2>2 DEF OneInFlight, Reading
<1> QED
  BY <1>4, <1>5 DEF Write

LEMMA ReadReplyInFlight ==
    ASSUME TypeOK, OneInFlight, ReadReply
    PROVE  OneInFlight'
<1> DEFINE k == sock[tcpConn]
<1>1. /\ tcpConn # Nil /\ k.out # << >> /\ Head(k.out) # Fragment
      /\ UNCHANGED <<tcpConn, dirty>>
      /\ \/ sock' = [sock EXCEPT ![tcpConn].out = Tail(@)]
         \/ sock' = [sock EXCEPT ![tcpConn].out = << >>]
  BY DEF ReadReply
<1>2. /\ sock'[tcpConn].in = k.in
      /\ sock'[tcpConn].out \in {Tail(k.out), << >>}
  <2>1. tcpConn \in Sockets /\ sock \in [Sockets -> Socket]
    BY <1>1, ConnIsSocket DEF TypeOK
  <2>2. \E rest \in {Tail(k.out), << >>} :
           sock' = [sock EXCEPT ![tcpConn] = [k EXCEPT !.out = rest]]
    BY <1>1
  <2>3. \E rest \in {Tail(k.out), << >>} : sock'[tcpConn] = [k EXCEPT !.out = rest]
    BY <2>1, <2>2
  <2> QED
    BY <2>1, <2>3 DEF Socket
<1>3. tcpConn \notin dirty => k.in = << >> /\ Tail(k.out) = << >>
  BY <1>1, WholeReply
<1> QED
  BY <1>1, <1>2, <1>3 DEF OneInFlight, Quiet

LEMMA FirstReadFailsInFlight ==
    ASSUME TypeOK, OneInFlight, FirstReadFails
    PROVE  OneInFlight'
<1> DEFINE k == sock[tcpConn]
<1>1. /\ stack # << >> /\ tcpConn # Nil /\ Goto("reconnectR") /\ ReadError("read")
      /\ UNCHANGED <<tcpConn, dirty>> /\ "reconnectR" \in Labels /\ Top.at = "read"
  BY DEF FirstReadFails, ReadError, At, Labels, Working
<1>2. stack' # << >> /\ Top'.pkt = Top.pkt /\ Top'.at = "reconnectR"
  BY <1>1, GotoKeepsPacket
<1>3. Reading' /\ Top'.pkt.ctx = Top.pkt.ctx
  BY <1>2 DEF Reading
<1>4. \/ UNCHANGED sock
      \/ /\ k.out # << >> /\ Head(k.out) = Fragment
         /\ sock' = [sock EXCEPT ![tcpConn].out = Tail(@)]
      \/ /\ Len(k.out) > 1 /\ sock' = [sock EXCEPT ![tcpConn].out = << >>]
  BY <1>1 DEF ReadError
<1>5. k.out \in Seq(Reply) /\ k.in \in Seq(Request)
  BY <1>1, ConnIsSocket, SocketFields
<1>6. CASE UNCHANGED sock
  BY <1>1, <1>3, <1>6 DEF OneInFlight
<1>7. CASE /\ k.out # << >> /\ Head(k.out) = Fragment
           /\ sock' = [sock EXCEPT ![tcpConn].out = Tail(@)]
  <2>1. sock'[tcpConn].in = k.in /\ sock'[tcpConn].out = Tail(k.out)
    BY <1>1, <1>7, ConnIsSocket DEF TypeOK, Socket
  <2>2. CASE tcpConn \notin dirty
    <3>1. /\ k.in = << >>
          /\ Len(k.out) = 1 \/ \A i \in DOMAIN k.out : k.out[i] = Fragment
      BY <1>1, <1>7, <2>2 DEF OneInFlight, Quiet, Carries
    <3>2. CASE Len(k.out) = 1
      <4>1. Tail(k.out) = << >>
        BY <1>5, <3>2, Single
      <4> QED
        BY <1>1, <2>1, <3>1, <4>1 DEF OneInFlight, Quiet
    <3>3. CASE \A i \in DOMAIN k.out : k.out[i] = Fragment
      <4>1. /\ Tail(k.out) \in Seq(Reply) /\ Len(k.out) \in Nat \ {0}
            /\ Len(Tail(k.out)) = Len(k.out) - 1
            /\ \A i \in 1 .. Len(Tail(k.out)) : Tail(k.out)[i] = k.out[i + 1]
        BY <1>5, <1>7, EmptySeq, HeadTailProperties
      <4>2. \A i \in DOMAIN Tail(k.out) : Tail(k.out)[i] = Fragment
        <5>1. /\ DOMAIN Tail(k.out) = 1 .. Len(k.out) - 1 /\ DOMAIN k.out = 1 .. Len(k.out)
          BY <1>5, <4>1, LenProperties
        <5>2. \A i \in 1 .. Len(k.out) - 1 : i + 1 \in 1 .. Len(k.out)
          BY <4>1
        <5> QED
          BY <3>3, <4>1, <5>1, <5>2
      <4> QED
        BY <1>1, <1>3, <2>1, <3>1, <4>2 DEF OneInFlight, Carries
    <3> QED
      BY <3>1, <3>2, <3>3
  <2>3. CASE tcpConn \in dirty
    BY <1>1, <2>3 DEF OneInFlight
  <2> QED
    BY <2>2, <2>3
<1>8. CASE Len(k.out) > 1 /\ sock' = [sock EXCEPT ![tcpConn].out = << >>]
  <2>1. sock'[tcpConn].in = k.in /\ sock'[tcpConn].out = << >>
    BY <1>1, <1>8, ConnIsSocket DEF TypeOK, Socket
  <2>2. tcpConn \notin dirty => k.in = << >>
    BY <1>1, <1>8 DEF OneInFlight, Quiet, Carries
  <2> QED
    BY <1>1, <2>1, <2>2 DEF OneInFlight, Quiet
<1> QED
  BY <1>4, <1>6, <1>7, <1>8

LEMMA DialInFlight ==
    ASSUME TypeOK, NEW s \in Sockets, DialOk(s), tcpConn' = s
    PROVE  OneInFlight'
<1>1. sock'[s] = FreshSocket
  BY DEF DialOk, TypeOK
<1> QED
  BY <1>1 DEF OneInFlight, Quiet, FreshSocket

LEMMA InFlightByProgram ==
    ASSUME TypeOK, OneInFlight, RequestStep
    PROVE  OneInFlight'
<1>1. CASE Enter
  <2>1. UNCHANGED <<tcpConn, sock>> /\ stack # << >> /\ Top.at = "enter"
    BY <1>1 DEF Enter, At, net
  <2>2. CASE Goto("write") /\ UNCHANGED dirty
    <3>1. ~Reading
      BY <2>1 DEF Reading
    <3> QED
      BY <2>1, <2>2, <3>1 DEF OneInFlight
  <2>3. CASE Fail(0)
    BY <2>1, <2>3, FailInFlight
  <2> QED
    BY <1>1, <2>2, <2>3 DEF Enter
<1>2. CASE FirstWrite \/ RetryWrite
  BY <1>2, WriteInFlight DEF FirstWrite, RetryWrite
<1>3. CASE FirstWriteFails
  <2>1. UNCHANGED <<tcpConn, sock, dirty>> /\ ~Reading
    BY <1>3 DEF FirstWriteFails, WriteError, At, Reading, net
  <2> QED
    BY <2>1 DEF OneInFlight
<1>4. CASE RetryWriteFails \/ RetryReadFails \/ RedialFails
  BY <1>4, FailInFlight DEF RetryWriteFails, RetryReadFails, RedialFails
<1>5. CASE ReconnectBegin
  <2>1. CASE tcpConn' = Nil
    BY <2>1 DEF OneInFlight
  <2>2. CASE Fail(0) /\ UNCHANGED tcpConn
    BY <2>2, FailInFlight
  <2> QED
    BY <1>5, <2>1, <2>2 DEF ReconnectBegin, Reconnect
<1>6. ASSUME NEW s \in Sockets, RedialOk(s) PROVE OneInFlight'
  BY <1>6, DialInFlight DEF RedialOk
<1>7. CASE NilDereference
  <2>1. UNCHANGED <<tcpConn, sock, dirty, stack>>
    BY <1>7 DEF NilDereference, Panic, net
  <2> QED
    BY <2>1 DEF OneInFlight, Reading, Top
<1> QED
  BY <1>1, <1>2, <1>3, <1>4, <1>5, <1>6, <1>7, ReadReplyInFlight, FirstReadFailsInFlight
     DEF RequestStep

LEMMA InFlightByCalls ==
    ASSUME TypeOK, OneInFlight,
           \/ Connect
           \/ \E cmd \in {"ListIdentity", "SendRRData", "UnRegisterSession"}, body \in Bodies :
                 BeginRequest(cmd, body)
           \/ Return
    PROVE  OneInFlight'
<1>1. CASE Connect
  <2>1. CASE DialError /\ UNCHANGED <<tcpConn, stack>>
    BY <1>1, <2>1 DEF Connect, DialError, Idle, OneInFlight, Reading, net
  <2>2. ASSUME NEW s \in Sockets, DialOk(s), tcpConn' = s PROVE OneInFlight'
    BY <2>2, DialInFlight
  <2> QED
    BY <1>1, <2>1, <2>2 DEF Connect
<1>2. ASSUME NEW cmd \in {"ListIdentity", "SendRRData", "UnRegisterSession"},
             NEW body \in Bodies, BeginRequest(cmd, body)
      PROVE  OneInFlight'
  <2>1. ~Reading /\ UNCHANGED <<tcpConn, sock, dirty>>
    BY <1>2 DEF BeginRequest, Idle, Reading, net
  <2> QED
    BY <2>1 DEF OneInFlight
<1>3. CASE Return
  <2>1. ~Reading
    BY <1>3 DEF Return, ConnectSucceeds, ConnectFails, CloseReturns, RequestReturns, Returned,
       At, Reading
  <2>2. CASE UNCHANGED <<tcpConn, sock, dirty>>
    BY <2>1, <2>2 DEF OneInFlight
  <2>3. CASE tcpConn' = Nil
    BY <2>3 DEF OneInFlight
  <2> QED
    BY <1>3, <2>2, <2>3 DEF Return, ConnectSucceeds, ConnectFails, CloseReturns,
       RequestReturns, Panic, net
<1> QED
  BY <1>1, <1>2, <1>3

\* The device and the network change the socket of the connection.
LEMMA DeviceInFlight ==
    ASSUME TypeOK, OneInFlight, Device
    PROVE  OneInFlight'
<1> DEFINE k == sock[tcpConn]
           j == sock'[tcpConn]
<1>1. /\ UNCHANGED <<tcpConn, dirty, stack>>
      /\ \E s \in Sockets :
            \/ DeviceRefuses(s) \/ DeviceSilent(s) \/ HangUp(s) \/ Tear(s)
            \/ \E body \in Bodies : DeviceAnswers(s, body) \/ DeviceUnRegisters(s)
  BY DEF Device, Misbehave, Serve, DeviceUnchanged
<1>2. SUFFICES ASSUME tcpConn # Nil, tcpConn \notin dirty
               PROVE  Quiet(j) \/ (Reading /\ Carries(j, Top.pkt.ctx))
  BY <1>1 DEF OneInFlight, Reading, Top
<1>3. /\ tcpConn \in Sockets /\ k \in Socket /\ sock \in [Sockets -> Socket]
      /\ k.in \in Seq(Request) /\ k.out \in Seq(Reply)
  BY <1>2, ConnIsSocket, SocketFields DEF TypeOK
<1>4. Quiet(k) \/ (Reading /\ Carries(k, Top.pkt.ctx))
  BY <1>2 DEF OneInFlight
<1>5. CASE j.in = k.in /\ j.out = k.out
  BY <1>4, <1>5 DEF Quiet, Carries
<1>6. CASE k.in # << >> /\ j.in = << >> /\ j.out = k.out
  BY <1>2, <1>6, OnlyRequest DEF Quiet
<1>7. CASE j.in = << >> /\ j.out \in {k.out, << >>}
  BY <1>4, <1>7 DEF Quiet, Carries
<1>8. ASSUME NEW a \in Reply, k.in # << >>, a.ctx = Head(k.in).ctx,
             j.in = Tail(k.in), j.out = Append(k.out, a)
      PROVE  Reading /\ Carries(j, Top.pkt.ctx)
  <2>1. /\ Reading /\ k.out = << >> /\ Tail(k.in) = << >> /\ a.ctx = Top.pkt.ctx
    BY <1>2, <1>8, OnlyRequest
  <2> QED
    BY <1>8, <2>1 DEF Carries
<1>9. CASE /\ k.out # << >> /\ Head(k.out) # Fragment
           /\ j.in = k.in /\ j.out = <<Fragment, Fragment>> \o Tail(k.out)
  <2>1. Reading /\ k.in = << >> /\ Tail(k.out) = << >>
    BY <1>2, <1>9, WholeReply
  <2>2. j.out = <<Fragment, Fragment>>
    <3>1. <<Fragment, Fragment>> \in Seq({Fragment})
      OBVIOUS
    <3> QED
      BY <1>9, <2>1, <3>1, ConcatEmptySeq
  <2>3. \A i \in DOMAIN j.out : j.out[i] = Fragment
    BY <2>2
  <2> QED
    BY <1>9, <2>1, <2>3 DEF Carries
<1> HIDE DEF k, j
<1>10. ASSUME NEW s \in Sockets, NEW body \in Bodies, DeviceAnswers(s, body)
       PROVE  Quiet(j) \/ (Reading /\ Carries(j, Top.pkt.ctx))
  <2>1. CASE s # tcpConn
    BY <1>3, <1>5, <1>10, <2>1 DEF DeviceAnswers, j, k
  <2>2. CASE s = tcpConn
    <3> DEFINE a == DeviceReply(s, Head(k.in), body)
    <3>1. /\ k.in # << >>
          /\ j = [k EXCEPT !.in = Tail(@), !.out = Append(@, a),
                           !.registered = @ \/ Head(k.in).cmd = "RegisterSession"]
      BY <1>1, <1>3, <1>10, <2>2 DEF DeviceAnswers, j, k
    <3>2. Head(k.in) \in Request
      BY <1>3, <3>1, HeadTailProperties
    <3>3. a \in Reply /\ a.ctx = Head(k.in).ctx
      BY <3>2, TransportAssumption DEF DeviceReply, Reply, Request, Contents, Handles, Sockets
    <3> HIDE DEF a
    <3>4. j.in = Tail(k.in) /\ j.out = Append(k.out, a)
      BY <1>3, <3>1 DEF Socket
    <3> QED
      BY <1>8, <3>1, <3>3, <3>4
  <2> QED
    BY <2>1, <2>2
<1>11. ASSUME NEW s \in Sockets, DeviceRefuses(s)
       PROVE  Quiet(j) \/ (Reading /\ Carries(j, Top.pkt.ctx))
  <2>1. CASE s # tcpConn
    BY <1>3, <1>5, <1>11, <2>1 DEF DeviceRefuses, j, k
  <2>2. CASE s = tcpConn
    <3> DEFINE a == [ctx |-> Head(k.in).ctx, sess |-> 0, has |-> "none", body |-> NoBody]
    <3>1. k.in # << >> /\ j = [k EXCEPT !.in = Tail(@), !.out = Append(@, a)]
      BY <1>1, <1>3, <1>11, <2>2 DEF DeviceRefuses, j, k
    <3>2. Head(k.in) \in Request
      BY <1>3, <3>1, HeadTailProperties
    <3>3. a \in Reply /\ a.ctx = Head(k.in).ctx
      BY <3>2, TransportAssumption DEF Reply, Request, Contents, Handles
    <3> HIDE DEF a
    <3>4. j.in = Tail(k.in) /\ j.out = Append(k.out, a)
      BY <1>3, <3>1 DEF Socket
    <3> QED
      BY <1>8, <3>1, <3>3, <3>4
  <2> QED
    BY <2>1, <2>2
<1>12. ASSUME NEW s \in Sockets, DeviceUnRegisters(s) \/ DeviceSilent(s)
       PROVE  Quiet(j) \/ (Reading /\ Carries(j, Top.pkt.ctx))
  <2>1. CASE s # tcpConn
    BY <1>3, <1>5, <1>12, <2>1 DEF DeviceUnRegisters, DeviceSilent, j, k
  <2>2. CASE s = tcpConn
    <3>1. k.in # << >> /\ j.in \in {<< >>, Tail(k.in)} /\ j.out = k.out
      <4>1. CASE DeviceSilent(s)
        BY <1>1, <1>3, <2>2, <4>1 DEF DeviceSilent, j, k, Socket
      <4>2. CASE DeviceUnRegisters(s)
        <5>1. /\ k.in # << >>
              /\ \/ j = [k EXCEPT !.in = << >>, !.up = FALSE, !.registered = FALSE]
                 \/ j = [k EXCEPT !.in = Tail(@)]
          BY <1>1, <1>3, <2>2, <4>2 DEF DeviceUnRegisters, j, k
        <5> QED
          BY <1>3, <5>1 DEF Socket
      <4> QED
        BY <1>12, <4>1, <4>2
    <3>2. Tail(k.in) = << >>
      BY <1>2, <3>1, OnlyRequest DEF k
    <3> QED
      BY <1>6, <3>1, <3>2
  <2> QED
    BY <2>1, <2>2
<1>13. ASSUME NEW s \in Sockets, HangUp(s)
       PROVE  Quiet(j) \/ (Reading /\ Carries(j, Top.pkt.ctx))
  <2>1. CASE s # tcpConn
    BY <1>3, <1>5, <1>13, <2>1 DEF HangUp, j, k
  <2>2. CASE s = tcpConn
    <3>1. j.in = << >> /\ j.out \in {k.out, << >>}
      BY <1>1, <1>3, <1>13, <2>2 DEF HangUp, j, k, Socket
    <3> QED
      BY <1>7, <3>1
  <2> QED
    BY <2>1, <2>2
<1>14. ASSUME NEW s \in Sockets, Tear(s)
       PROVE  Quiet(j) \/ (Reading /\ Carries(j, Top.pkt.ctx))
  <2>1. CASE s # tcpConn
    BY <1>3, <1>5, <1>14, <2>1 DEF Tear, j, k
  <2>2. CASE s = tcpConn
    <3>1. /\ k.out # << >> /\ Head(k.out) # Fragment
          /\ j.in = k.in /\ j.out = <<Fragment, Fragment>> \o Tail(k.out)
      BY <1>1, <1>3, <1>14, <2>2 DEF Tear, j, k, Socket
    <3> QED
      BY <1>9, <3>1
  <2> QED
    BY <2>1, <2>2
<1> QED
  BY <1>1, <1>10, <1>11, <1>12, <1>13, <1>14

LEMMA InFlightNext ==
    ASSUME Inv, OneInFlight, [Next]_vars
    PROVE  OneInFlight'
<1>1. CASE UNCHANGED vars
  BY <1>1 DEF vars, net, OneInFlight, Reading, Top
<1> QED
  BY <1>1, StepOf, InFlightByCalls, InFlightByProgram, DeviceInFlight DEF Inv

LEMMA InFlightInit ==
    ASSUME Init
    PROVE  OneInFlight
BY DEF Init, OneInFlight

LEMMA InFlightHolds == Spec => [](Inv /\ OneInFlight)
<1>1. Inv /\ OneInFlight /\ [Next]_vars => OneInFlight'
  BY InFlightNext
<1> QED
  BY <1>1, InFlightInit, InvHolds, PTL DEF Spec

\* What OneInFlight says about the queues.
LEMMA InFlightInStep ==
    ASSUME TypeOK, OneInFlight
    PROVE  InStep
<1> SUFFICES ASSUME tcpConn # Nil, tcpConn \notin dirty
             PROVE  LET k == sock[tcpConn] IN
                    /\ k.in # << >> \/ k.out # << >> =>
                          stack # << >> /\ Top.at \in {"read", "reread", "reconnectR"}
                    /\ \A i \in DOMAIN k.in : k.in[i].ctx = Top.pkt.ctx
                    /\ \A i \in DOMAIN k.out : k.out[i].ctx \in {Top.pkt.ctx, 0}
  BY DEF InStep
<1> DEFINE k == sock[tcpConn]
<1>1. k.in \in Seq(Request) /\ k.out \in Seq(Reply)
  BY ConnIsSocket, SocketFields
<1>2. Quiet(k) \/ (Reading /\ Carries(k, Top.pkt.ctx))
  BY DEF OneInFlight
<1>3. Fragment.ctx = 0
  BY DEF Fragment
<1> HIDE DEF k
<1>4. /\ k.in # << >> \/ k.out # << >> =>
            stack # << >> /\ Top.at \in {"read", "reread", "reconnectR"}
      /\ \A i \in DOMAIN k.in : k.in[i].ctx = Top.pkt.ctx
      /\ \A i \in DOMAIN k.out : k.out[i].ctx \in {Top.pkt.ctx, 0}
  BY <1>1, <1>2, <1>3, Single DEF Quiet, Reading, Carries
<1> QED
  BY <1>4 DEF k

\* Requests and replies stay in step on a socket that no call has given up on.
THEOREM RequestsInStep == Spec => []InStep
<1>1. Inv /\ OneInFlight => InStep
  BY InFlightInStep DEF Inv
<1> QED
  BY <1>1, InFlightHolds, PTL

\* No answer of the device goes to the wrong caller: the reply that a read returns answers
\* the request in progress, unless an earlier call gave up on the same socket.
THEOREM RepliesAreOwn == Spec => OwnReply
<1>1. Inv /\ OneInFlight /\ [Next]_vars
         => [ReadReply /\ tcpConn \notin dirty
                => Head(sock[tcpConn].out).ctx = Top.pkt.ctx]_vars
  <2> SUFFICES ASSUME Inv, OneInFlight, ReadReply, tcpConn \notin dirty
               PROVE  Head(sock[tcpConn].out).ctx = Top.pkt.ctx
    OBVIOUS
  <2> QED
    BY WholeReply DEF ReadReply, Inv
<1> QED
  BY <1>1, InFlightHolds, PTL DEF Spec, OwnReply
=============================================================================
