-------------------------------- MODULE Discovery -------------------------------
(***************************************************************************)
(* DiscoverDevicesWithPort (udp.go): one broadcast, then a loop that reads *)
(* datagrams until a deadline that was set once, before the broadcast.     *)
(* What arrives is the network's choice: answers, in any order and more    *)
(* than once, and datagrams that are no answer, as many as it likes.       *)
(*                                                                         *)
(* An answer is laid out as the package itself reads it over TCP           *)
(* (messages/listIdentity/decode.go:35-53).  udp.go takes its fields from  *)
(* other offsets: what a device is said to be is modelled, and no property *)
(* trusts it.                                                              *)
(***************************************************************************)
EXTENDS Wire

CONSTANTS
    Senders,        \* the addresses datagrams come from
    Identities,     \* what a device may say of itself
    Timeout,        \* the deadline, in ticks
    MaxAnswers      \* bound on the answers that arrive

ASSUME DiscoveryAssumption ==
    /\ Timeout \in Nat /\ MaxAnswers \in Nat

VARIABLES
    pc,         \* "listen", "loop" or "returned"
    left,       \* the ticks until the conn's deadline
    devices,    \* devices
    failed,     \* whether the error returned is not nil
    answered    \* history: the answers read, each with its sender

vars == <<pc, left, devices, failed, answered>>

-----------------------------------------------------------------------------
(* Devices and the network: external.                                      *)

Name == <<86, 49, 46, 48, 32, 105, 111, 49>>     \* a name

\* The item of an answer: a version and a socket address, which is that of port 44818 and
\* has the high bytes first, the identity, the name and a state.
IdentityItem(id) ==
    U16(1) \o <<0, 2, 175, 18>> \o U32(0) \o U32(0) \o U32(0) \o U16(id.vendor) \o U16(12)
        \o U16(id.product) \o U8(id.major) \o U8(id.minor) \o U16(id.status)
        \o id.serial \o U8(Len(Name)) \o Name \o U8(3)

Context == U32(0) \o U32(0)
Datagram(items) == Encode(ListIdentity, 0, Context, CPFEncode(items))

\* An answer, alone, behind another item, or with bytes after its end.
Answers(id) ==
    LET item == Item(12, IdentityItem(id)) IN
    {Datagram(<<item>>), Datagram(<<Item(256, <<1, 2, 3>>), item>>),
     Datagram(<<item>>) \o <<0, 0>>}

\* Not an answer: of another command, without the item, with an item that is too
\* short, cut off, and shorter than a header.
NoAnswers(id) ==
    LET item == Item(12, IdentityItem(id))
        cut(n) == SubSeq(Datagram(<<item>>), 1, n)
    IN  {Encode(4, 0, Context, CPFEncode(<<item>>)), Datagram(<< >>),
         Datagram(<<Item(256, IdentityItem(id))>>),
         Datagram(<<Item(12, SubSeq(IdentityItem(id), 1, 23))>>),
         cut(24), cut(25), cut(30), cut(23)}

-----------------------------------------------------------------------------
(* The parsers.                                                            *)

\* parseListIdentityItem. The name is read into a slice and not a pointer, which is an
\* error: it stays empty.
Identity(data) ==
    LET at(p, n) == NumberAt(After(Reader(data), p), n)
        bytes(p, n) == BytesAt(After(Reader(data), p), n)
    IN  [vendor |-> at(0, 2), product |-> at(2, 2), major |-> at(4, 1),
         minor |-> at(5, 1), status |-> at(6, 2), serial |-> bytes(8, 4),
         mac |-> bytes(12, 6), name |-> << >>]

\* The items of a datagram with a header and as many bytes after it as that says.
Complete(data) ==
    /\ Len(data) >= 24
    /\ NumberAt(Reader(data), 2) = ListIdentity
    /\ NumberAt(After(Reader(data), 2), 2) <= Len(data) - 24
Items(data) == CPFDecode(Reader(SubSeq(data, 25, 24 + NumberAt(After(Reader(data), 2), 2))))

IdentityItems(items) == {i \in DOMAIN items : items[i].type = 12}
FirstOf(indices) == CHOOSE i \in indices : \A j \in indices : i <= j

\* parseListIdentityResponse: the device in a datagram, in a sequence of none or one.
DeviceIn(data) ==
    LET items == Items(data).items
        found == IdentityItems(items)
    IN  IF /\ Complete(data) /\ Items(data).ok /\ found # {}
           /\ Len(items[FirstOf(found)].data) >= 24
        THEN <<Identity(items[FirstOf(found)].data)>>
        ELSE << >>

-----------------------------------------------------------------------------
(* DiscoverDevicesWithPort.                                                *)

\* The socket, its deadline and the broadcast.
Listen ==
    /\ pc = "listen"
    /\ left' = Timeout
    /\ pc' = "loop"
    /\ UNCHANGED <<devices, failed, answered>>

\* One of these fails.
ListenFails ==
    /\ pc = "listen"
    /\ pc' = "returned" /\ failed' = TRUE
    /\ UNCHANGED <<left, devices, answered>>

\* Seeded bug: the address of the sender is not kept.
FoundUnaddressed(from, data) ==
    [i \in DOMAIN DeviceIn(data) |-> [ip |-> "nil", id |-> DeviceIn(data)[i]]]

\* Seeded bug: an address that is among the devices is taken for one of them.
FoundOncePerAddress(from, data) ==
    [i \in {j \in DOMAIN DeviceIn(data) : \A k \in DOMAIN devices : devices[k].ip # from} |->
        [ip |-> from, id |-> DeviceIn(data)[i]]]

\* What a datagram adds to the devices.
Found(from, data) == [i \in DOMAIN DeviceIn(data) |-> [ip |-> from, id |-> DeviceIn(data)[i]]]

\* Seeded bug: the deadline moves with every datagram.
LeftAnew == Timeout

LeftAfterRead == left

\* Seeded bug: a datagram that does not parse ends the loop.
BreaksOn(data) == IF DeviceIn(data) = << >> THEN "returned" ELSE "loop"

ContinuesOn(data) == "loop"

Read(from, data, answer) ==
    /\ pc = "loop" /\ left > 0
    /\ devices' = devices \o Found(from, data)
    /\ answered' = answered \o answer
    /\ left' = LeftAfterRead
    /\ pc' = ContinuesOn(data)
    /\ UNCHANGED failed

\* A read after the deadline fails, whether or not a datagram is there.
ReadTimesOut ==
    /\ pc = "loop" /\ left = 0
    /\ pc' = "returned"
    /\ UNCHANGED <<left, devices, failed, answered>>

\* Any other error: what was found so far is returned with it.
ReadFails ==
    /\ pc = "loop" /\ left > 0
    /\ pc' = "returned" /\ failed' = TRUE
    /\ UNCHANGED <<left, devices, answered>>

Tick ==
    /\ pc = "loop" /\ left > 0
    /\ left' = left - 1
    /\ UNCHANGED <<pc, devices, failed, answered>>

Returned == pc = "returned" /\ UNCHANGED vars

Init ==
    /\ pc = "listen"
    /\ left = 0
    /\ devices = << >>
    /\ failed = FALSE
    /\ answered = << >>

Answer(from, id) ==
    /\ Len(answered) < MaxAnswers
    /\ \E data \in Answers(id) : Read(from, data, <<[ip |-> from, id |-> id]>>)

Next ==
    \/ Listen \/ ListenFails \/ ReadTimesOut \/ ReadFails \/ Tick \/ Returned
    \/ \E from \in Senders, id \in Identities :
          \/ Answer(from, id)
          \/ \E data \in NoAnswers(id) : Read(from, data, << >>)

Spec == Init /\ [][Next]_vars
FairSpec == Spec /\ WF_vars(Listen \/ ListenFails) /\ WF_vars(Tick) /\ WF_vars(ReadTimesOut)
-----------------------------------------------------------------------------
Byte == 0 .. 255
DeviceInfo ==
    [vendor : 0 .. 65535, product : 0 .. 65535, major : Byte, minor : Byte, status : 0 .. 65535,
     serial : Seq(Byte), mac : Seq(Byte), name : {<< >>}]

\* The types of the variables.
TypeOK ==
    /\ pc \in {"listen", "loop", "returned"}
    /\ left \in 0 .. Timeout
    /\ devices \in Seq([ip : Senders, id : DeviceInfo])
    /\ failed \in BOOLEAN
    /\ answered \in Seq([ip : Senders, id : Identities])
    /\ Len(answered) <= MaxAnswers

\* The parsers find one device in an answer and none in anything else.
TellsAnswers ==
    \A id \in Identities :
        /\ \A data \in Answers(id) :
              LET found == DeviceIn(data)
              IN  found # << >> /\ found = <<Head(found)>> /\ Head(found) \in DeviceInfo
        /\ \A data \in NoAnswers(id) : DeviceIn(data) = << >>

\* README.md:571: the devices found are those that answered before the deadline: one for
\* each answer, in the order of the answers and with the address it came from (udp.go:63-78,
\* :102-132).  A datagram that is no answer neither adds a device nor hides a later one.
\* Of what the answer says the property says nothing: udp.go:134-185 misreads it.
FindsAnswers ==
    /\ Len(devices) = Len(answered)
    /\ \A i \in DOMAIN devices : devices[i].ip = answered[i].ip

\* Only an error of the socket ends the search early (udp.go:65-75): without one the
\* devices are returned at the deadline, not before.
SearchesToTheDeadline == pc = "returned" /\ ~failed => left = 0

\* The search returns (udp.go:39, :66): datagrams that keep arriving do not prolong it.
Returns == pc = "listen" ~> pc = "returned"
=============================================================================
