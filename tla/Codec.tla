---------------------------------- MODULE Codec ---------------------------------
(***************************************************************************)
(* Tags, atomic groups, attributes, lists and the CIP connection in one    *)
(* goroutine, down to the bytes: a request is encoded by the operators of  *)
(* Wire, taken apart by a device that reads it by the layout it is         *)
(* specified to have, and the answer is decoded by Wire again.  Every      *)
(* exchange succeeds; a service in it may be refused.                      *)
(*                                                                         *)
(* Devices differ in the layout of their answers (data.go:27-47) and in    *)
(* the command they know (request.go:173-192).                             *)
(***************************************************************************)
EXTENDS Wire

CONSTANTS
    Tags,
    Address,     \* the name of each tag, taken apart at dots and brackets
    TypeOf,      \* the CIP type each tag has on the device
    Contents,    \* the values each tag can have, as bytes
    Listings,    \* the items a device may list, for each List command
    Devices,     \* subset of {"modern", "legacyLayout", "legacyCommand"}
    MaxGroup     \* bound on the tags of a group

ASSUME CodecAssumption ==
    /\ TypeOf \in [Tags -> {193, 194, 195, 196, 197, 202, 203, 4046}]
    /\ Devices \subseteq {"modern", "legacyLayout", "legacyCommand"}
    /\ MaxGroup \in Nat

VARIABLES
    device,      \* device: the value of each tag
    kind,        \* device: what it is
    connID,      \* EIPTCP.connID
    value,       \* t.value
    type,        \* t.Type
    seen,        \* history: the device's value at the last read or write of a tag
    agreed       \* history: whether both ends took the last exchange for the same

vars == <<device, kind, connID, value, type, seen, agreed>>

Unknown == << >>     \* t.value = nil

\* A tag, or the tags of a group in the order of its map, whose keys are instance ids.
TagLists ==
    {ts \in UNION {[1 .. n -> Tags] : n \in 1 .. MaxGroup} :
        \A i, j \in DOMAIN ts :
            Address[ts[i]].instanceID = Address[ts[j]].instanceID => i = j}

-----------------------------------------------------------------------------
(* The device: external.                                                   *)

\* A request path by the layout of a padded path.
Segments(path) ==
    LET byte(p) == NumberAt(After(Reader(path), p), 1)
        part(p, n) == BytesAt(After(Reader(path), p), n)
        from[p \in Nat] ==
            LET format == byte(p) % 4
                logical(n, skip) ==
                    <<[kind |-> byte(p) - format, of |-> part(p + skip, n)]>>
                        \o from[p + skip + n]
            IN  CASE p >= Len(path) -> << >>
                  [] p < Len(path) /\ byte(p) < 16 ->
                        <<[kind |-> byte(p), of |-> part(p + 1, 1)]>> \o from[p + 2]
                  [] p < Len(path) /\ byte(p) = ANSI ->
                        <<[kind |-> ANSI, of |-> part(p + 2, byte(p + 1))]>>
                            \o from[p + 2 + byte(p + 1) + (byte(p + 1) % 2)]
                  [] p < Len(path) /\ byte(p) \notin 0 .. 15 \cup {ANSI} /\ format = 0 -> logical(1, 1)
                  [] p < Len(path) /\ byte(p) \notin 0 .. 15 \cup {ANSI} /\ format = 1 -> logical(2, 2)
                  [] OTHER -> logical(4, 2)
    IN  from[0]

Service(mr) ==
    LET size == 2 * NumberAt(After(Reader(mr), 1), 1) IN
    [service  |-> NumberAt(Reader(mr), 1),
     segments |-> Segments(BytesAt(After(Reader(mr), 2), size)),
     data     |-> SubSeq(mr, 3 + size, Len(mr))]

Services(mr) ==
    LET one == Service(mr)
        count == NumberAt(Reader(one.data), 2)
        offset(i) == NumberAt(After(Reader(one.data), 2 * i), 2)
        end(i) == IF i = count THEN Len(one.data) ELSE offset(i + 1)
    IN  IF one.service # Multi THEN <<one>>
        ELSE [i \in 1 .. count |-> Service(SubSeq(one.data, offset(i) + 1, end(i)))]

Reply(service, status, more, data) ==
    <<service + 128, 0, status, Len(more) \div 2>> \o more \o data

\* The answer to several services carries one for each.
ReplyToAll(replies, status) ==
    LET offset(i) == 2 * (Len(replies) + 1) + Len(Concat(SubSeq(replies, 1, i - 1))) IN
    Reply(Multi, status, << >>,
          U16(Len(replies)) \o Concat([i \in DOMAIN replies |-> U16(offset(i))])
              \o Concat(replies))

\* A tag's type and value; no count.
ReadData(t) ==
    (IF TypeOf[t] \in Strings THEN U16(Structure) ELSE << >>) \o U16(TypeOf[t]) \o device[t]

-----------------------------------------------------------------------------
(* One exchange: Send, SendRRData.                                         *)

Connected == connID # 0
Session == 66051
Context == <<1, 2, 3, 4, 5, 6, 7, 128>>
OpenedID == 16909060     \* what the device calls a CIP connection

From(data, n) == BytesAt(After(Reader(data), n), Len(data) - n)

\* The device reads the header: what follows a command of the session.
TakenOff(command, session, frame) ==
    IF /\ BytesAt(Reader(frame), 2) = U16(command)
       /\ BytesAt(After(Reader(frame), 2), 2) = U16(Len(frame) - 24)
       /\ BytesAt(After(Reader(frame), 4), 4) = U32(session)
    THEN From(frame, 24) ELSE << >>

\* The device reads the items: the data of the second, which ends the packet.
SecondItem(address, id, items) ==
    LET header == U16(2) \o address \o U16(id)
        data == From(items, Len(header) + 2)
    IN  IF BytesAt(Reader(items), Len(header) + 2) = header \o U16(Len(data)) THEN data ELSE << >>

Frame(command, data) == Encode(command, Session, Context, data)
Unconnected(mr) ==
    IF kind = "legacyCommand"
    THEN SecondItem(U32(0), 178,
            From(TakenOff(LegacyRR, Session, Frame(LegacyRR, LegacyEncode(NewUCMM(mr)))), 4))
    ELSE SecondItem(U32(0), 178,
            From(TakenOff(RRData, Session, Frame(RRData, SpecificEncode(10, NewUCMM(mr)))), 6))

\* What the device takes from a frame of Send for the request, behind the sequence count.
Received(mr) ==
    IF Connected
    THEN From(SecondItem(U16(161) \o U16(4) \o U32(OpenedID), 177,
            From(TakenOff(UnitData, Session,
                    Frame(UnitData, SpecificEncode(0, NewCMM(connID, 1, mr)))), 6)), 2)
    ELSE Unconnected(mr)

\* The device's frames: some leave the length to the reader.
Answered(command, data) ==
    U16(command) \o U16(IF kind = "legacyCommand" THEN 0 ELSE Len(data)) \o U32(Session)
        \o U32(0) \o Context \o U32(0) \o data

Sent(reply, connected) ==
    LET items == IF connected
                 THEN <<Item(161, U32(OpenedID)), Item(177, U16(1) \o reply)>>
                 ELSE <<Item(0, << >>), Item(178, reply)>>
    IN  Answered(RRData, IF kind = "modern" THEN SpecificEncode(0, items)
                         ELSE LegacyEncode(items))

\* read: the items of a frame.
ItemsOf(frame) ==
    IF Parses(frame) THEN SpecificDecode(SpecificData(frame)).items ELSE << >>

SecondData(items) == items[FindDataItem(items)].data

\* The data of the answer's item, without the sequence count.
ItemData(items) ==
    LET data == SecondData(items)
    IN  IF Connected THEN SubSeq(data, 3, Len(data)) ELSE data

-----------------------------------------------------------------------------
(* Read and Write of a tag, or of a group of two and more.                 *)

\* What a tag's name stands for.
Meant(tag) ==
    LET logical(k, n) == [kind |-> k, of |-> IF n <= 255 THEN U8(n) ELSE U16(n)]
        named(p) == <<[kind |-> ANSI, of |-> p.name]>>
                        \o [i \in DOMAIN p.index |-> logical(MemberID, p.index[i])]
    IN  IF tag.instanceID > 0
        THEN <<logical(ClassID, 107), logical(InstanceID, tag.instanceID)>>
        ELSE Concat([i \in DOMAIN tag.name |-> named(tag.name[i])])

Asked(service, ts, data) ==
    [i \in DOMAIN ts |->
        [service |-> service, segments |-> Meant(Address[ts[i]]), data |-> data[i]]]

\* The responses the code takes from the items of the answer.
Heard(n, items) ==
    CASE items = << >>           -> << >>
      [] items # << >> /\ n = 1  -> <<RouterResponse(ItemData(items))>>
      [] OTHER                   -> Responses(RouterResponse(ItemData(items)).data)

\* The device answers each service with what is `said' of it, and refusals with
\* additional status.
Answer(said, more) ==
    LET replies == [i \in DOMAIN said |->
                        Reply(ReadTag, said[i].status,
                              IF said[i].status = 0 THEN << >> ELSE more, said[i].data)]
        refused == \E i \in DOMAIN said : said[i].status # 0
    IN  IF Len(said) = 1 THEN replies[1]
        ELSE ReplyToAll(replies, IF refused THEN 30 ELSE 0)

Responded(said, more) == Heard(Len(said), ItemsOf(Sent(Answer(said, more), Connected)))

Agree(asked, mrs, said, heard) ==
    agreed' = [request |-> Services(Received(Multiple(mrs))) = asked,
               reply   |-> heard = said]

Heeds(heard, i) == i \in DOMAIN heard /\ heard[i].status = 0
InList(ts, t) == \E i \in DOMAIN ts : ts[i] = t
At(ts, t) == CHOOSE i \in DOMAIN ts : ts[i] = t

ReadReturns(ts, said, heard) ==
    LET parsed(t) == Parsed(heard[At(ts, t)].data)
        takes(t) == InList(ts, t) /\ Heeds(heard, At(ts, t)) /\ parsed(t).ok
    IN  /\ Agree(Asked(ReadTag, ts, [i \in DOMAIN ts |-> U16(1)]),
                 [i \in DOMAIN ts |-> ReadRequest(Address[ts[i]])], said, heard)
        /\ value' = [t \in Tags |-> IF takes(t) THEN parsed(t).payload ELSE value[t]]
        /\ type' = [t \in Tags |-> IF takes(t) /\ type[t] = 0 THEN parsed(t).type
                                   ELSE type[t]]
        /\ seen' = [t \in Tags |-> IF takes(t) THEN device[t] ELSE seen[t]]
        /\ UNCHANGED <<device, kind, connID>>

Read(ts, ok, more) ==
    LET said == [i \in DOMAIN ts |->
                    IF i \in ok THEN [status |-> 0, data |-> ReadData(ts[i])]
                    ELSE [status |-> 5, data |-> << >>]]
    IN  ReadReturns(ts, said, Responded(said, more))

\* The device refuses a value of another type; the tags keep the values it accepted
\* when it accepted them all.
WriteReturns(ts, written, said, heard) ==
    LET accepted(t) == InList(ts, t) /\ said[At(ts, t)].status = 0
        commits(t) == InList(ts, t) /\ heard # << >> /\ \A i \in DOMAIN ts : Heeds(heard, i)
    IN  /\ Agree(Asked(WriteTag, ts,
                       [i \in DOMAIN ts |-> U16(type[ts[i]]) \o U16(1) \o written[i]]),
                 [i \in DOMAIN ts |->
                    WriteRequest(Address[ts[i]], type[ts[i]], written[i])], said, heard)
        /\ device' = [t \in Tags |-> IF accepted(t) THEN written[At(ts, t)] ELSE device[t]]
        /\ value' = [t \in Tags |-> IF commits(t) THEN written[At(ts, t)] ELSE value[t]]
        /\ seen' = [t \in Tags |-> IF commits(t) THEN written[At(ts, t)] ELSE seen[t]]
        /\ UNCHANGED <<kind, connID, type>>

\* A setter of each tag, and Write.
Write(ts, written, ok, more) ==
    LET said == [i \in DOMAIN ts |-> [status |-> IF i \in ok THEN 0 ELSE 255, data |-> << >>]] IN
    /\ \A i \in ok : type[ts[i]] = TypeOf[ts[i]]
    /\ WriteReturns(ts, written, said, Responded(said, more))

\* The program in the device changes a value.
Changes(t, v) ==
    /\ device' = [device EXCEPT ![t] = v]
    /\ UNCHANGED <<kind, connID, value, type, seen, agreed>>

-----------------------------------------------------------------------------
(* ForwardOpen and ForwardClose, attributes, lists.                        *)

Slot == 3
RouteMeant == <<[kind |-> 1, of |-> U8(Slot)], [kind |-> ClassID, of |-> U8(2)],
                [kind |-> InstanceID, of |-> U8(1)]>>

\* The path with its size at the end of a request's data.
RouteRead(data) ==
    IF Len(data) = 1 + 2 * NumberAt(Reader(data), 1) THEN Segments(From(data, 1)) ELSE << >>

\* Not with a device that knows only the legacy command.  Any response is taken for
\* that of a connection: its first four bytes are the id.
ForwardOpen(service) ==
    /\ kind # "legacyCommand"
    /\ LET ids == [toUs |-> 16909060, serial |-> 513]
           request == Service(Unconnected(OpenRequest(service, ids, Slot)))
           heard == RouterResponse(SecondData(ItemsOf(Sent(
                        Reply(service, 0, << >>, U32(OpenedID) \o U32(ids.toUs)), FALSE))))
       IN  /\ agreed' = [request |->
                             /\ request.service = service
                             /\ RouteRead(From(request.data, IF service = Open THEN 35 ELSE 39))
                                   = RouteMeant,
                         reply |-> heard.status = 0]
           /\ connID' = NumberAt(Reader(heard.data), 4)
    /\ UNCHANGED <<device, kind, value, type, seen>>

ForwardClose ==
    /\ Connected
    /\ LET request == Service(Unconnected(CloseRequest(connID, Slot))) IN
       agreed' = [request |-> /\ request.service = Close
                              /\ BytesAt(Reader(request.data), 4) = U32(OpenedID)
                              /\ RouteRead(From(request.data, 4)) = RouteMeant,
                  reply |-> TRUE]
    /\ connID' = 0
    /\ UNCHANGED <<device, kind, value, type, seen>>

\* ReadClass2Attribute and WriteClass2Attribute.
Attribute(service, attrID, data, said) ==
    /\ Agree(<<[service |-> service, data |-> data,
                segments |-> <<[kind |-> ClassID, of |-> U8(2)],
                               [kind |-> InstanceID, of |-> U8(1)],
                               [kind |-> 48, of |-> U8(attrID)]>>]>>,
             <<AttributeRequest(service, attrID, data)>>, <<said>>, Responded(<<said>>, << >>))
    /\ UNCHANGED <<device, kind, connID, value, type, seen>>

\* ListServices, ListInterface and ListIdentity; the device writes a socket address with
\* the high byte first.
List(command, items) ==
    LET written(item) == Concat([i \in DOMAIN item |->
                            IF command = ListIdentity /\ i \in 4 .. 7
                            THEN [k \in DOMAIN item[i] |-> item[i][Len(item[i]) + 1 - k]]
                            ELSE item[i]])
        frame == Answered(command,
                    U16(Len(items)) \o Concat([i \in DOMAIN items |-> written(items[i])]))
    IN  /\ agreed' = [request |-> Encode(command, 0, Context, << >>)
                                     = U16(command) \o U16(0) \o U32(0) \o U32(0) \o Context
                                          \o U32(0),
                      reply |-> /\ Parses(frame)
                                /\ ListDecode(command, SpecificData(frame)) = items]
        /\ UNCHANGED <<device, kind, connID, value, type, seen>>

Init ==
    /\ device \in {d \in [Tags -> UNION {Contents[t] : t \in Tags}] :
                     \A t \in Tags : d[t] \in Contents[t]}
    /\ kind \in Devices
    /\ connID = 0
    /\ value = [t \in Tags |-> Unknown]
    /\ type = [t \in Tags |-> 0]
    /\ seen = [t \in Tags |-> Unknown]
    /\ agreed = [request |-> TRUE, reply |-> TRUE]

Next ==
    \/ \E ts \in TagLists : \E ok \in SUBSET DOMAIN ts :
          \/ \E more \in {<< >>, <<1, 33>>} : Read(ts, ok, more)
          \/ \E written \in {w \in [DOMAIN ts -> UNION {Contents[t] : t \in Tags}] :
                               \A i \in DOMAIN ts : w[i] \in Contents[ts[i]]} :
                Write(ts, written, ok, <<1, 33>>)
    \/ \E t \in Tags : \E v \in Contents[t] : Changes(t, v)
    \/ ForwardOpen(Open) \/ ForwardOpen(OpenLarge) \/ ForwardClose
    \/ \E attrID \in {1, 12} :
          \/ \E said \in {[status |-> 0, data |-> <<1, 2, 3>>], [status |-> 5, data |-> << >>]} :
                Attribute(GetSingle, attrID, << >>, said)
          \/ \E status \in {0, 9} :
                Attribute(SetSingle, attrID, <<4, 5, 6>>, [status |-> status, data |-> << >>])
    \/ \E command \in DOMAIN Listings : \E items \in Listings[command] : List(command, items)

Spec == Init /\ [][Next]_vars
-----------------------------------------------------------------------------
Width(t) ==
    CASE TypeOf[t] \in {193, 194}      -> 1
      [] TypeOf[t] = 195              -> 2
      [] TypeOf[t] \in {196, 202}      -> 4
      [] OTHER                        -> 8

\* What the accessor for a tag's type makes of bytes.
Shown(t, bytes) == IF TypeOf[t] \in Strings THEN Text(bytes) ELSE Number(bytes, Width(t))

\* The types of the variables.
TypeOK ==
    /\ \A t \in Tags : device[t] \in Contents[t] /\ seen[t] \in Contents[t] \cup {Unknown}
    /\ kind \in Devices
    /\ connID \in {0, OpenedID}
    /\ \A t \in Tags : \A i \in DOMAIN value[t] : value[t][i] \in 0 .. 255
    /\ \A t \in Tags : type[t] \in {0, TypeOf[t]}

\* The device reads off a frame the services that were asked for, each with its own
\* path and data: the sizes, the padding of segments and the offsets of several
\* services agree with the layout (path.go:50-100, tag.go:697-719).
RequestsUnderstood == agreed.request

\* Whatever the layout of the answer, each tag gets its own response, refused or not
\* (data.go:27-61, messageRouter.go:45-57, tag.go:838-855).
RepliesUnderstood == agreed.reply

\* Values of which readParser takes the first two bytes for a count (tag.go:240-262): the
\* number they make is no larger than the number of bytes that follow.
LooksCounted(t, bytes) ==
    /\ TypeOf[t] \notin Strings
    /\ Len(bytes) > 2
    /\ bytes[1] + 256 * bytes[2] <= Len(bytes) - 2

\* tag.go:76-78 says that after a successful Read the accessor returns the tag's value.
\* It does, and after a successful Write the one that was written, except for a value that
\* looks counted, as DINT 1 and REAL 1.0 do: no other is lost, and these read as 0.
ReadsTheValue ==
    \A t \in Tags : seen[t] # Unknown =>
        \/ Shown(t, value[t]) = Shown(t, seen[t])
        \/ LooksCounted(t, seen[t]) /\ \A i \in 1 .. Width(t) : Shown(t, value[t])[i] = 0
=============================================================================
