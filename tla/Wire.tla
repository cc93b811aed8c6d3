---------------------------------- MODULE Wire ----------------------------------
(***************************************************************************)
(* What the package writes to the wire and what it makes of the bytes it   *)
(* reads: bufferx, path, messages/packet and the parsers of tag.go, as     *)
(* operators on sequences of bytes.  Sizes keep their width.               *)
(***************************************************************************)
EXTENDS Naturals, Sequences
LOCAL INSTANCE SequencesExt

U8(n)  == <<n % 256>>
U16(n) == <<n % 256, (n \div 256) % 256>>
U32(n) == U16(n) \o U16(n \div 65536)

Concat(seqs) == FlattenSeq(seqs)
PaddedToEven(s) == IF Len(s) % 2 = 1 THEN Append(s, 0) ELSE s

-----------------------------------------------------------------------------
(* The reader of bufferx: it stops for good at its first error, and reads  *)
(* zeros from then on.                                                     *)

Reader(data) == [data |-> data, pos |-> 0, err |-> FALSE]
Left(r) == Len(r.data) - r.pos
Has(r, n) == ~r.err /\ n <= Left(r)
After(r, n) == IF Has(r, n) THEN [r EXCEPT !.pos = @ + n] ELSE [r EXCEPT !.err = TRUE]
BytesAt(r, n) == IF Has(r, n) THEN SubSeq(r.data, r.pos + 1, r.pos + n) ELSE << >>
LittleEndian(b) ==
    CASE b = << >>   -> 0
      [] Len(b) = 1  -> b[1]
      [] Len(b) = 2  -> b[1] + 256 * b[2]
      [] OTHER       -> b[1] + 256 * (b[2] + 256 * (b[3] + 256 * b[4]))
NumberAt(r, n) == LittleEndian(BytesAt(r, n))

-----------------------------------------------------------------------------
(* Paths.                                                                  *)

ClassID    == 32    \* SegmentTypeLogical | LogicalTypeClassID
InstanceID == 36
MemberID   == 40
ANSI       == 145   \* SegmentTypeData | DataTypeANSI

DataBuild(name) == PaddedToEven(<<ANSI>> \o U8(Len(name)) \o name)

\* Only the 16-bit form is padded.
LogicalBuild(kind, address) ==
    CASE address <= 255                      -> <<kind>> \o U8(address)
      [] address > 255 /\ address <= 65535   -> <<kind + 1, 0>> \o U16(address)
      [] OTHER                               -> <<kind + 2>> \o U32(address)

Instance(class, id) == LogicalBuild(ClassID, class) \o LogicalBuild(InstanceID, id)

\* A port below 15 and its link, of one byte or more.
PortBuild(link, port) ==
    PaddedToEven(IF Len(link) > 1 THEN <<16 + port>> \o U8(Len(link)) \o link
                 ELSE <<port>> \o link)

\* A part of a tag's name between two dots, with the indices in its brackets.
PartPath(part) ==
    DataBuild(part.name)
        \o Concat([i \in DOMAIN part.index |-> LogicalBuild(MemberID, part.index[i])])

\* The instance stands for the first part of the name.
RequestPath(tag) ==
    LET named == IF tag.instanceID > 0 THEN Tail(tag.name) ELSE tag.name
    IN  (IF tag.instanceID > 0 THEN Instance(107, tag.instanceID) ELSE << >>)
            \o Concat([i \in DOMAIN named |-> PartPath(named[i])])

-----------------------------------------------------------------------------
(* Requests.                                                               *)

\* utils.Len: in words, of which a USInt counts 255.
PathSize(path) == (Len(PaddedToEven(path)) \div 2) % 256

RouterRequest(service, path, data) == <<service>> \o U8(PathSize(path)) \o path \o data

ReadTag   == 76     \* ServiceReadTag
WriteTag  == 77     \* ServiceWriteTag
Multi     == 10     \* ServiceMultipleServicePacket
GetSingle == 14     \* ServiceGetAttributeSingle
SetSingle == 16     \* ServiceSetAttributeSingle
Open      == 84     \* ServiceForwardOpen
OpenLarge == 91     \* ServiceForwardOpenLarge
Close     == 78     \* ServiceForwardClose

ReadRequest(tag) == RouterRequest(ReadTag, RequestPath(tag), U16(1))
WriteRequest(tag, type, bytes) ==
    RouterRequest(WriteTag, RequestPath(tag), U16(type) \o U16(1) \o bytes)

\* Seeded bug: the count is left out.
OffsetWithoutCount(mrs, i) == 2 * Len(mrs) + Len(Concat(SubSeq(mrs, 1, i - 1)))

\* Where the i-th of several requests begins, from the count on.
OffsetOf(mrs, i) == 2 * (Len(mrs) + 1) + Len(Concat(SubSeq(mrs, 1, i - 1)))

Multiple(mrs) ==
    IF Len(mrs) = 1 THEN mrs[1]
    ELSE RouterRequest(Multi, Instance(2, 1),
            U16(Len(mrs)) \o Concat([i \in DOMAIN mrs |-> U16(OffsetOf(mrs, i))])
                \o Concat(mrs))

\* An attribute of the one instance of class 2.
AttributeRequest(service, attrID, value) ==
    RouterRequest(service, Instance(2, 1) \o <<48>> \o U8(attrID), value)

\* Seeded bug: the size is that of the path in bytes.
RouteInBytes(slot) ==
    LET path == PortBuild(<<slot>>, 1) \o Instance(2, 1) IN U8(Len(path)) \o path

\* The size and the path from a slot to its message router.
Route(slot) ==
    LET path == PortBuild(<<slot>>, 1) \o Instance(2, 1) IN U8(PathSize(path)) \o path

\* ForwardOpen and ForwardOpenLarge: ids, serials and a multiplier, then an interval and
\* parameters for either direction.
OpenRequest(service, ids, slot) ==
    LET parameters == IF service = Open THEN U16(17396) ELSE U32(1107300258)
        direction == U32(1000000) \o parameters
    IN  RouterRequest(service, Instance(6, 1),
            <<3, 125>> \o U32(0) \o U32(ids.toUs) \o U16(ids.serial) \o U16(13107)
                \o U32(4919) \o U32(5) \o direction \o direction \o <<163>> \o Route(slot))

CloseRequest(connID, slot) ==
    RouterRequest(Close, Instance(6, 1), U32(connID) \o Route(slot))

Item(type, data) == [type |-> type, data |-> data]
NewUCMM(mr) == <<Item(0, << >>), Item(178, mr)>>
NewCMM(connID, seqNum, mr) == <<Item(161, U32(connID)), Item(177, U16(seqNum) \o mr)>>

CPFEncode(items) ==
    U16(Len(items)) \o
    Concat([i \in DOMAIN items |->
              U16(items[i].type) \o U16(Len(items[i].data)) \o items[i].data])

\* SpecificData.Encode, and the form of SendRRDataLegacy, which has no timeout.
SpecificEncode(timeout, items) == U32(0) \o U16(timeout) \o CPFEncode(items)
LegacyEncode(items) == U32(0) \o CPFEncode(items)

-----------------------------------------------------------------------------
(* Packets: the header and what it says of its length.                     *)

RRData   == 111
UnitData == 112
LegacyRR == 106
Commands == {0, 4, 99, 100, 101, 102, LegacyRR, RRData, UnitData, 114, 115}

\* Seeded bug: the length is that of the whole packet.
LengthOfAll(data) == 24 + Len(data)

\* The length in a header: UInt(len(data)), as every New gives it.
LengthOf(data) == Len(data) % 65536

\* Packet.Encode: nothing, when it refuses the packet.
Encode(command, session, context, data) ==
    IF command \notin Commands \/ LengthOf(data) > 65511 THEN << >>
    ELSE U16(command) \o U16(LengthOf(data)) \o U32(session) \o U32(0) \o context
            \o U32(0) \o data

\* parse: a length of 0 stands for all that follows.
Parses(buf) ==
    /\ Len(buf) >= 24
    /\ BytesAt(After(Reader(buf), 20), 4) = U32(0)
    /\ NumberAt(After(Reader(buf), 2), 2) \in {0, Len(buf) - 24}

SpecificData(buf) == SubSeq(buf, 25, Len(buf))

-----------------------------------------------------------------------------
(* Responses.                                                              *)

DecodeItem(acc) ==
    LET sized == After(acc.io, 2)
        body  == After(sized, 2)
        end   == After(body, NumberAt(sized, 2))
    IN  [io |-> end,
         items |-> IF end.err THEN acc.items
                   ELSE Append(acc.items,
                           Item(NumberAt(acc.io, 2), BytesAt(body, NumberAt(sized, 2))))]

\* An item takes four bytes or more: the loop is over when none are left.
CPFDecode(io) ==
    LET count == NumberAt(io, 2)
        turns == IF count <= Left(io) \div 4 THEN count ELSE Left(io) \div 4 + 1
        decoded[i \in 0 .. turns] ==
            IF i = 0 THEN [io |-> After(io, 2), items |-> << >>]
            ELSE LET before == decoded[i - 1] IN
                 IF before.io.err THEN before ELSE DecodeItem(before)
        done == decoded[turns]
    IN  [count |-> count, items |-> done.items, ok |-> ~done.io.err]

\* Seeded bug: an answer without items is not read again.
SpecificDecodeOnce(data) == CPFDecode(After(After(Reader(data), 4), 2))

\* What has no items with a timeout is read again without; when that fails too, the
\* items it came to are what is left in the packet.
EitherLayout(data, modern, legacy) ==
    IF modern.ok /\ (modern.count # 0 \/ Len(data) < 6)
    THEN [ok |-> TRUE, items |-> modern.items]
    ELSE [ok    |-> modern.ok \/ (Len(data) >= 6 /\ legacy.ok),
          items |-> IF Len(data) >= 6 THEN legacy.items ELSE modern.items]
SpecificDecode(data) ==
    EitherLayout(data, CPFDecode(After(After(Reader(data), 4), 2)),
                       CPFDecode(After(Reader(data), 4)))

NoItem == 0
FindDataItem(items) ==
    CASE items = << >>    -> NoItem
      [] Len(items) = 1   -> 1
      [] OTHER            ->
            LET data == {i \in DOMAIN items : items[i].type \in {177, 178}}
            IN  IF data = {} THEN 2 ELSE CHOOSE i \in data : \A j \in data : i <= j

RouterResponse(data) ==
    LET status == After(Reader(data), 2)
        size   == After(status, 1)
        body   == After(After(size, 1), (2 * NumberAt(size, 1)) % 256)
    IN  [status |-> NumberAt(status, 1), data |-> BytesAt(body, Left(body))]

\* The responses to several requests: each ends where the next one begins.
Responses(data) ==
    LET count == NumberAt(Reader(data), 2)
        offset(i) == NumberAt(After(Reader(data), 2 * i), 2)
        end(i) == IF i = count THEN Len(data) ELSE offset(i + 1)
    IN  [i \in 1 .. count |-> RouterResponse(SubSeq(data, offset(i) + 1, end(i)))]

-----------------------------------------------------------------------------
(* The answers of ListServices, ListInterface and ListIdentity.            *)

ListServices   == 4
ListIdentity   == 99
ListInterfaces == 100

\* The fields of an item up to its name or data, and which of them RB reads.
Widths(command) ==
    CASE command = ListServices   -> <<2, 2, 2, 2, 16>>
      [] command = ListInterfaces -> <<2, 2>>
      [] command = ListIdentity   -> <<2, 2, 2, 2, 2, 4, 8, 2, 2, 2, 1, 1, 2, 4, 1>>
BigEndian(command) == IF command = ListIdentity THEN 4 .. 7 ELSE {}

\* Seeded bug: the socket address is read as the rest.
LittleEndianField(command, i, bytes) == bytes

\* The bytes of a number from the lowest on.
Field(command, i, bytes) == IF i \in BigEndian(command) THEN Reverse(bytes) ELSE bytes

\* One item.  The errors of the reader are not looked at.
ListItem(command, io) ==
    LET widths == Widths(command)
        at[i \in 0 .. Len(widths)] == IF i = 0 THEN io ELSE After(at[i - 1], widths[i])
        fixed == [i \in DOMAIN widths |-> Field(command, i, BytesAt(at[i - 1], widths[i]))]
        named == at[Len(widths)]
        length == CASE command = ListServices   -> 0
                    [] command = ListInterfaces -> LittleEndian(fixed[2])
                    [] command = ListIdentity   -> LittleEndian(fixed[15])
        state == IF command = ListIdentity THEN 1 ELSE 0
        end == After(named, length)
    IN  [io     |-> After(end, state),
         fields |-> fixed \o <<BytesAt(named, length), BytesAt(end, state)>>]

ListDecode(command, data) ==
    LET count == NumberAt(Reader(data), 2)
        item[i \in 0 .. count] ==
            IF i = 0 THEN [io |-> After(Reader(data), 2), fields |-> << >>]
            ELSE ListItem(command, item[i - 1].io)
    IN  [i \in 1 .. count |-> item[i].fields]

-----------------------------------------------------------------------------
(* The value of a tag.                                                     *)

Strings   == {4046, 36814}   \* STRING, STRING2
Structure == 672             \* 0x2a0: the type follows

\* Seeded bug: a structure is taken for the type.
TypeFirst(io) == io

\* readParser: where the type is.
TypeAt(io) == IF NumberAt(io, 2) = Structure THEN After(io, 2) ELSE io

\* Seeded bug: two bytes are always a count.
AnyCount(type, io) == Has(io, 2) /\ type \notin Strings

\* Two bytes that may be a count are taken for one unless fewer bytes follow.
HasCount(type, io) ==
    /\ Has(io, 2) /\ NumberAt(io, 2) <= Left(io) - 2
    /\ type \notin Strings

Parsed(data) ==
    LET io   == TypeAt(Reader(data))
        type == NumberAt(io, 2)
        rest == After(io, 2)
        body == IF HasCount(type, rest) THEN After(rest, 2) ELSE rest
    IN  [ok |-> ~rest.err, type |-> type, payload |-> BytesAt(body, Left(body))]

\* What an accessor of `width' bytes, or String, returns.
Number(value, width) ==
    IF Len(value) < width THEN [i \in 1 .. width |-> 0] ELSE SubSeq(value, 1, width)

\* unicode.IsPrint of a byte; a text with any other is replaced by a remark.
Printable == ((32 .. 126) \cup (161 .. 255)) \ {173}
CannotPrint == <<256>>

Text(value) ==
    LET length == NumberAt(Reader(value), 4)
        io == After(Reader(value), 4)
    IN  CASE length > 88 \/ length = 0 -> << >>
          [] Has(io, length) /\ \A i \in 1 .. length : BytesAt(io, length)[i] \in Printable
                -> BytesAt(io, length)
          [] OTHER -> CannotPrint
=============================================================================
