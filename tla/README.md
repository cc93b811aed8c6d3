# Formal models of the EtherNet/IP client

TLA+ models of the Go library in `src/` (package `ethernet_ip`), checked with
TLC on small instances and, for every component but the codec and the enumeration,
proved with TLAPS for every instance. Line references such as `tcp.go:84` are to files of `src/`.

## 1. The system

| Component | State | Operations | Correct when |
|---|---|---|---|
| **Request path** of a connection (`tcp.go:70-148, 244-330`, `request.go:34-97`) | `tcpConn`, `session`, `established`, `connID`, `seqNum`, `reconnectAttempts`, and the Go stack | `requestLocked` writes a packet and reads a reply; on a failure `reconnectLocked` closes the socket, dials another and registers a session by calling `requestLocked` again | no socket is used once closed, and only `Connect` on a connection leaks one; the session is that of the socket; a reply answers the request in progress; a dial is counted once; every call returns once the network does not fail any more |
| **Methods of `EIPTCP`** (`tcp.go:196-372`, `request.go`) | the same fields, `requestLock` | `Connect`, `Close`, `RegisterSession`, `UnRegisterSession`, `List*`, `SendRRData`, `SendUnitData`, `Send`, `ForwardOpen(Large)`, `ForwardClose` | goroutines that share a connection do not take each other's replies; `connID` and `seqNum` agree with the device; nobody waits for ever once the network does not fail any more |
| **Connection pool** (`tcp_pool.go`) | `closed`, the channel `pool` | `Get`, `Put`, `Close` | a connection has one owner, none leaks, a closed pool keeps none |
| **Monitor** (`monitoring.go`) | `currentState`, `listeners`, the counters and their mutex | `setState`, `record*`, `Reset`, listeners | no count is lost; each subscribed listener hears of every change once, with the counts of that change |
| **Tags and tag groups** (`tag.go`) | `value`, `wValue`, `changed`, `Type`, `instanceID` of a tag; the tags of a group by instance id | `Tag.Read/Write`, the setters, `TagGroup.Add/Remove/Read/Write` | a value reported as written is on the device; a failed atomic write restores every `changed`; nothing blocks a call but groups that share tags and not a mutex |
| **Tag enumeration** (`tag.go:724-772`) | the page's cursor | `AllTags` | terminates and finds every tag |
| **Codec** (`messages`, `command`, `path`, `bufferx`, the parsers of `tag.go`) | none | encode packets, requests, paths and items; decode packets, items, lists, responses and values | the device understands what is encoded; each tag gets its own response and shows the device's value |
| **UDP discovery** (`udp.go`) | none between calls | one broadcast, one loop of reads | every answer before the deadline becomes a device with its address; returns at the deadline |
| Configuration, sender contexts, types, utilities | none | | |

How they interact: a user's goroutine calls a tag, group or connection method;
tags and groups end in `Send`, which picks `SendUnitData` or `SendRRData` and
ends in `request`, which holds `requestLock` over the whole exchange, retries
and reconnections included. `Connect`, `Close` and the parts of `Send`,
`ForwardOpen` and `ForwardClose` before and after `request` do **not** hold it.
Every change of the connection's state is reported to the monitor, which starts
a goroutine per listener and event. The pool calls `Connect` and `Close`.

What is hard in this code:

* the mutual recursion of `requestLocked` and `reconnectLocked`, each level of
  which may find another level's socket, session or counter changed;
* the connection's fields read and written outside `requestLock`;
* a device that answers late, twice, in pieces or not at all, when nothing
  compares a reply with its request;
* the session, CIP connection and sequence count that die with a socket;
* in the pool, the gap between looking at `closed` and using the channel;
* in the tags, a pending value, a committed value and a changed flag that a
  partial failure leaves in disagreement;
* in the monitor, reports of several goroutines, whose steps (count, state, statistics,
  listeners) are each guarded but not together, and a mutex that is itself replaced;
* in the discovery, datagrams of any kind, number and order before a deadline;
* in the codec, a reply that does not say what it is: its layout, and whether the
  first bytes of a value are a count, are guessed from its bytes.

## 2. The modules

| Module | Models | Used by |
|---|---|---|
| `Transport` | the request path, the network and the device, and one goroutine that uses the connection (`Spec`) | `EIPTCP`, `TransportProofs` |
| `TransportProofs` | theorems about `Transport!Spec`: types, sockets, sessions | `RequestProofs` |
| `RequestProofs` | more about `Transport!Spec`: requests and replies in step, counters | `EIPTCPProofs` |
| `EIPTCP` | the methods, called by several goroutines, around the steps of `Transport` | `MCEIPTCP` |
| `MCEIPTCP` | `EIPTCP` for TLC | |
| `RequestServer` | what a connection promises the goroutines that share it: abstract specification that `EIPTCP` implements | `EIPTCP` |
| `EIPTCPProofs` | theorems about goroutines that share a connection, the refinement of `RequestServer` among them | `CountProofs` |
| `CountProofs` | the theorem about the sequence count of connected messages | |
| `Pool` | `EIPTCPPool` | |
| `ConnectionPool` | what a pool promises: abstract specification that `Pool` implements | `Pool` |
| `PoolProofs` | theorems about `Pool`, the refinement of `ConnectionPool` among them | |
| `Tags` | tags, tag groups and the read buffer their values lie in | `MCTags` |
| `MCTags` | `Tags` for TLC: which mutex each group was given, which ids the tags have | |
| `WriteAgreement` | what tags promise about the values written: abstract specification that `Tags` implements | `Tags` |
| `TagsProofs` | theorems about `Tags`, the refinement of `WriteAgreement` among them | |
| `Monitor` | the statistics and their mutex, states, listeners and events | `MCMonitor` |
| `MCMonitor` | `Monitor` for TLC: which reports are made, which listeners share their code | |
| `MonitorProofs` | theorems about `Monitor` | |
| `Wire` | what is written to the wire and read off it, as operators on sequences of bytes | `Codec`, `Enumeration`, `Discovery` |
| `Codec` | tags, atomic groups, attributes, lists and the CIP connection in one goroutine, a device that takes requests apart, and the bytes between them | `MCCodec` |
| `MCCodec` | `Codec` for TLC: names, types, values and lists | |
| `Discovery` | the UDP search for devices and the datagrams it meets | `MCDiscovery` |
| `MCDiscovery` | `Discovery` for TLC: what the devices say of themselves | |
| `DiscoveryProofs` | theorems about `Discovery` | |
| `Enumeration` | `AllTags` over pages of entries | `MCEnumeration` |
| `MCEnumeration` | `Enumeration` for TLC | |

### Transport

The variables carry the names of the fields. The Go stack is the sequence
`stack`: a frame for each `requestLocked` in progress, outermost first, with
the packet it was given and the point it has reached. `Enter`, `FirstWrite`,
`ReadReply`, ... are the statements of `requestLocked` that touch the network or
decide something; `ReconnectBegin` is `reconnectLocked` up to its sleep and
`RedialOk`/`RedialFails` the rest up to the registration, which pushes a frame.
`Fail` is an error return: every enclosing call is inside `reconnectLocked`,
which counts the attempt and returns the error, so the whole stack unwinds in
the one step. `Succeed` returns a reply to the enclosing call, or to the
user. A suffix `W` or `R` tells the recovery of the first write from that of the
first read, which are different code (`request.go:45-57` and `:59-67`).

The network and the device are not part of the library and are modelled as the
library uses them (`"external"` in `PROJECT.json`). A socket has both ends
open or not, a queue of requests, a queue of replies and the session the device
keeps for it. The device answers in order, refuses, stays silent or hangs up;
a reply may be torn in two parts, or arrive together with another one, and a
read may time out before or after its reply was sent. A session handle is the
number of the socket it was registered on, so that a stale session can be told
from a live one. Each misbehaviour spends a fault; failures nobody has to cause,
such as the timeout of a read that nothing will answer, are free.

`parse()` takes a packet with all bytes after its header and `Decode` takes
what it understands of them, so that a bare header followed by other replies is
one packet, while two replies with data read at once are an error. `ReadReply`
and `ReadError` model exactly that.

`Connect` may be called at any time between calls, on a connection too (doc.go:309
advises it when a session has expired): it resets, dials and overwrites `t.tcpConn`
(`tcp.go:222`), or, when the dial is refused, reports `Disconnected` and keeps the socket
it had. A socket that is open and that `t.tcpConn` does not point at is an `Orphan`.
`UncountedDials` are the dials that are not in the statistics and that no
registration in progress (`Registering`) will add to them.

`dirty` is a history variable: the sockets that stay in use although a request
failed on them (the second read failed, `request.go:67`). From then on the answers are
one call late, and the properties that depend on it say so.

### EIPTCP

Each goroutine has its locals in `me[c]`. Every access to the shared fields
outside `requestLock` is a step of its own: `Send` tests `connID`, increments
`seqNum`, and reads `connID`, `seqNum` and `session` again in three steps;
`Close` sends, closes the socket, clears the field and looks at it again in
four and, if another goroutine has dialled meanwhile, closes, clears, counts, reports and
resets in five more, between any two of which the others may go on; it dies of a nil
pointer when one of them has cleared the field between its look and its close (`tcp.go:341`).
Only `reset()`, which assigns five fields, is one step. `ForwardOpenDone` takes
the connection id from the first four bytes of whatever answered: the device's id, bytes
of something else, or 0 when there are fewer than four. `Lock` ... `Unlock` is `request`, and between them `Requesting` takes the
steps of `Transport`. `Ops` says which methods the goroutines call and `Solo`
which of them only when nobody else is in a call.

`Transport` leaves open what bodies a request has; `ServicesAreBodies` says that here they
are a service, the CIP connection it names and a sequence count.

The device names a CIP connection after the socket it was opened on and
remembers in `seen` the last sequence count, which is how it tells a
retransmission.

The abstract `RequestServer` knows no socket, session or reconnection: callers ask, one
at a time is served, its request is sent at most twice, and it is told an error or an
answer. `trusted` says that no request was given up since the connection was last
renewed; while it is true an answer is that of the caller's own request. The refinement
mapping reads what was asked and told off the locals of the goroutines (`AskedOf`,
`GivenOf`), and how often the request was sent off the point its outermost call has
reached (`SentAt`); a connection is trusted while its socket is not in `dirty`. A nested
registration is a `Register`; what it sends is a stutter.

### Pool

The critical section of `Get`, `Put` and `Close` under `p.mu` and the use of the
channel after it are two steps. A closed channel still gives what it buffers,
then `nil`; sending on it panics, in a `select` with a default too.

The abstract `ConnectionPool` has a place for each connection (fresh, idle, a
user's hands, gone) and one rule for a pool that is shut: nothing becomes idle.
The refinement mapping derives the place from the channel, `held` and `arg`.

### Tags

`EIPTCP.Send`, which the modules above open up, is here one exchange with the
device: it answers, some services of the request succeeding and others not; its
answer has no items; or `Send` returns an error, the device having accepted
the values or not. Around it are the steps of the code: `LockGroup`, one
`LockTag` per tag in any order (that of a Go map), which for a group's `Write`
collects the pending value and clears `changed`, then the exchange, then one step
that parses the answer, commits or restores, and unlocks. The setters take no
lock; `RacingSetters` says whether they are called during a `Read` or `Write`.

A value is a copy (after a write) or a slice of the connection's read buffer
(after a read): the packet, its items, the response and `readParser` pass on
slices of the 64 KB that `read()` reuses. A slice is identified by the layout of
the reply it was cut from, that is which of its services succeeded, and its
index; when a reply of another layout arrives, it shows `Junk`.

`LockOf` says which mutex each group was given. `NewTagGroup(nil)` makes one of its own,
as README.md:617, :1288 and :1657 of the library use it, and so does the run; groups
constructed with one `*sync.Mutex` are an instance of the same constants. `GroupsBlocked`
is the state that this allows: two goroutines in calls of groups with different mutexes,
each holding a tag that the other needs.

A group's tags are a map from instance ids. `InitializeTag` sets the id of a tag to
0 (`tag.go:959`), so that a group keeps one such tag; ids of their own come only
from `AllTags`, which does not return (finding `alltags`). `InstanceIDs` has either
assignment: `tags` has ids of their own, as a listing would give them, for without
them no group has two tags; `values` has the ids of `InitializeTag`.

`unsure` is a history variable: the tags a non-atomic group wrote, or whose
write got an answer without items, which both `Write` methods take for a
success.

The abstract `WriteAgreement` has no groups, marks, lists, answers or read buffer: a
caller holds tags, the device takes the pending values of some of them, once, and
the caller commits all its pending values or returns. The refinement mapping takes `wValue`
for what is pending, `tagLock` for the holder, what a tag owns (`Written`) for the
copy, a slice counting as none, and derives what was accepted from the locals of the calls
that have their answer. `RacingSetters` is `FALSE` for it.

### Monitor

A report is what `Connect`, `reconnectLocked` and `Close` make of a change: record a
counter or none, then `setState`. Every method of `ConnectionStats` is taken apart
into the evaluation of `s.Lock` and the call (`Enter`), the acquisition
(`Acquire`), the evaluation of `s.Lock` for the deferred `Unlock` (`Defer`), the
body, with the read and the write of a counter as two steps, and `Unlock`. Mutexes
have identities, for `Reset` installs a new one: a method may wait for one mutex and
unlock another, and unlocking a free one is the runtime's fatal error (`fatal`).
`ResetAlone` says whether `Reset` runs only while nobody uses the counters.

`SetState` is the unsynchronised write of `currentState`, `Snapshot` the statistics
an event carries, `Publish` the loop over the listeners under `listenerLock`,
which starts one goroutine each, and `Deliver` such a goroutine, at any later time
and in any order. `removeListener` compares code pointers; `CodeOf` says which
listeners share their code. The histories `recorded`, `events`, `subscribed` and
`heard` remember what was reported, to whom it was due and who was told.

What a connection reports, and when, is in `Transport` and `EIPTCP` (`state`). No
property relates the reported state to the connection, for it may be stale both ways
(`StateIsCurrent`, section 3).

### Discovery

`Listen` is the socket, the deadline and the broadcast, `Read` one turn of the loop
with a datagram, `ReadTimesOut` and `ReadFails` its two ways out. `left` counts the
ticks to the deadline, which is set once. A datagram is bytes: an answer, alone,
behind another item or followed by other bytes, or one of eight kinds that are no
answer, and the parsers are the operators of `Wire`. The network delivers them
in any number and order; only answers are bounded (`MaxAnswers`). An answer is laid out as
the package's own decoder reads it over TCP (`messages/listIdentity/decode.go:35-53`), a
version and a socket address first; `Identity` is what `udp.go` makes of these bytes, which is not
the identity sent. `FindsAnswers` is therefore about which devices are
found and at which addresses, and not about what they are said to be.

### Wire and Codec

`Wire` has one operator for each encoder and decoder, named as in the code where it
can be. A reader is a record of the bytes, the position and the error, and keeps
the rule of `bufferx` that a reader in error does not move and reads zeros
(`Has`, `After`, `NumberAt`). Lengths are taken modulo their width (`U8`, `U16`,
`PathSize`). A loop over a count is a recursive function of bounded domain.

`Codec` puts them to use: `Read` and `Write` of a tag or of a group build the
request, and the device reads it with operators of its own, written from the
layout of a padded path and of a packet of several services, not from the
encoders; its answer goes back in one of the layouts `SpecificData.Decode`
accepts. `kind` is the layout of its answers and the command it knows, `connID`
whether there is a CIP connection, and any subset of the services is
refused, with or without additional status words. `agreed` records whether
both ends took the last exchange for the same, `seen` what the device's value
was then; the program in the device changes its values at any time (`Changes`).
A device that knows only the legacy command is met by the second try of
`SendRRData`; `Transport` and `EIPTCP` have the two requests that makes.

Every request travels in a packet (`Frame`, `Encode`): the device checks the command,
the length and the session in its header and the two items behind it, and takes
the request from the second. Its answers come in packets too, in which some devices
leave the length 0, and pass `parse` (`Parses`) before they are decoded.
`ForwardOpen` and `ForwardClose` build the request with its connection path, which the
device reads to the end, and take the id from whatever response they get;
`Attribute` reads and writes attributes of class 2; `List` decodes the items of
`ListServices`, `ListInterface` and `ListIdentity`, with the big-endian socket address
of the last.

### Enumeration

One turn of the loop over a page is one step: it reads the id, the length and,
with `RL` of something that is no pointer, nothing more. `turn` changes with each so
that a turn that leaves the reader where it was is a step and not a stutter.

### Seeded bugs

Definitions with the comment "Seeded bug" are not part of a next-state
relation. Each states how a plausible mistake would change the action next to
it, and `PROJECT.json` lists, for every property, one that makes TLC report it:
the property is able to fail.

## 3. The runs

| Run | Question | Instance |
|---|---|---|
| `transport` | one goroutine, `Connect` with and without a connection: what leaks sockets, are they used once closed, whose is the session, do replies match requests, do the counters have every dial of a call that succeeds, and once, does every call return once the faults have ended? | 4 calls, 4 faults, 5 sockets, `MaxReconnect` 2 |
| `eiptcp_one` | one goroutine, every method in every order: do `connID`, `seqNum` and the session agree with the device? | 7 calls, 2 faults, 3 sockets, sequence counts modulo 4 |
| `eiptcp_two` | two goroutines, `Close` racing with everything but `Connect`: does `requestLock` keep requests and replies in step, is the connection a `RequestServer`, does everybody's call return once the faults have ended? | 3 calls, 1 fault, 3 sockets |
| `pool` | is the pool a `ConnectionPool`, and does its `Close` drain it? | 3 goroutines, 4 connections, capacity 2 |
| `tags` | two goroutines, two groups with a mutex each, one of them atomic: is a pending value ever forgotten, is what is committed what the device accepted, do the tags keep the promise of `WriteAgreement`, does anything but `GroupsBlocked` keep a call from returning? | 2 tags with an id each, 3 calls, 1 value |
| `codec` | does the device understand the bytes of every request, does every tag get its own response in every layout, does it show the device's value, and which values does it lose? | 4 tags, groups of 2, 3 kinds of device, with and without a connection, lists of 0 to 2 items |
| `monitor` | is a count ever lost, has an event the counts of its report, is every subscribed listener told once and in the end? | 2 goroutines, 2 reports, 2 listeners, 2 changes of theirs, 1 `Reset` |
| `discovery` | does each answer become a device with its address, whatever else arrives, and does the search end at its deadline? | 2 senders, 2 identities, 3 answers, other datagrams without bound, a deadline of 2 ticks |

Bounds. `MaxReconnect` is 3 in the code: 2 reaches the second nested
reconnection and the refusal after the last attempt, and the invariants are
proved for every value. Five sockets and four faults let one call go
through two nested reconnections and the next call meet what they left
behind. Seven calls of one goroutine reach connect, open, four messages, in which a
count modulo 4 wraps, and one more. The modulus has to exceed the faults by two,
which is also the hypothesis of the theorem: a device that refuses a message does not
take its count, and with counts modulo 3 two refusals in a row bring the last accepted
count back, as 65535 of them would. In
`pool`, one connection more than fits, and a goroutine for each of `Get`, `Put` and `Close` at once. In `tags`,
two tags are enough for a partial refusal and for a circle of waits, and three
calls for a write, its repetition and a call between them; while a tag is
locked its pending value does not change, so the properties tell apart only
whether it was accepted, not which value it is. In `codec`, the names have one, two
and three letters and the indices and instances one byte and two, which gives odd
and even segments in every place of a path and of a packet of two services; the
values of its tags are of both kinds that reading tells apart: a DINT of 2, whose first two bytes
are small enough to be taken for a count (`LooksCounted`), and a DINT of 3, whose are
not; a SINT and an INT, too short to be mistaken; a string. In `monitor`, two reports are two goroutines in the counter at
once, and the second listener is the one that comes or goes between them. In
`discovery`, the third answer repeats one of a sender; a second tick tells a
deadline that moved from one that did not.

`MaxFaults` and `MaxSockets` bound more than the state space: they are what ends a call.
`reconnectLocked` counts an attempt only when the registration it made has returned
(`tcp.go:138-140`), and that registration reconnects when its read fails
(`request.go:59-61`), so `maxReconnect` does not bound the recursion. The liveness
properties of `transport` and `eiptcp_two` say that every call returns once the network and
the device have stopped failing, and no more than that.

Fairness. The program's own steps are weakly fair: a dial, a write or a read
ends at a deadline at the latest (`tcp.go:250, 276`) and no step waits for
anything else. The device is weakly fair where it answers, so that it is not
silent without spending a fault. `Lock` is strongly fair: a Go mutex hands
itself over to a waiter that has starved for a millisecond. In `Tags` taking a
mutex is strongly fair for the same reason, as it is in `Monitor`, where a goroutine
that was started runs in the end. In `Discovery` time passes and a read past its
deadline returns; no datagram has to arrive. Nothing makes a goroutine start a
call.

### Findings

These runs state what the documents or comments say and end in a
counterexample.

| Run | Says | The code |
|---|---|---|
| `panics` | every method returns its errors (doc.go:258) | `Connect` closes `t.tcpConn` in its error path, which a failed reconnection has left nil (`tcp.go:225`); `UnRegisterSession` likewise (`request.go:109`) |
| `values` | `Tag.Lock` protects the reads and writes of a tag (doc.go:276) | a tag's value is a slice of the read buffer: reading a second tag of the type changes the value of the first (`tcp.go:255`, `tag.go:226-265`) |
| `reset` | the operations are protected by mutexes (doc.go:16) | `Reset` replaces the mutex it holds: a goroutine that waited for the old one unlocks the new one, which is a fatal error (`monitoring.go:52-58`) |
| `alltags` | `AllTags` gets all tags (README.md:1020) | the name of an entry is read into a slice, not a pointer, which is an error; the reader stops and the loop never ends (`tag.go:749-757`) |

The models show more that a property would not hold of, at bounds or with
constants other than those of the runs:

* with two goroutines in `Send`, `FreshSequence` fails: `seqNum` is counted and read
  again outside `requestLock` (`request.go:251-253`), and two messages carry one count;
* with one goroutine and `MaxReconnect` 1, `FreshSequence` fails when it is about every
  socket and not only those outside `dirty`: after a call that timed out, `ForwardClose`
  starts the count again and takes the answer to another request for its own, a late answer
  to `ForwardOpen` brings the connection back, and the count that follows is one the device
  has seen (`request.go:301-305, :375-376`);
* with two goroutines, `ConnectionOfSocket` fails at `request.go:304`: a reconnection
  between the reply and the assignment leaves the id of a dead connection;
* with two goroutines, `SessionOfCleanSocket` fails on the next line (`request.go:305`): the
  reconnection has cleared `t.established`, `ForwardOpen` sets it, and the next socket counts
  as established before it has a session;
* `Connect` on a connection overwrites `t.tcpConn` without closing it (`tcp.go:222`): the old
  socket stays open and nothing will close it, although doc.go:309 says to call
  `Connect()` when a session has expired. `OnlyConnectOrphans` says that
  this is the only leak of the request path;
* one call makes more than `maxReconnect` reconnections (README.md:52 promises at most
  3 retries): the registration inside a reconnection reconnects in its turn before
  the attempt is counted (`tcp.go:138-141`). A device that accepts TCP connections and never
  answers `RegisterSession` keeps a call redialling for ever, with `requestLock` held
  against every other caller (`request.go:59-61`): `CallsReturn` and `EveryCallReturns` hold because
  the faults are bounded;
* `Put` panics when `Close` closes the channel between its two steps
  (`tcp_pool.go:96`): `PutPanics` is an action of `Pool`, and its liveness property
  and refinement hold up to it;
* two groups that were not given one mutex to share, as `NewTagGroup(nil)` makes them, lock the
  tags they share in the order of a map each (`tag.go:814, :867`) and wait for each other
  for ever. The run `tags` reaches this state (`GroupsBlocked`, the exception in
  `EveryCallReturns`); README.md:617, :1288 and :1657 make groups this way and do not
  warn of it;
* with `RacingSetters`, `CommitsAccepted` and `WrittenIsDevices` fail: a value set during the
  exchange of a group's `Write` is committed without being sent (`tag.go:934`);
* with the ids of `InitializeTag` (`ByName` of `MCTags`), `AddKeepsOthers` fails: groups
  are keyed by instance id, which is 0 for each such tag (`tag.go:789, :959`), and of
  several a group keeps the last, although doc.go:138 lets a group read and write
  several tags at once;
* without its exception `ReadsTheValue` fails: the first two bytes of a value are taken for a
  count when they are small enough (`tag.go:243`), and a REAL of 1.0, a DINT of 1, 2 or 65536
  reads as 0, although tag.go:76-78 promises the value. The run `codec` has such a DINT, and
  the property says that no other value is lost;
* with the constants of `panics.cfg`, `ReturnsTheResponse` fails: nothing compares a
  reply with its request (request.go:248 promises the response), and after a call that
  timed out twice on a socket the next one gets its answer (`request.go:59, :67`);
* with the same constants, `StateIsCurrent` fails: a request whose dial fails leaves
  `Reconnecting` with nobody reconnecting (`request.go:41`), and `Close` leaves `Connected`, since
  `UnRegisterSession` has cleared the field it looks at (`tcp.go:337`). Nor is a usable
  connection always reported as connected: after `maxReconnect` attempts `reconnectLocked`
  reports `Disconnected` and leaves a connection that `IsConnected` calls usable
  (`tcp.go:77-80`); a second `Connect` whose dial is refused reports `Disconnected` and keeps
  its socket (`tcp.go:181-191`), which `RegisterSession` (`request.go:76-95`) or `ForwardOpen`
  (`request.go:305`) makes usable again without a report;
* with two goroutines, one in `Close` and one that clears the connection, `Close` dies of a nil pointer
  between its look at `t.tcpConn` and its close of it (`tcp.go:337-341`; the step `CloseSocket`
  after `CloseRechecks`);
* with `CodeOf <- OneCode`, `OncePerSubscription` fails: `removeListener` takes off another
  closure of the same literal (`monitoring.go:137`);
* events arrive in any order and the last one a listener hears need not be the current
  state (`monitoring.go:122`);
* what a discovered device is said to be is not what it says: `udp.go:134-157` reads an identity
  from its first byte on as vendor, product, ..., where the decoder of the same answer
  over TCP (`messages/listIdentity/decode.go:40-53`) has a version and a socket address
  first, so that every device has the version for its vendor. README.md:571-599 documents
  the fields. `FindsAnswers` trusts only their number and the address;
* `DeviceName` is always empty, for `udp.go:181` reads it with `RL` into something that
  is no pointer; README.md:573 and :599 document the field;
* a packet that is written again after a reconnection was encoded before it
  (`request.go:45-67`) and carries the session, and the CIP connection, of the socket
  that is gone: the device refuses it, and of what README.md:52 calls automatic
  reconnection only requests without a session get their answer;
* `BatchRead` takes several replies that arrive in one read for an error, and the packets
  it returns are slices of one buffer (`tcp.go:248-300`), all showing bytes of the last reply
  (seen while reading the code; not modelled);
* `ForwardOpen` does not look at the general status (`request.go:301-305`): the first four
  bytes of any response become the connection id;
* the decoders of the lists do not look at the reader's error
  (`messages/listIdentity/decode.go:62`): an answer cut short gives items of zeros, as
  many as its count says.

## 4. The proofs

Every theorem is about the specification of a module, for every value of its
constants. It rests on the assumptions that the modules name (`TransportAssumption`,
`EIPTCPAssumption`, ...), which TLC evaluates in every run, and on nothing else
unless its `ASSUME` says so. The inductive invariants stand at the beginning of the
proof modules, each part with what it says about the code; the proofs have
a lemma for each action, and split it by what the action can disturb. The table
names the theorems and, where it is one a run checks, the property.

| Theorem | Property | Hypothesis |
|---|---|---|
| `TransportProofs`: `TypeCorrect`, `OnlyConnectLeaks`, `RequestsUseLiveSocket`, `SessionIsOfSocket` | `TypeOK`, `OnlyConnectOrphans`, `UsesLiveSocket`, `SessionOfSocket` | |
| `RequestProofs`: `CountedOnce`, `OnlyDialsCounted`, `RequestsInStep`, `RepliesAreOwn` | `OnlyFailuresUncounted`, `CountsAreDialled`, `InStep`, `OwnReply` | |
| `EIPTCPProofs`: `SharedTypes`, `SharedInStep`, `SharedRepliesAreOwn`; `OneRequestAtATime` | `TypeOKAPI`, `InStep`, `OwnReply` | |
| `EIPTCPProofs`: `MessagesNameTheirSocket`, `SessionIsOfCleanSocket` | `ConnectionOfSocket`, `SessionOfCleanSocket` | `Sequential` |
| `EIPTCPProofs`: `ConnectionServesRequests` | `ServesRequests` | |
| `CountProofs`: `CountsAreFresh` | `FreshSequence` | `Sequential`, `SeqMod > MaxFaults + 1` |
| `PoolProofs`: `PoolTypes`, `ConnectionsInOnePlace`, `NoConnectionLeaks`, `ClosedPoolStaysEmpty`, `PoolImplementsConnectionPool` | `TypeOK`, `OnePlace`, `NoLeak`, `ClosedIsEmpty`, `Refines` | |
| `TagsProofs`: `TagsTypes`, `PendingIsMarked` | `TypeOK`, `NoLostUpdate` | |
| `TagsProofs`: `CommitsWereAccepted`, `TagsAgree`, `WrittenIsOnDevice` | `CommitsAccepted`, `WritesAgree`, (`WrittenIsDevices`) | `~RacingSetters` |
| `MonitorProofs`: `MonitorTypes` | `TypeOK` | |
| `MonitorProofs`: `EverySubscriptionHearsOnce` | `OncePerSubscription` | `UniqueCodes` |
| `MonitorProofs`: `CountsAreKept`, `EventsHaveTheirRecord`, `NoFatalUnlock` | `NoLostCount`, `StatsOfOwnReport`, (`NeverFatal`) | `ResetAlone` |
| `DiscoveryProofs`: `SearchLastsToDeadline` | `SearchesToTheDeadline` | |
| `DiscoveryProofs`: `EveryAnswerIsFound` | `FindsAnswers` | `TellsAnswers` |

The hypotheses are conditions on how the connection is used or on its devices, not on
the bounds, except that `CountsAreFresh` wants fewer faults than there are counts, of which
the code has 65536: `MaxFaults` is then any number below 65535. The runs that check a
property satisfy its hypothesis. Without it TLC finds a
counterexample (sections 3 and 4) to every one of these properties but
`StatsOfOwnReport`, for which it finds none in the instance of `reset`, and `FindsAnswers`,
whose hypothesis is about the parsers and not the use of them.

### The request path

None of the safety properties is inductive alone. That a request uses a live
socket needs `SocketOfTop` (from the first write to the decision to reconnect
there is a socket, `requestLocked` having checked only once) and `StackShape`: when
a nested registration returns, the call around it resumes a write, and it can
because every frame below the top waits inside `reconnectLocked`. That the session is
the socket's needs `RegistersAlone`: a call that registers a session works on a
socket that carries nothing but registrations and their answers, since
`reconnectLocked` drops the old socket before it registers; the reply it takes,
unchecked, cannot be another's. Together they are `Inv`.

What leaks is a property of steps: each kind of step keeps the sockets that
`t.tcpConn` does not point at as they were or closes them (`KeepsOrphans`), and a
step that makes it point elsewhere closes the socket it pointed at, all but the one
in `Connect`.

`RequestProofs` builds on `Inv`. For the statistics each kind of step `Accounts` for its dials:
`Registering` counts the registrations in progress in the stack, each of which stands for a
dial that the statistics do not have yet, so that a redial and its success leave
`UncountedDials` as they are, and a call that fails drops as many registrations as there were
levels. So `UncountedDials` never falls, and from `UncountedDials >= 0` follows
`CountsAreDialled`. `OneInFlight` is the lock step: a socket nobody
gave up on is quiet, or its call reads and the one thing in flight is its request,
its reply, or the parts of its reply; `InStep` and `OwnReply` follow from it. It is
about one socket only, so that a nested reconnection, which takes another, starts
quiet.

### Goroutines that share a connection

`Inv` does not hold of `EIPTCP`: `Connect` and `Close` change `t.tcpConn` while a request
is in progress. What survives is proved again from what is left. `SocketsEvolve`
bounds what the device and the network do to the queues, for both specifications.
`HoldsLock` ties the stack to the goroutine that holds `requestLock`. With it
`OneInFlight` is inductive for any set of methods: whoever replaces the connection from
outside puts a quiet socket or none there, and a new packet enters the path
only when the stack is empty. `InFlightInStep` and the lemmas on `ReadReply` are those
of `RequestProofs`.

That a connection id and a session are the socket's is true only of goroutines that
take turns (`Sequential`: there is one, or every method is in `Solo`), because
`ForwardOpen` assigns `t.connID` after `requestLock` is released (`request.go:304`). Both
need to know where a reply came from: `HandlesDialled` (no handle is larger than the
last socket, so that a new socket's is new: no packet built earlier carries it),
`RepliesNameSocket` (a reply names a CIP connection of the socket it came from, or of
none) and `AnswersInFlight` (on a clean socket what is in flight is the request in
progress or its answer; items prove that its session was the socket's). They hold for
any goroutines. `SequentialInv` follows one call over its reconnections: the id is
forgotten with the socket (`reset`), and a packet built before a reconnection
(`Current`) is refused after it, so that its answer cannot set `t.established`.

### The connection as a server

`ServerInv` is what any goroutines may rely on (`Shared`) with the shape of the stack,
which is kept although its sockets are changed from outside, the newness of the next
socket (`DirtyDialled`) and a context for each request (`HasContext`). The proof goes
by who makes a step. Outside `requestLock` (`OutsideSteps`) a goroutine asks, goes on
without a request, is done or repeats one, and no such step turns a connection to be
trusted into one that is not. `Lock` and `Unlock` are `Serve` and `Return`, by
`HoldsLock`. In the request path `Edges` lists from where to where a call moves: the
outermost call writes on three of the edges, and no way along them has more than two
writes; while a registration is nested in it it does not move at all, and `Resume`
takes it back to where it writes again, with as many writes as before. An answer is the
caller's by `OneInFlight`, for `HoldsLock` makes the packet in the path the holder's.
The run `eiptcp_two` checks `ServesRequests`, and `OwnReply`, which says the same of the
reads alone, is checked in `transport`.

### The sequence count

`CountInv` is proved on top of `Shared` and `SequentialInv`. `Gap` is how far `t.seqNum` is
ahead of the count that the device saw last on the connection in use. `GapBounded` says that
it is at most the number of faults spent, for a message that the device did not take cost
one, and one more while a message is counted and not yet taken; with
`SeqMod > MaxFaults + 1` it never comes round to 0. This has to know that a message in
the queue carries the last count (`KnowsCount`, `Numbered`), that a reply to `ForwardOpen`
names a connection on which the device has seen no message (`RepliesFresh`), that a
reconnection forgets the connection before a packet is written again (`Reconnected`),
and that nothing is left in the queues of sockets that were left (`QuietElsewhere`,
`DownIsEmpty`).

### The pool

`Inv` of `Pool` adds to the properties of the run what the goroutines hold between
their two steps (`ArgOfCall`), that only a closed pool is drained, and that open
connections were made. The refinement has one lemma per kind of step: a step moves
one connection from one place to another and leaves all others (`Moves`), or moves
none; the place is what `PlaceOf` computes, whose `CHOOSE` has one candidate by
`OnePlace`. `CloseMarks` sets the flag of both specifications. That `PutPanics` is a
stutter of `ConnectionPool` is what the refinement holds up to.

### The monitor

`Base` is the control of the code and holds whatever `Reset` does. For the counters,
`UnderMutex` says that a method which holds a mutex holds the current one and will
unlock it; then what a goroutine read is still there when it writes
(`ReadIsCurrent`), and no count is lost. This is where `ResetAlone` is needed: a `Reset`
among the others breaks `UnderMutex`, as the run `reset` shows. For the listeners, `Told`
says that `listeners` holds each one as often as it is subscribed, for which
`removeListener` has to find the right one: `UniqueCodes`. The lemmas on occurrences in
a sequence stand before them in `MonitorProofs`.

### Tags

`InCall` gives the locals at each point of a call and `HoldsTaken` the mutexes they
imply, so that two writers never have one tag. `NoLostUpdate` is inductive with them, and
holds with setters that run at any time: what a group's `Write` has taken the mark off
is on its way with that very value (`OnItsWay`), or a setter marked it again. Without
setters during a call `SendsPending` adds that a `Write` sends what is pending when it
commits, from which `CommitsAccepted` follows; with them it fails (section 3), so the
hypothesis is exactly where the code draws the line.

That every step is one of `WriteAgreement` needs the converse of `HoldsTaken`: a call
holds no tag but those of its group, or the one it was made for (`HoldsNoOther`),
else a group's `Write` would leave the pending value of a tag it holds. Then a
`WriteExchange` is `Accept` of what `SendsPending` says is pending, and a return is
`Commit` or `Return`, according to what the code looked at in the answer
(`AllAccepted`). `Agreed`, an invariant of `WriteAgreement` together with
`TakenIsPending`, is proved of its steps (`AgreedNext`) and holds of the tags by the
refinement: `WrittenIsDevices`. The run `tags` has one value, with which that
formula would say little, and two values with liveness take too long: it is not among the
run's properties. TLC found it to hold with two values, one atomic group and `Spec`
(1 949 390 states), and to fail if a refused write is committed (`FailedOnlyAsWhole`).

### Discovery

The loop is proved: one device per answer, in order and with its address, none of
anything else, and no end before the deadline but by an error. That the parsers tell answers
from the rest is the hypothesis `TellsAnswers`: they find exactly one device in each answer, whatever
they say of it, and none in the other datagrams. It is a formula without variables, which TLC
evaluates to true for the identities of the run (`ParsersTellAnswers` in `MCDiscovery`). For
all identities it is out of reach: the parsers are recursive functions over bytes.

### Model-checked only

* Liveness (`CallsReturn`, `EveryCallReturns`, `CloseDrains`, `ListenersAreTold`, `Returns`):
  it needs fairness and `ENABLED`, which the prover does not treat. The first two hold once
  the faults have ended (section 3).
* The properties of `Codec`, and the loop of `Enumeration`: they are what recursive
  functions over bytes compute, which takes an induction over data.

## 5. Not modelled

Wording, logging and layout; backoff times (a sleep is no step); the memory-mapped
file stubs; data races as anything but an interleaving of single accesses. `BatchRead`
and `BatchWrite`, and the batch functions of `packet.go`, which nothing in the
library calls: they would give a connection several requests at once, which the stack
of `Transport` does not have. `EIPTCP` decodes a reply in the step that takes it from
`request`, although its bytes stay in the shared read buffer; `Tags` models what
that does to values. Of the codec: `UnConnectedSend`, which nothing calls, ports of
15 and more, the reuse of buffers, names longer than 255 bytes, element counts
other than 1 (only `AllTags` sets dimensions). Of the tags: `SetValue`, `SetName`
and `Onchange`. The configuration, the type aliases and the example keep no state.

## 6. Plan

What is left to be done: lemmas on `Wire` that need no induction over data. `U8` and
`U16` are bytes, segments below 65536 are of even length, a reader never passes its end
and does not move after an error; from the last, that `allTags` does not end once it has
an entry.
