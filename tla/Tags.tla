---------------------------------- MODULE Tags ----------------------------------
(***************************************************************************)
(* Tags and tag groups (tag.go).  A tag has the value it last read or      *)
(* wrote, a pending value and a changed flag; Read and Write hold its      *)
(* mutex over the exchange with the device, those of a group hold the      *)
(* group's mutex and those of all its tags, taken one by one in the order  *)
(* of a Go map.  The setters hold nothing.                                 *)
(*                                                                         *)
(* All values read through a connection are slices of its one read buffer  *)
(* (t.readBuf, tcp.go:248-256): Packet, SpecificData, the items and the    *)
(* response share its bytes, and readParser keeps such a slice.            *)
(*                                                                         *)
(* An exchange is EIPTCP.Send seen from outside: one step of the device,   *)
(* whose answer may be lost.  The tags are of one type, long enough for a  *)
(* reply to overwrite the values of an earlier one in another layout.      *)
(***************************************************************************)
EXTENDS Naturals, Sequences, Functions

CONSTANTS
    Users,          \* goroutines
    Tags,
    InstanceIDs,    \* the instance ids the tags may have, as functions
    Groups,
    Locks,          \* the mutexes given to NewTagGroup
    LockOf,         \* which one each group was given
    Atomic,         \* the groups with AtomicWrite
    Values,
    NoValue,        \* nil: nothing pending, nothing read
    Junk,           \* bytes of several replies
    None,           \* nobody, no group
    RacingSetters,  \* setters are called while a Read or a Write is in progress
    MaxCalls        \* bound on the calls of Read, Write, Add and Remove

ASSUME TagsAssumption ==
    /\ InstanceIDs \subseteq [Tags -> Nat]
    /\ LockOf \in [Groups -> Locks]
    /\ Atomic \subseteq Groups
    /\ NoValue \notin Values /\ Junk \notin Values /\ Junk # NoValue
    /\ None \notin Users \cup Groups
    /\ RacingSetters \in BOOLEAN
    /\ MaxCalls \in Nat

VARIABLES
    instanceID,     \* t.instanceID of each tag
    members,        \* tg.tags of each group: a map from instance ids
    value,          \* t.value: a copy, or a slice of the read buffer
    wValue,         \* t.wValue
    changed,        \* t.changed
    tagLock,        \* who holds t.Lock
    groupLock,      \* who holds each group mutex
    buffer,         \* t.readBuf: the values the last reply left in it
    me,             \* the locals of each goroutine
    device,         \* device: the values of the tags
    unsure,         \* history: tags committed or dropped without the device's word
    panicked,
    calls

tags == <<value, wValue, changed>>
locks == <<tagLock, groupLock>>
vars == <<instanceID, members, tags, locks, buffer, me, device, unsure, panicked, calls>>

\* A value of a tag: bytes of its own, or where they are in the read buffer.  The
\* layout of a reply says which of its services succeeded, and so where each is.
Copy(v) == [own |-> v]
Slice(layout, i) == [layout |-> layout, at |-> i]
IsCopy(x) == "own" \in DOMAIN x
Bytes(x) ==
    IF IsCopy(x) THEN x.own
    ELSE IF x.layout = buffer.layout THEN buffer.vals[x.at] ELSE Junk

\* What the accessors of a tag show.
Shown(t) == Bytes(value[t])

TagsOf(g) == Range(members[g])

IdleUser == [pc |-> "idle", op |-> "none", group |-> None, todo |-> {},
             list |-> << >>, ok |-> {}, answer |-> "none"]

At(u, label) == me[u].pc = label /\ ~panicked
Sent(u) == {me[u].list[i].tag : i \in DOMAIN me[u].list}
AllOk(u) == me[u].ok = DOMAIN me[u].list
NewCall == ~panicked /\ calls < MaxCalls /\ calls' = calls + 1
IsWrite(u) == me[u].op \in {"TagWrite", "GroupWrite"}

-----------------------------------------------------------------------------
(* Groups and setters.                                                     *)

\* The map of a group has no lock of its own: nobody changes it in use.
InUse(g) == \E u \in Users : me[u].group = g

Add(g, t) ==
    /\ NewCall
    /\ ~InUse(g)
    /\ members' = [members EXCEPT ![g] =
          [id \in DOMAIN @ \cup {instanceID[t]} |-> IF id = instanceID[t] THEN t ELSE @[id]]]
    /\ UNCHANGED <<instanceID, tags, locks, buffer, me, device, unsure, panicked>>

Remove(g, t) ==
    /\ NewCall
    /\ ~InUse(g)
    /\ members' = [members EXCEPT ![g] = Restrict(@, DOMAIN @ \ {instanceID[t]})]
    /\ UNCHANGED <<instanceID, tags, locks, buffer, me, device, unsure, panicked>>

\* SetInt32 and the others.
Set(t, v) ==
    /\ ~panicked
    /\ RacingSetters \/ tagLock[t] = None
    /\ changed' = [changed EXCEPT ![t] = TRUE]
    /\ wValue' = [wValue EXCEPT ![t] = v]
    /\ UNCHANGED <<instanceID, members, value, locks, buffer, me, device, unsure, panicked, calls>>

-----------------------------------------------------------------------------
(* Read and Write up to the exchange.                                      *)

Begin(u, local) ==
    /\ At(u, "idle")
    /\ NewCall
    /\ me' = [me EXCEPT ![u] = local]
    /\ UNCHANGED <<instanceID, members, tags, locks, buffer, device, unsure, panicked>>

TagCall(u, op, t) ==
    Begin(u, [IdleUser EXCEPT !.pc = "tags", !.op = op, !.todo = {t}])

GroupCall(u, op, g) ==
    Begin(u, [IdleUser EXCEPT !.pc = "group", !.op = op, !.group = g])

LockGroup(u) ==
    /\ At(u, "group")
    /\ LET g == me[u].group IN
       /\ groupLock[LockOf[g]] = None
       /\ groupLock' = [groupLock EXCEPT ![LockOf[g]] = u]
       /\ me' = [me EXCEPT ![u] = [@ EXCEPT !.pc = "tags", !.todo = TagsOf(g)]]
    /\ UNCHANGED <<instanceID, members, tags, tagLock, buffer, device, unsure, panicked, calls>>

\* The next tag in the order of the map.  A group's Write takes those that have
\* changed and clears the flag before anything is sent.
LockTag(u, t) ==
    /\ At(u, "tags")
    /\ t \in me[u].todo
    /\ tagLock[t] = None
    /\ tagLock' = [tagLock EXCEPT ![t] = u]
    /\ LET entry == [tag |-> t, val |-> IF IsWrite(u) THEN wValue[t] ELSE NoValue]
           skip == \/ me[u].op = "GroupWrite" /\ ~changed[t]
                   \/ me[u].op = "TagWrite" /\ wValue[t] = NoValue
           list == IF skip THEN me[u].list ELSE Append(me[u].list, entry)
       IN  me' = [me EXCEPT ![u] = [@ EXCEPT !.todo = me[u].todo \ {t}, !.list = list]]
    /\ changed' = [changed EXCEPT ![t] = @ /\ me[u].op # "GroupWrite"]
    /\ UNCHANGED <<instanceID, members, value, wValue, groupLock, buffer, device, unsure,
                   panicked, calls>>

\* The deferred Unlocks.
Unlock(u) ==
    /\ tagLock' = [t \in Tags |-> IF tagLock[t] = u THEN None ELSE tagLock[t]]
    /\ groupLock' = [l \in Locks |-> IF groupLock[l] = u THEN None ELSE groupLock[l]]
    /\ me' = [me EXCEPT ![u] = IdleUser]

\* Seeded bug: an early return without the Unlocks.
ReturnsLocked(u) ==
    /\ At(u, "tags")
    /\ me[u].todo = {} /\ me[u].list = << >>
    /\ me' = [me EXCEPT ![u] = IdleUser]
    /\ UNCHANGED <<instanceID, members, tags, locks, buffer, device, unsure, panicked, calls>>

\* No tag, or nothing to write.
NothingToDo(u) ==
    /\ At(u, "tags")
    /\ me[u].todo = {} /\ me[u].list = << >>
    /\ Unlock(u)
    /\ UNCHANGED <<instanceID, members, tags, buffer, device, unsure, panicked, calls>>

-----------------------------------------------------------------------------
(* The exchange: external.                                                 *)

Layout(u, ok) == [i \in DOMAIN me[u].list |-> i \in ok]

Exchanged(u, ok, answer) ==
    /\ At(u, "tags")
    /\ me[u].todo = {} /\ me[u].list # << >>
    /\ me' = [me EXCEPT ![u] = [@ EXCEPT !.pc = "answered", !.ok = ok,
                !.answer = answer]]
    /\ UNCHANGED <<instanceID, members, tags, locks, unsure, panicked, calls>>

\* The reply to a read has the values of the tags it could read.  The reply that
\* refuses a single read, as that to a single write, is too short to reach a value.
ReadExchange(u, ok) ==
    /\ ~IsWrite(u)
    /\ Exchanged(u, ok, "reply")
    /\ buffer' = IF Len(me[u].list) = 1 /\ ok = {}
                 THEN buffer
                 ELSE [layout |-> Layout(u, ok),
                       vals |-> [i \in DOMAIN me[u].list |->
                                   IF i \in ok THEN device[me[u].list[i].tag] ELSE Junk]]
    /\ UNCHANGED device

\* The device accepts some of the values; it refuses a write without a value.
WriteExchange(u, ok) ==
    /\ IsWrite(u)
    /\ \A i \in ok : me[u].list[i].val # NoValue
    /\ \/ /\ Exchanged(u, ok, "reply")
          /\ buffer' = IF Len(me[u].list) = 1 THEN buffer
                       ELSE [layout |-> << >>, vals |-> << >>]
       \/ /\ Exchanged(u, ok, "error")      \* the answer is lost
          /\ UNCHANGED buffer
    /\ device' = [t \in Tags |->
                    IF \E i \in ok : me[u].list[i].tag = t
                    THEN me[u].list[CHOOSE i \in ok : me[u].list[i].tag = t].val
                    ELSE device[t]]

\* Send fails, or its answer has no items.
NoExchange(u) ==
    /\ \E answer \in {"error", "noItems"} : Exchanged(u, {}, answer)
    /\ UNCHANGED <<buffer, device>>

-----------------------------------------------------------------------------
(* Read and Write after the exchange.                                      *)

Payload(u, i) == Slice(Layout(u, me[u].ok), i)

\* Seeded bug: the status of a response is not looked at.
ParsedRegardless(u) == IF me[u].answer = "reply" THEN DOMAIN me[u].list ELSE {}

\* The responses readParser takes a value from.
Parsed(u) == me[u].ok

\* readParser keeps the slice when its bytes differ from the value the tag has.
ReadReturns(u) ==
    /\ At(u, "answered")
    /\ me[u].op \in {"TagRead", "GroupRead"}
    /\ me[u].answer = "noItems" =>
          me[u].op = "TagRead" \/ Len(me[u].list) = 1
    /\ value' = [t \in Tags |->
          IF \E i \in Parsed(u) : me[u].list[i].tag = t
          THEN LET i == CHOOSE i \in Parsed(u) : me[u].list[i].tag = t
               IN  IF Bytes(Payload(u, i)) # Shown(t) THEN Payload(u, i) ELSE value[t]
          ELSE value[t]]
    /\ Unlock(u)
    /\ UNCHANGED <<instanceID, members, wValue, changed, buffer, device, unsure, panicked, calls>>

\* TagGroup.Read takes the second item of an answer that has none.
GroupReadPanics(u) ==
    /\ At(u, "answered")
    /\ me[u].op = "GroupRead" /\ Len(me[u].list) > 1
    /\ me[u].answer = "noItems"
    /\ panicked' = TRUE
    /\ UNCHANGED <<instanceID, members, tags, locks, buffer, me, device, unsure, calls>>

\* Seeded bug: the pending value is committed when it is nil, too.
CommitsNil(ts) ==
    /\ value' = [t \in Tags |-> IF t \in ts THEN Copy(wValue[t]) ELSE value[t]]
    /\ wValue' = [t \in Tags |-> IF t \in ts THEN NoValue ELSE wValue[t]]

Commit(ts) ==
    LET done == {t \in ts : wValue[t] # NoValue} IN
    /\ value' = [t \in Tags |-> IF t \in done THEN Copy(wValue[t]) ELSE value[t]]
    /\ wValue' = [t \in Tags |-> IF t \in done THEN NoValue ELSE wValue[t]]

\* An answer without items counts as a success.
TagWriteReturns(u) ==
    /\ At(u, "answered")
    /\ me[u].op = "TagWrite"
    /\ IF me[u].answer = "noItems" \/ (me[u].answer = "reply" /\ AllOk(u))
       THEN Commit(Sent(u))
       ELSE UNCHANGED <<value, wValue>>
    /\ unsure' = IF me[u].answer = "noItems" THEN unsure \cup Sent(u) ELSE unsure
    /\ Unlock(u)
    /\ UNCHANGED <<instanceID, members, changed, buffer, device, panicked, calls>>

\* Seeded bug: the status of the single writes is not looked at.
FailedOnlyAsWhole(u) == me[u].answer = "error"

\* Whether TagGroup.Write reports that the write failed: only an atomic one looks
\* at the answer, and only when it has items.
Failed(u) ==
    \/ me[u].answer = "error"
    \/ me[u].answer = "reply" /\ me[u].group \in Atomic /\ ~AllOk(u)

\* Seeded bug: a failed Send does not restore the flags.
RestoresOnRefusal(u) == Failed(u) /\ me[u].answer = "reply"

Restores(u) == Failed(u) /\ me[u].group \in Atomic

\* It commits the pending values of all tags of the group.
GroupWriteReturns(u) ==
    /\ At(u, "answered")
    /\ me[u].op = "GroupWrite"
    /\ IF Failed(u)
       THEN UNCHANGED <<value, wValue>>
       ELSE Commit(TagsOf(me[u].group))
    /\ changed' = [t \in Tags |-> changed[t] \/ (Restores(u) /\ t \in Sent(u))]
    /\ unsure' = IF me[u].answer = "noItems" \/ me[u].group \notin Atomic
                 THEN unsure \cup Sent(u) ELSE unsure
    /\ Unlock(u)
    /\ UNCHANGED <<instanceID, members, buffer, device, panicked, calls>>

-----------------------------------------------------------------------------
\* Goroutine u needs a tag that w holds.
Awaits(u, w) == At(u, "tags") /\ \E t \in me[u].todo : tagLock[t] = w

\* Two goroutines in calls of groups with different mutexes each hold a tag the other needs.
GroupsBlocked ==
    \E u, w \in Users :
        /\ Awaits(u, w) /\ Awaits(w, u)
        /\ me[u].group # None /\ me[w].group # None
        /\ LockOf[me[u].group] # LockOf[me[w].group]

\* The users make no more calls, two of them are blocked, or the process is dead.
Stopped ==
    /\ \/ panicked
       \/ GroupsBlocked
       \/ calls = MaxCalls /\ \A u \in Users : me[u].pc = "idle"
    /\ UNCHANGED vars

\* All tags have been added to all groups, in one order; of those with one id the last
\* one stays.
Init ==
    /\ instanceID \in InstanceIDs
    /\ \E m \in [Range(instanceID) -> Tags] :
          /\ \A id \in DOMAIN m : instanceID[m[id]] = id
          /\ members = [g \in Groups |-> m]
    /\ value = [t \in Tags |-> Copy(NoValue)]
    /\ wValue = [t \in Tags |-> NoValue]
    /\ changed = [t \in Tags |-> FALSE]
    /\ tagLock = [t \in Tags |-> None]
    /\ groupLock = [l \in Locks |-> None]
    /\ buffer = [layout |-> << >>, vals |-> << >>]
    /\ me = [u \in Users |-> IdleUser]
    /\ device \in [Tags -> Values]
    /\ unsure = {}
    /\ panicked = FALSE
    /\ calls = 0

Call(u) ==
    \/ \E t \in Tags, op \in {"TagRead", "TagWrite"} : TagCall(u, op, t)
    \/ \E g \in Groups, op \in {"GroupRead", "GroupWrite"} : GroupCall(u, op, g)

Take(u) == LockGroup(u) \/ \E t \in Tags : LockTag(u, t)

Exchange(u) ==
    \/ \E ok \in SUBSET DOMAIN me[u].list : ReadExchange(u, ok) \/ WriteExchange(u, ok)
    \/ NoExchange(u)

Proceed(u) ==
    \/ NothingToDo(u) \/ Exchange(u)
    \/ ReadReturns(u) \/ GroupReadPanics(u)
    \/ TagWriteReturns(u) \/ GroupWriteReturns(u)

Next ==
    \/ \E g \in Groups, t \in Tags : Add(g, t) \/ Remove(g, t)
    \/ \E t \in Tags, v \in Values : Set(t, v)
    \/ \E u \in Users : Call(u) \/ Take(u) \/ Proceed(u)
    \/ Stopped

Spec == Init /\ [][Next]_vars
FairSpec == Spec /\ \A u \in Users : WF_vars(Proceed(u)) /\ SF_vars(Take(u))

-----------------------------------------------------------------------------
Locals ==
    [pc     : {"idle", "group", "tags", "answered"},
     op     : {"none", "TagRead", "TagWrite", "GroupRead", "GroupWrite"},
     group  : Groups \cup {None},
     todo   : SUBSET Tags,
     list   : Seq([tag : Tags, val : Values \cup {NoValue}]),
     ok     : SUBSET Nat,
     answer : {"none", "reply", "error", "noItems"}]

\* The types of the variables: a slice is that of a service that succeeded.
TypeOK ==
    /\ instanceID \in InstanceIDs
    /\ DOMAIN members = Groups
    /\ \A g \in Groups : \A id \in DOMAIN members[g] :
          members[g][id] \in Tags /\ instanceID[members[g][id]] = id
    /\ \A t \in Tags :
          IF IsCopy(value[t]) THEN value[t].own \in Values \cup {NoValue}
          ELSE value[t].at \in DOMAIN value[t].layout /\ value[t].layout[value[t].at]
    /\ wValue \in [Tags -> Values \cup {NoValue}]
    /\ changed \in [Tags -> BOOLEAN]
    /\ tagLock \in [Tags -> Users \cup {None}]
    /\ groupLock \in [Locks -> Users \cup {None}]
    /\ buffer.vals \in Seq(Values \cup {Junk})
    /\ buffer.layout \in Seq(BOOLEAN)
    /\ Len(buffer.vals) = Len(buffer.layout)
    /\ me \in [Users -> Locals]
    /\ device \in [Tags -> Values]
    /\ unsure \in SUBSET Tags
    /\ panicked \in BOOLEAN
    /\ calls \in 0 .. MaxCalls

\* README.md:633 and :647: a failed atomic write restores the changed flag of all
\* its tags, on every path (tag.go:884-925): a pending value is always marked as
\* changed, so that a later Write sends it, unless the Write of a group that took the
\* mark away has this very value on its way to the device.
OnItsWay(t) ==
    \E u \in Users :
        /\ me[u].op = "GroupWrite"
        /\ \E i \in DOMAIN me[u].list : me[u].list[i] = [tag |-> t, val |-> wValue[t]]

NoLostUpdate ==
    \A t \in Tags \ unsure : wValue[t] # NoValue => changed[t] \/ OnItsWay(t)

\* README.md:648: Tag.Write and an atomic group (tag.go:311, :934-939) commit a value
\* only if it is the one the device accepted in this very call.
CommitsAccepted ==
    [][\A t \in Tags \ unsure' :
          value'[t] # value[t] /\ IsCopy(value'[t]) =>
             \E u \in Users : \E i \in me[u].ok :
                me[u].list[i] = [tag |-> t, val |-> value'[t].own]]_vars

-----------------------------------------------------------------------------
(* What the tags promise of the values written: WriteAgreement.            *)

\* The value a tag was last written, until it shows one that was read.
Written == [t \in Tags |-> IF IsCopy(value[t]) THEN value[t].own ELSE NoValue]

AcceptedIn(u) ==
    IF me[u].pc = "answered" /\ IsWrite(u) THEN {me[u].list[i].tag : i \in me[u].ok} ELSE {}

Accepted == UNION {AcceptedIn(u) : u \in Users}

Agreement == INSTANCE WriteAgreement
    WITH Callers <- Users, Nothing <- NoValue, Nobody <- None, pending <- wValue,
         copy <- Written, holder <- tagLock, accepted <- Accepted

\* README.md:648: the calls of Read and Write agree with the device on every value
\* written (tag.go:286-315, :862-942): it takes only what is pending, and a call commits
\* all its pending values or none.
WritesAgree == Agreement!Spec

\* With nothing pending, a tag that shows the value it was written shows the value the
\* device has: no Write that failed has changed it behind the tag's back.
WrittenIsDevices == Agreement!Agreed

-----------------------------------------------------------------------------
\* Every Read and Write returns, with one exception: groups that were not given one mutex
\* to share, as by NewTagGroup(nil) (tag.go:944), lock the tags they share in the order of
\* a map each (tag.go:814, :867) and may block each other, which README.md:617 and :1288 do
\* not warn of.  Nothing else blocks a call: not the Read or Write of a tag, alone or racing
\* with a group, and no return that keeps a mutex.
EveryCallReturns ==
    \A u \in Users : (me[u].pc # "idle") ~> (me[u].pc = "idle" \/ panicked \/ GroupsBlocked)

-----------------------------------------------------------------------------
\* doc.go:138: groups read and write several tags at once.  Adding a tag leaves those
\* that were added before it in the group.
AddKeepsOthers ==
    [][\A g \in Groups, t \in Tags : Add(g, t) => TagsOf(g) \subseteq TagsOf(g)']_vars

\* doc.go:276 says that Tag.Lock protects the reads and writes of a tag: what a
\* tag shows changes only while somebody holds it.
ChangesUnderLock ==
    [][\A t \in Tags : Shown(t)' # Shown(t) => tagLock[t] # None]_vars
=============================================================================
