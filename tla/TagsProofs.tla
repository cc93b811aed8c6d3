------------------------------- MODULE TagsProofs -------------------------------
(***************************************************************************)
(* Tags and tag groups for every number of goroutines, tags, groups and    *)
(* calls, whatever mutexes the groups were given, with and without setters *)
(* that meddle with a call: Inv is inductive.  Without such setters the    *)
(* tags implement WriteAgreement, whose invariants then are theirs.        *)
(***************************************************************************)
EXTENDS Tags, SequenceTheorems, TLAPS

-----------------------------------------------------------------------------
(* What makes the invariants of Tags inductive.                            *)

GroupOps == {"GroupRead", "GroupWrite"}

\* The tags whose mutex a call has taken, as far as its locals tell.
Taken(u) ==
    Sent(u) \cup IF me[u].op \in GroupOps /\ me[u].pc # "group"
                 THEN TagsOf(me[u].group) \ me[u].todo ELSE {}

\* The locals at each point of a call.  A group's call works on the group's tags.
LocalsAt(u) ==
    /\ me[u].pc = "idle" => me[u] = IdleUser
    /\ me[u].pc = "group" =>
          me[u].op \in GroupOps /\ me[u].todo = {} /\ me[u].list = << >>
    /\ me[u].pc = "answered" =>
          me[u].todo = {} /\ me[u].ok \subseteq DOMAIN me[u].list /\ me[u].answer # "none"
    /\ me[u].op \in GroupOps =>
          /\ me[u].group \in Groups
          /\ Sent(u) \cup me[u].todo \subseteq TagsOf(me[u].group)

InCall == \A u \in Users : LocalsAt(u)

HoldsTaken == \A u \in Users : \A t \in Taken(u) : tagLock[t] = u

\* A Write sends what is pending, and what a group's Write leaves out has nothing
\* pending: setters do not meddle.
SendsPending(u) ==
    /\ IsWrite(u) => \A i \in DOMAIN me[u].list :
                        me[u].list[i].val = wValue[me[u].list[i].tag]
    /\ me[u].op = "GroupWrite" => \A t \in Taken(u) \ (Sent(u) \cup unsure) :
                                      wValue[t] = NoValue

Inv ==
    /\ TypeOK /\ InCall /\ HoldsTaken /\ NoLostUpdate
    /\ ~RacingSetters => \A u \in Users : SendsPending(u)

\* A call holds no tag but those it works on: those of its group, or the one it was
\* made for.
OwnTags(u) ==
    \A t \in Tags : tagLock[t] = u =>
        /\ me[u].pc \in {"tags", "answered"}
        /\ me[u].op \in GroupOps => t \in TagsOf(me[u].group)
        /\ me[u].op \notin GroupOps => me[u].todo = {} /\ Sent(u) \subseteq {t}

HoldsOwn(u) ==
    /\ me[u].op \notin GroupOps =>
          /\ me[u].todo # {} => me[u].list = << >>
          /\ \A s, t \in me[u].todo : s = t
    /\ me[u].pc = "answered" => me[u].list # << >>
    /\ OwnTags(u)

HoldsNoOther == \A u \in Users : HoldsOwn(u)

-----------------------------------------------------------------------------
(* Values, lists and locals.                                               *)

\* A copy is no slice.
LEMMA CopyOrSlice ==
    /\ \A v : IsCopy(Copy(v)) /\ Copy(v).own = v
    /\ \A layout, i : /\ ~IsCopy(Slice(layout, i))
                      /\ Slice(layout, i).layout = layout /\ Slice(layout, i).at = i
  BY DEF IsCopy, Copy, Slice

\* The locals of a user, one by one.
LEMMA LocalTypes ==
    ASSUME TypeOK, NEW u \in Users
    PROVE  /\ me[u] \in Locals
           /\ me[u].todo \subseteq Tags /\ me[u].ok \subseteq Nat
           /\ me[u].list \in Seq([tag : Tags, val : Values \cup {NoValue}])
           /\ \A i \in DOMAIN me[u].list :
                 /\ me[u].list[i] \in [tag : Tags, val : Values \cup {NoValue}]
                 /\ me[u].list[i].tag \in Tags
                 /\ me[u].list[i].val \in Values \cup {NoValue}
           /\ Sent(u) \subseteq Tags
<1>1. me[u] \in Locals
  BY DEF TypeOK
<1>2. me[u].list \in Seq([tag : Tags, val : Values \cup {NoValue}])
  BY <1>1 DEF Locals
<1>3. \A i \in DOMAIN me[u].list :
        me[u].list[i] \in [tag : Tags, val : Values \cup {NoValue}]
  BY <1>2, ElementOfSeq, LenProperties
<1>4. Sent(u) \subseteq Tags
  BY <1>3 DEF Sent
<1> QED
  BY <1>1, <1>2, <1>3, <1>4 DEF Locals

\* One more entry for the request.
LEMMA AppendEntry ==
    ASSUME NEW S, NEW q \in Seq(S), NEW e \in S
    PROVE  /\ Append(q, e) \in Seq(S)
           /\ DOMAIN Append(q, e) = DOMAIN q \cup {Len(q) + 1}
           /\ Append(q, e)[Len(q) + 1] = e
           /\ \A i \in DOMAIN q : Append(q, e)[i] = q[i] /\ i # Len(q) + 1
<1> DEFINE n == Len(q)
           a == Append(q, e)
<1>1. /\ n \in Nat /\ DOMAIN q = 1 .. n
      /\ a \in Seq(S) /\ Len(a) = n + 1 /\ a[n + 1] = e
      /\ \A i \in 1 .. n : a[i] = q[i]
  BY AppendProperties, LenProperties
<1>2. DOMAIN a = 1 .. n + 1
  BY <1>1, LenProperties
<1> HIDE DEF n, a
<1> QED
  BY <1>1, <1>2 DEF n, a

\* The members of a group are tags.
LEMMA GroupTags ==
    ASSUME TypeOK, NEW g \in Groups
    PROVE  TagsOf(g) \subseteq Tags
  BY DEF TypeOK, TagsOf, Range

\* A step of one user leaves the locals of the others alone.
LEMMA OthersKeep ==
    ASSUME TypeOK, NEW u \in Users, NEW local, me' = [me EXCEPT ![u] = local],
           members' = members
    PROVE  /\ me'[u] = local
           /\ \A v \in Users \ {u} :
                 /\ me'[v] = me[v] /\ Sent(v)' = Sent(v) /\ Taken(v)' = Taken(v)
                 /\ IsWrite(v)' = IsWrite(v)
           /\ \A g : TagsOf(g)' = TagsOf(g)
<1>1. me'[u] = local /\ \A v \in Users \ {u} : me'[v] = me[v]
  BY DEF TypeOK
<1>2. \A v \in Users \ {u} : Sent(v)' = Sent(v) /\ IsWrite(v)' = IsWrite(v)
  BY <1>1 DEF Sent, IsWrite
<1>3. \A g : TagsOf(g)' = TagsOf(g)
  BY DEF TagsOf
<1>4. \A v \in Users \ {u} : Taken(v)' = Taken(v)
  BY <1>1, <1>2, <1>3 DEF Taken
<1> QED
  BY <1>1, <1>2, <1>3, <1>4

\* A call that has its answer has taken every tag it works on.
LEMMA AnsweredHoldsAll ==
    ASSUME Inv, NEW u \in Users, me[u].pc = "answered"
    PROVE  /\ \A t \in Sent(u) : tagLock[t] = u
           /\ me[u].op \in GroupOps =>
                 /\ me[u].group \in Groups
                 /\ Taken(u) = TagsOf(me[u].group)
                 /\ \A t \in TagsOf(me[u].group) : tagLock[t] = u
<1>1. Sent(u) \subseteq Taken(u)
  BY DEF Taken
<1>2. me[u].op \in GroupOps =>
        Taken(u) = TagsOf(me[u].group) /\ me[u].group \in Groups
  BY DEF Inv, InCall, LocalsAt, Taken
<1> QED
  BY <1>1, <1>2 DEF Inv, HoldsTaken

\* What Commit does to each tag.
LEMMA CommitOf ==
    ASSUME NEW ts, Commit(ts), NEW t \in Tags
    PROVE  IF t \in ts /\ wValue[t] # NoValue
           THEN value'[t] = Copy(wValue[t]) /\ wValue'[t] = NoValue
           ELSE value'[t] = value[t] /\ wValue'[t] = wValue[t]
  BY DEF Commit

-----------------------------------------------------------------------------
(* What a step of one user keeps of the others.                            *)

\* Where the others are, and the mutexes they hold.
LEMMA KeepsCalls ==
    ASSUME Inv, NEW u \in Users, NEW local, me' = [me EXCEPT ![u] = local],
           members' = members, LocalsAt(u)',
           \A t \in Taken(u)' : tagLock'[t] = u,
           \A t \in Tags : tagLock[t] \in Users \ {u} => tagLock'[t] = tagLock[t]
    PROVE  InCall' /\ HoldsTaken'
<1>1. TypeOK /\ InCall /\ HoldsTaken
  BY DEF Inv
<1>2. ASSUME NEW v \in Users \ {u} PROVE LocalsAt(v)' /\ \A t \in Taken(v)' : tagLock'[t] = v
  <2>1. /\ me'[v] = me[v] /\ Sent(v)' = Sent(v) /\ Taken(v)' = Taken(v)
        /\ \A g : TagsOf(g)' = TagsOf(g)
    BY <1>1, OthersKeep
  <2>2. LocalsAt(v)'
    BY <1>1, <2>1 DEF InCall, LocalsAt
  <2>3. Taken(v) \subseteq Tags
    BY <1>1, LocalTypes, GroupTags DEF Taken, InCall, LocalsAt
  <2> QED
    BY <1>1, <2>1, <2>2, <2>3 DEF HoldsTaken
<1> QED
  BY <1>2 DEF InCall, HoldsTaken

\* What they send, when it leaves alone the pending values of the tags they hold.
LEMMA KeepsPending ==
    ASSUME Inv, ~RacingSetters, NEW u \in Users, NEW local, me' = [me EXCEPT ![u] = local],
           members' = members, unsure \subseteq unsure', SendsPending(u)',
           \A t \in Tags : tagLock[t] \in Users \ {u} => wValue'[t] = wValue[t]
    PROVE  \A v \in Users : SendsPending(v)'
<1>1. TypeOK /\ InCall /\ HoldsTaken /\ \A v \in Users : SendsPending(v)
  BY DEF Inv
<1>2. ASSUME NEW v \in Users \ {u} PROVE SendsPending(v)'
  <2>1. /\ me'[v] = me[v] /\ Sent(v)' = Sent(v) /\ Taken(v)' = Taken(v)
        /\ IsWrite(v)' = IsWrite(v)
    BY <1>1, OthersKeep
  <2>2. Taken(v) \subseteq Tags
    BY <1>1, LocalTypes, GroupTags DEF Taken, InCall, LocalsAt
  <2>3. \A t \in Taken(v) : wValue'[t] = wValue[t]
    BY <1>1, <2>2 DEF HoldsTaken
  <2>4. \A i \in DOMAIN me[v].list : me[v].list[i].tag \in Taken(v)
    BY DEF Taken, Sent
  <2> QED
    BY <1>1, <2>1, <2>3, <2>4 DEF SendsPending
<1> QED
  BY <1>2

\* That nothing is lost, when the step accounts for the pending values it touches and
\* for those its own call had on their way.
LEMMA LosesNothing ==
    ASSUME Inv, NEW u \in Users, NEW local, me' = [me EXCEPT ![u] = local],
           members' = members, unsure \subseteq unsure',
           \A t \in Tags \ unsure' : wValue'[t] # NoValue =>
              \/ changed'[t]
              \/ me'[u].op = "GroupWrite" /\ \E i \in DOMAIN me'[u].list :
                    me'[u].list[i] = [tag |-> t, val |-> wValue'[t]]
              \/ /\ wValue'[t] = wValue[t] /\ ~changed[t]
                 /\ ~(me[u].op = "GroupWrite" /\ t \in Sent(u))
    PROVE  NoLostUpdate'
<1>1. TypeOK /\ NoLostUpdate
  BY DEF Inv
<1>2. \A v \in Users \ {u} : me'[v] = me[v]
  BY <1>1, OthersKeep
<1>3. SUFFICES ASSUME NEW t \in Tags \ unsure', wValue'[t] # NoValue
               PROVE  changed'[t] \/ OnItsWay(t)'
  BY DEF NoLostUpdate
<1>4. CASE me'[u].op = "GroupWrite" /\ \E i \in DOMAIN me'[u].list :
              me'[u].list[i] = [tag |-> t, val |-> wValue'[t]]
  BY <1>4 DEF OnItsWay
<1>5. CASE /\ wValue'[t] = wValue[t] /\ ~changed[t]
           /\ ~(me[u].op = "GroupWrite" /\ t \in Sent(u))
  <2>1. OnItsWay(t)
    BY <1>1, <1>3, <1>5 DEF NoLostUpdate
  <2>2. PICK v \in Users : /\ me[v].op = "GroupWrite"
                           /\ \E i \in DOMAIN me[v].list :
                                 me[v].list[i] = [tag |-> t, val |-> wValue[t]]
    BY <2>1 DEF OnItsWay
  <2>3. t \in Sent(v)
    BY <2>2 DEF Sent
  <2>4. v # u
    BY <1>5, <2>2, <2>3
  <2> QED
    BY <1>2, <1>5, <2>2, <2>4 DEF OnItsWay
<1> QED
  BY <1>3, <1>4, <1>5

\* A value that is pending and not marked is on its way in the call that sends its tag.
LEMMA OwnEntry ==
    ASSUME Inv, NEW u \in Users, NEW t \in Sent(u) \ unsure, t \in Tags,
           wValue[t] # NoValue, ~changed[t]
    PROVE  /\ me[u].op = "GroupWrite"
           /\ \E i \in DOMAIN me[u].list : me[u].list[i] = [tag |-> t, val |-> wValue[t]]
<1>1. PICK v \in Users : /\ me[v].op = "GroupWrite"
                         /\ \E i \in DOMAIN me[v].list :
                               me[v].list[i] = [tag |-> t, val |-> wValue[t]]
  BY DEF Inv, NoLostUpdate, OnItsWay
<1>2. tagLock[t] = u
  BY DEF Inv, HoldsTaken, Taken
<1>3. tagLock[t] = v
  BY <1>1 DEF Inv, HoldsTaken, Taken, Sent
<1> QED
  BY <1>1, <1>2, <1>3

\* Steps that change neither values nor marks: a call begins, waits, or has its answer.
LEMMA QuietStep ==
    ASSUME Inv, NEW u \in Users, NEW local, me' = [me EXCEPT ![u] = local],
           UNCHANGED <<members, wValue, changed, unsure>>,
           me[u].op = "GroupWrite" =>
              me[u].list = << >> \/ (local.op = "GroupWrite" /\ local.list = me[u].list)
    PROVE  NoLostUpdate'
<1>1. TypeOK /\ NoLostUpdate
  BY DEF Inv
<1>2. me'[u] = local
  BY <1>1, OthersKeep
<1>3. ASSUME NEW t \in Tags \ unsure', wValue'[t] # NoValue, ~changed'[t],
             me[u].op = "GroupWrite" /\ t \in Sent(u)
      PROVE  me'[u].op = "GroupWrite" /\ \E i \in DOMAIN me'[u].list :
                me'[u].list[i] = [tag |-> t, val |-> wValue'[t]]
  <2>1. me[u].list # << >>
    BY <1>3 DEF Sent
  <2> QED
    BY <1>2, <1>3, <2>1, OwnEntry
<1>4. \A t \in Tags : wValue'[t] = wValue[t] /\ (changed[t] => changed'[t])
  OBVIOUS
<1> QED
  BY <1>3, <1>4, LosesNothing

-----------------------------------------------------------------------------
(* One lemma for each action.                                              *)

LEMMA StutterKeeps ==
    ASSUME Inv, UNCHANGED vars
    PROVE  Inv'
<1>1. TypeOK /\ InCall /\ HoldsTaken /\ NoLostUpdate
  BY DEF Inv
<1>2. TypeOK'
  BY <1>1 DEF TypeOK, vars, tags, locks, IsCopy
<1>3. \A u \in Users : /\ Sent(u)' = Sent(u) /\ Taken(u)' = Taken(u)
                       /\ LocalsAt(u)' = LocalsAt(u)
  BY DEF vars, Sent, Taken, TagsOf, LocalsAt
<1>4. InCall' /\ HoldsTaken'
  BY <1>1, <1>3 DEF InCall, HoldsTaken, vars, locks
<1>5. NoLostUpdate'
  BY <1>1 DEF NoLostUpdate, OnItsWay, vars, tags
<1>6. ~RacingSetters => \A u \in Users : SendsPending(u)'
  BY <1>3 DEF Inv, SendsPending, IsWrite, vars, tags
<1> QED
  BY <1>2, <1>4, <1>5, <1>6 DEF Inv

LEMMA InitHolds ==
    ASSUME Init
    PROVE  Inv
<1>1. TypeOK
  <2>1. \A u \in Users : me[u] = IdleUser
    BY DEF Init
  <2>2. IdleUser \in Locals
    BY DEF IdleUser, Locals
  <2>3. me \in [Users -> Locals]
    BY <2>2 DEF Init
  <2>4. \A t \in Tags : IsCopy(value[t]) /\ value[t].own = NoValue
    BY CopyOrSlice DEF Init
  <2>5. PICK m \in [Range(instanceID) -> Tags] :
           /\ \A id \in DOMAIN m : instanceID[m[id]] = id
           /\ members = [g \in Groups |-> m]
    BY DEF Init
  <2>6. /\ DOMAIN members = Groups
        /\ \A g \in Groups : \A id \in DOMAIN members[g] :
              members[g][id] \in Tags /\ instanceID[members[g][id]] = id
    BY <2>5
  <2>7. /\ buffer.vals \in Seq(Values \cup {Junk}) /\ buffer.layout \in Seq(BOOLEAN)
        /\ Len(buffer.vals) = Len(buffer.layout)
    BY DEF Init
  <2>8. \A t \in Tags :
           IF IsCopy(value[t]) THEN value[t].own \in Values \cup {NoValue}
           ELSE value[t].at \in DOMAIN value[t].layout /\ value[t].layout[value[t].at]
    BY <2>4
  <2>9. /\ wValue \in [Tags -> Values \cup {NoValue}] /\ changed \in [Tags -> BOOLEAN]
        /\ tagLock \in [Tags -> Users \cup {None}]
        /\ groupLock \in [Locks -> Users \cup {None}]
        /\ calls \in 0 .. MaxCalls
    BY TagsAssumption DEF Init
  <2>10. /\ instanceID \in InstanceIDs /\ device \in [Tags -> Values]
         /\ unsure \in SUBSET Tags /\ panicked \in BOOLEAN
    BY DEF Init
  <2> QED
    BY <2>3, <2>6, <2>7, <2>8, <2>9, <2>10 DEF TypeOK
<1>2. \A u \in Users : /\ me[u].pc = "idle" /\ me[u] = IdleUser /\ me[u].op = "none"
                       /\ DOMAIN me[u].list = {} /\ Sent(u) = {} /\ Taken(u) = {}
  BY DEF Init, IdleUser, Sent, Taken, GroupOps
<1>3. InCall /\ HoldsTaken
  BY <1>2 DEF InCall, LocalsAt, HoldsTaken, GroupOps
<1>4. NoLostUpdate
  BY DEF NoLostUpdate, Init
<1>5. \A u \in Users : SendsPending(u)
  BY <1>2 DEF SendsPending, IsWrite
<1> QED
  BY <1>1, <1>3, <1>4, <1>5 DEF Inv

\* The members of a group change while no call is using it.
LEMMA MembersKeep ==
    ASSUME Inv, NEW g \in Groups, NEW m, members' = [members EXCEPT ![g] = m],
           \A id \in DOMAIN m : m[id] \in Tags /\ instanceID[m[id]] = id,
           ~InUse(g), calls' \in 0 .. MaxCalls,
           UNCHANGED <<instanceID, tags, locks, buffer, me, device, unsure, panicked>>
    PROVE  Inv'
<1>1. TypeOK /\ InCall /\ HoldsTaken /\ NoLostUpdate
  BY DEF Inv
<1>2. /\ DOMAIN members' = Groups /\ members'[g] = m
      /\ \A h \in Groups \ {g} : members'[h] = members[h] /\ TagsOf(h)' = TagsOf(h)
  BY <1>1 DEF TypeOK, TagsOf
<1>3. \A h \in Groups : \A id \in DOMAIN members'[h] :
         members'[h][id] \in Tags /\ instanceID'[members'[h][id]] = id
  BY <1>1, <1>2 DEF TypeOK
<1>4. TypeOK'
  BY <1>1, <1>2, <1>3 DEF TypeOK, IsCopy, tags, locks, Locals
<1>5. ASSUME NEW u \in Users
      PROVE  /\ me'[u] = me[u] /\ Sent(u)' = Sent(u) /\ Taken(u)' = Taken(u)
             /\ LocalsAt(u)'
  <2>1. me[u].group # g
    BY DEF InUse
  <2>2. me[u].op \in GroupOps => /\ me[u].group \in Groups
                                 /\ TagsOf(me[u].group)' = TagsOf(me[u].group)
    BY <1>1, <1>2, <2>1 DEF InCall, LocalsAt
  <2>3. Sent(u)' = Sent(u)
    BY DEF Sent
  <2>4. Taken(u)' = Taken(u)
    BY <2>2, <2>3 DEF Taken
  <2>5. LocalsAt(u) /\ me'[u] = me[u]
    BY <1>1 DEF InCall
  <2>6. LocalsAt(u)'
    BY <2>2, <2>3, <2>5 DEF LocalsAt
  <2> QED
    BY <2>3, <2>4, <2>5, <2>6
<1>6. InCall' /\ HoldsTaken'
  BY <1>1, <1>5 DEF InCall, HoldsTaken, locks
<1>7. NoLostUpdate'
  BY <1>1 DEF NoLostUpdate, OnItsWay, tags
<1>8. ~RacingSetters => \A u \in Users : SendsPending(u)'
  BY <1>5 DEF Inv, SendsPending, IsWrite, tags
<1> QED
  BY <1>4, <1>6, <1>7, <1>8 DEF Inv

LEMMA AddKeeps ==
    ASSUME Inv, NEW g \in Groups, NEW t \in Tags, Add(g, t)
    PROVE  Inv'
<1> DEFINE m == [id \in DOMAIN members[g] \cup {instanceID[t]} |->
                   IF id = instanceID[t] THEN t ELSE members[g][id]]
<1>1. members' = [members EXCEPT ![g] = m] /\ ~InUse(g)
  BY DEF Add
<1>2. \A id \in DOMAIN m : m[id] \in Tags /\ instanceID[m[id]] = id
  BY DEF Inv, TypeOK
<1>3. calls' \in 0 .. MaxCalls
  BY TagsAssumption DEF Add, NewCall, Inv, TypeOK
<1> HIDE DEF m
<1> QED
  BY <1>1, <1>2, <1>3, MembersKeep DEF Add

LEMMA RemoveKeeps ==
    ASSUME Inv, NEW g \in Groups, NEW t \in Tags, Remove(g, t)
    PROVE  Inv'
<1> DEFINE m == Restrict(members[g], DOMAIN members[g] \ {instanceID[t]})
<1>1. members' = [members EXCEPT ![g] = m] /\ ~InUse(g)
  BY DEF Remove
<1>2. \A id \in DOMAIN m : m[id] \in Tags /\ instanceID[m[id]] = id
  BY DEF Inv, TypeOK, Restrict
<1>3. calls' \in 0 .. MaxCalls
  BY TagsAssumption DEF Remove, NewCall, Inv, TypeOK
<1> HIDE DEF m
<1> QED
  BY <1>1, <1>2, <1>3, MembersKeep DEF Remove

\* A setter marks what it sets; without RacingSetters nobody holds the tag.
LEMMA SetKeeps ==
    ASSUME Inv, NEW t \in Tags, NEW v \in Values, Set(t, v)
    PROVE  Inv'
<1>1. TypeOK /\ InCall /\ HoldsTaken /\ NoLostUpdate
  BY DEF Inv
<1>2. /\ wValue' = [wValue EXCEPT ![t] = v] /\ changed' = [changed EXCEPT ![t] = TRUE]
      /\ RacingSetters \/ tagLock[t] = None
      /\ UNCHANGED <<instanceID, members, value, tagLock, groupLock, buffer, me, device,
                     unsure, panicked, calls>>
  BY DEF Set, locks
<1>3. wValue' \in [Tags -> Values \cup {NoValue}] /\ changed' \in [Tags -> BOOLEAN]
  BY <1>1, <1>2 DEF TypeOK
<1>4. TypeOK'
  BY <1>1, <1>2, <1>3 DEF TypeOK, IsCopy, Locals
<1>5. \A u \in Users : /\ Sent(u)' = Sent(u) /\ Taken(u)' = Taken(u)
                       /\ LocalsAt(u)' = LocalsAt(u)
  BY <1>2 DEF Sent, Taken, TagsOf, LocalsAt
<1>6. InCall' /\ HoldsTaken'
  BY <1>1, <1>2, <1>5 DEF InCall, HoldsTaken
<1>7. NoLostUpdate'
  BY <1>1, <1>2 DEF NoLostUpdate, OnItsWay, TypeOK
<1>8. ASSUME ~RacingSetters, NEW u \in Users PROVE SendsPending(u)'
  <2>1. t \notin Taken(u)
    BY <1>1, <1>2, <1>8, TagsAssumption DEF HoldsTaken
  <2>2. \A s \in Taken(u) : s \in Tags /\ wValue'[s] = wValue[s]
    BY <1>1, <1>2, <2>1, LocalTypes, GroupTags DEF Taken, InCall, LocalsAt, TypeOK
  <2>3. \A i \in DOMAIN me[u].list : me[u].list[i].tag \in Taken(u)
    BY DEF Taken, Sent
  <2> QED
    BY <1>2, <1>5, <1>8, <2>2, <2>3 DEF Inv, SendsPending, IsWrite
<1> QED
  BY <1>4, <1>6, <1>7, <1>8 DEF Inv

\* A call begins.
LEMMA BeginKeeps ==
    ASSUME Inv, NEW u \in Users, NEW local \in Locals, Begin(u, local),
           local.list = << >>, local.pc \in {"group", "tags"},
           local.pc = "group" => local.op \in GroupOps /\ local.todo = {},
           local.op \in GroupOps => local.pc = "group" /\ local.group \in Groups
    PROVE  Inv'
<1>1. TypeOK /\ InCall /\ HoldsTaken
  BY DEF Inv
<1>2. /\ me' = [me EXCEPT ![u] = local] /\ me[u].pc = "idle"
      /\ calls < MaxCalls /\ calls' = calls + 1
      /\ UNCHANGED <<instanceID, members, value, wValue, changed, tagLock, groupLock,
                     buffer, device, unsure, panicked>>
  BY DEF Begin, At, NewCall, tags, locks
<1>3. calls' \in 0 .. MaxCalls
  BY <1>1, <1>2, TagsAssumption DEF TypeOK
<1>4. TypeOK'
  BY <1>1, <1>2, <1>3 DEF TypeOK, IsCopy
<1>5. me'[u] = local /\ \A g : TagsOf(g)' = TagsOf(g)
  BY <1>1, <1>2, OthersKeep
<1>6. Sent(u)' = {} /\ Taken(u)' = {}
  BY <1>5 DEF Sent, Taken
<1>7. LocalsAt(u)'
  BY <1>5, <1>6 DEF LocalsAt
<1>8. InCall' /\ HoldsTaken'
  BY <1>2, <1>6, <1>7, KeepsCalls
<1>9. me[u].op # "GroupWrite"
  BY <1>1, <1>2 DEF InCall, LocalsAt, IdleUser
<1>10. NoLostUpdate'
  BY <1>2, <1>9, QuietStep
<1>11. SendsPending(u)'
  BY <1>5, <1>6 DEF SendsPending
<1>12. ~RacingSetters => \A v \in Users : SendsPending(v)'
  BY <1>2, <1>11, KeepsPending
<1> QED
  BY <1>4, <1>8, <1>10, <1>12 DEF Inv

LEMMA CallKeeps ==
    ASSUME Inv, NEW u \in Users, Call(u)
    PROVE  Inv'
<1>1. CASE \E t \in Tags, op \in {"TagRead", "TagWrite"} : TagCall(u, op, t)
  <2>1. PICK t \in Tags, op \in {"TagRead", "TagWrite"} : TagCall(u, op, t)
    BY <1>1
  <2> DEFINE local == [IdleUser EXCEPT !.pc = "tags", !.op = op, !.todo = {t}]
  <2>2. /\ local.pc = "tags" /\ local.op = op /\ local.list = << >>
        /\ local.op \notin GroupOps
    BY DEF IdleUser, GroupOps
  <2>3. IdleUser \in Locals
    BY DEF IdleUser, Locals
  <2>4. local \in Locals
    BY <2>1, <2>3 DEF Locals
  <2> QED
    BY <2>1, <2>2, <2>4, BeginKeeps DEF TagCall
<1>2. CASE \E g \in Groups, op \in {"GroupRead", "GroupWrite"} : GroupCall(u, op, g)
  <2>1. PICK g \in Groups, op \in {"GroupRead", "GroupWrite"} : GroupCall(u, op, g)
    BY <1>2
  <2> DEFINE local == [IdleUser EXCEPT !.pc = "group", !.op = op, !.group = g]
  <2>2. /\ local.pc = "group" /\ local.op \in GroupOps /\ local.group \in Groups
        /\ local.todo = {} /\ local.list = << >>
    BY DEF IdleUser, GroupOps
  <2>3. IdleUser \in Locals
    BY DEF IdleUser, Locals
  <2>4. local \in Locals
    BY <2>1, <2>3 DEF Locals
  <2> QED
    BY <2>1, <2>2, <2>4, BeginKeeps DEF GroupCall
<1> QED
  BY <1>1, <1>2 DEF Call

\* The mutex of a group: from here on its tags are to be taken.
LEMMA LockGroupKeeps ==
    ASSUME Inv, NEW u \in Users, LockGroup(u)
    PROVE  Inv'
<1> DEFINE g == me[u].group
           local == [me[u] EXCEPT !.pc = "tags", !.todo = TagsOf(g)]
<1>1. TypeOK /\ InCall /\ HoldsTaken
  BY DEF Inv
<1>2. /\ me' = [me EXCEPT ![u] = local] /\ me[u].pc = "group"
      /\ groupLock' = [groupLock EXCEPT ![LockOf[g]] = u]
      /\ UNCHANGED <<instanceID, members, value, wValue, changed, tagLock,
                     buffer, device, unsure, panicked, calls>>
  BY DEF LockGroup, At, tags
<1>3. me[u] \in Locals /\ LocalsAt(u)
  BY <1>1 DEF TypeOK, InCall
<1>4. g \in Groups /\ me[u].list = << >> /\ me[u].op \in GroupOps
  BY <1>2, <1>3 DEF LocalsAt
<1>5. /\ local \in Locals /\ local.list = << >> /\ local.op = me[u].op /\ local.pc = "tags"
      /\ local.group = g /\ local.todo = TagsOf(g)
  BY <1>1, <1>3, <1>4, GroupTags DEF Locals
<1> HIDE DEF local
<1>6. TypeOK'
  <2>1. me' \in [Users -> Locals] /\ groupLock' \in [Locks -> Users \cup {None}]
    BY <1>1, <1>2, <1>4, <1>5, TagsAssumption DEF TypeOK
  <2> QED
    BY <1>1, <1>2, <2>1 DEF TypeOK, IsCopy
<1>7. me'[u] = local /\ \A h : TagsOf(h)' = TagsOf(h)
  BY <1>1, <1>2, OthersKeep
<1>8. Sent(u)' = {} /\ Taken(u)' = {}
  BY <1>5, <1>7 DEF Sent, Taken
<1>9. LocalsAt(u)'
  BY <1>4, <1>5, <1>7, <1>8 DEF LocalsAt
<1>10. InCall' /\ HoldsTaken'
  BY <1>2, <1>8, <1>9, KeepsCalls
<1>11. NoLostUpdate'
  BY <1>2, <1>4, QuietStep
<1>12. SendsPending(u)'
  BY <1>5, <1>7, <1>8 DEF SendsPending
<1>13. ~RacingSetters => \A v \in Users : SendsPending(v)'
  BY <1>2, <1>12, KeepsPending
<1> QED
  BY <1>6, <1>10, <1>11, <1>13 DEF Inv

\* The mutex of a tag.  What has not changed is left out, and then has nothing pending.
LEMMA LockTagKeeps ==
    ASSUME Inv, NEW u \in Users, NEW t \in Tags, LockTag(u, t)
    PROVE  Inv'
<1> DEFINE entry == [tag |-> t, val |-> IF IsWrite(u) THEN wValue[t] ELSE NoValue]
           skip == \/ me[u].op = "GroupWrite" /\ ~changed[t]
                   \/ me[u].op = "TagWrite" /\ wValue[t] = NoValue
           list == IF skip THEN me[u].list ELSE Append(me[u].list, entry)
           local == [me[u] EXCEPT !.todo = me[u].todo \ {t}, !.list = list]
           E == [tag : Tags, val : Values \cup {NoValue}]
<1>1. TypeOK /\ InCall /\ HoldsTaken /\ NoLostUpdate
  BY DEF Inv
<1>2. /\ me' = [me EXCEPT ![u] = local] /\ me[u].pc = "tags" /\ t \in me[u].todo
      /\ tagLock[t] = None /\ tagLock' = [tagLock EXCEPT ![t] = u]
      /\ changed' = [changed EXCEPT ![t] = @ /\ me[u].op # "GroupWrite"]
      /\ UNCHANGED <<instanceID, members, value, wValue, groupLock,
                     buffer, device, unsure, panicked, calls>>
  <2>1. me' = [me EXCEPT ![u] = local]
    BY DEF LockTag
  <2>2. /\ me[u].pc = "tags" /\ t \in me[u].todo
        /\ tagLock[t] = None /\ tagLock' = [tagLock EXCEPT ![t] = u]
        /\ UNCHANGED <<instanceID, members, value, wValue, groupLock,
                       buffer, device, unsure, panicked, calls>>
    BY DEF LockTag, At
  <2>3. changed' = [changed EXCEPT ![t] = @ /\ me[u].op # "GroupWrite"]
    BY DEF LockTag
  <2> QED
    BY <2>1, <2>2, <2>3
<1>3. me[u] \in Locals /\ LocalsAt(u) /\ me[u].list \in Seq(E)
  BY <1>1, LocalTypes DEF InCall
<1>4. entry \in E /\ entry.tag = t /\ (IsWrite(u) => entry = [tag |-> t, val |-> wValue[t]])
  BY <1>1 DEF TypeOK
<1>5. /\ list \in Seq(E)
      /\ \A i \in DOMAIN me[u].list : i \in DOMAIN list /\ list[i] = me[u].list[i]
      /\ skip => list = me[u].list
      /\ ~skip => \E i \in DOMAIN list : list[i] = entry
      /\ \A i \in DOMAIN list : i \in DOMAIN me[u].list \/ (~skip /\ list[i] = entry)
  <2>1. CASE skip
    BY <1>3, <2>1
  <2>2. CASE ~skip
    <3> HIDE DEF entry, skip, E
    <3>1. list = Append(me[u].list, entry)
      BY <2>2
    <3> QED
      BY <1>3, <1>4, <2>2, <3>1, AppendEntry
  <2> QED
    BY <2>1, <2>2
<1>6. /\ local \in Locals /\ local.list = list /\ local.op = me[u].op /\ local.pc = "tags"
      /\ local.group = me[u].group /\ local.todo = me[u].todo \ {t}
  <2> HIDE DEF entry, skip
  <2> QED
    BY <1>2, <1>3, <1>5 DEF Locals
<1> HIDE DEF list, local, E
<1>7. me'[u] = local /\ \A h : TagsOf(h)' = TagsOf(h)
  BY <1>1, <1>2, OthersKeep
<1>8. Sent(u)' = Sent(u) \cup IF skip THEN {} ELSE {t}
  <2>1. Sent(u)' = {list[i].tag : i \in DOMAIN list}
    BY <1>6, <1>7 DEF Sent
  <2> HIDE DEF skip, entry
  <2>2. \A i \in DOMAIN list : list[i].tag \in Sent(u) \cup IF skip THEN {} ELSE {t}
    BY <1>4, <1>5 DEF Sent
  <2>3. \A s \in Sent(u) : \E i \in DOMAIN list : list[i].tag = s
    BY <1>5 DEF Sent
  <2>4. ~skip => \E i \in DOMAIN list : list[i].tag = t
    BY <1>4, <1>5
  <2> QED
    BY <2>1, <2>2, <2>3, <2>4
<1>9. /\ tagLock'[t] = u /\ u # None
      /\ \A s \in Tags \ {t} : tagLock'[s] = tagLock[s] /\ changed'[s] = changed[s]
      /\ changed'[t] <=> changed[t] /\ me[u].op # "GroupWrite"
  <2>1. /\ tagLock'[t] = u /\ u # None
        /\ \A s \in Tags \ {t} : tagLock'[s] = tagLock[s] /\ changed'[s] = changed[s]
    BY <1>1, <1>2, TagsAssumption DEF TypeOK
  <2>2. t \in DOMAIN changed
    BY <1>1 DEF TypeOK
  <2>3. changed'[t] = (changed[t] /\ me[u].op # "GroupWrite")
    BY <1>2, <2>2, Zenon
  <2> QED
    BY <2>1, <2>3
<1>10. TypeOK'
  <2>1. me' \in [Users -> Locals] /\ tagLock' \in [Tags -> Users \cup {None}]
    BY <1>1, <1>2, <1>6 DEF TypeOK
  <2>2. changed' \in [Tags -> BOOLEAN]
    BY <1>1, <1>2 DEF TypeOK
  <2> QED
    BY <1>1, <1>2, <2>1, <2>2 DEF TypeOK, IsCopy
<1>11. Taken(u)' \subseteq Taken(u) \cup {t}
  BY <1>2, <1>6, <1>7, <1>8 DEF Taken
<1>12. LocalsAt(u)'
  BY <1>2, <1>3, <1>6, <1>7, <1>8 DEF LocalsAt
<1>13. \A s \in Taken(u)' : tagLock'[s] = u
  <2>1. Taken(u) \subseteq Tags
    BY <1>1, LocalTypes, GroupTags DEF Taken, InCall, LocalsAt
  <2> QED
    BY <1>1, <1>9, <1>11, <2>1 DEF HoldsTaken
<1>14. InCall' /\ HoldsTaken'
  <2>1. \A s \in Tags : tagLock[s] \in Users \ {u} => tagLock'[s] = tagLock[s]
    BY <1>2, <1>9, TagsAssumption
  <2> QED
    BY <1>2, <1>12, <1>13, <2>1, KeepsCalls
<1>15. NoLostUpdate'
  <2>1. ASSUME NEW s \in Tags \ unsure', wValue'[s] # NoValue, ~changed'[s],
               changed[s] \/ (me[u].op = "GroupWrite" /\ s \in Sent(u))
        PROVE  me'[u].op = "GroupWrite" /\ \E i \in DOMAIN me'[u].list :
                  me'[u].list[i] = [tag |-> s, val |-> wValue'[s]]
    <3>1. CASE changed[s]
      <4>1. s = t /\ me[u].op = "GroupWrite"
        BY <1>9, <2>1, <3>1
      <4>2. ~skip /\ entry = [tag |-> s, val |-> wValue[s]]
        BY <1>4, <3>1, <4>1 DEF IsWrite
      <4> QED
        BY <1>2, <1>5, <1>6, <1>7, <4>1, <4>2
    <3>2. CASE ~changed[s] /\ me[u].op = "GroupWrite" /\ s \in Sent(u)
      <4>1. \E i \in DOMAIN me[u].list : me[u].list[i] = [tag |-> s, val |-> wValue[s]]
        BY <1>2, <2>1, <3>2, OwnEntry
      <4> QED
        BY <1>2, <1>5, <1>6, <1>7, <3>2, <4>1
    <3> QED
      BY <2>1, <3>1, <3>2
  <2>2. \A s \in Tags : wValue'[s] = wValue[s]
    BY <1>2
  <2> QED
    BY <1>2, <2>1, <2>2, LosesNothing
<1>16. ASSUME ~RacingSetters PROVE SendsPending(u)'
  <2>1. SendsPending(u)
    BY <1>16 DEF Inv
  <2>2. IsWrite(u)' => IsWrite(u)
    BY <1>6, <1>7 DEF IsWrite
  <2>3. ASSUME IsWrite(u), NEW i \in DOMAIN list PROVE list[i].val = wValue[list[i].tag]
    <3>1. CASE i \in DOMAIN me[u].list
      BY <1>5, <2>1, <2>3, <3>1 DEF SendsPending
    <3>2. CASE list[i] = entry
      BY <1>4, <2>3, <3>2
    <3> QED
      BY <1>5, <3>1, <3>2
  <2>4. ASSUME me[u].op = "GroupWrite", NEW s \in Taken(u)' \ (Sent(u)' \cup unsure)
        PROVE  wValue[s] = NoValue
    <3>1. CASE s \in Taken(u)
      BY <1>8, <2>1, <2>4, <3>1 DEF SendsPending
    <3>2. CASE s = t
      <4>1. ~changed[t] /\ t \notin unsure
        BY <1>8, <2>4, <3>2
      <4>2. ~OnItsWay(t)
        BY <1>1, <1>2, TagsAssumption DEF OnItsWay, HoldsTaken, Taken, Sent
      <4> QED
        BY <1>1, <3>2, <4>1, <4>2 DEF NoLostUpdate
    <3> QED
      BY <1>11, <2>4, <3>1, <3>2
  <2> QED
    BY <1>2, <1>6, <1>7, <2>2, <2>3, <2>4 DEF SendsPending
<1>17. ~RacingSetters => \A v \in Users : SendsPending(v)'
  BY <1>2, <1>16, KeepsPending
<1> QED
  BY <1>10, <1>14, <1>15, <1>17 DEF Inv

\* A value that a tag may show.
ValueOK(v) == IF IsCopy(v) THEN v.own \in Values \cup {NoValue}
              ELSE v.at \in DOMAIN v.layout /\ v.layout[v.at]

LEMMA ValuesOK ==
    ASSUME TypeOK, NEW t \in Tags
    PROVE  ValueOK(value[t])
  BY DEF TypeOK, ValueOK

\* A call returns and unlocks what it has locked; the tags of others are not touched.
LEMMA ReturnKeeps ==
    ASSUME Inv, NEW u \in Users, Unlock(u),
           UNCHANGED <<instanceID, members, buffer, device, panicked, calls>>,
           \A t \in Tags : ValueOK(value'[t]),
           wValue' \in [Tags -> Values \cup {NoValue}], changed' \in [Tags -> BOOLEAN],
           unsure' \subseteq Tags, unsure \subseteq unsure',
           \A t \in Tags : tagLock[t] \in Users \ {u} => wValue'[t] = wValue[t],
           NoLostUpdate'
    PROVE  Inv'
<1>1. TypeOK /\ InCall /\ HoldsTaken
  BY DEF Inv
<1>2. /\ me' = [me EXCEPT ![u] = IdleUser]
      /\ tagLock' = [t \in Tags |-> IF tagLock[t] = u THEN None ELSE tagLock[t]]
      /\ groupLock' = [l \in Locks |-> IF groupLock[l] = u THEN None ELSE groupLock[l]]
  BY DEF Unlock
<1>3. IdleUser \in Locals
  BY DEF IdleUser, Locals
<1>4. TypeOK'
  <2>1. me' \in [Users -> Locals] /\ tagLock' \in [Tags -> Users \cup {None}]
    BY <1>1, <1>2, <1>3 DEF TypeOK
  <2>2. groupLock' \in [Locks -> Users \cup {None}]
    BY <1>1, <1>2 DEF TypeOK
  <2>3. \A t \in Tags :
           IF IsCopy(value'[t]) THEN value'[t].own \in Values \cup {NoValue}
           ELSE value'[t].at \in DOMAIN value'[t].layout /\ value'[t].layout[value'[t].at]
    BY DEF ValueOK
  <2>4. \A t \in Tags : IsCopy(value[t])' = IsCopy(value'[t])
    BY DEF IsCopy
  <2> QED
    BY <1>1, <2>1, <2>2, <2>3, <2>4 DEF TypeOK
<1>5. me'[u] = IdleUser
  BY <1>1, <1>2, OthersKeep
<1>6. /\ me'[u].pc = "idle" /\ me'[u].op = "none" /\ Sent(u)' = {} /\ Taken(u)' = {}
  BY <1>5 DEF IdleUser, Sent, Taken, GroupOps
<1>7. LocalsAt(u)' /\ SendsPending(u)'
  BY <1>5, <1>6 DEF LocalsAt, SendsPending, IsWrite, GroupOps
<1>8. InCall' /\ HoldsTaken'
  BY <1>2, <1>6, <1>7, KeepsCalls
<1>9. ~RacingSetters => \A v \in Users : SendsPending(v)'
  BY <1>2, <1>7, KeepsPending
<1> QED
  BY <1>4, <1>8, <1>9 DEF Inv

LEMMA NothingToDoKeeps ==
    ASSUME Inv, NEW u \in Users, NothingToDo(u)
    PROVE  Inv'
<1>1. TypeOK
  BY DEF Inv
<1>2. /\ Unlock(u) /\ me[u].list = << >> /\ me' = [me EXCEPT ![u] = IdleUser]
      /\ UNCHANGED <<instanceID, members, value, wValue, changed, buffer, device, unsure,
                     panicked, calls>>
  BY DEF NothingToDo, Unlock, tags
<1>3. NoLostUpdate'
  BY <1>2, QuietStep
<1>4. /\ \A t \in Tags : ValueOK(value'[t])
      /\ wValue' \in [Tags -> Values \cup {NoValue}] /\ changed' \in [Tags -> BOOLEAN]
      /\ unsure' \subseteq Tags /\ unsure \subseteq unsure'
      /\ \A t \in Tags : wValue'[t] = wValue[t]
  BY <1>1, <1>2, ValuesOK DEF TypeOK
<1> QED
  BY <1>2, <1>3, <1>4, ReturnKeeps

\* A slice that a tag is given is that of a service that succeeded.
LEMMA ReadReturnsKeeps ==
    ASSUME Inv, NEW u \in Users, ReadReturns(u)
    PROVE  Inv'
<1>1. TypeOK /\ InCall
  BY DEF Inv
<1>2. /\ Unlock(u) /\ me' = [me EXCEPT ![u] = IdleUser]
      /\ me[u].pc = "answered" /\ me[u].op \in {"TagRead", "GroupRead"}
      /\ UNCHANGED <<instanceID, members, wValue, changed, buffer, device, unsure,
                     panicked, calls>>
  BY DEF ReadReturns, Unlock, At
<1>3. me[u].op # "GroupWrite"
  BY <1>2
<1>4. NoLostUpdate'
  BY <1>2, <1>3, QuietStep
<1>5. \A i \in Parsed(u) : ValueOK(Payload(u, i))
  <2>1. Parsed(u) \subseteq DOMAIN me[u].list
    BY <1>1, <1>2 DEF Parsed, InCall, LocalsAt
  <2>2. \A i \in Parsed(u) : /\ i \in DOMAIN Layout(u, me[u].ok)
                             /\ Layout(u, me[u].ok)[i]
    BY <2>1 DEF Layout, Parsed
  <2> QED
    BY <2>2, CopyOrSlice DEF Payload, ValueOK
<1>6. ASSUME NEW t \in Tags PROVE ValueOK(value'[t])
  <2>1. value'[t] = IF \E i \in Parsed(u) : me[u].list[i].tag = t
                    THEN LET i == CHOOSE i \in Parsed(u) : me[u].list[i].tag = t
                         IN  IF Bytes(Payload(u, i)) # Shown(t) THEN Payload(u, i)
                             ELSE value[t]
                    ELSE value[t]
    BY DEF ReadReturns
  <2>2. ValueOK(value[t])
    BY <1>1, ValuesOK
  <2>3. CASE \E i \in Parsed(u) : me[u].list[i].tag = t
    <3> DEFINE i == CHOOSE i \in Parsed(u) : me[u].list[i].tag = t
    <3>1. i \in Parsed(u)
      BY <2>3
    <3>2. value'[t] \in {Payload(u, i), value[t]}
      BY <2>1, <2>3
    <3> HIDE DEF i
    <3> QED
      BY <1>5, <2>2, <3>1, <3>2
  <2> QED
    BY <2>1, <2>2, <2>3
<1>7. /\ wValue' \in [Tags -> Values \cup {NoValue}] /\ changed' \in [Tags -> BOOLEAN]
      /\ unsure' \subseteq Tags /\ unsure \subseteq unsure'
      /\ \A t \in Tags : wValue'[t] = wValue[t]
  BY <1>1, <1>2 DEF TypeOK
<1> QED
  BY <1>2, <1>4, <1>6, <1>7, ReturnKeeps

\* What Commit makes of the types.
LEMMA CommitTypes ==
    ASSUME TypeOK, NEW ts, Commit(ts)
    PROVE  /\ \A t \in Tags : ValueOK(value'[t])
           /\ wValue' \in [Tags -> Values \cup {NoValue}]
<1>1. ASSUME NEW t \in Tags PROVE ValueOK(value'[t])
  <2>1. ValueOK(value[t]) /\ wValue[t] \in Values \cup {NoValue}
    BY ValuesOK DEF TypeOK
  <2>2. ValueOK(Copy(wValue[t]))
    BY <2>1, CopyOrSlice DEF ValueOK
  <2> QED
    BY <2>1, <2>2, CommitOf
<1>2. wValue' \in [Tags -> Values \cup {NoValue}]
  BY DEF TypeOK, Commit
<1> QED
  BY <1>1, <1>2

LEMMA TagWriteReturnsKeeps ==
    ASSUME Inv, NEW u \in Users, TagWriteReturns(u)
    PROVE  Inv'
<1>1. TypeOK /\ InCall /\ HoldsTaken
  BY DEF Inv
<1>2. /\ Unlock(u) /\ me' = [me EXCEPT ![u] = IdleUser]
      /\ me[u].pc = "answered" /\ me[u].op = "TagWrite"
      /\ Commit(Sent(u)) \/ UNCHANGED <<value, wValue>>
      /\ unsure' \subseteq unsure \cup Sent(u) /\ unsure \subseteq unsure'
      /\ UNCHANGED <<instanceID, members, changed, buffer, device, panicked, calls>>
  BY DEF TagWriteReturns, Unlock, At
<1>3. /\ \A t \in Tags : ValueOK(value'[t])
      /\ wValue' \in [Tags -> Values \cup {NoValue}] /\ changed' \in [Tags -> BOOLEAN]
      /\ unsure' \subseteq Tags
  <2>1. changed' \in [Tags -> BOOLEAN] /\ unsure' \subseteq Tags
    BY <1>1, <1>2, LocalTypes DEF TypeOK
  <2>2. CASE Commit(Sent(u))
    BY <1>1, <2>1, <2>2, CommitTypes
  <2>3. CASE UNCHANGED <<value, wValue>>
    BY <1>1, <2>1, <2>3, ValuesOK DEF TypeOK
  <2> QED
    BY <1>2, <2>2, <2>3
<1>4. \A t \in Tags : \/ wValue'[t] = wValue[t]
                      \/ wValue'[t] = NoValue /\ t \in Sent(u)
  BY <1>2, CommitOf
<1>5. \A t \in Tags : tagLock[t] \in Users \ {u} => wValue'[t] = wValue[t]
  BY <1>2, <1>4, AnsweredHoldsAll
<1>6. NoLostUpdate'
  BY <1>2, <1>4, LosesNothing
<1> QED
  BY <1>2, <1>3, <1>5, <1>6, ReturnKeeps

\* A group's Write that does not commit marks again what it took the mark off, or has
\* not looked at the answer.
LEMMA GroupWriteReturnsKeeps ==
    ASSUME Inv, NEW u \in Users, GroupWriteReturns(u)
    PROVE  Inv'
<1> DEFINE ts == TagsOf(me[u].group)
<1>1. TypeOK /\ InCall /\ HoldsTaken
  BY DEF Inv
<1>2. /\ Unlock(u) /\ me' = [me EXCEPT ![u] = IdleUser]
      /\ me[u].pc = "answered" /\ me[u].op = "GroupWrite"
      /\ IF Failed(u) THEN UNCHANGED <<value, wValue>> ELSE Commit(ts)
      /\ unsure' = IF me[u].answer = "noItems" \/ me[u].group \notin Atomic
                   THEN unsure \cup Sent(u) ELSE unsure
      /\ UNCHANGED <<instanceID, members, buffer, device, panicked, calls>>
  BY DEF GroupWriteReturns, Unlock, At
<1>3. \A t \in Tags : changed'[t] = (changed[t] \/ (Restores(u) /\ t \in Sent(u)))
  BY DEF GroupWriteReturns
<1>4. changed' \in [Tags -> BOOLEAN]
  BY <1>1 DEF GroupWriteReturns, TypeOK
<1>5. Sent(u) \subseteq ts /\ (\A t \in ts : tagLock[t] = u) /\ Sent(u) \subseteq Tags
  BY <1>1, <1>2, AnsweredHoldsAll, LocalTypes DEF InCall, LocalsAt, GroupOps
<1>6. /\ \A t \in Tags : ValueOK(value'[t])
      /\ wValue' \in [Tags -> Values \cup {NoValue}]
      /\ unsure' \subseteq Tags /\ unsure \subseteq unsure'
  <2>1. unsure' \subseteq Tags /\ unsure \subseteq unsure'
    BY <1>1, <1>2, <1>5 DEF TypeOK
  <2>2. CASE Failed(u)
    BY <1>1, <1>2, <2>1, <2>2, ValuesOK DEF TypeOK
  <2>3. CASE ~Failed(u)
    BY <1>1, <1>2, <2>1, <2>3, CommitTypes
  <2> QED
    BY <2>2, <2>3
<1> HIDE DEF ts
<1>7. \A t \in Tags : tagLock[t] \in Users \ {u} => wValue'[t] = wValue[t]
  <2>1. CASE Failed(u)
    BY <1>2, <2>1
  <2>2. CASE ~Failed(u)
    BY <1>2, <1>5, <2>2, CommitOf
  <2> QED
    BY <2>1, <2>2
<1>8. NoLostUpdate'
  <2>1. ASSUME NEW t \in Tags \ unsure', wValue'[t] # NoValue, ~changed'[t]
        PROVE  wValue'[t] = wValue[t] /\ ~changed[t] /\ t \notin Sent(u)
    <3>1. ~changed[t] /\ (Restores(u) => t \notin Sent(u))
      BY <1>3, <2>1
    <3>2. wValue'[t] = wValue[t] /\ (~Failed(u) => t \notin ts)
      <4>1. CASE Failed(u)
        BY <1>2, <4>1
      <4>2. CASE ~Failed(u)
        BY <1>2, <2>1, <4>2, CommitOf
      <4> QED
        BY <4>1, <4>2
    <3>3. me[u].group \notin Atomic => t \notin Sent(u)
      BY <1>2, <2>1
    <3> QED
      BY <1>5, <3>1, <3>2, <3>3 DEF Restores
  <2> QED
    BY <1>2, <1>6, <2>1, LosesNothing
<1> QED
  BY <1>2, <1>4, <1>6, <1>7, <1>8, ReturnKeeps

BufferOK ==
    /\ buffer.vals \in Seq(Values \cup {Junk})
    /\ buffer.layout \in Seq(BOOLEAN)
    /\ Len(buffer.vals) = Len(buffer.layout)

\* An exchange leaves its answer with the call, which sends what it had before.
LEMMA ExchangedKeeps ==
    ASSUME Inv, NEW u \in Users, NEW ok \in SUBSET DOMAIN me[u].list,
           NEW answer \in {"reply", "error", "noItems"}, Exchanged(u, ok, answer),
           BufferOK', device' \in [Tags -> Values]
    PROVE  Inv'
<1> DEFINE local == [me[u] EXCEPT !.pc = "answered", !.ok = ok, !.answer = answer]
<1>1. TypeOK /\ InCall /\ HoldsTaken
  BY DEF Inv
<1>2. /\ me' = [me EXCEPT ![u] = local] /\ me[u].pc = "tags" /\ me[u].todo = {}
      /\ UNCHANGED <<instanceID, members, value, wValue, changed, tagLock, groupLock,
                     unsure, panicked, calls>>
  BY DEF Exchanged, At, tags, locks
<1>3. me[u] \in Locals /\ LocalsAt(u) /\ ok \subseteq Nat
  BY <1>1, LocalTypes, LenProperties DEF InCall
<1>4. /\ local \in Locals /\ local.pc = "answered" /\ local.ok = ok
      /\ local.answer # "none"
      /\ local.op = me[u].op /\ local.group = me[u].group
      /\ local.todo = {} /\ local.list = me[u].list
  BY <1>2, <1>3 DEF Locals
<1> HIDE DEF local
<1>5. me'[u] = local /\ \A g : TagsOf(g)' = TagsOf(g)
  BY <1>1, <1>2, OthersKeep
<1>6. TypeOK'
  <2>1. me' \in [Users -> Locals]
    BY <1>1, <1>2, <1>4 DEF TypeOK
  <2> QED
    BY <1>1, <1>2, <2>1 DEF TypeOK, IsCopy, BufferOK
<1>7. Sent(u)' = Sent(u) /\ Taken(u)' = Taken(u) /\ (IsWrite(u)' = IsWrite(u))
  BY <1>2, <1>4, <1>5 DEF Sent, Taken, IsWrite
<1>8. LocalsAt(u)'
  BY <1>2, <1>3, <1>4, <1>5, <1>7 DEF LocalsAt
<1>9. InCall' /\ HoldsTaken'
  BY <1>1, <1>2, <1>7, <1>8, KeepsCalls DEF HoldsTaken
<1>10. NoLostUpdate'
  BY <1>2, <1>4, QuietStep
<1>11. ASSUME ~RacingSetters PROVE SendsPending(u)'
  <2>1. SendsPending(u)
    BY <1>11 DEF Inv
  <2> QED
    BY <1>2, <1>4, <1>5, <1>7, <2>1 DEF SendsPending
<1>12. ~RacingSetters => \A v \in Users : SendsPending(v)'
  BY <1>2, <1>11, KeepsPending
<1> QED
  BY <1>6, <1>9, <1>10, <1>12 DEF Inv

LEMMA ReadExchangeKeeps ==
    ASSUME Inv, NEW u \in Users, NEW ok \in SUBSET DOMAIN me[u].list, ReadExchange(u, ok)
    PROVE  Inv'
<1> DEFINE vals == [i \in DOMAIN me[u].list |->
                      IF i \in ok THEN device[me[u].list[i].tag] ELSE Junk]
<1>1. TypeOK /\ device' = device
  BY DEF Inv, ReadExchange
<1>2. \/ buffer' = buffer
      \/ buffer' = [layout |-> Layout(u, ok), vals |-> vals]
  BY DEF ReadExchange
<1>3. /\ Len(me[u].list) \in Nat /\ DOMAIN me[u].list = 1 .. Len(me[u].list)
      /\ \A i \in DOMAIN me[u].list : me[u].list[i].tag \in Tags
  BY <1>1, LocalTypes, LenProperties
<1>4. Layout(u, ok) \in Seq(BOOLEAN) /\ Len(Layout(u, ok)) = Len(me[u].list)
  <2>1. Layout(u, ok) = [i \in 1 .. Len(me[u].list) |-> i \in ok]
    BY <1>3 DEF Layout
  <2> QED
    BY <1>3, <2>1
<1>5. vals \in Seq(Values \cup {Junk}) /\ Len(vals) = Len(me[u].list)
  <2>1. vals \in [1 .. Len(me[u].list) -> Values \cup {Junk}]
    BY <1>1, <1>3 DEF TypeOK
  <2> HIDE DEF vals
  <2> QED
    BY <1>3, <2>1
<1> HIDE DEF vals
<1>6. BufferOK'
  <2>1. CASE buffer' = buffer
    BY <1>1, <2>1 DEF TypeOK, BufferOK
  <2>2. CASE buffer' = [layout |-> Layout(u, ok), vals |-> vals]
    BY <1>4, <1>5, <2>2 DEF BufferOK
  <2> QED
    BY <1>2, <2>1, <2>2
<1>7. Exchanged(u, ok, "reply") /\ device' \in [Tags -> Values]
  BY <1>1 DEF ReadExchange, TypeOK
<1> QED
  BY <1>6, <1>7, ExchangedKeeps

LEMMA WriteExchangeKeeps ==
    ASSUME Inv, NEW u \in Users, NEW ok \in SUBSET DOMAIN me[u].list, WriteExchange(u, ok)
    PROVE  Inv'
<1>1. TypeOK
  BY DEF Inv
<1>2. \E answer \in {"reply", "error"} : Exchanged(u, ok, answer)
  BY DEF WriteExchange
<1>3. \/ buffer' = buffer
      \/ buffer' = [layout |-> << >>, vals |-> << >>]
  BY DEF WriteExchange
<1>4. BufferOK'
  <2>1. CASE buffer' = buffer
    BY <1>1, <2>1 DEF TypeOK, BufferOK
  <2>2. CASE buffer' = [layout |-> << >>, vals |-> << >>]
    BY <2>2 DEF BufferOK
  <2> QED
    BY <1>3, <2>1, <2>2
<1>5. \A i \in ok : me[u].list[i].val \in Values
  <2>1. \A i \in ok : me[u].list[i].val # NoValue
    BY DEF WriteExchange
  <2>2. \A i \in DOMAIN me[u].list : me[u].list[i].val \in Values \cup {NoValue}
    BY <1>1, LocalTypes
  <2> QED
    BY <2>1, <2>2
<1>6. ASSUME NEW t \in Tags
      PROVE  (IF \E i \in ok : me[u].list[i].tag = t
              THEN me[u].list[CHOOSE i \in ok : me[u].list[i].tag = t].val
              ELSE device[t]) \in Values
  BY <1>1, <1>5 DEF TypeOK
<1>7. device' \in [Tags -> Values]
  BY <1>6 DEF WriteExchange
<1> QED
  BY <1>2, <1>4, <1>7, ExchangedKeeps

LEMMA ExchangeKeeps ==
    ASSUME Inv, NEW u \in Users, Exchange(u)
    PROVE  Inv'
<1>1. CASE \E ok \in SUBSET DOMAIN me[u].list : ReadExchange(u, ok) \/ WriteExchange(u, ok)
  BY <1>1, ReadExchangeKeeps, WriteExchangeKeeps
<1>2. CASE NoExchange(u)
  <2>1. /\ \E answer \in {"error", "noItems"} : Exchanged(u, {}, answer)
        /\ UNCHANGED <<buffer, device>>
    BY <1>2 DEF NoExchange
  <2>2. BufferOK' /\ device' \in [Tags -> Values]
    BY <2>1 DEF Inv, TypeOK, BufferOK
  <2> QED
    BY <2>1, <2>2, ExchangedKeeps
<1> QED
  BY <1>1, <1>2 DEF Exchange

LEMMA GroupReadPanicsKeeps ==
    ASSUME Inv, NEW u \in Users, GroupReadPanics(u)
    PROVE  Inv'
<1>1. TypeOK /\ InCall /\ HoldsTaken /\ NoLostUpdate
  BY DEF Inv
<1>2. /\ panicked' = TRUE
      /\ UNCHANGED <<instanceID, members, value, wValue, changed, tagLock, groupLock,
                     buffer, me, device, unsure, calls>>
  BY DEF GroupReadPanics, tags, locks
<1>3. TypeOK'
  BY <1>1, <1>2 DEF TypeOK, IsCopy
<1>4. \A v \in Users : /\ Sent(v)' = Sent(v) /\ Taken(v)' = Taken(v)
                       /\ LocalsAt(v)' = LocalsAt(v)
  BY <1>2 DEF Sent, Taken, TagsOf, LocalsAt
<1>5. InCall' /\ HoldsTaken'
  BY <1>1, <1>2, <1>4 DEF InCall, HoldsTaken
<1>6. NoLostUpdate'
  BY <1>1, <1>2 DEF NoLostUpdate, OnItsWay
<1>7. ~RacingSetters => \A v \in Users : SendsPending(v)'
  BY <1>2, <1>4 DEF Inv, SendsPending, IsWrite
<1> QED
  BY <1>3, <1>5, <1>6, <1>7 DEF Inv

-----------------------------------------------------------------------------
(* The theorems.                                                           *)

LEMMA InvNext ==
    ASSUME Inv, [Next]_vars
    PROVE  Inv'
<1>1. ASSUME NEW u \in Users, Call(u) \/ Take(u) \/ Proceed(u)
      PROVE  Inv'
  <2>1. CASE Call(u)
    BY <2>1, CallKeeps
  <2>2. CASE Take(u)
    BY <2>2, LockGroupKeeps, LockTagKeeps DEF Take
  <2>3. CASE Proceed(u)
    BY <2>3, NothingToDoKeeps, ExchangeKeeps, ReadReturnsKeeps, GroupReadPanicsKeeps,
       TagWriteReturnsKeeps, GroupWriteReturnsKeeps DEF Proceed
  <2> QED
    BY <1>1, <2>1, <2>2, <2>3
<1>2. CASE UNCHANGED vars
  BY <1>2, StutterKeeps
<1> QED
  BY <1>1, <1>2, AddKeeps, RemoveKeeps, SetKeeps DEF Next, Stopped

\* The inductive invariant of the tags: types, where each call is and which tags it
\* holds, that nothing pending is forgotten, and what a Write sends.
THEOREM TagsInvHolds == Spec => []Inv
<1>1. Init => Inv
  BY InitHolds
<1>2. Inv /\ [Next]_vars => Inv'
  BY InvNext
<1> QED
  BY <1>1, <1>2, PTL DEF Spec

\* Every variable keeps its type: a value is a copy, or a slice at the place of a service
\* that succeeded.
THEOREM TagsTypes == Spec => []TypeOK
  BY TagsInvHolds, PTL DEF Inv

\* A pending value is marked as changed or on its way to the device, until a Write whose
\* answer the code does not look at, also with setters that run during a call.
THEOREM PendingIsMarked == Spec => []NoLostUpdate
  BY TagsInvHolds, PTL DEF Inv

\* What a step does to the value of a tag that stays sure.
LEMMA CommitsStep ==
    ASSUME Inv, ~RacingSetters, [Next]_vars, NEW t \in Tags \ unsure',
           value'[t] # value[t], IsCopy(value'[t])
    PROVE  \E u \in Users : \E i \in me[u].ok :
              me[u].list[i] = [tag |-> t, val |-> value'[t].own]
<1>1. TypeOK /\ InCall /\ HoldsTaken /\ NoLostUpdate /\ \A u \in Users : SendsPending(u)
  BY DEF Inv
<1>2. ASSUME NEW u \in Users, ReadReturns(u) PROVE FALSE
  <2>1. value'[t] = IF \E i \in Parsed(u) : me[u].list[i].tag = t
                    THEN LET i == CHOOSE i \in Parsed(u) : me[u].list[i].tag = t
                         IN  IF Bytes(Payload(u, i)) # Shown(t) THEN Payload(u, i)
                             ELSE value[t]
                    ELSE value[t]
    BY <1>2 DEF ReadReturns
  <2>2. \A i : ~IsCopy(Payload(u, i))
    BY CopyOrSlice DEF Payload
  <2> QED
    BY <2>1, <2>2
<1>3. ASSUME NEW u \in Users, NEW ts, Commit(ts), t \in ts => t \in Sent(u),
             IsWrite(u), me[u].ok = DOMAIN me[u].list
      PROVE  \E i \in me[u].ok : me[u].list[i] = [tag |-> t, val |-> value'[t].own]
  <2>1. t \in ts /\ value'[t].own = wValue[t]
    BY <1>3, CommitOf, CopyOrSlice
  <2>2. PICK i \in DOMAIN me[u].list : me[u].list[i].tag = t
    BY <1>3, <2>1 DEF Sent
  <2>3. me[u].list[i].val = wValue[t]
    BY <1>1, <1>3, <2>2 DEF SendsPending
  <2>4. me[u].list[i] \in [tag : Tags, val : Values \cup {NoValue}]
    BY <1>1, <2>2, LocalTypes
  <2>5. me[u].list[i] = [tag |-> t, val |-> value'[t].own]
    BY <2>1, <2>2, <2>3, <2>4
  <2> QED
    BY <1>3, <2>5
<1>4. ASSUME NEW u \in Users, TagWriteReturns(u)
      PROVE  \E i \in me[u].ok : me[u].list[i] = [tag |-> t, val |-> value'[t].own]
  <2>1. IsWrite(u)
    BY <1>4 DEF TagWriteReturns, IsWrite
  <2>2. Commit(Sent(u))
    BY <1>4 DEF TagWriteReturns
  <2>3. t \in Sent(u)
    BY <2>2, CommitOf
  <2>4. me[u].answer # "noItems"
    BY <1>4, <2>3 DEF TagWriteReturns
  <2>5. AllOk(u)
    BY <1>4, <2>4 DEF TagWriteReturns
  <2> QED
    BY <1>3, <2>1, <2>2, <2>5 DEF AllOk
<1>5. ASSUME NEW u \in Users, GroupWriteReturns(u)
      PROVE  \E i \in me[u].ok : me[u].list[i] = [tag |-> t, val |-> value'[t].own]
  <2>1. me[u].pc = "answered" /\ me[u].op = "GroupWrite" /\ IsWrite(u)
    BY <1>5 DEF GroupWriteReturns, At, IsWrite
  <2>2. ~Failed(u) /\ Commit(TagsOf(me[u].group))
    BY <1>5 DEF GroupWriteReturns
  <2>3. t \in TagsOf(me[u].group) /\ wValue[t] # NoValue
    BY <2>2, CommitOf
  <2>4. t \notin unsure /\ Taken(u) = TagsOf(me[u].group)
    BY <1>5, <2>1, AnsweredHoldsAll DEF GroupWriteReturns, GroupOps
  <2>5. t \in Sent(u)
    BY <1>1, <2>1, <2>3, <2>4 DEF SendsPending
  <2>6. me[u].answer # "noItems" /\ me[u].group \in Atomic
    BY <1>5, <2>5 DEF GroupWriteReturns
  <2>7. me[u].answer = "reply"
    <3>1. me[u].answer # "none"
      BY <1>1, <2>1 DEF InCall, LocalsAt
    <3> QED
      BY <1>1, <2>2, <2>6, <3>1, LocalTypes DEF Failed, Locals
  <2>8. AllOk(u)
    BY <2>2, <2>6, <2>7 DEF Failed
  <2> QED
    BY <1>3, <2>1, <2>2, <2>5, <2>8 DEF AllOk
<1>6. CASE UNCHANGED value
  BY <1>6
<1>7. CASE \E u \in Users : Proceed(u)
  <2>1. PICK u \in Users : Proceed(u)
    BY <1>7
  <2>2. CASE NothingToDo(u) \/ Exchange(u) \/ GroupReadPanics(u)
    BY <1>6, <2>2 DEF NothingToDo, Exchange, ReadExchange, WriteExchange, NoExchange,
                      Exchanged, GroupReadPanics, tags
  <2> QED
    BY <1>2, <1>4, <1>5, <2>1, <2>2 DEF Proceed
<1>8. CASE \E u \in Users : Call(u) \/ Take(u)
  BY <1>6, <1>8 DEF Call, TagCall, GroupCall, Begin, Take, LockGroup, LockTag, tags
<1> QED
  BY <1>6, <1>7, <1>8 DEF Next, Add, Remove, Set, Stopped, vars, tags

\* Without setters that run during a call, a value is committed only when the device
\* accepted that value in that call.
THEOREM CommitsWereAccepted ==
    ASSUME ~RacingSetters
    PROVE  Spec => CommitsAccepted
<1>1. Inv /\ [Next]_vars =>
        [\A t \in Tags \ unsure' :
            value'[t] # value[t] /\ IsCopy(value'[t]) =>
               \E u \in Users : \E i \in me[u].ok :
                  me[u].list[i] = [tag |-> t, val |-> value'[t].own]]_vars
  BY CommitsStep
<1> QED
  BY <1>1, TagsInvHolds, PTL DEF Spec, CommitsAccepted

-----------------------------------------------------------------------------
(* A call holds no tag but its own.                                        *)

\* What a step of one user leaves of the others.
LEMMA OwnKept ==
    ASSUME Inv, HoldsNoOther, NEW u \in Users, NEW local, me' = [me EXCEPT ![u] = local],
           members' = members, HoldsOwn(u)',
           \A t \in Tags : tagLock'[t] \in Users \ {u} => tagLock[t] = tagLock'[t]
    PROVE  HoldsNoOther'
<1>1. ASSUME NEW v \in Users \ {u} PROVE HoldsOwn(v)'
  <2>1. /\ me'[v] = me[v] /\ Sent(v)' = Sent(v) /\ \A g : TagsOf(g)' = TagsOf(g)
    BY OthersKeep DEF Inv
  <2>2. HoldsOwn(v)
    BY DEF HoldsNoOther
  <2> QED
    BY <2>1, <2>2 DEF HoldsOwn, OwnTags
<1> QED
  BY <1>1 DEF HoldsNoOther

LEMMA CallOwns ==
    ASSUME Inv, HoldsNoOther, NEW u \in Users, Call(u)
    PROVE  HoldsNoOther'
<1>1. ASSUME NEW local, Begin(u, local), \A s, t \in local.todo : s = t,
             local.pc # "answered", local.list = << >>
      PROVE  HoldsNoOther'
  <2>1. /\ me' = [me EXCEPT ![u] = local] /\ me[u].pc = "idle"
        /\ members' = members /\ tagLock' = tagLock
    BY <1>1 DEF Begin, At, locks
  <2>2. me'[u] = local
    BY <2>1 DEF Inv, TypeOK
  <2>3. \A t \in Tags : tagLock'[t] # u
    BY <2>1 DEF HoldsNoOther, HoldsOwn, OwnTags
  <2>4. HoldsOwn(u)'
    BY <1>1, <2>2, <2>3 DEF HoldsOwn, OwnTags
  <2> QED
    BY <2>1, <2>4, OwnKept
<1>2. ASSUME NEW t \in Tags, NEW op, TagCall(u, op, t) PROVE HoldsNoOther'
  BY <1>1, <1>2 DEF TagCall, IdleUser
<1>3. ASSUME NEW g \in Groups, NEW op, GroupCall(u, op, g) PROVE HoldsNoOther'
  BY <1>1, <1>3 DEF GroupCall, IdleUser
<1> QED
  BY <1>2, <1>3 DEF Call

LEMMA LockGroupOwns ==
    ASSUME Inv, HoldsNoOther, NEW u \in Users, LockGroup(u)
    PROVE  HoldsNoOther'
<1> DEFINE local == [me[u] EXCEPT !.pc = "tags", !.todo = TagsOf(me[u].group)]
<1>1. /\ me' = [me EXCEPT ![u] = local] /\ me[u].pc = "group"
      /\ members' = members /\ tagLock' = tagLock
  BY DEF LockGroup, At
<1>2. me[u] \in Locals /\ LocalsAt(u)
  BY LocalTypes DEF Inv, InCall
<1>3. local.pc = "tags" /\ local.op \in GroupOps
  BY <1>1, <1>2 DEF Locals, LocalsAt
<1> HIDE DEF local
<1>4. me'[u] = local
  BY <1>1 DEF Inv, TypeOK
<1>5. \A t \in Tags : tagLock'[t] # u
  BY <1>1 DEF HoldsNoOther, HoldsOwn, OwnTags
<1>6. HoldsOwn(u)'
  BY <1>3, <1>4, <1>5 DEF HoldsOwn, OwnTags
<1> QED
  BY <1>1, <1>6, OwnKept

LEMMA LockTagOwns ==
    ASSUME Inv, HoldsNoOther, NEW u \in Users, NEW t \in Tags, LockTag(u, t)
    PROVE  HoldsNoOther'
<1> DEFINE entry == [tag |-> t, val |-> IF IsWrite(u) THEN wValue[t] ELSE NoValue]
           skip == \/ me[u].op = "GroupWrite" /\ ~changed[t]
                   \/ me[u].op = "TagWrite" /\ wValue[t] = NoValue
           list == IF skip THEN me[u].list ELSE Append(me[u].list, entry)
           local == [me[u] EXCEPT !.todo = me[u].todo \ {t}, !.list = list]
<1>1. /\ me' = [me EXCEPT ![u] = local] /\ members' = members
  BY DEF LockTag
<1>2. /\ me[u].pc = "tags" /\ t \in me[u].todo
      /\ tagLock[t] = None /\ tagLock' = [tagLock EXCEPT ![t] = u]
  BY DEF LockTag, At
<1>3. me[u] \in Locals /\ LocalsAt(u) /\ HoldsOwn(u)
  BY LocalTypes DEF Inv, InCall, HoldsNoOther
<1>4. /\ local.pc = "tags" /\ local.op = me[u].op /\ local.group = me[u].group
      /\ local.todo = me[u].todo \ {t} /\ local.list = list
  BY <1>2, <1>3 DEF Locals
<1>5. me[u].list = << >> => \A i \in DOMAIN list : list[i].tag = t
  <2>1. ASSUME me[u].list = << >> PROVE list = << >> \/ list = <<entry>>
    BY <2>1
  <2>2. entry.tag = t
    OBVIOUS
  <2> HIDE DEF entry, list
  <2> QED
    BY <2>1, <2>2
<1> HIDE DEF list, local
<1>6. me'[u] = local /\ \A g : TagsOf(g)' = TagsOf(g)
  BY <1>1, OthersKeep DEF Inv
<1>7. \A s \in Tags : tagLock'[s] = IF s = t THEN u ELSE tagLock[s]
  BY <1>2 DEF Inv, TypeOK
<1>8. CASE me[u].op \in GroupOps
  <2>1. t \in TagsOf(me[u].group)
    BY <1>2, <1>3, <1>8 DEF LocalsAt
  <2> QED
    <3>1. HoldsOwn(u)'
      BY <1>3, <1>4, <1>6, <1>7, <1>8, <2>1 DEF HoldsOwn, OwnTags
    <3> QED
      BY <1>1, <1>7, <3>1, OwnKept
<1>9. CASE me[u].op \notin GroupOps
  <2>1. me[u].list = << >> /\ local.todo = {}
    BY <1>2, <1>3, <1>4, <1>9 DEF HoldsOwn
  <2>2. \A s \in Tags : tagLock[s] # u
    BY <1>2, <1>3, <1>9 DEF HoldsOwn, OwnTags
  <2>3. Sent(u)' \subseteq {t}
    BY <1>4, <1>5, <1>6, <2>1 DEF Sent
  <2>4. HoldsOwn(u)'
    BY <1>4, <1>6, <1>7, <1>9, <2>1, <2>2, <2>3 DEF HoldsOwn, OwnTags
  <2> QED
    BY <1>1, <1>7, <2>4, OwnKept
<1> QED
  BY <1>8, <1>9

\* A call that returns holds nothing.
LEMMA UnlockOwns ==
    ASSUME Inv, HoldsNoOther, NEW u \in Users, Unlock(u), members' = members
    PROVE  HoldsNoOther'
<1>1. /\ me' = [me EXCEPT ![u] = IdleUser]
      /\ \A t \in Tags : tagLock'[t] = IF tagLock[t] = u THEN None ELSE tagLock[t]
  BY DEF Unlock
<1>2. \A t \in Tags : tagLock'[t] # u
  BY <1>1, TagsAssumption
<1>3. /\ IdleUser.pc = "idle" /\ IdleUser.list = << >> /\ IdleUser.todo = {}
  BY DEF IdleUser
<1>4. me'[u] = IdleUser
  BY <1>1 DEF Inv, TypeOK
<1>5. HoldsOwn(u)'
  BY <1>2, <1>3, <1>4 DEF HoldsOwn, OwnTags
<1> QED
  BY <1>1, <1>5, TagsAssumption, OwnKept

LEMMA ExchangedOwns ==
    ASSUME Inv, HoldsNoOther, NEW u \in Users, NEW ok, NEW answer, Exchanged(u, ok, answer)
    PROVE  HoldsNoOther'
<1> DEFINE local == [me[u] EXCEPT !.pc = "answered", !.ok = ok, !.answer = answer]
<1>1. /\ me' = [me EXCEPT ![u] = local] /\ me[u].pc = "tags" /\ me[u].list # << >>
      /\ me[u].todo = {} /\ members' = members /\ tagLock' = tagLock
  BY DEF Exchanged, At, locks
<1>2. me[u] \in Locals /\ HoldsOwn(u)
  BY LocalTypes DEF Inv, HoldsNoOther
<1>3. /\ local.pc = "answered" /\ local.op = me[u].op /\ local.group = me[u].group
      /\ local.todo = {} /\ local.list = me[u].list
  BY <1>1, <1>2 DEF Locals
<1> HIDE DEF local
<1>4. me'[u] = local /\ \A g : TagsOf(g)' = TagsOf(g)
  BY <1>1, OthersKeep DEF Inv
<1>5. Sent(u)' = Sent(u)
  BY <1>3, <1>4 DEF Sent
<1>6. HoldsOwn(u)'
  BY <1>1, <1>2, <1>3, <1>4, <1>5 DEF HoldsOwn, OwnTags
<1> QED
  BY <1>1, <1>6, OwnKept

\* The locals and the mutexes stay, and so does the group of every call.
LEMMA QuietOwns ==
    ASSUME Inv, HoldsNoOther, UNCHANGED <<me, tagLock>>,
           \A u \in Users : me[u].group \in Groups =>
                               TagsOf(me[u].group)' = TagsOf(me[u].group)
    PROVE  HoldsNoOther'
<1>1. ASSUME NEW u \in Users PROVE HoldsOwn(u)'
  <2>1. HoldsOwn(u) /\ LocalsAt(u) /\ Sent(u)' = Sent(u) /\ me'[u] = me[u]
    BY DEF HoldsNoOther, Inv, InCall, Sent
  <2> QED
    BY <2>1 DEF HoldsOwn, OwnTags, LocalsAt
<1> QED
  BY <1>1 DEF HoldsNoOther

LEMMA MembersOwn ==
    ASSUME Inv, HoldsNoOther, NEW g \in Groups, NEW t \in Tags, Add(g, t) \/ Remove(g, t)
    PROVE  HoldsNoOther'
<1>1. ~InUse(g) /\ UNCHANGED <<me, tagLock>>
  BY DEF Add, Remove, locks
<1>2. \A h \in Groups \ {g} : members'[h] = members[h]
  BY DEF Add, Remove, Inv, TypeOK
<1>3. \A h \in Groups \ {g} : TagsOf(h)' = TagsOf(h)
  BY <1>2 DEF TagsOf
<1>4. \A u \in Users : me[u].group # g
  BY <1>1 DEF InUse
<1> QED
  BY <1>1, <1>3, <1>4, QuietOwns

LEMMA OwnNext ==
    ASSUME Inv, HoldsNoOther, [Next]_vars
    PROVE  HoldsNoOther'
<1>1. ASSUME UNCHANGED <<me, tagLock, members>> PROVE HoldsNoOther'
  <2>1. \A g : TagsOf(g)' = TagsOf(g)
    BY <1>1 DEF TagsOf
  <2> QED
    BY <1>1, <2>1, QuietOwns
<1>2. ASSUME NEW u \in Users, Proceed(u) PROVE HoldsNoOther'
  <2>1. CASE Exchange(u)
    BY <2>1, ExchangedOwns DEF Exchange, ReadExchange, WriteExchange, NoExchange
  <2>2. CASE GroupReadPanics(u)
    BY <1>1, <2>2 DEF GroupReadPanics, locks
  <2>3. CASE NothingToDo(u) \/ ReadReturns(u) \/ TagWriteReturns(u) \/ GroupWriteReturns(u)
    <3>1. Unlock(u) /\ members' = members
      BY <2>3 DEF NothingToDo, ReadReturns, TagWriteReturns, GroupWriteReturns
    <3> QED
      BY <3>1, UnlockOwns
  <2> QED
    BY <1>2, <2>1, <2>2, <2>3 DEF Proceed
<1>3. ASSUME NEW u \in Users, Call(u) \/ Take(u) PROVE HoldsNoOther'
  BY <1>3, CallOwns, LockGroupOwns, LockTagOwns DEF Take
<1>4. ASSUME NEW t \in Tags, NEW v \in Values, Set(t, v) PROVE HoldsNoOther'
  BY <1>1, <1>4 DEF Set, locks
<1>5. CASE UNCHANGED vars
  BY <1>1, <1>5 DEF vars, locks
<1> QED
  BY <1>2, <1>3, <1>4, <1>5, MembersOwn DEF Next, Stopped

-----------------------------------------------------------------------------
(* The tags agree with the device on what is written: every step of Tags   *)
(* is one of WriteAgreement, or changes nothing there.                     *)

LEMMA WrittenOf ==
    /\ Written = [t \in Tags |-> Written[t]]
    /\ \A t \in Tags : Written[t] = IF IsCopy(value[t]) THEN value[t].own ELSE NoValue
  BY DEF Written

\* What the device has accepted in a call was sent in it, and its tags are held.
LEMMA AcceptedHeld ==
    ASSUME Inv, NEW u \in Users
    PROVE  /\ AcceptedIn(u) \subseteq Sent(u) \cap Tags
           /\ \A t \in AcceptedIn(u) : tagLock[t] = u
<1>1. AcceptedIn(u) \subseteq Sent(u)
  BY DEF AcceptedIn, Sent, Inv, InCall, LocalsAt
<1>2. Sent(u) \subseteq Tags
  BY LocalTypes DEF Inv
<1> QED
  BY <1>1, <1>2 DEF Inv, HoldsTaken, Taken

LEMMA AcceptedOfOthers ==
    ASSUME Inv, NEW u \in Users, NEW local, me' = [me EXCEPT ![u] = local]
    PROVE  /\ me'[u] = local
           /\ \A v \in Users \ {u} : AcceptedIn(v)' = AcceptedIn(v)
<1>1. me'[u] = local /\ \A v \in Users \ {u} : me'[v] = me[v]
  BY DEF Inv, TypeOK
<1> QED
  BY <1>1 DEF AcceptedIn, IsWrite

\* Nothing is accepted before a call has its answer, and nothing is left when it returns.
LEMMA AcceptedSame ==
    ASSUME Inv, NEW u \in Users, NEW local, me' = [me EXCEPT ![u] = local],
           me[u].pc # "answered", local.pc # "answered"
    PROVE  Accepted' = Accepted
<1>1. AcceptedIn(u) = {} /\ AcceptedIn(u)' = {}
  BY AcceptedOfOthers DEF AcceptedIn
<1>2. \A v \in Users : AcceptedIn(v)' = AcceptedIn(v)
  BY <1>1, AcceptedOfOthers
<1> QED
  BY <1>2 DEF Accepted

LEMMA AcceptedReleased ==
    ASSUME Inv, NEW u \in Users, Unlock(u)
    PROVE  Accepted' = Accepted \ Agreement!Held(u)
<1>1. me' = [me EXCEPT ![u] = IdleUser] /\ IdleUser.pc # "answered"
  BY DEF Unlock, IdleUser
<1>2. AcceptedIn(u)' = {} /\ \A v \in Users \ {u} : AcceptedIn(v)' = AcceptedIn(v)
  BY <1>1, AcceptedOfOthers DEF AcceptedIn
<1>3. AcceptedIn(u) \subseteq Agreement!Held(u)
  BY AcceptedHeld DEF Agreement!Held
<1>4. \A v \in Users \ {u} : AcceptedIn(v) \cap Agreement!Held(u) = {}
  BY AcceptedHeld DEF Agreement!Held
<1> QED
  BY <1>2, <1>3, <1>4 DEF Accepted

\* A return releases the tags of its call, as far as what it does to unsure allows.
LEMMA UnlockReleases ==
    ASSUME Inv, NEW u \in Users, Unlock(u), device' = device,
           unsure \subseteq unsure', unsure' \subseteq unsure \cup Sent(u)
    PROVE  Agreement!Release(u)
<1>1. tagLock' = [t \in Tags |-> IF t \in Agreement!Held(u) THEN None ELSE tagLock[t]]
  BY DEF Unlock, Agreement!Held
<1>2. Sent(u) \subseteq Agreement!Held(u)
  BY LocalTypes DEF Inv, HoldsTaken, Taken, Agreement!Held
<1> QED
  BY <1>1, <1>2, AcceptedReleased DEF Agreement!Release

\* A return that changes no value, with or without its tags becoming unsure.
LEMMA ReturnAgrees ==
    ASSUME Inv, NEW u \in Users, Agreement!Release(u), UNCHANGED <<value, wValue>>
    PROVE  Agreement!Next
<1>1. Written' = [t \in Tags |-> IF t \in {} THEN NoValue ELSE Written[t]]
  BY DEF Written, IsCopy
<1>2. Agreement!Return(u, {})
  BY <1>1 DEF Agreement!Return
<1> QED
  BY <1>2 DEF Agreement!Next

\* A return that commits the values of the tags of its call.
LEMMA CommitAgrees ==
    ASSUME Inv, NEW u \in Users, Agreement!Release(u), NEW ts, Commit(ts),
           Agreement!ToWrite(u) \subseteq ts,
           \A t \in ts \cap Tags : tagLock[t] = u,
           Agreement!ToWrite(u) \subseteq Accepted \cup unsure'
    PROVE  Agreement!Next
<1>1. \A t \in Tags : t \in Agreement!ToWrite(u) <=> t \in ts /\ wValue[t] # NoValue
  BY DEF Agreement!ToWrite, Agreement!Held
<1>2. \A t \in Tags :
         /\ wValue'[t] = IF t \in Agreement!ToWrite(u) THEN NoValue ELSE wValue[t]
         /\ value'[t] = IF t \in Agreement!ToWrite(u) THEN Copy(wValue[t]) ELSE value[t]
  BY <1>1, CommitOf
<1>3. wValue' = [t \in Tags |-> IF t \in Agreement!ToWrite(u) THEN NoValue ELSE wValue[t]]
  <2>1. wValue' = [t \in Tags |-> wValue'[t]]
    BY DEF Commit
  <2> QED
    BY <1>2, <2>1
<1>4. Written' = [t \in Tags |-> IF t \in Agreement!ToWrite(u) THEN wValue[t] ELSE Written[t]]
  <2>1. Written' = [t \in Tags |-> IF IsCopy(value'[t]) THEN value'[t].own ELSE NoValue]
    BY DEF Written, IsCopy
  <2>2. \A t \in Tags : (IF IsCopy(value'[t]) THEN value'[t].own ELSE NoValue)
                         = IF t \in Agreement!ToWrite(u) THEN wValue[t] ELSE Written[t]
    BY <1>2, CopyOrSlice, WrittenOf
  <2> QED
    BY <2>1, <2>2
<1>5. Agreement!Commit(u)
  BY <1>3, <1>4 DEF Agreement!Commit
<1> QED
  BY <1>5 DEF Agreement!Next

\* The device takes what is pending with the tags it takes.
LEMMA WriteAgrees ==
    ASSUME Inv, ~RacingSetters, NEW u \in Users, NEW ok \in SUBSET DOMAIN me[u].list,
           WriteExchange(u, ok)
    PROVE  Agreement!Next
<1> DEFINE ts == {me[u].list[i].tag : i \in ok}
<1>1. PICK answer : Exchanged(u, ok, answer)
  BY DEF WriteExchange
<1> DEFINE local == [me[u] EXCEPT !.pc = "answered", !.ok = ok, !.answer = answer]
<1>2. /\ me' = [me EXCEPT ![u] = local] /\ me[u].pc = "tags" /\ IsWrite(u)
      /\ UNCHANGED <<value, wValue, tagLock, unsure>>
  BY <1>1 DEF Exchanged, At, tags, locks, WriteExchange
<1>3. TypeOK /\ HoldsTaken /\ SendsPending(u) /\ me[u] \in Locals
  BY LocalTypes DEF Inv
<1>4. local.pc = "answered" /\ local.ok = ok /\ local.op = me[u].op /\ local.list = me[u].list
  BY <1>3 DEF Locals
<1> HIDE DEF local
<1>5. AcceptedIn(u) = {} /\ AcceptedIn(u)' = ts
  <2>1. me'[u] = local
    BY <1>2, AcceptedOfOthers
  <2> QED
    BY <1>2, <1>4, <2>1 DEF AcceptedIn, IsWrite
<1>6. \A v \in Users \ {u} : AcceptedIn(v)' = AcceptedIn(v)
  BY <1>2, AcceptedOfOthers
<1>7. Accepted' = Accepted \cup ts
  BY <1>5, <1>6 DEF Accepted
<1>8. Agreement!Held(u) \cap Accepted = {}
  BY <1>5, AcceptedHeld DEF Accepted, Agreement!Held
<1>9. \A i \in ok :
         /\ me[u].list[i].tag \in Agreement!ToWrite(u)
         /\ me[u].list[i].val = wValue[me[u].list[i].tag]
  <2>1. ASSUME NEW i \in ok
        PROVE  /\ me[u].list[i].val = wValue[me[u].list[i].tag]
               /\ me[u].list[i].val # NoValue
               /\ me[u].list[i].tag \in Tags /\ me[u].list[i].tag \in Taken(u)
    BY <1>2, <1>3, LocalTypes DEF SendsPending, WriteExchange, Taken, Sent
  <2> QED
    BY <1>3, <2>1 DEF HoldsTaken, Agreement!ToWrite, Agreement!Held
<1>10. device' = [t \in Tags |-> IF t \in ts THEN wValue[t] ELSE device[t]]
  <2>1. ASSUME NEW t \in Tags
        PROVE  (IF \E i \in ok : me[u].list[i].tag = t
                THEN me[u].list[CHOOSE i \in ok : me[u].list[i].tag = t].val
                ELSE device[t]) = IF t \in ts THEN wValue[t] ELSE device[t]
    <3>1. CASE \E i \in ok : me[u].list[i].tag = t
      <4> DEFINE j == CHOOSE i \in ok : me[u].list[i].tag = t
      <4>1. j \in ok /\ me[u].list[j].tag = t
        BY <3>1
      <4> HIDE DEF j
      <4>2. me[u].list[j].val = wValue[t] /\ t \in ts
        BY <1>9, <4>1
      <4> QED
        BY <3>1, <4>2 DEF j
    <3>2. CASE ~\E i \in ok : me[u].list[i].tag = t
      BY <3>2
    <3> QED
      BY <3>1, <3>2
  <2> HIDE DEF ts
  <2> QED
    BY <2>1 DEF WriteExchange
<1>11. ts \in SUBSET Agreement!ToWrite(u)
  BY <1>9
<1>12. Written' = Written
  BY <1>2 DEF Written, IsCopy
<1> HIDE DEF ts
<1>13. Agreement!Accept(u, ts)
  BY <1>2, <1>7, <1>8, <1>10, <1>12 DEF Agreement!Accept
<1> QED
  BY <1>11, <1>13 DEF Agreement!Next

\* A read forgets the values its tags were written.
LEMMA ReadAgrees ==
    ASSUME Inv, NEW u \in Users, ReadReturns(u)
    PROVE  Agreement!Next
<1> DEFINE ts == {t \in Tags : value'[t] # value[t]}
<1>1. /\ Unlock(u) /\ UNCHANGED <<wValue, device, unsure>>
      /\ me[u].pc = "answered"
  BY DEF ReadReturns, At
<1>2. ASSUME NEW t \in ts
      PROVE  ~IsCopy(value'[t]) /\ t \in Agreement!Held(u)
  <2>1. value'[t] = IF \E i \in Parsed(u) : me[u].list[i].tag = t
                    THEN LET i == CHOOSE i \in Parsed(u) : me[u].list[i].tag = t
                         IN  IF Bytes(Payload(u, i)) # Shown(t) THEN Payload(u, i)
                             ELSE value[t]
                    ELSE value[t]
    BY DEF ReadReturns
  <2>2. \E i \in Parsed(u) : me[u].list[i].tag = t /\ value'[t] = Payload(u, i)
    <3>1. CASE \E i \in Parsed(u) : me[u].list[i].tag = t
      <4> DEFINE j == CHOOSE i \in Parsed(u) : me[u].list[i].tag = t
      <4>1. j \in Parsed(u) /\ me[u].list[j].tag = t
        BY <3>1
      <4>2. value'[t] \in {Payload(u, j), value[t]}
        BY <2>1, <3>1
      <4> HIDE DEF j
      <4> QED
        BY <1>2, <4>1, <4>2
    <3>2. CASE ~\E i \in Parsed(u) : me[u].list[i].tag = t
      BY <1>2, <2>1, <3>2
    <3> QED
      BY <3>1, <3>2
  <2>3. t \in Sent(u)
    BY <1>1, <2>2 DEF Parsed, Sent, Inv, InCall, LocalsAt
  <2> QED
    BY <2>2, <2>3, CopyOrSlice DEF Payload, Inv, HoldsTaken, Taken, Agreement!Held
<1>3. Agreement!Release(u)
  BY <1>1, UnlockReleases
<1>4. Written' = [t \in Tags |-> IF t \in ts THEN NoValue ELSE Written[t]]
  <2>1. Written' = [t \in Tags |-> IF IsCopy(value'[t]) THEN value'[t].own ELSE NoValue]
    BY DEF Written, IsCopy
  <2>2. ASSUME NEW t \in Tags
        PROVE  (IF IsCopy(value'[t]) THEN value'[t].own ELSE NoValue)
               = IF t \in ts THEN NoValue ELSE Written[t]
    <3>1. CASE t \in ts
      BY <1>2, <3>1
    <3>2. CASE t \notin ts
      BY <3>2, WrittenOf
    <3> QED
      BY <3>1, <3>2
  <2> HIDE DEF ts
  <2> QED
    BY <2>1, <2>2
<1>5. ts \in SUBSET Agreement!Held(u)
  BY <1>2
<1> HIDE DEF ts
<1>6. Agreement!Return(u, ts)
  BY <1>1, <1>3, <1>4 DEF Agreement!Return
<1> QED
  BY <1>5, <1>6 DEF Agreement!Next

\* A Write that looked at the answer of the device has seen every value accepted.
LEMMA AllAccepted ==
    ASSUME Inv, NEW u \in Users, me[u].pc = "answered", IsWrite(u), AllOk(u)
    PROVE  Sent(u) \subseteq Accepted
BY DEF AllOk, Sent, Accepted, AcceptedIn

LEMMA TagWriteAgrees ==
    ASSUME Inv, HoldsNoOther, NEW u \in Users, TagWriteReturns(u)
    PROVE  Agreement!Next
<1>1. /\ Unlock(u) /\ device' = device /\ me[u].pc = "answered" /\ me[u].op = "TagWrite"
      /\ IsWrite(u)
  BY DEF TagWriteReturns, At, IsWrite
<1>2. unsure' = IF me[u].answer = "noItems" THEN unsure \cup Sent(u) ELSE unsure
  BY DEF TagWriteReturns
<1>3. Agreement!Release(u)
  BY <1>1, <1>2, UnlockReleases
<1>4. CASE UNCHANGED <<value, wValue>>
  BY <1>3, <1>4, ReturnAgrees
<1>5. CASE /\ me[u].answer = "noItems" \/ (me[u].answer = "reply" /\ AllOk(u))
           /\ Commit(Sent(u))
  <2>1. me[u].list # << >> /\ OwnTags(u)
    BY <1>1 DEF HoldsNoOther, HoldsOwn
  <2>2. Sent(u) # {}
    <3>1. me[u].list \in Seq([tag : Tags, val : Values \cup {NoValue}])
      BY LocalTypes DEF Inv
    <3>2. 1 \in DOMAIN me[u].list
      BY <2>1, <3>1, EmptySeq, LenProperties
    <3> QED
      BY <3>2 DEF Sent
  <2>3. Agreement!ToWrite(u) \subseteq Sent(u)
    BY <1>1, <2>1, <2>2 DEF OwnTags, GroupOps, Agreement!ToWrite, Agreement!Held
  <2>4. \A t \in Sent(u) \cap Tags : tagLock[t] = u
    BY DEF Inv, HoldsTaken, Taken
  <2>5. Sent(u) \subseteq Accepted \cup unsure'
    BY <1>1, <1>2, <1>5, AllAccepted
  <2> QED
    BY <1>3, <1>5, <2>3, <2>4, <2>5, CommitAgrees
<1> QED
  BY <1>4, <1>5 DEF TagWriteReturns

LEMMA GroupWriteAgrees ==
    ASSUME Inv, HoldsNoOther, ~RacingSetters, NEW u \in Users, GroupWriteReturns(u)
    PROVE  Agreement!Next
<1> DEFINE ts == TagsOf(me[u].group)
<1>1. /\ Unlock(u) /\ device' = device /\ me[u].pc = "answered" /\ me[u].op = "GroupWrite"
      /\ IsWrite(u)
  BY DEF GroupWriteReturns, At, IsWrite
<1>2. unsure' = IF me[u].answer = "noItems" \/ me[u].group \notin Atomic
                THEN unsure \cup Sent(u) ELSE unsure
  BY DEF GroupWriteReturns
<1>3. Agreement!Release(u)
  BY <1>1, <1>2, UnlockReleases
<1>4. CASE Failed(u)
  BY <1>3, <1>4, ReturnAgrees DEF GroupWriteReturns
<1>5. CASE ~Failed(u)
  <2>1. Commit(ts)
    BY <1>5 DEF GroupWriteReturns
  <2>2. Taken(u) = ts /\ \A t \in ts : tagLock[t] = u
    BY <1>1, AnsweredHoldsAll DEF GroupOps
  <2>3. Agreement!ToWrite(u) \subseteq ts
    BY <1>1 DEF HoldsNoOther, HoldsOwn, OwnTags, GroupOps, Agreement!ToWrite, Agreement!Held
  <2>4. \A t \in ts : wValue[t] # NoValue => t \in Sent(u) \cup unsure
    BY <1>1, <2>2 DEF Inv, SendsPending
  <2>5. Sent(u) \subseteq Accepted \cup unsure'
    <3>1. CASE me[u].answer = "noItems" \/ me[u].group \notin Atomic
      BY <1>2, <3>1
    <3>2. CASE me[u].answer # "noItems" /\ me[u].group \in Atomic
      <4>1. me[u].answer # "none" /\ me[u].answer # "error"
        BY <1>1, <1>5 DEF Inv, InCall, LocalsAt, Failed
      <4>2. me[u].answer = "reply"
        BY <3>2, <4>1, LocalTypes DEF Inv, Locals
      <4>3. AllOk(u)
        BY <1>5, <3>2, <4>2 DEF Failed
      <4> QED
        BY <1>1, <4>3, AllAccepted
    <3> QED
      BY <3>1, <3>2
  <2>6. Agreement!ToWrite(u) \subseteq Sent(u) \cup unsure
    BY <2>3, <2>4 DEF Agreement!ToWrite
  <2>7. unsure \subseteq unsure'
    BY <1>2
  <2> HIDE DEF ts
  <2> QED
    BY <1>3, <2>1, <2>2, <2>3, <2>5, <2>6, <2>7, CommitAgrees
<1> QED
  BY <1>4, <1>5

\* A tag is set while nobody holds it, and taken by one user.
LEMMA SetAgrees ==
    ASSUME ~RacingSetters, NEW t \in Tags, NEW v \in Values, Set(t, v)
    PROVE  Agreement!Next
<1>1. UNCHANGED <<value, me, device, tagLock, unsure>> /\ tagLock[t] = None
  BY DEF Set, locks
<1>2. Written' = Written /\ Accepted' = Accepted
  BY <1>1 DEF Written, IsCopy, Accepted, AcceptedIn, IsWrite
<1>3. Agreement!Set(t, v)
  BY <1>1, <1>2 DEF Set, Agreement!Set
<1> QED
  BY <1>3 DEF Agreement!Next

LEMMA LockTagAgrees ==
    ASSUME Inv, NEW u \in Users, NEW t \in Tags, LockTag(u, t)
    PROVE  Agreement!Next
<1>1. PICK todo, list : me' = [me EXCEPT ![u] = [me[u] EXCEPT !.todo = todo, !.list = list]]
  BY DEF LockTag
<1>2. /\ me[u].pc = "tags" /\ tagLock[t] = None /\ tagLock' = [tagLock EXCEPT ![t] = u]
      /\ UNCHANGED <<value, wValue, device, unsure>>
  BY DEF LockTag, At
<1>3. [me[u] EXCEPT !.todo = todo, !.list = list].pc = "tags"
  BY <1>2, LocalTypes DEF Inv, Locals
<1>4. Accepted' = Accepted
  BY <1>1, <1>2, <1>3, AcceptedSame
<1>5. Written' = Written
  BY <1>2 DEF Written, IsCopy
<1>6. Agreement!Hold(u, t)
  BY <1>2, <1>4, <1>5 DEF Agreement!Hold
<1> QED
  BY <1>6 DEF Agreement!Next

\* Steps that the device and the values written know nothing of.
LEMMA QuietAgrees ==
    ASSUME UNCHANGED <<value, wValue, tagLock, device, unsure>>, Accepted' = Accepted
    PROVE  UNCHANGED Agreement!vars
BY DEF Agreement!vars, Written, IsCopy

LEMMA IdleAgrees ==
    ASSUME UNCHANGED <<value, wValue, tagLock, device, unsure, me>>
    PROVE  UNCHANGED Agreement!vars
<1>1. \A u \in Users : AcceptedIn(u)' = AcceptedIn(u)
  BY DEF AcceptedIn, IsWrite
<1> QED
  BY <1>1, QuietAgrees DEF Accepted

LEMMA CallAgrees ==
    ASSUME Inv, NEW u \in Users, Call(u) \/ LockGroup(u)
    PROVE  UNCHANGED Agreement!vars
<1>1. ASSUME NEW local, me' = [me EXCEPT ![u] = local], me[u].pc # "answered",
             local.pc # "answered", UNCHANGED <<value, wValue, tagLock, device, unsure>>
      PROVE  UNCHANGED Agreement!vars
  BY <1>1, AcceptedSame, QuietAgrees
<1>2. CASE Call(u)
  <2>1. ASSUME NEW local, Begin(u, local), local.pc # "answered"
        PROVE  UNCHANGED Agreement!vars
    BY <1>1, <2>1 DEF Begin, At, tags, locks
  <2> QED
    BY <1>2, <2>1 DEF Call, TagCall, GroupCall, IdleUser
<1>3. CASE LockGroup(u)
  <2> DEFINE local == [me[u] EXCEPT !.pc = "tags", !.todo = TagsOf(me[u].group)]
  <2>1. /\ me' = [me EXCEPT ![u] = local] /\ me[u].pc = "group"
        /\ UNCHANGED <<value, wValue, tagLock, device, unsure>>
    BY <1>3 DEF LockGroup, At, tags
  <2>2. local.pc = "tags"
    BY LocalTypes DEF Inv, Locals
  <2> HIDE DEF local
  <2> QED
    BY <1>1, <2>1, <2>2
<1> QED
  BY <1>2, <1>3

\* An exchange in which the device accepts no value.
LEMMA ExchangeAgrees ==
    ASSUME Inv, NEW u \in Users, NEW ok, NEW answer, Exchanged(u, ok, answer),
           device' = device, ~IsWrite(u) \/ ok = {}
    PROVE  UNCHANGED Agreement!vars
<1> DEFINE local == [me[u] EXCEPT !.pc = "answered", !.ok = ok, !.answer = answer]
<1>1. /\ me' = [me EXCEPT ![u] = local] /\ me[u].pc = "tags"
      /\ UNCHANGED <<value, wValue, tagLock, unsure>>
  BY DEF Exchanged, At, tags, locks
<1>2. local.op = me[u].op /\ local.ok = ok
  BY LocalTypes DEF Inv, Locals
<1> HIDE DEF local
<1>3. me'[u] = local /\ \A v \in Users \ {u} : AcceptedIn(v)' = AcceptedIn(v)
  BY <1>1, AcceptedOfOthers
<1>4. AcceptedIn(u) = {} /\ AcceptedIn(u)' = {}
  BY <1>1, <1>2, <1>3 DEF AcceptedIn, IsWrite
<1>5. Accepted' = Accepted
  <2>1. \A v \in Users : AcceptedIn(v)' = AcceptedIn(v)
    BY <1>3, <1>4
  <2> QED
    BY <2>1 DEF Accepted
<1> QED
  BY <1>1, <1>5, QuietAgrees

LEMMA StepAgrees ==
    ASSUME Inv, HoldsNoOther, ~RacingSetters, [Next]_vars
    PROVE  [Agreement!Next]_(Agreement!vars)
<1>1. ASSUME NEW u \in Users, Exchange(u) PROVE [Agreement!Next]_(Agreement!vars)
  <2>1. CASE \E ok \in SUBSET DOMAIN me[u].list : ReadExchange(u, ok)
    BY <2>1, ExchangeAgrees DEF ReadExchange
  <2>2. CASE \E ok \in SUBSET DOMAIN me[u].list : WriteExchange(u, ok)
    BY <2>2, WriteAgrees
  <2>3. CASE NoExchange(u)
    BY <2>3, ExchangeAgrees DEF NoExchange
  <2> QED
    BY <1>1, <2>1, <2>2, <2>3 DEF Exchange
<1>2. ASSUME NEW u \in Users, NothingToDo(u) PROVE Agreement!Next
  <2>1. Unlock(u) /\ UNCHANGED <<value, wValue, device, unsure>>
    BY <1>2 DEF NothingToDo, tags
  <2> QED
    BY <2>1, UnlockReleases, ReturnAgrees
<1>3. ASSUME NEW u \in Users, GroupReadPanics(u) PROVE UNCHANGED Agreement!vars
  BY <1>3, IdleAgrees DEF GroupReadPanics, tags, locks
<1>4. ASSUME NEW u \in Users, Proceed(u) PROVE [Agreement!Next]_(Agreement!vars)
  BY <1>1, <1>2, <1>3, <1>4, ReadAgrees, TagWriteAgrees, GroupWriteAgrees DEF Proceed
<1>5. ASSUME NEW u \in Users, Take(u) PROVE [Agreement!Next]_(Agreement!vars)
  BY <1>5, CallAgrees, LockTagAgrees DEF Take
<1>6. ASSUME NEW g \in Groups, NEW t \in Tags, Add(g, t) \/ Remove(g, t)
      PROVE  UNCHANGED Agreement!vars
  BY <1>6, IdleAgrees DEF Add, Remove, tags, locks
<1>7. CASE UNCHANGED vars
  BY <1>7, IdleAgrees DEF vars, tags, locks
<1> QED
  BY <1>4, <1>5, <1>6, <1>7, CallAgrees, SetAgrees DEF Next, Stopped

LEMMA InitAgrees ==
    ASSUME Init
    PROVE  HoldsNoOther /\ Agreement!Init
<1>1. \A u \in Users : /\ me[u] = IdleUser /\ \A t \in Tags : tagLock[t] # u
  BY TagsAssumption DEF Init
<1>2. HoldsNoOther
  BY <1>1 DEF HoldsNoOther, HoldsOwn, OwnTags, IdleUser
<1>3. Written = [t \in Tags |-> NoValue]
  BY CopyOrSlice DEF Init, Written
<1>4. Accepted = {}
  BY <1>1 DEF Accepted, AcceptedIn, IdleUser
<1> QED
  BY <1>2, <1>3, <1>4 DEF Init, Agreement!Init

\* The agreement keeps what its invariants say.
LEMMA AgreedNext ==
    ASSUME Inv, Agreement!TakenIsPending, Agreement!Agreed,
           [Agreement!Next]_(Agreement!vars)
    PROVE  Agreement!TakenIsPending' /\ Agreement!Agreed'
<1>1. TypeOK /\ Accepted \subseteq Tags
  BY AcceptedHeld DEF Inv, Accepted
<1>2. /\ wValue \in [Tags -> Values \cup {NoValue}]
      /\ tagLock \in [Tags -> Users \cup {None}]
      /\ device \in [Tags -> Values]
      /\ Written = [t \in Tags |-> Written[t]]
  BY <1>1, WrittenOf DEF TypeOK
<1>3. ASSUME NEW t \in Tags, NEW v \in Values, Agreement!Set(t, v)
      PROVE  Agreement!TakenIsPending' /\ Agreement!Agreed'
  <2>1. t \notin Accepted /\ v # NoValue
    BY <1>3, TagsAssumption DEF Agreement!Set, Agreement!TakenIsPending
  <2>2. /\ UNCHANGED <<Written, device, tagLock, Accepted, unsure>>
        /\ \A s \in Tags : wValue'[s] = IF s = t THEN v ELSE wValue[s]
    BY <1>2, <1>3 DEF Agreement!Set
  <2> QED
    BY <1>1, <2>1, <2>2 DEF Agreement!TakenIsPending, Agreement!Agreed
<1>4. ASSUME NEW c \in Users, NEW t \in Tags, Agreement!Hold(c, t)
      PROVE  Agreement!TakenIsPending' /\ Agreement!Agreed'
  <2>1. /\ UNCHANGED <<Written, wValue, device, Accepted, unsure>>
        /\ \A s \in Tags : tagLock'[s] = IF s = t THEN c ELSE tagLock[s]
    BY <1>2, <1>4 DEF Agreement!Hold
  <2> QED
    BY <1>1, <2>1, TagsAssumption DEF Agreement!TakenIsPending, Agreement!Agreed
<1>5. ASSUME NEW c \in Users, NEW ts \in SUBSET Agreement!ToWrite(c), Agreement!Accept(c, ts)
      PROVE  Agreement!TakenIsPending' /\ Agreement!Agreed'
  <2>1. /\ UNCHANGED <<Written, wValue, tagLock, unsure>> /\ Accepted' = Accepted \cup ts
        /\ \A s \in Tags : device'[s] = IF s \in ts THEN wValue[s] ELSE device[s]
    BY <1>5 DEF Agreement!Accept
  <2>2. \A s \in ts : s \in Tags /\ tagLock[s] = c /\ wValue[s] # NoValue
    BY DEF Agreement!ToWrite, Agreement!Held
  <2> QED
    BY <1>1, <2>1, <2>2, TagsAssumption DEF Agreement!TakenIsPending, Agreement!Agreed
<1>6. ASSUME NEW c \in Users, Agreement!Release(c)
      PROVE  /\ Accepted' \subseteq Accepted /\ unsure \subseteq unsure' /\ device' = device
             /\ \A s \in Accepted' : s \notin Agreement!Held(c) /\ tagLock'[s] = tagLock[s]
  BY <1>1, <1>6 DEF Agreement!Release
<1>7. ASSUME NEW c \in Users, Agreement!Commit(c)
      PROVE  Agreement!TakenIsPending' /\ Agreement!Agreed'
  <2> DEFINE done == Agreement!ToWrite(c)
  <2>1. Agreement!Release(c) /\ done \subseteq Accepted \cup unsure'
    BY <1>7 DEF Agreement!Commit
  <2>2. \A s \in Tags : /\ wValue'[s] = IF s \in done THEN NoValue ELSE wValue[s]
                        /\ Written'[s] = IF s \in done THEN wValue[s] ELSE Written[s]
    BY <1>7 DEF Agreement!Commit
  <2>3. \A s \in done : s \in Agreement!Held(c)
    BY DEF Agreement!ToWrite
  <2> HIDE DEF done
  <2>4. Agreement!TakenIsPending'
    BY <1>1, <1>6, <2>1, <2>2, <2>3 DEF Agreement!TakenIsPending
  <2>5. Agreement!Agreed'
    BY <1>1, <1>6, <2>1, <2>2 DEF Agreement!TakenIsPending, Agreement!Agreed
  <2> QED
    BY <2>4, <2>5
<1>8. ASSUME NEW c \in Users, NEW ts \in SUBSET Agreement!Held(c), Agreement!Return(c, ts)
      PROVE  Agreement!TakenIsPending' /\ Agreement!Agreed'
  <2>1. Agreement!Release(c) /\ wValue' = wValue
    BY <1>8 DEF Agreement!Return
  <2>2. \A s \in Tags : Written'[s] = IF s \in ts THEN NoValue ELSE Written[s]
    BY <1>8 DEF Agreement!Return
  <2> QED
    BY <1>1, <1>6, <2>1, <2>2 DEF Agreement!TakenIsPending, Agreement!Agreed
<1>9. CASE UNCHANGED Agreement!vars
  BY <1>9 DEF Agreement!vars, Agreement!TakenIsPending, Agreement!Agreed
<1> QED
  BY <1>3, <1>4, <1>5, <1>7, <1>8, <1>9 DEF Agreement!Next

\* What relates the tags and the device: the invariants of both, without setters that run
\* during a call.
AgreementInv == Inv /\ HoldsNoOther /\ Agreement!TakenIsPending /\ Agreement!Agreed

LEMMA AgreementInvInit ==
    ASSUME Init
    PROVE  AgreementInv
<1>1. Agreement!TakenIsPending /\ Agreement!Agreed
  BY InitAgrees DEF Agreement!Init, Agreement!TakenIsPending, Agreement!Agreed
<1> QED
  BY <1>1, InitHolds, InitAgrees DEF AgreementInv

LEMMA AgreementInvNext ==
    ASSUME AgreementInv, ~RacingSetters, [Next]_vars
    PROVE  AgreementInv'
BY InvNext, OwnNext, StepAgrees, AgreedNext DEF AgreementInv

\* Without setters that run during a call, the tags and the device agree on what is written:
\* the device takes only what is pending with the call that sends it, and the call commits
\* everything pending with its tags, if the device took it or the code did not look, or nothing.
THEOREM TagsAgree ==
    ASSUME ~RacingSetters
    PROVE  Spec => WritesAgree
<1>1. Init => AgreementInv /\ Agreement!Init
  BY AgreementInvInit, InitAgrees
<1>2. AgreementInv /\ [Next]_vars => AgreementInv'
  BY AgreementInvNext
<1>3. AgreementInv /\ [Next]_vars => [Agreement!Next]_(Agreement!vars)
  BY StepAgrees DEF AgreementInv
<1> QED
  BY <1>1, <1>2, <1>3, PTL DEF Spec, WritesAgree, Agreement!Spec

\* A tag with nothing pending that shows what it was written shows what the device has, also
\* after a Write that failed once the device had taken some of its values.
THEOREM WrittenIsOnDevice ==
    ASSUME ~RacingSetters
    PROVE  Spec => []WrittenIsDevices
<1>1. Init => AgreementInv
  BY AgreementInvInit
<1>2. AgreementInv /\ [Next]_vars => AgreementInv'
  BY AgreementInvNext
<1>3. AgreementInv => WrittenIsDevices
  BY DEF AgreementInv, WrittenIsDevices
<1> QED
  BY <1>1, <1>2, <1>3, PTL DEF Spec
=============================================================================
