------------------------------- MODULE Enumeration ------------------------------
(***************************************************************************)
(* AllTags (tag.go:721-772): pages of entries, each request asking for the *)
(* instances from the one after the last entry read.  The device answers   *)
(* with status 6 while more instances follow.                              *)
(***************************************************************************)
EXTENDS Wire, TLC
LOCAL INSTANCE SequencesExt

CONSTANTS
    Symbols,        \* the tags a device may have: id above 0, name and type of each
    PageSize        \* entries in an answer, at least one

VARIABLES
    symbols,        \* device: its tags
    pc,
    instanceID,     \* the argument of allTags, then the instance last read
    io1,            \* the reader of the current page
    status,         \* mrres.GeneralStatus
    tagMap,
    turn            \* history: parity of the loop's turns, so that each is a step

vars == <<symbols, pc, instanceID, io1, status, tagMap, turn>>

-----------------------------------------------------------------------------
(* The device: external.                                                   *)

From(id) == SetToSortSeq({s \in symbols : s.id >= id}, LAMBDA a, b : a.id < b.id)

EntryBytes(s) ==
    U32(s.id) \o U16(Len(s.name)) \o s.name \o U16(s.type) \o U32(0) \o U32(0) \o U32(0)

Page(id) ==
    LET page == SubSeq(From(id), 1, IF Len(From(id)) < PageSize THEN Len(From(id)) ELSE PageSize)
    IN  Concat([i \in DOMAIN page |-> EntryBytes(page[i])])

-----------------------------------------------------------------------------
Request ==
    /\ pc = "request"
    /\ pc' = "entries"
    /\ io1' = Reader(Page(instanceID))
    /\ status' = IF Len(From(instanceID)) > PageSize THEN 6 ELSE 0
    /\ UNCHANGED <<symbols, instanceID, tagMap, turn>>

RequestFails ==
    /\ pc = "request"
    /\ pc' = "failed"
    /\ UNCHANGED <<symbols, instanceID, io1, status, tagMap, turn>>

\* RL of something that is no pointer: an error, and nothing is read.
NoPointer(r) == [r EXCEPT !.err = TRUE]

\* One turn of the loop.  RL is given the slice of the name, not its address.
Entry ==
    /\ pc = "entries"
    /\ Left(io1) > 0
    /\ LET length == After(io1, 4)
           name   == NoPointer(After(length, 2))
           dims   == After(name, 2)
           zeros  == [i \in 1 .. NumberAt(length, 2) |-> 0]
       IN  /\ tagMap' = (zeros :> [id |-> NumberAt(io1, 4), type |-> NumberAt(name, 2)])
                            @@ tagMap
           /\ instanceID' = NumberAt(io1, 4)
           /\ io1' = After(After(After(dims, 4), 4), 4)
    /\ turn' = 1 - turn
    /\ UNCHANGED <<symbols, pc, status>>

NextPage ==
    /\ pc = "entries"
    /\ Left(io1) = 0 /\ status = 6
    /\ pc' = "request"
    /\ instanceID' = instanceID + 1
    /\ UNCHANGED <<symbols, io1, status, tagMap, turn>>

Return ==
    /\ pc = "entries"
    /\ Left(io1) = 0 /\ status # 6
    /\ pc' = "done"
    /\ UNCHANGED <<symbols, instanceID, io1, status, tagMap, turn>>

Over == pc \in {"done", "failed"}
Finished == Over /\ UNCHANGED vars

Init ==
    /\ symbols \in SUBSET Symbols
    /\ pc = "request"
    /\ instanceID = 0
    /\ io1 = Reader(<< >>)
    /\ status = 0
    /\ tagMap = << >>
    /\ turn = 0

Next == Request \/ RequestFails \/ Entry \/ NextPage \/ Return \/ Finished

\* One goroutine, whose Send returns.
FairSpec == Init /\ [][Next]_vars /\ WF_vars(Next)

-----------------------------------------------------------------------------
\* README.md:1020: AllTags returns the tags of the device, or an error.
AllTagsReturns == <>Over
=============================================================================
