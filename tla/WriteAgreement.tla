----------------------------- MODULE WriteAgreement -----------------------------
(***************************************************************************)
(* What tags promise about the values written to them, without groups,     *)
(* marks and the read buffer: while a call holds a tag, its pending value  *)
(* stays; the device may take the pending values of the tags of one call,  *)
(* any of them, once; the call then makes all its pending values those of  *)
(* its tags, or none.                                                      *)
(*                                                                         *)
(* A tag becomes unsure when that happens without the device's word.       *)
(***************************************************************************)
CONSTANTS Tags, Callers, Values, Nothing, Nobody

VARIABLES
    pending,    \* the value to be written, or Nothing
    copy,       \* the value last written, Nothing before and once another was read
    device,     \* the value the device has
    holder,     \* the caller that holds the tag, or Nobody
    accepted,   \* the tags whose pending value the device has taken in this call
    unsure      \* the tags whose values were not taken for certain

vars == <<pending, copy, device, holder, accepted, unsure>>

Init ==
    /\ pending = [t \in Tags |-> Nothing]
    /\ copy = [t \in Tags |-> Nothing]
    /\ device \in [Tags -> Values]
    /\ holder = [t \in Tags |-> Nobody]
    /\ accepted = {}
    /\ unsure = {}

Held(c) == {t \in Tags : holder[t] = c}
ToWrite(c) == {t \in Held(c) : pending[t] # Nothing}

Set(t, v) ==
    /\ holder[t] = Nobody
    /\ pending' = [pending EXCEPT ![t] = v]
    /\ UNCHANGED <<copy, device, holder, accepted, unsure>>

Hold(c, t) ==
    /\ holder[t] = Nobody
    /\ holder' = [holder EXCEPT ![t] = c]
    /\ UNCHANGED <<pending, copy, device, accepted, unsure>>

Accept(c, ts) ==
    /\ Held(c) \cap accepted = {}
    /\ device' = [t \in Tags |-> IF t \in ts THEN pending[t] ELSE device[t]]
    /\ accepted' = accepted \cup ts
    /\ UNCHANGED <<pending, copy, holder, unsure>>

Release(c) ==
    /\ holder' = [t \in Tags |-> IF t \in Held(c) THEN Nobody ELSE holder[t]]
    /\ accepted' = accepted \ Held(c)
    /\ unsure \subseteq unsure' /\ unsure' \subseteq unsure \cup Held(c)
    /\ UNCHANGED device

Commit(c) ==
    /\ Release(c)
    /\ ToWrite(c) \subseteq accepted \cup unsure'
    /\ copy' = [t \in Tags |-> IF t \in ToWrite(c) THEN pending[t] ELSE copy[t]]
    /\ pending' = [t \in Tags |-> IF t \in ToWrite(c) THEN Nothing ELSE pending[t]]

\* The call has read the tags ts, or it has failed.
Return(c, ts) ==
    /\ Release(c)
    /\ copy' = [t \in Tags |-> IF t \in ts THEN Nothing ELSE copy[t]]
    /\ UNCHANGED pending

Next ==
    \/ \E t \in Tags, v \in Values : Set(t, v)
    \/ \E c \in Callers :
          \/ \E t \in Tags : Hold(c, t)
          \/ \E ts \in SUBSET ToWrite(c) : Accept(c, ts)
          \/ Commit(c)
          \/ \E ts \in SUBSET Held(c) : Return(c, ts)

Spec == Init /\ [][Next]_vars

-----------------------------------------------------------------------------
\* What the device has taken is what is pending still.
TakenIsPending ==
    \A t \in accepted : holder[t] # Nobody /\ pending[t] # Nothing /\ device[t] = pending[t]

\* With nothing pending, the value last written is the one the device has.
Agreed ==
    \A t \in Tags \ unsure : pending[t] = Nothing /\ copy[t] # Nothing => device[t] = copy[t]
=============================================================================
