----------------------------- MODULE RequestServer -----------------------------
(***************************************************************************)
(* What a connection promises the goroutines that share it, without        *)
(* sockets, reconnections and registrations: requests are served one at a  *)
(* time; a request is sent at most twice, and not at all before its turn;  *)
(* its caller is given one outcome, an error or the answer to that very    *)
(* request.                                                                *)
(*                                                                         *)
(* An answer is the wrong one only while the connection is not to be       *)
(* trusted: from a request that was given up until the connection is       *)
(* renewed.                                                                *)
(***************************************************************************)
EXTENDS Naturals

CONSTANTS Callers, Nobody

VARIABLES
    next,       \* the last context that was given to a request
    asked,      \* the context of the request of each caller, 0 without
    serving,    \* the caller whose request is served, or Nobody
    sent,       \* how often it was sent
    outcome,    \* what became of it
    given,      \* the outcome each caller has, until it is done with it
    trusted     \* no answer to an earlier request is still to come

vars == <<next, asked, serving, sent, outcome, given, trusted>>

NoOutcome == [is |-> "none", ctx |-> 0]
Failed == [is |-> "error", ctx |-> 0]
Answer(ctx) == [is |-> "answer", ctx |-> ctx]

Init ==
    /\ next = 0
    /\ asked = [c \in Callers |-> 0]
    /\ serving = Nobody
    /\ sent = 0
    /\ outcome = NoOutcome
    /\ given = [c \in Callers |-> NoOutcome]
    /\ trusted = TRUE

\* The connection is renewed, or not.
MayRenew == trusted' \in {trusted, TRUE}

Ask(c) ==
    /\ asked[c] = 0
    /\ next' = next + 1
    /\ asked' = [asked EXCEPT ![c] = next']
    /\ MayRenew
    /\ UNCHANGED <<serving, sent, outcome, given>>

\* The connection makes a request of its own.
Register ==
    /\ next' = next + 1
    /\ MayRenew
    /\ UNCHANGED <<asked, serving, sent, outcome, given>>

Renew ==
    /\ MayRenew
    /\ UNCHANGED <<next, asked, serving, sent, outcome, given>>

Serve(c) ==
    /\ serving = Nobody
    /\ asked[c] # 0 /\ given[c] = NoOutcome
    /\ serving' = c
    /\ UNCHANGED <<next, asked, sent, outcome, given, trusted>>

Served == serving # Nobody /\ outcome = NoOutcome

Send ==
    /\ Served
    /\ sent < 2
    /\ sent' = sent + 1
    /\ UNCHANGED <<next, asked, serving, outcome, given, trusted>>

Succeed ==
    /\ Served
    /\ sent > 0
    /\ outcome' = Answer(outcome'.ctx)
    /\ trusted => outcome'.ctx = asked[serving]
    /\ sent' = 0
    /\ UNCHANGED <<next, asked, serving, given, trusted>>

GiveUp ==
    /\ Served
    /\ outcome' = Failed
    /\ sent' = 0
    /\ trusted' \in {trusted, FALSE}
    /\ UNCHANGED <<next, asked, serving, given>>

Return(c) ==
    /\ serving = c
    /\ outcome # NoOutcome
    /\ given' = [given EXCEPT ![c] = outcome]
    /\ serving' = Nobody
    /\ outcome' = NoOutcome
    /\ UNCHANGED <<next, asked, sent, trusted>>

\* The caller asks again for what was not answered as it should be.
Repeat(c) ==
    /\ given[c].is = "answer"
    /\ given' = [given EXCEPT ![c] = NoOutcome]
    /\ UNCHANGED <<next, asked, serving, sent, outcome, trusted>>

Done(c) ==
    /\ given[c] # NoOutcome
    /\ given' = [given EXCEPT ![c] = NoOutcome]
    /\ asked' = [asked EXCEPT ![c] = 0]
    /\ UNCHANGED <<next, serving, sent, outcome, trusted>>

Next ==
    \/ \E c \in Callers : Ask(c) \/ Serve(c) \/ Return(c) \/ Repeat(c) \/ Done(c)
    \/ Register \/ Renew
    \/ Send \/ Succeed \/ GiveUp

Spec == Init /\ [][Next]_vars
=============================================================================
