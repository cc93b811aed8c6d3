---------------------------- MODULE ConnectionPool ----------------------------
(***************************************************************************)
(* What a pool of connections promises its users: every connection that    *)
(* was ever opened is in exactly one place - idle in the pool, in the      *)
(* hands of one user, or closed for good - and once the pool is shut no    *)
(* connection becomes idle again.                                          *)
(***************************************************************************)
CONSTANTS Conns, Users, Fresh, Idle, Gone

\* Fresh, Idle and Gone are no users and differ from each other.
VARIABLES place, shut
vars == <<place, shut>>

Places == Users \cup {Fresh, Idle, Gone}

Init ==
    /\ place = [c \in Conns |-> Fresh]
    /\ shut = FALSE

Move(c, from, to) ==
    /\ place[c] = from
    /\ place' = [place EXCEPT ![c] = to]
    /\ UNCHANGED shut

Open(u, c) == Move(c, Fresh, u)
Take(u, c) == Move(c, Idle, u)
Release(u, c) == ~shut /\ Move(c, u, Idle)
Drop(u, c) == Move(c, u, Gone)
Shut == ~shut /\ shut' = TRUE /\ UNCHANGED place

Next ==
    \/ \E u \in Users, c \in Conns :
          Open(u, c) \/ Take(u, c) \/ Release(u, c) \/ Drop(u, c)
    \/ Shut

Spec == Init /\ [][Next]_vars
=============================================================================
