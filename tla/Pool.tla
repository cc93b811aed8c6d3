--------------------------------- MODULE Pool ---------------------------------
(***************************************************************************)
(* EIPTCPPool (tcp_pool.go): a buffered channel of idle connections and a  *)
(* closed flag.  Get and Put read the flag under p.mu, release the mutex,  *)
(* and only then use the channel; Close sets the flag and closes the       *)
(* channel under p.mu and drains the channel after releasing it.  Each     *)
(* critical section is one step, and so is each use of the channel.        *)
(***************************************************************************)
EXTENDS Naturals, Sequences

CONSTANTS
    Goroutines,
    Conns,          \* bound: the connections the factory can make
    Capacity,       \* of the channel
    NoConn          \* nil

ASSUME PoolAssumption ==
    /\ Capacity \in Nat \ {0}
    /\ NoConn \notin Conns
    /\ Goroutines \cap {"fresh", "idle", "gone"} = {}

VARIABLES
    closed,         \* p.closed; the channel is closed in the same step
    pool,           \* the connections buffered in the channel
    pc,             \* where each goroutine is
    arg,            \* the connection its Put, or its drain, works on
    held,           \* the connections it got and has not put back
    live,           \* the connections that are open
    made,           \* the connections the factory ever made
    panicked        \* a goroutine sent on the closed channel

vars == <<closed, pool, pc, arg, held, live, made, panicked>>

Ready(g, label) == pc[g] = label /\ ~panicked
Goto(g, label) == pc' = [pc EXCEPT ![g] = label]

-----------------------------------------------------------------------------
(* Get.                                                                    *)

\* The closed pool returns an error: the goroutine stays idle.
GetChecks(g) ==
    /\ Ready(g, "idle")
    /\ ~closed
    /\ Goto(g, "get")
    /\ UNCHANGED <<closed, pool, arg, held, live, made, panicked>>

\* Seeded bug: the connection stays in the channel.
GetPeeks(g) ==
    /\ Ready(g, "get")
    /\ pool # << >>
    /\ held' = [held EXCEPT ![g] = @ \cup {Head(pool)}]
    /\ Goto(g, "idle")
    /\ UNCHANGED <<closed, pool, arg, live, made, panicked>>

\* An idle connection, which a channel still buffers after it is closed.
GetTakes(g) ==
    /\ Ready(g, "get")
    /\ pool # << >>
    /\ held' = [held EXCEPT ![g] = @ \cup {Head(pool)}]
    /\ pool' = Tail(pool)
    /\ Goto(g, "idle")
    /\ UNCHANGED <<closed, arg, live, made, panicked>>

\* Seeded bug: Get does not look for the nil that a closed channel gives.
GetReturnsNil(g) ==
    /\ Ready(g, "get")
    /\ pool = << >> /\ closed
    /\ held' = [held EXCEPT ![g] = @ \cup {NoConn}]
    /\ Goto(g, "idle")
    /\ UNCHANGED <<closed, pool, arg, live, made, panicked>>

\* None, or the nil of an empty closed channel: make one and connect it.
GetConnects(g) ==
    /\ Ready(g, "get")
    /\ pool = << >>
    /\ \/ \E c \in Conns \ made :
            /\ held' = [held EXCEPT ![g] = @ \cup {c}]
            /\ live' = live \cup {c}
            /\ made' = made \cup {c}
       \/ UNCHANGED <<held, live, made>>    \* Connect fails
    /\ Goto(g, "idle")
    /\ UNCHANGED <<closed, pool, arg, panicked>>

-----------------------------------------------------------------------------
(* Put.                                                                    *)

PutChecks(g, c) ==
    /\ Ready(g, "idle")
    /\ c \in held[g]
    /\ arg' = [arg EXCEPT ![g] = c]
    /\ held' = [held EXCEPT ![g] = @ \ {c}]
    /\ Goto(g, IF closed THEN "discard" ELSE "put")
    /\ UNCHANGED <<closed, pool, live, made, panicked>>

\* Seeded bug: a connection that does not fit is dropped and not closed.
PutForgets(g) ==
    /\ Ready(g, "put")
    /\ ~closed
    /\ arg' = [arg EXCEPT ![g] = NoConn]
    /\ pool' = IF Len(pool) < Capacity THEN Append(pool, arg[g]) ELSE pool
    /\ Goto(g, "idle")
    /\ UNCHANGED <<closed, held, live, made, panicked>>

\* Seeded bug: the channel is never closed and takes a connection after Close.
PutParks(g) ==
    /\ Ready(g, "put")
    /\ Len(pool) < Capacity
    /\ pool' = Append(pool, arg[g])
    /\ arg' = [arg EXCEPT ![g] = NoConn]
    /\ Goto(g, "idle")
    /\ UNCHANGED <<closed, held, live, made, panicked>>

PutSends(g) ==
    /\ Ready(g, "put")
    /\ ~closed
    /\ IF Len(pool) < Capacity
       THEN /\ pool' = Append(pool, arg[g])
            /\ arg' = [arg EXCEPT ![g] = NoConn]
            /\ Goto(g, "idle")
       ELSE Goto(g, "discard") /\ UNCHANGED <<pool, arg>>
    /\ UNCHANGED <<closed, held, live, made, panicked>>

\* A send on a closed channel panics, in a select with a default as well.
PutPanics(g) ==
    /\ Ready(g, "put")
    /\ closed
    /\ panicked' = TRUE
    /\ UNCHANGED <<closed, pool, pc, arg, held, live, made>>

\* conn.Close(), by Put and by the drain.
CloseConn(g) ==
    /\ live' = live \ {arg[g]}
    /\ arg' = [arg EXCEPT ![g] = NoConn]

PutDiscards(g) ==
    /\ Ready(g, "discard")
    /\ CloseConn(g)
    /\ Goto(g, "idle")
    /\ UNCHANGED <<closed, pool, held, made, panicked>>

-----------------------------------------------------------------------------
(* Close.                                                                  *)

\* Seeded bug: Close does not go through the channel.
CloseForgetsToDrain(g) ==
    /\ Ready(g, "idle")
    /\ ~closed
    /\ closed' = TRUE
    /\ UNCHANGED <<pool, pc, arg, held, live, made, panicked>>

CloseMarks(g) ==
    /\ Ready(g, "idle")
    /\ ~closed
    /\ closed' = TRUE
    /\ Goto(g, "drain")
    /\ UNCHANGED <<pool, arg, held, live, made, panicked>>

DrainTakes(g) ==
    /\ Ready(g, "drain")
    /\ arg[g] = NoConn
    /\ pool # << >>
    /\ arg' = [arg EXCEPT ![g] = Head(pool)]
    /\ pool' = Tail(pool)
    /\ UNCHANGED <<closed, pc, held, live, made, panicked>>

DrainCloses(g) ==
    /\ Ready(g, "drain")
    /\ arg[g] # NoConn
    /\ CloseConn(g)
    /\ UNCHANGED <<closed, pool, pc, held, made, panicked>>

DrainEnds(g) ==
    /\ Ready(g, "drain")
    /\ arg[g] = NoConn
    /\ pool = << >>
    /\ Goto(g, "idle")
    /\ UNCHANGED <<closed, pool, arg, held, live, made, panicked>>

-----------------------------------------------------------------------------
\* The users are done with a closed pool, or the process is dead.
Stopped ==
    /\ \/ panicked
       \/ closed /\ \A g \in Goroutines : pc[g] = "idle" /\ held[g] = {}
    /\ UNCHANGED vars

Init ==
    /\ closed = FALSE
    /\ pool = << >>
    /\ pc = [g \in Goroutines |-> "idle"]
    /\ arg = [g \in Goroutines |-> NoConn]
    /\ held = [g \in Goroutines |-> {}]
    /\ live = {}
    /\ made = {}
    /\ panicked = FALSE

\* What a call does once it is made.
Proceed(g) ==
    \/ GetTakes(g) \/ GetConnects(g)
    \/ PutSends(g) \/ PutPanics(g) \/ PutDiscards(g)
    \/ DrainTakes(g) \/ DrainCloses(g) \/ DrainEnds(g)

Next ==
    \/ \E g \in Goroutines :
          \/ GetChecks(g) \/ CloseMarks(g)
          \/ \E c \in Conns : PutChecks(g, c)
          \/ Proceed(g)
    \/ Stopped

Spec == Init /\ [][Next]_vars
FairSpec == Spec /\ \A g \in Goroutines : WF_vars(Proceed(g))

-----------------------------------------------------------------------------
\* The types of the variables.
TypeOK ==
    /\ closed \in BOOLEAN
    /\ pool \in Seq(Conns)
    /\ pc \in [Goroutines -> {"idle", "get", "put", "discard", "drain"}]
    /\ arg \in [Goroutines -> Conns \cup {NoConn}]
    /\ held \in [Goroutines -> SUBSET Conns]
    /\ live \in SUBSET Conns
    /\ made \in SUBSET Conns
    /\ panicked \in BOOLEAN

Buffered == {pool[i] : i \in DOMAIN pool}
InHand(g) == held[g] \cup ({arg[g]} \ {NoConn})

\* A connection is never in two places: Get (tcp_pool.go:59) gives a connection
\* to one goroutine only, and what Put or the drain of Close is about to close is
\* in nobody's hands and not in the channel.
OnePlace ==
    /\ \A g \in Goroutines : arg[g] \notin held[g]
    /\ \A g, h \in Goroutines : g # h => InHand(g) \cap InHand(h) = {}
    /\ \A g \in Goroutines : InHand(g) \cap Buffered = {}
    /\ \A i, j \in DOMAIN pool : pool[i] = pool[j] => i = j

\* No connection leaks and none is used after it was closed: the open ones are
\* exactly those in the channel and in somebody's hands.
NoLeak ==
    live = Buffered \cup UNION {InHand(g) : g \in Goroutines}

\* Once Close (tcp_pool.go:121) has drained the channel it stays empty: Put never
\* parks a connection in a closed pool, although it looked at the flag earlier.
ClosedIsEmpty ==
    closed /\ (\A g \in Goroutines : pc[g] # "drain") => pool = << >>

\* Close closes every idle connection in the end (tcp_pool.go:121-128).
CloseDrains == closed ~> (pool = << >> \/ panicked)

\* The pool keeps the promise of ConnectionPool.
PlaceOf(c) ==
    IF c \in Buffered THEN "idle"
    ELSE IF \E g \in Goroutines : c \in InHand(g)
         THEN CHOOSE g \in Goroutines : c \in InHand(g)
    ELSE IF c \in made THEN "gone" ELSE "fresh"
Abstract == INSTANCE ConnectionPool
                WITH Users <- Goroutines, Fresh <- "fresh", Idle <- "idle",
                     Gone <- "gone", shut <- closed,
                     place <- [c \in Conns |-> PlaceOf(c)]
Refines == Abstract!Spec
=============================================================================
