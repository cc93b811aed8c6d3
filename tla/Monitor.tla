--------------------------------- MODULE Monitor --------------------------------
(***************************************************************************)
(* The monitor of a connection (monitoring.go): the current state, the     *)
(* counters of ConnectionStats under a mutex of their own, and listeners   *)
(* that get every event in a goroutine each.                               *)
(*                                                                         *)
(* A report is what tcp.go makes of a change: record a counter or not,     *)
(* then setState.  s.Lock is a pointer read twice by every method of the   *)
(* counters, to lock the mutex and to defer its unlock, and Reset replaces *)
(* it; so the mutexes have identities.                                     *)
(***************************************************************************)
EXTENDS Naturals, Sequences, FiniteSets, SequencesExt

CONSTANTS
    Goroutines,
    Listeners,
    CodeOf,         \* the code of each listener: closures of one literal share it
    Made,           \* the reports that are made
    Nobody,         \* holds a mutex that is free
    ResetAlone,     \* Reset is called while nobody else uses the counters
    MaxReports,     \* bound on the reports
    MaxResets,      \* bound on the calls of Reset
    MaxChanges      \* bound on the calls of addListener and removeListener

Counters == {"connect", "disconnect", "reconnect"}
States == {"Disconnected", "Connecting", "Connected", "Reconnecting"}

\* The counter that is recorded and the state set with it: by Connect, by
\* reconnectLocked and by Close.
Reports == {<<"none", "Connecting">>, <<"none", "Disconnected">>, <<"connect", "Connected">>,
            <<"none", "Reconnecting">>, <<"reconnect", "Connected">>,
            <<"disconnect", "Disconnected">>}

ASSUME MonitorAssumption ==
    /\ Made \subseteq Reports
    /\ Nobody \notin Goroutines
    /\ Listeners \subseteq DOMAIN CodeOf
    /\ ResetAlone \in BOOLEAN
    /\ MaxReports \in Nat /\ MaxResets \in Nat /\ MaxChanges \in Nat

VARIABLES
    currentState,   \* m.currentState
    counts,         \* the counters of m.stats
    lock,           \* m.stats.Lock, a pointer
    heldBy,         \* the mutexes
    listeners,      \* m.listeners
    pending,        \* goroutines started with `go listener(event)', still to run
    me,             \* the locals of each goroutine
    fatal,          \* the runtime stopped the process: unlock of unlocked mutex
    recorded,       \* history: the records since the last Reset
    events,         \* history: the events of the reports that have begun
    subscribed,     \* history: how often each listener was added and not removed
    heard,          \* history: how often each listener was called with each event
    changes         \* how many calls of addListener and removeListener were made

stats == <<counts, lock, heldBy, fatal, recorded>>
listening == <<listeners, pending, subscribed, heard, changes>>
vars == <<currentState, stats, listening, me, events>>

-----------------------------------------------------------------------------
Zero == [c \in Counters |-> 0]
Mutexes == 1 .. MaxResets + 1
EventNumbers == 1 .. MaxReports

\* An event: its state and statistics, the value its report left in its counter,
\* the mutex it was recorded under, how often each listener was subscribed when it went out.
NewEvent(report) == [counter |-> report[1], state |-> report[2], stats |-> Zero,
                     own |-> 0, epoch |-> 1, due |-> [l \in Listeners |-> 0], out |-> FALSE]

Idle == [pc |-> "idle", in |-> "none", mutex |-> 1, deferred |-> 1, tmp |-> 0, event |-> 0]

At(g, label) == me[g].pc = label /\ ~fatal
Event(g) == events[me[g].event]
Goto(g, label) == me' = [me EXCEPT ![g].pc = label]

\* A method of ConnectionStats evaluates s.Lock and calls Lock on that.
Enter(g, method, event) ==
    me' = [me EXCEPT ![g] = [Idle EXCEPT !.pc = "wait", !.in = method, !.mutex = lock,
                                         !.event = event]]

\* The method is over.
Leave(g, label) == me' = [me EXCEPT ![g] = [Idle EXCEPT !.pc = label, !.event = me[g].event]]

-----------------------------------------------------------------------------
(* The calls.                                                              *)

Report(g, report) ==
    /\ At(g, "idle")
    /\ Len(events) < MaxReports
    /\ \A h \in Goroutines : me[h].in # "Reset" \/ ~ResetAlone
    /\ events' = Append(events, NewEvent(report))
    /\ IF report[1] # "none" THEN Enter(g, "record", Len(events) + 1)
       ELSE me' = [me EXCEPT ![g] = [Idle EXCEPT !.pc = "set", !.event = Len(events) + 1]]
    /\ UNCHANGED <<currentState, stats, listening>>

Reset(g) ==
    /\ At(g, "idle")
    /\ lock <= MaxResets
    /\ ResetAlone => \A h \in Goroutines : me[h].pc = "idle"
    /\ \A h \in Goroutines : me[h].in # "Reset"
    /\ Enter(g, "Reset", 0)
    /\ UNCHANGED <<currentState, stats, listening, events>>

\* The listeners change under listenerLock, in one step.
Listening ==
    /\ ~fatal /\ changes < MaxChanges
    /\ changes' = changes + 1
    /\ UNCHANGED <<currentState, stats, pending, me, events, heard>>

AddListener(l) ==
    /\ Listening
    /\ listeners' = Append(listeners, l)
    /\ subscribed' = [subscribed EXCEPT ![l] = @ + 1]

\* Seeded bug: the listener that comes off is the last one, whatever its code.
AnyCode(l) == DOMAIN listeners

\* The last one with the code of the listener comes off.
SameCode(l) == {i \in DOMAIN listeners : CodeOf[listeners[i]] = CodeOf[l]}

RemoveListener(l) ==
    /\ Listening
    /\ listeners' = IF SameCode(l) = {} THEN listeners
                    ELSE RemoveAt(listeners, CHOOSE i \in SameCode(l) :
                                                \A j \in SameCode(l) : j <= i)
    /\ subscribed' = [subscribed EXCEPT ![l] = IF @ = 0 THEN 0 ELSE @ - 1]

-----------------------------------------------------------------------------
(* recordConnect and the others, GetStats, Reset.                          *)

\* Seeded bug: the methods do not wait for the mutex.
FreeOrNot(g) == TRUE

Free(g) == heldBy[me[g].mutex] = Nobody

Acquire(g) ==
    /\ At(g, "wait")
    /\ Free(g)
    /\ heldBy' = [heldBy EXCEPT ![me[g].mutex] = g]
    /\ Goto(g, "defer")
    /\ UNCHANGED <<currentState, counts, lock, fatal, recorded, listening, events>>

\* The receiver of the deferred Unlock is evaluated here.
Defer(g) ==
    /\ At(g, "defer")
    /\ me' = [me EXCEPT ![g] = [@ EXCEPT !.pc = me[g].in, !.deferred = lock]]
    /\ UNCHANGED <<currentState, stats, listening, events>>

\* s.ConnectCount++ reads ...
RecordReads(g) ==
    /\ At(g, "record")
    /\ me' = [me EXCEPT ![g] = [@ EXCEPT !.pc = "store", !.tmp = counts[Event(g).counter]]]
    /\ UNCHANGED <<currentState, stats, listening, events>>

\* ... and writes.
RecordStores(g) ==
    /\ At(g, "store")
    /\ counts' = [counts EXCEPT ![Event(g).counter] = me[g].tmp + 1]
    /\ recorded' = [recorded EXCEPT ![Event(g).counter] = @ + 1]
    /\ events' = [events EXCEPT ![me[g].event] = [@ EXCEPT !.own = me[g].tmp + 1,
                                                           !.epoch = lock]]
    /\ Goto(g, "unlock")
    /\ UNCHANGED <<currentState, lock, heldBy, fatal, listening>>

\* Seeded bug: an event carries the statistics of the one before.
CachedStats(g) == IF me[g].event = 1 THEN Zero ELSE events[me[g].event - 1].stats

CurrentStats(g) == counts

\* The statistics of an event.
Snapshot(g) ==
    /\ At(g, "GetStats")
    /\ events' = [events EXCEPT ![me[g].event].stats = CurrentStats(g)]
    /\ Goto(g, "unlock")
    /\ UNCHANGED <<currentState, stats, listening>>

\* Seeded bug: there is no new mutex.
NoMutex == 0

NewMutex == lock + 1

\* Everything is zero and the mutex is a new one.
ResetStores(g) ==
    /\ At(g, "Reset")
    /\ counts' = Zero /\ recorded' = Zero
    /\ lock' = NewMutex
    /\ Goto(g, "unlock")
    /\ UNCHANGED <<currentState, heldBy, fatal, listening, events>>

\* Seeded bug: the mutex stays locked.
StillHeld(g) == g

Unlocked(g) == Nobody

\* The deferred Unlock; the mutex need not be held by the one who unlocks it.
Unlock(g) ==
    /\ At(g, "unlock")
    /\ IF heldBy[me[g].deferred] = Nobody
       THEN fatal' = TRUE /\ UNCHANGED <<heldBy, me>>
       ELSE /\ heldBy' = [heldBy EXCEPT ![me[g].deferred] = Unlocked(g)]
            /\ \/ me[g].in = "record" /\ Leave(g, "set")
               \/ me[g].in = "GetStats" /\ Leave(g, "publish")
               \/ me[g].in = "Reset" /\ Leave(g, "idle")
            /\ UNCHANGED fatal
    /\ UNCHANGED <<currentState, counts, lock, recorded, listening, events>>

-----------------------------------------------------------------------------
(* setState.                                                               *)

\* The write to currentState, which no mutex protects, and the call of GetStats.
SetState(g) ==
    /\ At(g, "set")
    /\ currentState' = Event(g).state
    /\ Enter(g, "GetStats", me[g].event)
    /\ UNCHANGED <<stats, listening, events>>

Registered(l) == Cardinality({i \in DOMAIN listeners : listeners[i] = l})

\* A goroutine for each listener, under listenerLock.
Publish(g) ==
    /\ At(g, "publish")
    /\ pending' = [l \in Listeners |-> [pending[l] EXCEPT ![me[g].event] = Registered(l)]]
    /\ events' = [events EXCEPT ![me[g].event] = [@ EXCEPT !.due = subscribed, !.out = TRUE]]
    /\ me' = [me EXCEPT ![g] = Idle]
    /\ UNCHANGED <<currentState, stats, listeners, subscribed, heard, changes>>

\* The goroutine of a listener and an event runs.
Deliver(l, e) ==
    /\ ~fatal
    /\ pending[l][e] > 0
    /\ pending' = [pending EXCEPT ![l][e] = @ - 1]
    /\ heard' = [heard EXCEPT ![l][e] = @ + 1]
    /\ UNCHANGED <<currentState, stats, listeners, subscribed, changes, me, events>>

-----------------------------------------------------------------------------
Proceed(g) ==
    \/ Defer(g) \/ RecordReads(g) \/ RecordStores(g) \/ Snapshot(g) \/ ResetStores(g)
    \/ Unlock(g) \/ SetState(g) \/ Publish(g)

\* Nobody calls again, or the process is dead.
Stopped ==
    /\ fatal \/ \A g \in Goroutines : me[g].pc = "idle"
    /\ UNCHANGED vars

Init ==
    /\ currentState = "Disconnected"
    /\ counts = Zero
    /\ lock = 1
    /\ heldBy = [m \in Mutexes |-> Nobody]
    /\ listeners = << >>
    /\ pending = [l \in Listeners |-> [e \in EventNumbers |-> 0]]
    /\ me = [g \in Goroutines |-> Idle]
    /\ fatal = FALSE
    /\ recorded = Zero
    /\ events = << >>
    /\ subscribed = [l \in Listeners |-> 0]
    /\ heard = [l \in Listeners |-> [e \in EventNumbers |-> 0]]
    /\ changes = 0

Next ==
    \/ \E g \in Goroutines : \E report \in Made : Report(g, report)
    \/ \E g \in Goroutines : Reset(g) \/ Acquire(g) \/ Proceed(g)
    \/ \E l \in Listeners : AddListener(l) \/ RemoveListener(l)
    \/ \E l \in Listeners, e \in EventNumbers : Deliver(l, e)
    \/ Stopped

Spec == Init /\ [][Next]_vars

FairSpec ==
    /\ Spec
    /\ \A g \in Goroutines : WF_vars(Proceed(g)) /\ SF_vars(Acquire(g))
    /\ \A l \in Listeners, e \in EventNumbers : WF_vars(Deliver(l, e))
-----------------------------------------------------------------------------
Locals == [pc : {"idle", "wait", "defer", "record", "store", "GetStats", "Reset", "unlock",
                 "set", "publish"},
           in : {"none", "record", "GetStats", "Reset"},
           mutex : Mutexes, deferred : Mutexes, tmp : Nat, event : 0 .. MaxReports]
Events == [counter : Counters \cup {"none"}, state : States, stats : [Counters -> Nat],
           own : Nat, epoch : Mutexes, due : [Listeners -> Nat], out : BOOLEAN]

\* The types of the variables.
TypeOK ==
    /\ currentState \in States
    /\ counts \in [Counters -> Nat] /\ recorded \in [Counters -> Nat]
    /\ lock \in Mutexes
    /\ heldBy \in [Mutexes -> Goroutines \cup {Nobody}]
    /\ listeners \in Seq(Listeners)
    /\ pending \in [Listeners -> [EventNumbers -> Nat]]
    /\ heard \in [Listeners -> [EventNumbers -> Nat]]
    /\ subscribed \in [Listeners -> Nat]
    /\ me \in [Goroutines -> Locals]
    /\ events \in Seq(Events) /\ Len(events) <= MaxReports
    /\ changes \in Nat
    /\ fatal \in BOOLEAN

\* No count is lost (monitoring.go:26-45): whatever the interleaving of the goroutines
\* that record, the counters are the number of records since the last Reset, which
\* replaces the mutex (:52-58).
NoLostCount == counts = recorded

\* The statistics in an event have the record its report made before it
\* (tcp.go:143-144, :232-233, :343-344), unless a Reset came between.
StatsOfOwnReport ==
    \A e \in DOMAIN events :
        events[e].out /\ events[e].own > 0 /\ events[e].epoch = lock
        => events[e].stats[events[e].counter] >= events[e].own

\* doc.go:16: "thread-safe operations, with mutex protection" (the comment is in Chinese).
\* It does not hold when Reset runs while another goroutine waits for the mutex
\* (:52-58): one of them unlocks the new mutex, which nobody locked.
NeverFatal == ~fatal

\* Each listener is called once for every time it was added and not removed when an
\* event went out (monitoring.go:119-145), now or in a goroutine already started.
OncePerSubscription ==
    \A e \in DOMAIN events : events[e].out =>
        \A l \in Listeners : heard[l][e] + pending[l][e] = events[e].due[l]

\* A state that GetState may have shown is told to every listener that stays
\* (monitoring.go:109-125): no report hangs in the mutexes on its way.
ListenersAreTold ==
    \A e \in EventNumbers, l \in Listeners :
        (e \in DOMAIN events /\ ~events[e].out /\ subscribed[l] > 0)
            ~> (heard[l][e] > 0 \/ subscribed[l] = 0 \/ fatal)
=============================================================================
