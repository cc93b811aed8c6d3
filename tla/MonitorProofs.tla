----------------------------- MODULE MonitorProofs -----------------------------
(***************************************************************************)
(* The safety of the monitor for every number of goroutines, listeners,    *)
(* reports and resets: types whatever Reset does; that no count is lost,   *)
(* that an event has the record of its own report and that no unlock is    *)
(* fatal when Reset has the counters to itself; and that each subscription *)
(* hears an event once when no two listeners share their code.             *)
(***************************************************************************)
EXTENDS Monitor, FiniteSetTheorems, SequenceTheorems, TLAPS

-----------------------------------------------------------------------------
(* What makes the invariants of Monitor inductive: whatever Reset does.    *)

Reporting(g) == me[g].in \in {"record", "GetStats"} \/ me[g].pc \in {"set", "publish"}

\* A goroutine is inside the method it called, on an event that is not out yet.
LocalsOfMethod ==
    \A g \in Goroutines :
        /\ me[g].pc \in {"wait", "defer", "unlock"} => me[g].in # "none"
        /\ me[g].pc \in {"record", "store"} => me[g].in = "record"
        /\ me[g].pc \in {"GetStats", "Reset"} => me[g].in = me[g].pc
        /\ me[g].pc \in {"idle", "set", "publish"} => me[g].in = "none"
        /\ Reporting(g) => me[g].event \in DOMAIN events /\ ~Event(g).out
        /\ me[g].in = "record" => Event(g).counter \in Counters

\* Two goroutines report different events.
OwnEvents ==
    \A g, h \in Goroutines :
        g # h /\ Reporting(g) /\ Reporting(h) => me[g].event # me[h].event

\* One goroutine resets at a time, and there is a mutex left for it.
OneReset ==
    /\ \A g, h \in Goroutines : g # h /\ me[g].in = "Reset" => me[h].in # "Reset"
    /\ \A g \in Goroutines :
          me[g].in = "Reset" /\ me[g].pc # "unlock" => lock <= MaxResets

Base == TypeOK /\ LocalsOfMethod /\ OwnEvents /\ OneReset

\* Nobody was told of an event that is not out.
NotYetTold ==
    \A e \in EventNumbers : e \notin DOMAIN events \/ ~events[e].out =>
        \A l \in Listeners : heard[l][e] = 0 /\ pending[l][e] = 0

\* The listeners are those that subscribed: holds when no two of them share their code.
UniqueCodes == \A l, k \in Listeners : CodeOf[l] = CodeOf[k] => l = k
ListenersSubscribed == \A l \in Listeners : Registered(l) = subscribed[l]

Told == NotYetTold /\ ListenersSubscribed /\ OncePerSubscription

-----------------------------------------------------------------------------
(* Least and greatest elements, and how often a value occurs in a         *)
(* sequence.                                                               *)

\* A set of naturals that is not empty has a least element ...
LEMMA Least ==
    ASSUME NEW T, T \subseteq Nat, T # {}
    PROVE  \E x \in T : \A y \in T : x <= y
<1> DEFINE R == OpToRel(<, Nat)
<1>1. IsWellFoundedOn(R, Nat)
  BY NatLessThanWellFounded
<1>2. \A x, y \in Nat : y < x => <<y, x>> \in R
  BY DEF OpToRel
<1> HIDE DEF R
<1>3. \E x \in T : \A y \in T : ~(<<y, x>> \in R)
  BY <1>1, WFMin
<1>4. PICK x \in T : \A y \in T : ~(<<y, x>> \in R)
  BY <1>3
<1>5. ASSUME NEW y \in T PROVE x <= y
  <2>1. x \in Nat /\ y \in Nat /\ ~(y < x)
    BY <1>2, <1>4
  <2> QED
    BY <2>1
<1> QED
  BY <1>5

\* ... and one that is bounded a greatest.
LEMMA Greatest ==
    ASSUME NEW n \in Nat, NEW T, T \subseteq 1 .. n, T # {}
    PROVE  \E x \in T : \A y \in T : y <= x
<1> DEFINE U == {n - y : y \in T}
<1>1. U # {}
  OBVIOUS
<1>2. \A y \in 1 .. n : n - y \in Nat
  OBVIOUS
<1>3. U \subseteq Nat
  BY <1>2
<1>4. PICK u \in U : \A v \in U : u <= v
  BY <1>1, <1>3, Least
<1>5. PICK x \in T : u = n - x
  BY <1>4
<1>6. ASSUME NEW y \in T PROVE y <= x
  <2>1. n - x <= n - y /\ x \in 1 .. n /\ y \in 1 .. n
    BY <1>4, <1>5
  <2> QED
    BY <2>1
<1> QED
  BY <1>6

-----------------------------------------------------------------------------
\* What is left of a sequence without its element i: the library's RemoveAt.
Without(q, i) == SubSeq(q, 1, i - 1) \o SubSeq(q, i + 1, Len(q))

LEMMA WithoutProperties ==
    ASSUME NEW S, NEW q \in Seq(S), NEW i \in 1 .. Len(q)
    PROVE  /\ Without(q, i) \in Seq(S)
           /\ Len(Without(q, i)) = Len(q) - 1
           /\ \A j \in 1 .. Len(q) - 1 :
                 Without(q, i)[j] = IF j < i THEN q[j] ELSE q[j + 1]
<1> DEFINE n == Len(q)
           a == SubSeq(q, 1, i - 1)
           b == SubSeq(q, i + 1, n)
<1>1. n \in Nat /\ \A j \in 1 .. n : q[j] \in S
  BY LenProperties, ElementOfSeq
<1> HIDE DEF n
<1>2. i \in 1 .. n
  BY DEF n
<1>3. /\ a \in Seq(S) /\ Len(a) = i - 1
      /\ \A j \in 1 .. i - 1 : a[j] = q[j]
  <2>1. 1 \in Int /\ i - 1 \in Int /\ \A j \in 1 .. i - 1 : q[j] \in S
    BY <1>1, <1>2
  <2>2. /\ a \in Seq(S) /\ Len(a) = IF 1 <= i - 1 THEN i - 1 - 1 + 1 ELSE 0
        /\ \A j \in 1 .. i - 1 - 1 + 1 : a[j] = q[1 + j - 1]
    BY <2>1, SubSeqProperties
  <2> QED
    BY <1>1, <1>2, <2>2
<1>4. /\ b \in Seq(S) /\ Len(b) = n - i
      /\ \A j \in 1 .. n - i : b[j] = q[i + j]
  <2>1. i + 1 \in Int /\ n \in Int /\ \A j \in i + 1 .. n : q[j] \in S
    BY <1>1, <1>2
  <2>2. /\ b \in Seq(S) /\ Len(b) = IF i + 1 <= n THEN n - (i + 1) + 1 ELSE 0
        /\ \A j \in 1 .. n - (i + 1) + 1 : b[j] = q[i + 1 + j - 1]
    BY <2>1, SubSeqProperties
  <2> QED
    BY <1>1, <1>2, <2>2
<1>5. Without(q, i) = a \o b
  BY DEF Without, n
<1> HIDE DEF a, b
<1>6. /\ a \o b \in Seq(S) /\ Len(a \o b) = Len(a) + Len(b)
      /\ \A j \in 1 .. Len(a) + Len(b) : (a \o b)[j] = IF j <= Len(a) THEN a[j] ELSE b[j - Len(a)]
  BY <1>3, <1>4, ConcatProperties
<1>7. ASSUME NEW j \in 1 .. n - 1
      PROVE  (a \o b)[j] = IF j < i THEN q[j] ELSE q[j + 1]
  <2>1. CASE j < i
    <3>1. j \in 1 .. i - 1 /\ j \in 1 .. Len(a) + Len(b) /\ j <= Len(a)
      BY <1>1, <1>2, <1>3, <1>4, <2>1
    <3> QED
      BY <1>3, <1>6, <2>1, <3>1
  <2>2. CASE ~(j < i)
    <3>1. /\ j - Len(a) \in 1 .. n - i /\ j \in 1 .. Len(a) + Len(b) /\ ~(j <= Len(a))
          /\ i + (j - Len(a)) = j + 1
      BY <1>1, <1>2, <1>3, <1>4, <2>2
    <3> QED
      BY <1>4, <1>6, <2>2, <3>1
  <2> QED
    BY <2>1, <2>2
<1> QED
  BY <1>1, <1>2, <1>3, <1>4, <1>5, <1>6, <1>7 DEF n

\* How often x is in a sequence.
Occurrences(q, x) == {j \in DOMAIN q : q[j] = x}

LEMMA OccurrencesFinite ==
    ASSUME NEW S, NEW q \in Seq(S), NEW x
    PROVE  /\ IsFiniteSet(Occurrences(q, x)) /\ Cardinality(Occurrences(q, x)) \in Nat
           /\ DOMAIN q = 1 .. Len(q) /\ Len(q) \in Nat
           /\ Occurrences(q, x) \subseteq 1 .. Len(q)
<1>1. DOMAIN q = 1 .. Len(q) /\ Len(q) \in Nat
  BY LenProperties
<1>2. IsFiniteSet(1 .. Len(q))
  BY <1>1, FS_Interval
<1>3. Occurrences(q, x) \in SUBSET (1 .. Len(q))
  BY <1>1 DEF Occurrences
<1> QED
  BY <1>1, <1>2, <1>3, FS_Subset, FS_CardinalityType

\* A subscription adds one ...
LEMMA OccurrencesOfAppend ==
    ASSUME NEW S, NEW q \in Seq(S), NEW y \in S, NEW x
    PROVE  Cardinality(Occurrences(Append(q, y), x))
              = IF x = y THEN Cardinality(Occurrences(q, x)) + 1
                ELSE Cardinality(Occurrences(q, x))
<1> DEFINE n == Len(q)
           a == Append(q, y)
<1>1. n \in Nat /\ IsFiniteSet(Occurrences(q, x)) /\ DOMAIN q = 1 .. n
  BY OccurrencesFinite
<1>2. /\ a \in Seq(S) /\ Len(a) = n + 1 /\ a[n + 1] = y
      /\ \A i \in 1 .. n : a[i] = q[i]
  BY AppendProperties
<1>3. DOMAIN a = 1 .. n + 1
  BY <1>2, LenProperties
<1> HIDE DEF n, a
<1>4. n + 1 \notin Occurrences(q, x)
  BY <1>1 DEF Occurrences
<1>5. \A i \in 1 .. n + 1 : i \in 1 .. n \/ i = n + 1
  BY <1>1
<1>6. n + 1 \in 1 .. n + 1 /\ 1 .. n \subseteq 1 .. n + 1
  BY <1>1
<1>7. CASE x = y
  <2>1. Occurrences(a, x) = Occurrences(q, x) \cup {n + 1}
    BY <1>1, <1>2, <1>3, <1>5, <1>6, <1>7 DEF Occurrences
  <2> QED
    BY <1>1, <1>4, <1>7, <2>1, FS_AddElement DEF a
<1>8. CASE x # y
  <2>1. Occurrences(a, x) = Occurrences(q, x)
    BY <1>1, <1>2, <1>3, <1>5, <1>6, <1>8 DEF Occurrences
  <2> QED
    BY <1>8, <2>1 DEF a
<1> QED
  BY <1>7, <1>8

\* ... and taking an element out takes one away.
LEMMA OccurrencesWithout ==
    ASSUME NEW S, NEW q \in Seq(S), NEW i \in 1 .. Len(q), NEW x
    PROVE  Cardinality(Occurrences(Without(q, i), x))
              = IF x = q[i] THEN Cardinality(Occurrences(q, x)) - 1
                ELSE Cardinality(Occurrences(q, x))
<1> DEFINE n == Len(q)
           a == Without(q, i)
           D == Occurrences(q, x) \ {i}
           E == Occurrences(a, x)
           f == [j \in D |-> IF j < i THEN j ELSE j - 1]
<1>1. n \in Nat /\ IsFiniteSet(Occurrences(q, x)) /\ DOMAIN q = 1 .. n
  BY OccurrencesFinite
<1>2. /\ a \in Seq(S) /\ Len(a) = n - 1
      /\ \A j \in 1 .. n - 1 : a[j] = IF j < i THEN q[j] ELSE q[j + 1]
  BY WithoutProperties
<1>3. DOMAIN a = 1 .. n - 1
  BY <1>2, LenProperties
<1>4. i \in 1 .. n
  OBVIOUS
<1> HIDE DEF n, a
<1>5. \A j \in D : f[j] \in E
  <2> SUFFICES ASSUME NEW j \in D PROVE (IF j < i THEN j ELSE j - 1) \in E
    OBVIOUS
  <2>1. j \in 1 .. n /\ q[j] = x /\ j # i
    BY <1>1 DEF Occurrences
  <2>2. CASE j < i
    <3>1. j \in 1 .. n - 1
      BY <1>1, <1>4, <2>1, <2>2
    <3> QED
      BY <1>2, <1>3, <2>1, <2>2, <3>1 DEF Occurrences
  <2>3. CASE ~(j < i)
    <3>1. j - 1 \in 1 .. n - 1 /\ ~(j - 1 < i) /\ j - 1 + 1 = j
      BY <1>1, <1>4, <2>1, <2>3
    <3> QED
      BY <1>2, <1>3, <2>1, <2>3, <3>1 DEF Occurrences
  <2> QED
    BY <2>2, <2>3
<1>6. \A j \in D : j \in 1 .. n
  BY <1>1 DEF Occurrences
<1>7. \A j \in D : f[j] = IF j < i THEN j ELSE j - 1
  OBVIOUS
<1> HIDE DEF f
<1>8. \A j, k \in D : f[j] = f[k] => j = k
  BY <1>1, <1>4, <1>6, <1>7
<1>9. \A m \in E : \E j \in D : f[j] = m
  <2> SUFFICES ASSUME NEW m \in E PROVE \E j \in D : f[j] = m
    OBVIOUS
  <2>1. m \in 1 .. n - 1 /\ a[m] = x
    BY <1>3 DEF Occurrences
  <2>2. CASE m < i
    <3>1. m \in D
      BY <1>1, <1>2, <1>4, <2>1, <2>2 DEF Occurrences
    <3> QED
      BY <1>7, <2>2, <3>1
  <2>3. CASE ~(m < i)
    <3>1. m + 1 \in 1 .. n /\ m + 1 # i /\ ~(m + 1 < i) /\ m + 1 - 1 = m
      BY <1>1, <1>4, <2>1, <2>3
    <3>2. m + 1 \in D
      BY <1>1, <1>2, <2>1, <2>3, <3>1 DEF Occurrences
    <3>3. f[m + 1] = m
      BY <1>1, <1>4, <1>7, <2>1, <3>1, <3>2
    <3> QED
      BY <3>2, <3>3
  <2> QED
    BY <2>2, <2>3
<1>10. f \in [D -> E]
  BY <1>5 DEF f
<1> HIDE DEF D, E
<1>11. f \in Bijection(D, E)
  <2>1. f \in Injection(D, E)
    BY <1>8, <1>10 DEF Injection, IsInjective
  <2>2. f \in Surjection(D, E)
    BY <1>9, <1>10 DEF Surjection
  <2> QED
    BY <2>1, <2>2 DEF Bijection
<1>12. IsFiniteSet(D) /\ Cardinality(D) = IF i \in Occurrences(q, x)
                                          THEN Cardinality(Occurrences(q, x)) - 1
                                          ELSE Cardinality(Occurrences(q, x))
  BY <1>1, FS_RemoveElement DEF D
<1>13. Cardinality(E) = Cardinality(D)
  <2>1. ExistsBijection(D, E)
    BY <1>11 DEF ExistsBijection
  <2> QED
    BY <1>12, <2>1, FS_Bijection
<1>14. i \in Occurrences(q, x) <=> x = q[i]
  BY <1>1, <1>4 DEF Occurrences
<1> QED
  BY <1>12, <1>13, <1>14 DEF E, a

-----------------------------------------------------------------------------
(* The same when Reset has the counters to itself: ResetAlone.             *)

Inside == {"defer", "record", "store", "GetStats", "Reset", "unlock"}

\* While one resets, all the others are idle.
ResetIsAlone ==
    \A g, h \in Goroutines : g # h /\ me[g].in = "Reset" => me[h].pc = "idle"

\* Every method works under the current mutex, which it holds from Lock to Unlock;
\* Reset unlocks the one it has locked, and not the new one.
UnderMutex ==
    /\ \A g \in Goroutines :
          /\ me[g].in # "none" /\ ~(me[g].in = "Reset" /\ me[g].pc = "unlock")
                => me[g].mutex = lock
          /\ me[g].pc \in Inside => heldBy[me[g].mutex] = g
          /\ me[g].pc \in Inside \ {"defer"} => me[g].deferred = me[g].mutex
    /\ \A m \in Mutexes : m > lock => heldBy[m] = Nobody

\* What a goroutine read is still there when it writes.
ReadIsCurrent ==
    \A g \in Goroutines : me[g].pc = "store" => me[g].tmp = counts[Event(g).counter]

\* A record of this epoch is in the counters, and in the statistics that were taken after it.
Recorded(e) == events[e].own > 0 /\ events[e].epoch = lock
RecordsCounted ==
    \A e \in DOMAIN events :
        /\ events[e].own > 0 => events[e].counter \in Counters
        /\ events[e].epoch <= lock
        /\ Recorded(e) => counts[events[e].counter] >= events[e].own
StatsTaken ==
    \A g \in Goroutines :
        /\ me[g].pc = "publish" \/ (me[g].in = "GetStats" /\ me[g].pc = "unlock")
        /\ Recorded(me[g].event)
        => Event(g).stats[Event(g).counter] >= Event(g).own

Counting ==
    /\ ResetIsAlone
    /\ UnderMutex
    /\ ReadIsCurrent
    /\ RecordsCounted
    /\ StatsTaken
    /\ NoLostCount
    /\ StatsOfOwnReport
    /\ NeverFatal

-----------------------------------------------------------------------------
(* Types.                                                                  *)

LEMMA LocalsOf ==
    ASSUME TypeOK, NEW g \in Goroutines
    PROVE  me[g] \in Locals
BY DEF TypeOK

LEMMA IdleLocals == Idle \in Locals
BY MonitorAssumption DEF Idle, Locals, Mutexes

LEMMA MutexesAre == Mutexes \subseteq Nat \ {0} /\ 1 \in Mutexes
BY MonitorAssumption DEF Mutexes

\* An event of a goroutine that reports.
LEMMA EventOf ==
    ASSUME Base, NEW g \in Goroutines, Reporting(g)
    PROVE  /\ me[g].event \in DOMAIN events /\ me[g].event \in 1 .. Len(events)
           /\ Event(g) \in Events /\ ~Event(g).out
<1>1. me[g].event \in DOMAIN events /\ ~Event(g).out
  BY DEF Base, LocalsOfMethod
<1>2. events \in Seq(Events)
  BY DEF Base, TypeOK
<1> QED
  BY <1>1, <1>2, LenProperties, ElementOfSeq DEF Event

\* The events are numbered.
LEMMA EventsNumbered ==
    ASSUME TypeOK
    PROVE  /\ events \in Seq(Events) /\ Len(events) \in Nat
           /\ DOMAIN events = 1 .. Len(events)
           /\ DOMAIN events \subseteq EventNumbers
           /\ \A e \in DOMAIN events : events[e] \in Events
<1>1. events \in Seq(Events) /\ Len(events) <= MaxReports
  BY DEF TypeOK
<1>2. Len(events) \in Nat /\ DOMAIN events = 1 .. Len(events)
  BY <1>1, LenProperties
<1> QED
  BY <1>1, <1>2, ElementOfSeq, MonitorAssumption DEF EventNumbers

\* Changing the event of a goroutine.
LEMMA ChangeEvent ==
    ASSUME TypeOK, NEW e \in DOMAIN events, NEW x \in Events,
           events' = [events EXCEPT ![e] = x]
    PROVE  /\ events' \in Seq(Events) /\ Len(events') = Len(events)
           /\ DOMAIN events' = DOMAIN events
           /\ \A d \in DOMAIN events : events'[d] = IF d = e THEN x ELSE events[d]
BY EventsNumbered, ExceptSeq, LenProperties

-----------------------------------------------------------------------------
(* The locals of a goroutine.                                              *)

ReportingIn(r) == r.in \in {"record", "GetStats"} \/ r.pc \in {"set", "publish"}

\* The first conjuncts of LocalsOfMethod.
Shape(r) ==
    /\ r.pc \in {"wait", "defer", "unlock"} => r.in # "none"
    /\ r.pc \in {"record", "store"} => r.in = "record"
    /\ r.pc \in {"GetStats", "Reset"} => r.in = r.pc
    /\ r.pc \in {"idle", "set", "publish"} => r.in = "none"

LEMMA IdleShape == Shape(Idle) /\ ~ReportingIn(Idle) /\ Idle.in = "none" /\ Idle.pc = "idle"
BY DEF Shape, ReportingIn, Idle

\* A step inside a method: the goroutine keeps its event, the events keep what
\* they are about, and only the last step of Reset changes the mutex.
SameEvents ==
    /\ DOMAIN events' = DOMAIN events
    /\ \A e \in DOMAIN events : /\ events'[e].out = events[e].out
                                /\ events'[e].counter = events[e].counter

InMethod(g, r) ==
    /\ me' = [me EXCEPT ![g] = r]
    /\ SameEvents
    /\ Shape(r)
    /\ ReportingIn(r) => ReportingIn(me[g]) /\ r.event = me[g].event
    /\ r.in = "record" => me[g].in = "record"
    /\ r.in = "Reset" => me[g].in = "Reset" /\ (r.pc # "unlock" => me[g].pc # "unlock")
    /\ \/ UNCHANGED lock
       \/ me[g].in = "Reset" /\ r.pc = "unlock"

LEMMA InMethodStep ==
    ASSUME Base, NEW g \in Goroutines, NEW r \in Locals, InMethod(g, r)
    PROVE  LocalsOfMethod' /\ OwnEvents' /\ OneReset'
<1>1. /\ me'[g] = r /\ \A h \in Goroutines \ {g} : me'[h] = me[h]
  BY DEF InMethod, Base, TypeOK
<1>2. \A h \in Goroutines : Shape(me[h])
  BY DEF Base, LocalsOfMethod, Shape
<1>3. \A h \in Goroutines : Shape(me'[h])
  BY <1>1, <1>2 DEF InMethod
<1>4. \A h \in Goroutines :
         ReportingIn(me'[h]) => /\ ReportingIn(me[h]) /\ me'[h].event = me[h].event
                                /\ me'[h].event \in DOMAIN events'
                                /\ ~events'[me'[h].event].out
  BY <1>1 DEF InMethod, SameEvents, Base, LocalsOfMethod, Reporting, ReportingIn, Event
<1>5. \A h \in Goroutines : me'[h].in = "record" => events'[me'[h].event].counter \in Counters
  <2>1. \A h \in Goroutines : me'[h].in = "record" => me[h].in = "record" /\ me'[h].event = me[h].event
    BY <1>1 DEF InMethod, ReportingIn
  <2> QED
    BY <2>1 DEF InMethod, SameEvents, Base, LocalsOfMethod, Reporting, Event
<1>6. LocalsOfMethod'
  BY <1>3, <1>4, <1>5 DEF LocalsOfMethod, Shape, Reporting, ReportingIn, Event
<1>7. OwnEvents'
  BY <1>4 DEF Base, OwnEvents, Reporting, ReportingIn
<1>8. OneReset'
  BY <1>1 DEF InMethod, Base, OneReset
<1> QED
  BY <1>6, <1>7, <1>8

-----------------------------------------------------------------------------
(* Types and locals are right whatever Reset does.                         *)

LEMMA ReportBase ==
    ASSUME Base, NEW g \in Goroutines, NEW report \in Made, Report(g, report)
    PROVE  Base'
<1> DEFINE n == Len(events) + 1
           x == NewEvent(report)
           r == IF report[1] # "none"
                THEN [Idle EXCEPT !.pc = "wait", !.in = "record", !.mutex = lock, !.event = n]
                ELSE [Idle EXCEPT !.pc = "set", !.event = n]
<1>1. /\ TypeOK /\ me[g].pc = "idle" /\ me[g].in = "none" /\ Len(events) < MaxReports
      /\ UNCHANGED <<currentState, stats, listening>>
  BY DEF Base, LocalsOfMethod, Report, At
<1>2. report \in Reports /\ report[1] \in Counters \cup {"none"} /\ report[2] \in States
  BY MonitorAssumption DEF Reports, Counters, States
<1>3. /\ x \in Events /\ ~x.out /\ x.counter = report[1]
  BY <1>2, MutexesAre DEF NewEvent, Events, Zero, Counters
<1>4. n \in 1 .. MaxReports /\ n \in Nat \ {0}
  BY <1>1, EventsNumbered, MonitorAssumption
<1>5. /\ r \in Locals /\ r.event = n /\ Shape(r) /\ ReportingIn(r)
      /\ r.in \in {"none", "record"} /\ (r.in = "record" => report[1] \in Counters)
  <2>1. n \in 0 .. MaxReports /\ lock \in Mutexes /\ 1 \in Mutexes
    BY <1>1, <1>4, MutexesAre DEF TypeOK
  <2> HIDE DEF n
  <2>2. CASE report[1] # "none"
    BY <1>2, <2>1, <2>2 DEF Idle, Locals, Shape, ReportingIn
  <2>3. CASE report[1] = "none"
    BY <2>1, <2>3 DEF Idle, Locals, Shape, ReportingIn
  <2> QED
    BY <2>2, <2>3
<1>6. me' = [me EXCEPT ![g] = r]
  BY DEF Report, Enter
<1>7. events' = Append(events, x)
  BY DEF Report
<1> HIDE DEF x, r
<1>8. /\ events' \in Seq(Events) /\ Len(events') = n
      /\ DOMAIN events' = 1 .. n
      /\ events'[n] = x /\ \A e \in DOMAIN events : events'[e] = events[e]
  <2>1. /\ events' \in Seq(Events) /\ Len(events') = n /\ events'[n] = x
        /\ \A e \in 1 .. Len(events) : events'[e] = events[e]
    BY <1>1, <1>3, <1>7, EventsNumbered, AppendProperties
  <2> QED
    BY <1>1, <2>1, EventsNumbered, LenProperties
<1>9. /\ DOMAIN events \subseteq DOMAIN events' /\ n \in DOMAIN events' /\ n \notin DOMAIN events
  BY <1>1, <1>4, <1>8, EventsNumbered
<1>10. me' \in [Goroutines -> Locals] /\ me'[g] = r /\ \A h \in Goroutines \ {g} : me'[h] = me[h]
  BY <1>1, <1>5, <1>6 DEF TypeOK
<1> HIDE DEF n
<1>11. TypeOK'
  BY <1>1, <1>4, <1>8, <1>10 DEF TypeOK, stats, listening
<1>12. LocalsOfMethod'
  <2>1. \A h \in Goroutines \ {g} :
          Reporting(h) => me'[h].event \in DOMAIN events' /\ events'[me'[h].event] = Event(h)
    BY <1>8, <1>9, <1>10 DEF Base, LocalsOfMethod, Event
  <2> QED
    BY <1>3, <1>5, <1>8, <1>9, <1>10, <2>1
       DEF Base, LocalsOfMethod, Shape, Reporting, Event
<1>13. OwnEvents'
  <2>1. \A h \in Goroutines \ {g} : Reporting(h) => me[h].event # n
    BY <1>9 DEF Base, LocalsOfMethod
  <2> QED
    BY <1>5, <1>10, <2>1 DEF Base, OwnEvents, Reporting
<1>14. OneReset'
  BY <1>1, <1>5, <1>10 DEF Base, OneReset, stats
<1> QED
  BY <1>11, <1>12, <1>13, <1>14 DEF Base

LEMMA ResetBase ==
    ASSUME Base, NEW g \in Goroutines, Reset(g)
    PROVE  Base'
<1> DEFINE r == [Idle EXCEPT !.pc = "wait", !.in = "Reset", !.mutex = lock, !.event = 0]
<1>1. /\ TypeOK /\ lock <= MaxResets /\ \A h \in Goroutines : me[h].in # "Reset"
      /\ UNCHANGED <<currentState, counts, lock, heldBy, fatal, recorded, listening, events>>
  BY DEF Base, Reset, stats
<1>2. r \in Locals /\ Shape(r) /\ ~ReportingIn(r) /\ r.in = "Reset"
  BY <1>1, IdleLocals, MonitorAssumption DEF Idle, Locals, Shape, ReportingIn, TypeOK
<1>3. me' = [me EXCEPT ![g] = r]
  BY DEF Reset, Enter
<1> HIDE DEF r
<1>4. me' \in [Goroutines -> Locals] /\ me'[g] = r /\ \A h \in Goroutines \ {g} : me'[h] = me[h]
  BY <1>1, <1>2, <1>3 DEF TypeOK
<1>5. TypeOK'
  BY <1>1, <1>4 DEF TypeOK, listening
<1>6. LocalsOfMethod'
  BY <1>1, <1>2, <1>4 DEF Base, LocalsOfMethod, Shape, ReportingIn, Reporting, Event
<1>7. OwnEvents'
  BY <1>2, <1>4 DEF Base, OwnEvents, ReportingIn, Reporting
<1>8. OneReset'
  BY <1>1, <1>2, <1>4 DEF Base, OneReset
<1> QED
  BY <1>5, <1>6, <1>7, <1>8 DEF Base

LEMMA AcquireBase ==
    ASSUME Base, NEW g \in Goroutines, Acquire(g)
    PROVE  Base' /\ InMethod(g, [me[g] EXCEPT !.pc = "defer"])
<1> DEFINE r == [me[g] EXCEPT !.pc = "defer"]
<1>1. /\ TypeOK /\ me[g].pc = "wait" /\ me' = [me EXCEPT ![g] = r]
      /\ heldBy' = [heldBy EXCEPT ![me[g].mutex] = g]
      /\ UNCHANGED <<currentState, counts, lock, fatal, recorded, listening, events>>
  BY DEF Base, Acquire, At, Goto
<1>2. r \in Locals /\ me[g] \in Locals
  BY <1>1, LocalsOf DEF Locals
<1>3. InMethod(g, r)
  BY <1>1, <1>2 DEF InMethod, SameEvents, Shape, ReportingIn, Base, LocalsOfMethod, Locals
<1>4. LocalsOfMethod' /\ OwnEvents' /\ OneReset'
  BY <1>2, <1>3, InMethodStep
<1> HIDE DEF r
<1>5. TypeOK'
  BY <1>1, <1>2 DEF TypeOK, Locals, listening
<1> QED
  BY <1>3, <1>4, <1>5 DEF Base, r

LEMMA DeferBase ==
    ASSUME Base, NEW g \in Goroutines, Defer(g)
    PROVE  Base' /\ InMethod(g, [me[g] EXCEPT !.pc = me[g].in, !.deferred = lock])
<1> DEFINE r == [me[g] EXCEPT !.pc = me[g].in, !.deferred = lock]
<1>1. /\ TypeOK /\ me[g].pc = "defer" /\ me' = [me EXCEPT ![g] = r] /\ me[g].in # "none"
      /\ UNCHANGED <<currentState, counts, lock, heldBy, fatal, recorded, listening, events>>
  BY DEF Base, LocalsOfMethod, Defer, At, stats
<1>2. r \in Locals /\ me[g] \in Locals
  BY <1>1, LocalsOf DEF Locals, TypeOK
<1>3. InMethod(g, r)
  BY <1>1, <1>2 DEF InMethod, SameEvents, Shape, ReportingIn, Base, LocalsOfMethod, Locals
<1>4. LocalsOfMethod' /\ OwnEvents' /\ OneReset'
  BY <1>2, <1>3, InMethodStep
<1> HIDE DEF r
<1>5. TypeOK'
  BY <1>1, <1>2 DEF TypeOK, listening
<1> QED
  BY <1>3, <1>4, <1>5 DEF Base, r

LEMMA RecordReadsBase ==
    ASSUME Base, NEW g \in Goroutines, RecordReads(g)
    PROVE  Base' /\ InMethod(g, [me[g] EXCEPT !.pc = "store", !.tmp = counts[Event(g).counter]])
<1> DEFINE r == [me[g] EXCEPT !.pc = "store", !.tmp = counts[Event(g).counter]]
<1>1. /\ TypeOK /\ me[g].pc = "record" /\ me' = [me EXCEPT ![g] = r] /\ me[g].in = "record"
      /\ Event(g).counter \in Counters
      /\ UNCHANGED <<currentState, counts, lock, heldBy, fatal, recorded, listening, events>>
  BY DEF Base, LocalsOfMethod, RecordReads, At, stats
<1>2. r \in Locals /\ me[g] \in Locals
  BY <1>1, LocalsOf DEF Locals, TypeOK
<1>3. InMethod(g, r)
  BY <1>1, <1>2 DEF InMethod, SameEvents, Shape, ReportingIn, Base, LocalsOfMethod, Locals
<1>4. LocalsOfMethod' /\ OwnEvents' /\ OneReset'
  BY <1>2, <1>3, InMethodStep
<1> HIDE DEF r
<1>5. TypeOK'
  BY <1>1, <1>2 DEF TypeOK, listening
<1> QED
  BY <1>3, <1>4, <1>5 DEF Base, r

LEMMA RecordStoresBase ==
    ASSUME Base, NEW g \in Goroutines, RecordStores(g)
    PROVE  /\ Base' /\ InMethod(g, [me[g] EXCEPT !.pc = "unlock"])
           /\ \A e \in DOMAIN events :
                 events'[e] = IF e = me[g].event
                              THEN [events[e] EXCEPT !.own = me[g].tmp + 1, !.epoch = lock]
                              ELSE events[e]
<1> DEFINE r == [me[g] EXCEPT !.pc = "unlock"]
           e0 == me[g].event
           x == [events[e0] EXCEPT !.own = me[g].tmp + 1, !.epoch = lock]
           c == Event(g).counter
<1>1. /\ TypeOK /\ me[g].pc = "store" /\ me' = [me EXCEPT ![g] = r] /\ me[g].in = "record"
      /\ counts' = [counts EXCEPT ![c] = me[g].tmp + 1]
      /\ recorded' = [recorded EXCEPT ![c] = @ + 1]
      /\ events' = [events EXCEPT ![e0] = x] /\ c \in Counters /\ Reporting(g)
      /\ UNCHANGED <<currentState, lock, heldBy, fatal, listening>>
  BY DEF Base, LocalsOfMethod, RecordStores, At, Goto, Reporting
<1>2. r \in Locals /\ me[g] \in Locals /\ lock \in Mutexes
  BY <1>1, LocalsOf DEF Locals, TypeOK
<1>3. e0 \in DOMAIN events /\ events[e0] \in Events
  BY <1>1, EventOf DEF Event
<1>4. x \in Events /\ x.out = events[e0].out /\ x.counter = events[e0].counter
  <2>1. me[g].tmp + 1 \in Nat
    BY <1>2 DEF Locals
  <2> HIDE DEF e0
  <2> QED
    BY <1>2, <1>3, <2>1 DEF Events
<1> HIDE DEF x, e0
<1>5. /\ events' \in Seq(Events) /\ Len(events') = Len(events) /\ DOMAIN events' = DOMAIN events
      /\ \A d \in DOMAIN events : events'[d] = IF d = e0 THEN x ELSE events[d]
  BY <1>1, <1>3, <1>4, ChangeEvent
<1>6. SameEvents
  BY <1>4, <1>5 DEF SameEvents
<1>7. InMethod(g, r)
  BY <1>1, <1>2, <1>6 DEF InMethod, Shape, ReportingIn, Base, LocalsOfMethod, Locals
<1>8. LocalsOfMethod' /\ OwnEvents' /\ OneReset'
  BY <1>2, <1>7, InMethodStep
<1> HIDE DEF r, c
<1>9. counts' \in [Counters -> Nat] /\ recorded' \in [Counters -> Nat]
  BY <1>1, <1>2 DEF TypeOK, Locals
<1>10. TypeOK'
  BY <1>1, <1>2, <1>5, <1>9 DEF TypeOK, listening
<1> QED
  BY <1>5, <1>7, <1>8, <1>10 DEF Base, r, x, e0

LEMMA SnapshotBase ==
    ASSUME Base, NEW g \in Goroutines, Snapshot(g)
    PROVE  /\ Base' /\ InMethod(g, [me[g] EXCEPT !.pc = "unlock"])
           /\ \A e \in DOMAIN events :
                 events'[e] = IF e = me[g].event THEN [events[e] EXCEPT !.stats = counts]
                              ELSE events[e]
<1> DEFINE r == [me[g] EXCEPT !.pc = "unlock"]
           e0 == me[g].event
           x == [events[e0] EXCEPT !.stats = counts]
<1>1. /\ TypeOK /\ me[g].pc = "GetStats" /\ me' = [me EXCEPT ![g] = r] /\ me[g].in = "GetStats"
      /\ events' = [events EXCEPT ![e0] = x] /\ Reporting(g)
      /\ UNCHANGED <<currentState, counts, lock, heldBy, fatal, recorded, listening>>
  BY DEF Base, LocalsOfMethod, Snapshot, CurrentStats, At, Goto, Reporting, stats
<1>2. r \in Locals /\ me[g] \in Locals /\ counts \in [Counters -> Nat]
  BY <1>1, LocalsOf DEF Locals, TypeOK
<1>3. e0 \in DOMAIN events /\ events[e0] \in Events
  BY <1>1, EventOf DEF Event
<1>4. x \in Events /\ x.out = events[e0].out /\ x.counter = events[e0].counter
  BY <1>2, <1>3 DEF Events
<1> HIDE DEF x, e0
<1>5. /\ events' \in Seq(Events) /\ Len(events') = Len(events) /\ DOMAIN events' = DOMAIN events
      /\ \A d \in DOMAIN events : events'[d] = IF d = e0 THEN x ELSE events[d]
  BY <1>1, <1>3, <1>4, ChangeEvent
<1>6. SameEvents
  BY <1>4, <1>5 DEF SameEvents
<1>7. InMethod(g, r)
  BY <1>1, <1>2, <1>6 DEF InMethod, Shape, ReportingIn, Base, LocalsOfMethod, Locals
<1>8. LocalsOfMethod' /\ OwnEvents' /\ OneReset'
  BY <1>2, <1>7, InMethodStep
<1> HIDE DEF r
<1>9. TypeOK'
  BY <1>1, <1>2, <1>5 DEF TypeOK, listening
<1> QED
  BY <1>5, <1>7, <1>8, <1>9 DEF Base, r, x, e0

LEMMA ResetStoresBase ==
    ASSUME Base, NEW g \in Goroutines, ResetStores(g)
    PROVE  Base' /\ InMethod(g, [me[g] EXCEPT !.pc = "unlock"])
<1> DEFINE r == [me[g] EXCEPT !.pc = "unlock"]
<1>1. /\ TypeOK /\ me[g].pc = "Reset" /\ me' = [me EXCEPT ![g] = r] /\ me[g].in = "Reset"
      /\ counts' = Zero /\ recorded' = Zero /\ lock' = lock + 1
      /\ UNCHANGED <<currentState, heldBy, fatal, listening, events>>
  BY DEF Base, LocalsOfMethod, ResetStores, NewMutex, At, Goto
<1>2. r \in Locals /\ me[g] \in Locals
  BY <1>1, LocalsOf DEF Locals
<1>3. InMethod(g, r)
  BY <1>1, <1>2 DEF InMethod, SameEvents, Shape, ReportingIn, Base, LocalsOfMethod, Locals
<1>4. LocalsOfMethod' /\ OwnEvents' /\ OneReset'
  BY <1>2, <1>3, InMethodStep
<1> HIDE DEF r
<1>5. lock' \in Mutexes
  <2>1. lock <= MaxResets /\ lock \in Mutexes
    BY <1>1 DEF Base, OneReset, TypeOK
  <2> QED
    BY <1>1, <2>1, MonitorAssumption DEF Mutexes
<1>6. Zero \in [Counters -> Nat]
  BY DEF Zero
<1>7. TypeOK'
  BY <1>1, <1>2, <1>5, <1>6 DEF TypeOK, listening
<1> QED
  BY <1>3, <1>4, <1>7 DEF Base, r

\* The locals after a method is over.
Left(g) ==
    [Idle EXCEPT !.pc = CASE me[g].in = "record" -> "set"
                          [] me[g].in = "GetStats" -> "publish"
                          [] OTHER -> "idle",
                 !.event = me[g].event]

LEMMA UnlockBase ==
    ASSUME Base, NEW g \in Goroutines, Unlock(g)
    PROVE  /\ Base'
           /\ \/ heldBy[me[g].deferred] = Nobody /\ fatal' /\ UNCHANGED <<heldBy, me>>
              \/ /\ heldBy[me[g].deferred] # Nobody /\ UNCHANGED fatal
                 /\ heldBy' = [heldBy EXCEPT ![me[g].deferred] = Nobody]
                 /\ Left(g) \in Locals /\ InMethod(g, Left(g))
<1>1. /\ TypeOK /\ me[g].pc = "unlock" /\ me[g].in # "none"
      /\ UNCHANGED <<currentState, counts, lock, recorded, listening, events>>
  BY DEF Base, LocalsOfMethod, Unlock, At
<1>2. CASE heldBy[me[g].deferred] = Nobody
  <2>1. fatal' = TRUE /\ UNCHANGED <<heldBy, me>>
    BY <1>2 DEF Unlock
  <2>2. TypeOK'
    BY <1>1, <2>1 DEF TypeOK, listening
  <2>3. LocalsOfMethod' /\ OwnEvents' /\ OneReset'
    BY <1>1, <2>1 DEF Base, LocalsOfMethod, OwnEvents, OneReset, Reporting, Event
  <2> QED
    BY <1>2, <2>1, <2>2, <2>3 DEF Base
<1>3. CASE heldBy[me[g].deferred] # Nobody
  <2> DEFINE r == Left(g)
  <2>1. /\ heldBy' = [heldBy EXCEPT ![me[g].deferred] = Nobody] /\ UNCHANGED fatal
        /\ me' = [me EXCEPT ![g] = r]
    BY <1>3 DEF Unlock, Unlocked, Leave, Left
  <2>2. me[g] \in Locals /\ me[g].event \in 0 .. MaxReports
    BY <1>1, LocalsOf DEF Locals
  <2>3. r \in Locals /\ r.event = me[g].event /\ r.in = "none"
    BY <2>2, MutexesAre DEF Left, Idle, Locals
  <2>4. /\ me[g].in = "record" => r.pc = "set"
        /\ me[g].in = "GetStats" => r.pc = "publish"
        /\ me[g].in = "Reset" => r.pc = "idle"
        /\ me[g].in \in {"record", "GetStats", "Reset"}
    BY <1>1, <2>2 DEF Left, Idle, Locals
  <2> HIDE DEF r
  <2>5. InMethod(g, r)
    BY <1>1, <2>1, <2>3, <2>4 DEF InMethod, SameEvents, Shape, ReportingIn
  <2>6. LocalsOfMethod' /\ OwnEvents' /\ OneReset'
    BY <2>3, <2>5, InMethodStep
  <2>7. TypeOK'
    BY <1>1, <2>1, <2>3 DEF TypeOK, listening
  <2> QED
    BY <1>3, <2>1, <2>3, <2>5, <2>6, <2>7 DEF Base, r
<1> QED
  BY <1>2, <1>3

LEMMA SetStateBase ==
    ASSUME Base, NEW g \in Goroutines, SetState(g)
    PROVE  Base' /\ InMethod(g, [Idle EXCEPT !.pc = "wait", !.in = "GetStats", !.mutex = lock,
                                             !.event = me[g].event])
<1> DEFINE r == [Idle EXCEPT !.pc = "wait", !.in = "GetStats", !.mutex = lock,
                             !.event = me[g].event]
<1>1. /\ TypeOK /\ me[g].pc = "set" /\ me' = [me EXCEPT ![g] = r] /\ Reporting(g)
      /\ currentState' = Event(g).state
      /\ UNCHANGED <<counts, lock, heldBy, fatal, recorded, listening, events>>
  BY DEF Base, SetState, At, Enter, Reporting, stats
<1>2. me[g] \in Locals /\ lock \in Mutexes
  BY <1>1, LocalsOf DEF TypeOK
<1>3. r \in Locals /\ Shape(r) /\ r.in = "GetStats" /\ r.event = me[g].event
  BY <1>2, MutexesAre DEF Idle, Locals, Shape
<1> HIDE DEF r
<1>4. InMethod(g, r)
  BY <1>1, <1>3 DEF InMethod, SameEvents, ReportingIn
<1>5. LocalsOfMethod' /\ OwnEvents' /\ OneReset'
  BY <1>3, <1>4, InMethodStep
<1>6. Event(g).state \in States
  BY <1>1, EventOf DEF Events
<1>7. TypeOK'
  BY <1>1, <1>3, <1>6 DEF TypeOK, listening
<1> QED
  BY <1>4, <1>5, <1>7 DEF Base, r

-----------------------------------------------------------------------------
(* The listeners.                                                          *)

-----------------------------------------------------------------------------
(* The listeners.                                                          *)

LEMMA RegisteredIs ==
    ASSUME TypeOK, NEW l
    PROVE  /\ Registered(l) = Cardinality(Occurrences(listeners, l)) /\ Registered(l) \in Nat
           /\ Occurrences(listeners, l) \subseteq DOMAIN listeners
           /\ DOMAIN listeners = 1 .. Len(listeners) /\ Len(listeners) \in Nat
           /\ IsFiniteSet(Occurrences(listeners, l))
<1>1. listeners \in Seq(Listeners)
  BY DEF TypeOK
<1>2. Occurrences(listeners, l) = {i \in DOMAIN listeners : listeners[i] = l}
  BY DEF Occurrences
<1> QED
  BY <1>1, <1>2, OccurrencesFinite DEF Registered

\* One listener with the code comes off, or there is none.
LEMMA OneComesOff ==
    ASSUME TypeOK, NEW l \in Listeners, RemoveListener(l)
    PROVE  \/ SameCode(l) = {} /\ listeners' = listeners
           \/ \E i \in SameCode(l) : i \in 1 .. Len(listeners) /\ listeners' = Without(listeners, i)
<1>1. CASE SameCode(l) = {}
  BY <1>1 DEF RemoveListener
<1>2. CASE SameCode(l) # {}
  <2> DEFINE i == CHOOSE i \in SameCode(l) : \A j \in SameCode(l) : j <= i
  <2>1. Len(listeners) \in Nat /\ SameCode(l) \subseteq 1 .. Len(listeners)
    BY RegisteredIs DEF SameCode
  <2>2. \E k \in SameCode(l) : \A j \in SameCode(l) : j <= k
    BY <1>2, <2>1, Greatest
  <2>3. i \in SameCode(l)
    BY <2>2
  <2>4. listeners' = RemoveAt(listeners, i)
    BY <1>2 DEF RemoveListener
  <2> HIDE DEF i
  <2> QED
    BY <2>1, <2>3, <2>4 DEF RemoveAt, Without
<1> QED
  BY <1>1, <1>2

LEMMA PublishBase ==
    ASSUME Base, NEW g \in Goroutines, Publish(g)
    PROVE  /\ Base' /\ Reporting(g)
           /\ me'[g] = Idle /\ \A h \in Goroutines \ {g} : me'[h] = me[h]
           /\ DOMAIN events' = DOMAIN events
           /\ \A e \in DOMAIN events :
                 events'[e] = IF e = me[g].event
                              THEN [events[e] EXCEPT !.due = subscribed, !.out = TRUE]
                              ELSE events[e]
<1> DEFINE e0 == me[g].event
           x == [events[e0] EXCEPT !.due = subscribed, !.out = TRUE]
<1>1. /\ TypeOK /\ me[g].pc = "publish" /\ me' = [me EXCEPT ![g] = Idle] /\ Reporting(g)
      /\ pending' = [l \in Listeners |-> [pending[l] EXCEPT ![e0] = Registered(l)]]
      /\ events' = [events EXCEPT ![e0] = x]
      /\ UNCHANGED <<currentState, stats, listeners, subscribed, heard, changes>>
  BY DEF Base, Publish, At, Reporting
<1>2. e0 \in DOMAIN events /\ e0 \in EventNumbers /\ events[e0] \in Events
  BY <1>1, EventsNumbered, EventOf DEF Event
<1>3. x \in Events
  BY <1>1, <1>2 DEF Events, TypeOK
<1> HIDE DEF x, e0
<1>4. /\ events' \in Seq(Events) /\ Len(events') = Len(events) /\ DOMAIN events' = DOMAIN events
      /\ \A d \in DOMAIN events : events'[d] = IF d = e0 THEN x ELSE events[d]
  BY <1>1, <1>2, <1>3, ChangeEvent
<1>5. /\ me' \in [Goroutines -> Locals] /\ me'[g] = Idle
      /\ \A h \in Goroutines \ {g} : me'[h] = me[h]
  BY <1>1, IdleLocals DEF TypeOK
<1>6. pending' \in [Listeners -> [EventNumbers -> Nat]]
  <2>1. \A l \in Listeners : Registered(l) \in Nat
    BY <1>1, RegisteredIs
  <2> QED
    BY <1>1, <2>1 DEF TypeOK
<1>7. TypeOK'
  BY <1>1, <1>4, <1>5, <1>6 DEF TypeOK, stats
<1>8. LocalsOfMethod'
  <2>1. \A h \in Goroutines \ {g} : Reporting(h) => me[h].event # e0
    BY <1>1 DEF Base, OwnEvents, e0
  <2>2. \A h \in Goroutines \ {g} :
           Reporting(h) => me'[h].event \in DOMAIN events' /\ Event(h)' = Event(h)
    BY <1>4, <1>5, <2>1 DEF Base, LocalsOfMethod, Event
  <2> QED
    BY <1>5, <2>2, IdleShape DEF Base, LocalsOfMethod, Shape, ReportingIn, Reporting
<1>9. OwnEvents'
  BY <1>5, IdleShape DEF Base, OwnEvents, ReportingIn, Reporting
<1>10. OneReset'
  BY <1>1, <1>5, IdleShape DEF Base, OneReset, stats
<1> QED
  BY <1>1, <1>4, <1>5, <1>7, <1>8, <1>9, <1>10 DEF Base, x, e0

\* A step of the listeners.
LEMMA ListeningBase ==
    ASSUME Base, UNCHANGED <<currentState, stats, me, events>>,
           listeners' \in Seq(Listeners), subscribed' \in [Listeners -> Nat],
           pending' \in [Listeners -> [EventNumbers -> Nat]],
           heard' \in [Listeners -> [EventNumbers -> Nat]], changes' \in Nat
    PROVE  Base'
<1>1. TypeOK'
  BY DEF Base, TypeOK, stats
<1>2. LocalsOfMethod' /\ OwnEvents' /\ OneReset'
  BY DEF Base, LocalsOfMethod, OwnEvents, OneReset, Reporting, Event, stats
<1> QED
  BY <1>1, <1>2 DEF Base

LEMMA AddListenerBase ==
    ASSUME Base, NEW l \in Listeners, AddListener(l)
    PROVE  Base'
<1>1. /\ UNCHANGED <<currentState, stats, me, events, pending, heard>> /\ changes' = changes + 1
      /\ listeners' = Append(listeners, l) /\ subscribed' = [subscribed EXCEPT ![l] = @ + 1]
  BY DEF AddListener, Listening
<1>2. TypeOK
  BY DEF Base
<1>3. listeners' \in Seq(Listeners)
  BY <1>1, <1>2, AppendProperties DEF TypeOK
<1>4. subscribed' \in [Listeners -> Nat] /\ changes' \in Nat
  BY <1>1, <1>2 DEF TypeOK
<1> QED
  BY <1>1, <1>2, <1>3, <1>4, ListeningBase DEF TypeOK

LEMMA RemoveListenerBase ==
    ASSUME Base, NEW l \in Listeners, RemoveListener(l)
    PROVE  Base'
<1>1. /\ UNCHANGED <<currentState, stats, me, events, pending, heard>> /\ changes' = changes + 1
      /\ subscribed' = [subscribed EXCEPT ![l] = IF @ = 0 THEN 0 ELSE @ - 1]
  BY DEF RemoveListener, Listening
<1>2. TypeOK /\ listeners \in Seq(Listeners)
  BY DEF Base, TypeOK
<1>3. listeners' \in Seq(Listeners)
  BY <1>2, OneComesOff, WithoutProperties
<1>4. subscribed' \in [Listeners -> Nat] /\ changes' \in Nat
  BY <1>1, <1>2 DEF TypeOK
<1> QED
  BY <1>1, <1>2, <1>3, <1>4, ListeningBase DEF TypeOK

LEMMA DeliverBase ==
    ASSUME Base, NEW l \in Listeners, NEW e \in EventNumbers, Deliver(l, e)
    PROVE  Base'
<1>1. /\ UNCHANGED <<currentState, stats, me, events, listeners, subscribed, changes>>
      /\ pending[l][e] > 0
      /\ pending' = [pending EXCEPT ![l][e] = @ - 1] /\ heard' = [heard EXCEPT ![l][e] = @ + 1]
  BY DEF Deliver
<1>2. TypeOK
  BY DEF Base
<1>3. /\ pending' \in [Listeners -> [EventNumbers -> Nat]]
      /\ heard' \in [Listeners -> [EventNumbers -> Nat]]
  BY <1>1, <1>2 DEF TypeOK
<1> QED
  BY <1>1, <1>2, <1>3, ListeningBase DEF TypeOK

LEMMA BaseUnchanged ==
    ASSUME Base, UNCHANGED vars
    PROVE  Base'
BY DEF Base, vars, stats, listening, TypeOK, LocalsOfMethod, OwnEvents, OneReset,
       Reporting, Event

LEMMA BaseInit ==
    ASSUME Init
    PROVE  Base
<1>1. TypeOK
  <2>1. events \in Seq(Events) /\ Len(events) <= MaxReports /\ listeners \in Seq(Listeners)
    BY EmptySeq, MonitorAssumption DEF Init
  <2> QED
    BY <2>1, IdleLocals, MutexesAre DEF Init, TypeOK, Zero, States
<1>2. \A g \in Goroutines : me[g] = Idle
  BY DEF Init
<1>3. LocalsOfMethod /\ OwnEvents /\ OneReset
  BY <1>2, IdleShape DEF LocalsOfMethod, OwnEvents, OneReset, Reporting, ReportingIn, Shape
<1> QED
  BY <1>1, <1>3 DEF Base

LEMMA BaseNext ==
    ASSUME Base, [Next]_vars
    PROVE  Base'
<1>1. ASSUME NEW g \in Goroutines, NEW report \in Made, Report(g, report) PROVE Base'
  BY <1>1, ReportBase
<1>2. ASSUME NEW g \in Goroutines, Proceed(g) PROVE Base'
  BY <1>2, DeferBase, RecordReadsBase, RecordStoresBase, SnapshotBase, ResetStoresBase,
     UnlockBase, SetStateBase, PublishBase DEF Proceed
<1>3. ASSUME NEW l \in Listeners, NEW e \in EventNumbers, Deliver(l, e) PROVE Base'
  BY <1>3, DeliverBase
<1> QED
  BY <1>1, <1>2, <1>3, ResetBase, AcquireBase, AddListenerBase, RemoveListenerBase,
     BaseUnchanged DEF Next, Stopped

LEMMA BaseHolds == Spec => []Base
BY BaseInit, BaseNext, PTL DEF Spec

\* The types of the monitor, whatever Reset does.
THEOREM MonitorTypes == Spec => []TypeOK
<1>1. Base => TypeOK
  BY DEF Base
<1> QED
  BY <1>1, BaseHolds, PTL

-----------------------------------------------------------------------------
(* Every subscription hears of an event once.                              *)

\* The steps that change nothing of what the listeners know.
LEMMA ToldKept ==
    ASSUME Base, Told, UNCHANGED listening, DOMAIN events' = DOMAIN events,
           \A e \in DOMAIN events : /\ events'[e].out = events[e].out
                                    /\ events'[e].due = events[e].due
    PROVE  Told'
<1>1. NotYetTold'
  BY DEF Told, NotYetTold, listening
<1>2. ListenersSubscribed'
  BY DEF Told, ListenersSubscribed, Registered, listening
<1>3. OncePerSubscription'
  BY DEF Told, OncePerSubscription, listening
<1> QED
  BY <1>1, <1>2, <1>3 DEF Told

LEMMA ReportTold ==
    ASSUME Base, Told, NEW g \in Goroutines, NEW report \in Made, Report(g, report)
    PROVE  Told'
<1> DEFINE x == NewEvent(report)
           n == Len(events) + 1
<1>1. /\ TypeOK /\ events' = Append(events, x) /\ UNCHANGED listening
      /\ ~x.out
  BY DEF Base, Report, NewEvent
<1>2. /\ events \in Seq(Events) /\ Len(events) \in Nat /\ DOMAIN events = 1 .. Len(events)
  BY <1>1, EventsNumbered
<1> HIDE DEF x
<1>3. /\ DOMAIN events' = 1 .. n /\ events'[n] = x
      /\ \A e \in DOMAIN events : events'[e] = events[e]
  BY <1>1, <1>2, LenProperties
<1>4. \A e \in DOMAIN events' : e \in DOMAIN events \/ e = n
  BY <1>2, <1>3
<1>5. \A e \in DOMAIN events : e \in DOMAIN events'
  BY <1>2, <1>3
<1>6. NotYetTold'
  BY <1>1, <1>3, <1>4, <1>5 DEF Told, NotYetTold, listening
<1>7. ListenersSubscribed'
  BY <1>1 DEF Told, ListenersSubscribed, Registered, listening
<1>8. OncePerSubscription'
  BY <1>1, <1>3, <1>4, <1>5 DEF Told, OncePerSubscription, listening
<1> QED
  BY <1>6, <1>7, <1>8 DEF Told

LEMMA PublishTold ==
    ASSUME Base, Told, NEW g \in Goroutines, Publish(g)
    PROVE  Told'
<1> DEFINE e0 == me[g].event
<1>1. /\ TypeOK /\ Reporting(g) /\ UNCHANGED <<listeners, subscribed, heard>>
      /\ pending' = [l \in Listeners |-> [pending[l] EXCEPT ![e0] = Registered(l)]]
      /\ DOMAIN events' = DOMAIN events
  BY PublishBase DEF Base, Publish
<1>2. e0 \in DOMAIN events /\ e0 \in EventNumbers /\ ~events[e0].out /\ events[e0] \in Events
  BY <1>1, EventOf, EventsNumbered DEF Event
<1>3. /\ events'[e0].out /\ events'[e0].due = subscribed
      /\ \A e \in DOMAIN events \ {e0} : events'[e] = events[e]
  <2>1. events'[e0] = [events[e0] EXCEPT !.due = subscribed, !.out = TRUE]
    BY <1>2, PublishBase
  <2>2. events'[e0].out /\ events'[e0].due = subscribed
    BY <1>2, <2>1 DEF Events
  <2> QED
    BY <2>2, PublishBase
<1>4. \A l \in Listeners : /\ pending'[l][e0] = subscribed[l] /\ heard[l][e0] = 0
                           /\ subscribed[l] \in Nat
                           /\ \A e \in EventNumbers \ {e0} : pending'[l][e] = pending[l][e]
  BY <1>1, <1>2 DEF TypeOK, Told, ListenersSubscribed, NotYetTold
<1> HIDE DEF e0
<1>5. NotYetTold'
  BY <1>1, <1>2, <1>3, <1>4 DEF Told, NotYetTold
<1>6. ListenersSubscribed'
  BY <1>1 DEF Told, ListenersSubscribed, Registered
<1>7. OncePerSubscription'
  <2> SUFFICES ASSUME NEW e \in DOMAIN events, events'[e].out, NEW l \in Listeners
               PROVE  heard'[l][e] + pending'[l][e] = events'[e].due[l]
    BY <1>1 DEF OncePerSubscription
  <2>1. CASE e = e0
    BY <1>1, <1>3, <1>4, <2>1
  <2>2. CASE e # e0
    <3>1. e \in EventNumbers \ {e0} /\ events'[e] = events[e]
      BY <1>1, <1>3, <2>2, EventsNumbered
    <3> QED
      BY <1>1, <1>4, <3>1 DEF Told, OncePerSubscription
  <2> QED
    BY <2>1, <2>2
<1> QED
  BY <1>5, <1>6, <1>7 DEF Told

LEMMA AddListenerTold ==
    ASSUME Base, Told, NEW l \in Listeners, AddListener(l)
    PROVE  Told'
<1>1. /\ TypeOK /\ UNCHANGED <<events, pending, heard>>
      /\ listeners' = Append(listeners, l) /\ subscribed' = [subscribed EXCEPT ![l] = @ + 1]
  BY DEF Base, AddListener, Listening
<1>2. NotYetTold' /\ OncePerSubscription'
  BY <1>1 DEF Told, NotYetTold, OncePerSubscription
<1>3. ASSUME NEW k \in Listeners PROVE Registered(k)' = subscribed'[k]
  <2>1. TypeOK'
    BY AddListenerBase DEF Base
  <2>2. /\ Registered(k) = Cardinality(Occurrences(listeners, k))
        /\ Registered(k)' = Cardinality(Occurrences(listeners', k))
    BY <1>1, <2>1, RegisteredIs DEF Registered, Occurrences
  <2>3. Registered(k) = subscribed[k] /\ listeners \in Seq(Listeners)
    BY <1>1 DEF Told, ListenersSubscribed, TypeOK
  <2>4. Cardinality(Occurrences(Append(listeners, l), k))
           = IF k = l THEN Cardinality(Occurrences(listeners, k)) + 1
             ELSE Cardinality(Occurrences(listeners, k))
    BY <2>3, OccurrencesOfAppend
  <2> QED
    BY <1>1, <2>2, <2>3, <2>4 DEF TypeOK
<1> QED
  BY <1>2, <1>3 DEF Told, ListenersSubscribed

LEMMA RemoveListenerTold ==
    ASSUME Base, Told, UniqueCodes, NEW l \in Listeners, RemoveListener(l)
    PROVE  Told'
<1>1. /\ TypeOK /\ UNCHANGED <<events, pending, heard>> /\ listeners \in Seq(Listeners)
      /\ subscribed' = [subscribed EXCEPT ![l] = IF @ = 0 THEN 0 ELSE @ - 1]
  BY DEF Base, RemoveListener, Listening, TypeOK
<1>2. NotYetTold' /\ OncePerSubscription'
  BY <1>1 DEF Told, NotYetTold, OncePerSubscription
<1>3. SameCode(l) = Occurrences(listeners, l)
  <2>1. \A i \in DOMAIN listeners : listeners[i] \in Listeners
    BY <1>1, RegisteredIs, ElementOfSeq
  <2> QED
    BY <2>1 DEF UniqueCodes, SameCode, Occurrences
<1>4. ASSUME NEW k \in Listeners PROVE Registered(k)' = subscribed'[k]
  <2>1. /\ Registered(k) = Cardinality(Occurrences(listeners, k))
        /\ Registered(k)' = Cardinality(Occurrences(listeners', k))
    BY <1>1, RegisteredIs DEF Registered, Occurrences
  <2>2. /\ Registered(k) = subscribed[k] /\ Registered(l) = subscribed[l]
        /\ subscribed[k] \in Nat /\ subscribed[l] \in Nat
    BY <1>1 DEF Told, ListenersSubscribed, TypeOK
  <2>3. CASE SameCode(l) = {} /\ listeners' = listeners
    <3>1. subscribed[l] = 0
      BY <1>1, <1>3, <2>2, <2>3, RegisteredIs, FS_EmptySet
    <3> QED
      BY <1>1, <2>1, <2>2, <2>3, <3>1 DEF TypeOK
  <2>4. ASSUME NEW i \in SameCode(l), i \in 1 .. Len(listeners),
               listeners' = Without(listeners, i)
        PROVE  Registered(k)' = subscribed'[k]
    <3>1. listeners[i] = l /\ i \in Occurrences(listeners, l)
      BY <1>3, <2>4 DEF Occurrences
    <3>2. subscribed[l] # 0
      BY <1>1, <2>2, <3>1, RegisteredIs, FS_EmptySet
    <3>3. Cardinality(Occurrences(Without(listeners, i), k))
             = IF k = l THEN Cardinality(Occurrences(listeners, k)) - 1
               ELSE Cardinality(Occurrences(listeners, k))
      BY <1>1, <2>4, <3>1, OccurrencesWithout
    <3> QED
      BY <1>1, <2>1, <2>2, <2>4, <3>2, <3>3 DEF TypeOK
  <2> QED
    BY <1>1, <2>3, <2>4, OneComesOff
<1> QED
  BY <1>2, <1>4 DEF Told, ListenersSubscribed

LEMMA DeliverTold ==
    ASSUME Base, Told, NEW l \in Listeners, NEW e \in EventNumbers, Deliver(l, e)
    PROVE  Told'
<1>1. /\ TypeOK /\ UNCHANGED <<events, listeners, subscribed>>
      /\ pending[l][e] > 0
      /\ pending' = [pending EXCEPT ![l][e] = @ - 1] /\ heard' = [heard EXCEPT ![l][e] = @ + 1]
  BY DEF Base, Deliver
<1>2. /\ \A k \in Listeners, d \in EventNumbers :
            /\ pending[k][d] \in Nat /\ heard[k][d] \in Nat
            /\ heard'[k][d] + pending'[k][d] = heard[k][d] + pending[k][d]
            /\ k # l \/ d # e => heard'[k][d] = heard[k][d] /\ pending'[k][d] = pending[k][d]
  BY <1>1 DEF TypeOK
<1>3. e \in DOMAIN events /\ events[e].out
  BY <1>1 DEF Told, NotYetTold
<1>4. NotYetTold'
  BY <1>1, <1>2, <1>3 DEF Told, NotYetTold
<1>5. ListenersSubscribed'
  BY <1>1 DEF Told, ListenersSubscribed, Registered
<1>6. OncePerSubscription'
  BY <1>1, <1>2, EventsNumbered DEF Told, OncePerSubscription
<1> QED
  BY <1>4, <1>5, <1>6 DEF Told

LEMMA ToldInit ==
    ASSUME Init
    PROVE  Told
<1>1. NotYetTold /\ OncePerSubscription
  BY DEF Init, NotYetTold, OncePerSubscription
<1>2. ASSUME NEW l \in Listeners PROVE Registered(l) = subscribed[l]
  <2>1. Occurrences(listeners, l) = {}
    <3>1. listeners = << >> /\ Len(listeners) = 0
      BY EmptySeq DEF Init
    <3> QED
      BY <3>1 DEF Occurrences
  <2> QED
    BY <2>1, BaseInit, RegisteredIs, FS_EmptySet DEF Init, Base
<1> QED
  BY <1>1, <1>2 DEF Told, ListenersSubscribed

LEMMA ToldNext ==
    ASSUME Base, Told, UniqueCodes, [Next]_vars
    PROVE  Told'
<1>1. ASSUME NEW g \in Goroutines, NEW report \in Made, Report(g, report) PROVE Told'
  BY <1>1, ReportTold
<1>2. ASSUME NEW g \in Goroutines, RecordStores(g) \/ Snapshot(g) PROVE Told'
  <2>1. UNCHANGED listening
    BY <1>2 DEF RecordStores, Snapshot
  <2>2. DOMAIN events' = DOMAIN events
    BY <1>2, RecordStoresBase, SnapshotBase DEF InMethod, SameEvents
  <2>3. \A e \in DOMAIN events : events[e] \in Events
    BY EventsNumbered DEF Base
  <2>4. \A e \in DOMAIN events : /\ events'[e].out = events[e].out
                                 /\ events'[e].due = events[e].due
    <3>1. CASE RecordStores(g)
      BY <2>3, <3>1, RecordStoresBase DEF Events
    <3>2. CASE Snapshot(g)
      BY <2>3, <3>2, SnapshotBase DEF Events
    <3> QED
      BY <1>2, <3>1, <3>2
  <2> QED
    BY <2>1, <2>2, <2>4, ToldKept
<1>3. ASSUME NEW g \in Goroutines,
             Reset(g) \/ Acquire(g) \/ Defer(g) \/ RecordReads(g) \/ ResetStores(g) \/ Unlock(g)
                \/ SetState(g)
      PROVE  Told'
  <2>1. UNCHANGED <<listening, events>>
    BY <1>3 DEF Reset, Acquire, Defer, RecordReads, ResetStores, Unlock, SetState
  <2> QED
    BY <2>1, ToldKept
<1>4. ASSUME UNCHANGED vars PROVE Told'
  BY <1>4, ToldKept DEF vars
<1>5. ASSUME NEW l \in Listeners, NEW e \in EventNumbers, Deliver(l, e) PROVE Told'
  BY <1>5, DeliverTold
<1> QED
  BY <1>1, <1>2, <1>3, <1>4, <1>5, PublishTold, AddListenerTold, RemoveListenerTold
     DEF Next, Proceed, Stopped

\* Each listener is called once for every time it was added and not removed when an event
\* went out, when no two listeners share the code pointer that removeListener compares.
THEOREM EverySubscriptionHearsOnce ==
    ASSUME UniqueCodes
    PROVE  Spec => []OncePerSubscription
<1>1. Base /\ Told /\ [Next]_vars => Told'
  BY ToldNext
<1>2. Told => OncePerSubscription
  BY DEF Told
<1> QED
  BY <1>1, <1>2, ToldInit, BaseHolds, PTL DEF Spec

-----------------------------------------------------------------------------
(* The counters, when Reset has them to itself.                            *)

\* One goroutine at a time is between Lock and Unlock.
LEMMA Exclusive ==
    ASSUME Base, Counting, NEW g \in Goroutines, NEW h \in Goroutines, g # h,
           me[g].pc \in Inside, me[h].pc \in Inside
    PROVE  FALSE
<1>1. me[g].in # "Reset" /\ me[h].in # "Reset"
  BY DEF Counting, ResetIsAlone, Inside
<1>2. me[g].in # "none" /\ me[h].in # "none"
  BY DEF Base, LocalsOfMethod, Inside
<1>3. me[g].mutex = lock /\ me[h].mutex = lock
  BY <1>1, <1>2 DEF Counting, UnderMutex
<1> QED
  BY <1>3 DEF Counting, UnderMutex

\* The steps that change nothing of the counters and the events.
LEMMA CountersKept ==
    ASSUME Counting, UNCHANGED <<counts, lock, recorded, fatal, events>>
    PROVE  RecordsCounted' /\ NoLostCount' /\ StatsOfOwnReport' /\ NeverFatal'
BY DEF Counting, RecordsCounted, Recorded, NoLostCount, StatsOfOwnReport, NeverFatal

LEMMA CountingUnchanged ==
    ASSUME Counting, UNCHANGED <<stats, me, events>>
    PROVE  Counting'
<1>1. RecordsCounted' /\ NoLostCount' /\ StatsOfOwnReport' /\ NeverFatal'
  BY CountersKept DEF stats
<1>2. ResetIsAlone' /\ UnderMutex' /\ ReadIsCurrent' /\ StatsTaken'
  BY DEF Counting, ResetIsAlone, UnderMutex, ReadIsCurrent, StatsTaken, Recorded, Event, stats
<1> QED
  BY <1>1, <1>2 DEF Counting

LEMMA ReportCounting ==
    ASSUME Base, Counting, ResetAlone, NEW g \in Goroutines, NEW report \in Made,
           Report(g, report)
    PROVE  Counting'
<1> DEFINE n == Len(events) + 1
           x == NewEvent(report)
<1>1. /\ TypeOK /\ me[g].pc = "idle" /\ me[g].in = "none"
      /\ \A h \in Goroutines : me[h].in # "Reset"
      /\ UNCHANGED stats /\ events' = Append(events, x)
      /\ x.own = 0 /\ x.epoch = 1 /\ ~x.out
  BY DEF Base, LocalsOfMethod, Report, At, NewEvent
<1>2. /\ \A h \in Goroutines \ {g} : me'[h] = me[h]
      /\ me'[g].in \in {"none", "record"} /\ me'[g].pc \in {"wait", "set"}
      /\ me'[g].in # "none" => me'[g].mutex = lock
  <2> DEFINE r == [Idle EXCEPT !.pc = "wait", !.in = "record", !.mutex = lock, !.event = n]
             s == [Idle EXCEPT !.pc = "set", !.event = n]
  <2>1. me' = [me EXCEPT ![g] = r] \/ me' = [me EXCEPT ![g] = s]
    BY DEF Report, Enter
  <2>2. /\ r.in = "record" /\ r.pc = "wait" /\ r.mutex = lock
        /\ s.in = "none" /\ s.pc = "set"
    BY DEF Idle
  <2> HIDE DEF r, s
  <2> QED
    BY <1>1, <2>1, <2>2 DEF TypeOK
<1>3. /\ events \in Seq(Events) /\ Len(events) \in Nat /\ DOMAIN events = 1 .. Len(events)
  BY <1>1, EventsNumbered
<1> HIDE DEF x
<1>4. /\ DOMAIN events' = 1 .. n /\ events'[n] = x
      /\ \A e \in DOMAIN events : events'[e] = events[e]
  BY <1>1, <1>3, LenProperties
<1>5. /\ \A e \in DOMAIN events' : e \in DOMAIN events \/ e = n
      /\ DOMAIN events \subseteq DOMAIN events'
  BY <1>3, <1>4
<1> HIDE DEF n
<1>6. \A h \in Goroutines \ {g} :
         Reporting(h) => me'[h].event \in DOMAIN events /\ Event(h)' = Event(h)
  BY <1>2, <1>4 DEF Base, LocalsOfMethod, Event
<1>7. ResetIsAlone'
  BY <1>1, <1>2 DEF ResetIsAlone
<1>8. UnderMutex'
  BY <1>1, <1>2 DEF Counting, UnderMutex, Inside, stats
<1>9. ReadIsCurrent'
  <2>1. \A h \in Goroutines : me[h].pc = "store" => Reporting(h)
    BY DEF Base, LocalsOfMethod, Reporting
  <2> QED
    BY <1>1, <1>2, <1>6, <2>1 DEF Counting, ReadIsCurrent, stats
<1>10. RecordsCounted'
  <2>1. lock \in Nat /\ 1 <= lock
    BY <1>1, MutexesAre DEF TypeOK
  <2> QED
    BY <1>1, <1>4, <1>5, <2>1 DEF Counting, RecordsCounted, Recorded, stats
<1>11. StatsTaken'
  <2>1. \A h \in Goroutines :
           me[h].pc = "publish" \/ (me[h].in = "GetStats" /\ me[h].pc = "unlock")
           => Reporting(h)
    BY DEF Reporting
  <2> QED
    BY <1>1, <1>2, <1>4, <1>6, <2>1 DEF Counting, StatsTaken, Recorded, Event, stats
<1>12. NoLostCount' /\ NeverFatal'
  BY <1>1 DEF Counting, NoLostCount, NeverFatal, stats
<1>13. StatsOfOwnReport'
  BY <1>1, <1>4, <1>5 DEF Counting, StatsOfOwnReport, stats
<1> QED
  BY <1>7, <1>8, <1>9, <1>10, <1>11, <1>12, <1>13 DEF Counting

LEMMA ResetCounting ==
    ASSUME Base, Counting, ResetAlone, NEW g \in Goroutines, Reset(g)
    PROVE  Counting'
<1>1. /\ TypeOK /\ \A h \in Goroutines : me[h].pc = "idle" /\ me[h].in = "none"
      /\ UNCHANGED <<stats, events>>
  BY DEF Base, LocalsOfMethod, Reset
<1>2. /\ \A h \in Goroutines \ {g} : me'[h] = me[h]
      /\ me'[g].in = "Reset" /\ me'[g].pc = "wait" /\ me'[g].mutex = lock
  BY <1>1 DEF Reset, Enter, Idle, TypeOK
<1>3. RecordsCounted' /\ NoLostCount' /\ StatsOfOwnReport' /\ NeverFatal'
  BY <1>1, CountersKept DEF stats
<1>4. ResetIsAlone'
  BY <1>1, <1>2 DEF ResetIsAlone
<1>5. UnderMutex'
  BY <1>1, <1>2 DEF Counting, UnderMutex, Inside, stats
<1>6. ReadIsCurrent' /\ StatsTaken'
  BY <1>1, <1>2 DEF ReadIsCurrent, StatsTaken
<1> QED
  BY <1>3, <1>4, <1>5, <1>6 DEF Counting

LEMMA AcquireCounting ==
    ASSUME Base, Counting, NEW g \in Goroutines, Acquire(g)
    PROVE  Counting'
<1>1. /\ TypeOK /\ me[g].pc = "wait" /\ heldBy[me[g].mutex] = Nobody
      /\ me' = [me EXCEPT ![g] = [me[g] EXCEPT !.pc = "defer"]]
      /\ heldBy' = [heldBy EXCEPT ![me[g].mutex] = g]
      /\ UNCHANGED <<counts, lock, fatal, recorded, events>>
  BY DEF Base, Acquire, Free, At, Goto
<1>2. me[g] \in Locals /\ me[g].mutex \in Mutexes /\ me[g].in # "none"
  BY <1>1, LocalsOf DEF Locals, Base, LocalsOfMethod
<1>3. /\ \A h \in Goroutines \ {g} : me'[h] = me[h]
      /\ me'[g].pc = "defer" /\ me'[g].in = me[g].in /\ me'[g].mutex = me[g].mutex
  BY <1>1, <1>2 DEF TypeOK, Locals
<1>4. me[g].mutex = lock
  BY <1>1, <1>2 DEF Counting, UnderMutex
<1>5. heldBy'[lock] = g /\ \A m \in Mutexes \ {lock} : heldBy'[m] = heldBy[m]
  BY <1>1, <1>2, <1>4 DEF TypeOK
<1>6. RecordsCounted' /\ NoLostCount' /\ StatsOfOwnReport' /\ NeverFatal'
  BY <1>1, CountersKept
<1>7. ResetIsAlone'
  BY <1>1, <1>3 DEF Counting, ResetIsAlone
<1>8. UnderMutex'
  <2>1. \A h \in Goroutines \ {g} : me[h].pc \in Inside =>
           /\ heldBy[me[h].mutex] = h /\ h # Nobody /\ me[h].mutex \in Mutexes
           /\ me[h].mutex # lock
    BY <1>1, <1>4, LocalsOf, MonitorAssumption DEF Counting, UnderMutex, Locals
  <2>2. \A m \in Mutexes : m > lock => m # lock
    BY <1>1, MutexesAre DEF TypeOK
  <2> QED
    BY <1>1, <1>3, <1>4, <1>5, <2>1, <2>2 DEF Counting, UnderMutex, Inside
<1>9. ReadIsCurrent' /\ StatsTaken'
  BY <1>1, <1>3 DEF Counting, ReadIsCurrent, StatsTaken, Recorded, Event
<1> QED
  BY <1>6, <1>7, <1>8, <1>9 DEF Counting

LEMMA DeferCounting ==
    ASSUME Base, Counting, NEW g \in Goroutines, Defer(g)
    PROVE  Counting'
<1>1. /\ TypeOK /\ me[g].pc = "defer" /\ me[g].in \in {"record", "GetStats", "Reset"}
      /\ me' = [me EXCEPT ![g] = [me[g] EXCEPT !.pc = me[g].in, !.deferred = lock]]
      /\ UNCHANGED <<stats, events>>
  BY LocalsOf DEF Base, LocalsOfMethod, Defer, At, Locals
<1>2. me[g] \in Locals
  BY <1>1, LocalsOf
<1>3. /\ \A h \in Goroutines \ {g} : me'[h] = me[h]
      /\ me'[g].pc = me[g].in /\ me'[g].in = me[g].in /\ me'[g].mutex = me[g].mutex
      /\ me'[g].deferred = lock
  BY <1>1, <1>2 DEF TypeOK, Locals
<1>4. me[g].mutex = lock /\ heldBy[me[g].mutex] = g
  BY <1>1 DEF Counting, UnderMutex, Inside
<1>5. RecordsCounted' /\ NoLostCount' /\ StatsOfOwnReport' /\ NeverFatal'
  BY <1>1, CountersKept DEF stats
<1>6. ResetIsAlone'
  BY <1>1, <1>3 DEF Counting, ResetIsAlone
<1>7. UnderMutex'
  BY <1>1, <1>3, <1>4 DEF Counting, UnderMutex, Inside, stats
<1>8. ReadIsCurrent' /\ StatsTaken'
  <2>1. me'[g].pc \notin {"store", "publish", "unlock"}
    BY <1>1, <1>3
  <2>2. ReadIsCurrent'
    BY <1>1, <1>3, <2>1 DEF Counting, ReadIsCurrent, Event, stats
  <2>3. StatsTaken'
    BY <1>1, <1>3, <2>1 DEF Counting, StatsTaken, Recorded, Event, stats
  <2> QED
    BY <2>2, <2>3
<1> QED
  BY <1>5, <1>6, <1>7, <1>8 DEF Counting

LEMMA RecordReadsCounting ==
    ASSUME Base, Counting, NEW g \in Goroutines, RecordReads(g)
    PROVE  Counting'
<1>1. /\ TypeOK /\ me[g].pc = "record" /\ me[g].in = "record"
      /\ me' = [me EXCEPT ![g] = [me[g] EXCEPT !.pc = "store",
                                               !.tmp = counts[Event(g).counter]]]
      /\ UNCHANGED <<stats, events>>
  BY DEF Base, LocalsOfMethod, RecordReads, At
<1>2. me[g] \in Locals
  BY <1>1, LocalsOf
<1>3. /\ \A h \in Goroutines \ {g} : me'[h] = me[h]
      /\ me'[g].pc = "store" /\ me'[g].in = me[g].in /\ me'[g].mutex = me[g].mutex
      /\ me'[g].deferred = me[g].deferred /\ me'[g].event = me[g].event
      /\ me'[g].tmp = counts[Event(g).counter]
  BY <1>1, <1>2 DEF TypeOK, Locals
<1>4. RecordsCounted' /\ NoLostCount' /\ StatsOfOwnReport' /\ NeverFatal'
  BY <1>1, CountersKept DEF stats
<1>5. ResetIsAlone'
  BY <1>1, <1>3 DEF Counting, ResetIsAlone
<1>6. UnderMutex'
  BY <1>1, <1>3 DEF Counting, UnderMutex, Inside, stats
<1>7. \A h \in Goroutines : me'[h].event = me[h].event /\ Event(h)' = Event(h)
  BY <1>1, <1>3 DEF Event
<1>8. ReadIsCurrent'
  <2>1. counts' = counts
    BY <1>1 DEF stats
  <2> QED
    BY <1>3, <1>7, <2>1 DEF Counting, ReadIsCurrent
<1>9. StatsTaken'
  <2>1. lock' = lock /\ events' = events
    BY <1>1 DEF stats
  <2>2. \A h \in Goroutines : Recorded(me[h].event)' = Recorded(me[h].event)
    BY <1>7, <2>1 DEF Recorded
  <2>3. \A h \in Goroutines : me'[h].pc \in {"publish", "unlock"} => me'[h] = me[h]
    BY <1>3
  <2> QED
    BY <1>7, <2>2, <2>3 DEF Counting, StatsTaken
<1> QED
  BY <1>4, <1>5, <1>6, <1>8, <1>9 DEF Counting

LEMMA RecordStoresCounting ==
    ASSUME Base, Counting, NEW g \in Goroutines, RecordStores(g)
    PROVE  Counting'
<1> DEFINE e0 == me[g].event
           c == events[e0].counter
           x == [events[e0] EXCEPT !.own = me[g].tmp + 1, !.epoch = lock]
<1>1. /\ TypeOK /\ me[g].pc = "store" /\ me[g].in = "record" /\ Reporting(g)
      /\ me' = [me EXCEPT ![g] = [me[g] EXCEPT !.pc = "unlock"]]
      /\ counts' = [counts EXCEPT ![c] = me[g].tmp + 1]
      /\ recorded' = [recorded EXCEPT ![c] = @ + 1]
      /\ c \in Counters /\ UNCHANGED <<lock, heldBy, fatal>>
      /\ DOMAIN events' = DOMAIN events
      /\ \A e \in DOMAIN events : events'[e] = IF e = e0 THEN x ELSE events[e]
  BY RecordStoresBase
     DEF Base, LocalsOfMethod, RecordStores, At, Goto, Reporting, Event, InMethod, SameEvents
<1>2. me[g] \in Locals /\ e0 \in DOMAIN events /\ events[e0] \in Events /\ ~events[e0].out
  BY <1>1, LocalsOf, EventOf DEF Event
<1>3. /\ \A h \in Goroutines \ {g} : me'[h] = me[h]
      /\ me'[g].pc = "unlock" /\ me'[g].in = me[g].in /\ me'[g].mutex = me[g].mutex
      /\ me'[g].deferred = me[g].deferred
  BY <1>1, <1>2 DEF TypeOK, Locals
<1>4. /\ counts \in [Counters -> Nat] /\ recorded = counts /\ me[g].tmp = counts[c]
      /\ lock \in Nat
  BY <1>1, MutexesAre DEF Counting, ReadIsCurrent, NoLostCount, TypeOK, Event
<1>5. x.own = counts[c] + 1 /\ x.epoch = lock /\ x.counter = c /\ ~x.out
  BY <1>2, <1>4 DEF Events
<1>6. \A h \in Goroutines \ {g} : Reporting(h) => /\ me'[h].event \in DOMAIN events
                                                  /\ me'[h].event # e0 /\ Event(h)' = Event(h)
  BY <1>1, <1>3 DEF Base, OwnEvents, LocalsOfMethod, Event
<1> HIDE DEF x, c, e0
<1>7. /\ counts'[c] = counts[c] + 1 /\ counts' = recorded'
      /\ \A d \in Counters : counts[d] \in Nat /\ counts'[d] \in Nat /\ counts'[d] >= counts[d]
  BY <1>1, <1>4
<1>8. ResetIsAlone'
  BY <1>1, <1>3 DEF Counting, ResetIsAlone
<1>9. UnderMutex'
  BY <1>1, <1>3 DEF Counting, UnderMutex, Inside
<1>10. ReadIsCurrent'
  <2>1. \A h \in Goroutines \ {g} : me[h].pc # "store"
    BY <1>1, Exclusive DEF Inside
  <2> QED
    BY <1>3, <2>1 DEF ReadIsCurrent
<1>11. RecordsCounted'
  <2> SUFFICES ASSUME NEW e \in DOMAIN events
               PROVE  /\ events'[e].own > 0 => events'[e].counter \in Counters
                      /\ events'[e].epoch <= lock
                      /\ events'[e].own > 0 /\ events'[e].epoch = lock =>
                             counts'[events'[e].counter] >= events'[e].own
    BY <1>1 DEF RecordsCounted, Recorded
  <2>1. CASE e = e0
    BY <1>1, <1>4, <1>5, <1>7, <2>1
  <2>2. CASE e # e0
    <3>1. events'[e] = events[e] /\ events[e] \in Events
      BY <1>1, <2>2, EventsNumbered
    <3>2. events[e].own \in Nat
      BY <3>1 DEF Events
    <3>3. CASE Recorded(e)
      <4>1. /\ events[e].counter \in Counters
            /\ counts[events[e].counter] >= events[e].own
        BY <3>3 DEF Counting, RecordsCounted, Recorded
      <4>2. counts'[events[e].counter] >= events[e].own
        BY <1>7, <3>2, <4>1
      <4> QED
        BY <3>1, <4>1, <4>2 DEF Counting, RecordsCounted
    <3>4. CASE ~Recorded(e)
      BY <3>1, <3>4 DEF Counting, RecordsCounted, Recorded
    <3> QED
      BY <3>3, <3>4
  <2> QED
    BY <2>1, <2>2
<1>12. StatsTaken'
  <2>1. \A h \in Goroutines :
           me'[h].pc = "publish" \/ (me'[h].in = "GetStats" /\ me'[h].pc = "unlock")
           => h # g /\ Reporting(h)
    BY <1>1, <1>3 DEF Reporting
  <2> QED
    BY <1>1, <1>3, <1>6, <2>1 DEF Counting, StatsTaken, Recorded, Event
<1>13. NoLostCount' /\ NeverFatal'
  BY <1>1, <1>7 DEF Counting, NoLostCount, NeverFatal
<1>14. StatsOfOwnReport'
  BY <1>1, <1>5 DEF Counting, StatsOfOwnReport
<1> QED
  BY <1>8, <1>9, <1>10, <1>11, <1>12, <1>13, <1>14 DEF Counting

LEMMA SnapshotCounting ==
    ASSUME Base, Counting, NEW g \in Goroutines, Snapshot(g)
    PROVE  Counting'
<1> DEFINE e0 == me[g].event
           x == [events[e0] EXCEPT !.stats = counts]
<1>1. /\ TypeOK /\ me[g].pc = "GetStats" /\ me[g].in = "GetStats" /\ Reporting(g)
      /\ me' = [me EXCEPT ![g] = [me[g] EXCEPT !.pc = "unlock"]]
      /\ UNCHANGED stats /\ DOMAIN events' = DOMAIN events
      /\ \A e \in DOMAIN events : events'[e] = IF e = e0 THEN x ELSE events[e]
  <2>1. /\ TypeOK /\ me[g].pc = "GetStats" /\ UNCHANGED stats
        /\ me' = [me EXCEPT ![g] = [me[g] EXCEPT !.pc = "unlock"]]
    BY DEF Base, Snapshot, At, Goto
  <2>2. me[g].in = "GetStats" /\ Reporting(g)
    BY <2>1 DEF Base, LocalsOfMethod, Reporting
  <2>3. DOMAIN events' = DOMAIN events
    BY SnapshotBase DEF InMethod, SameEvents
  <2> QED
    BY <2>1, <2>2, <2>3, SnapshotBase
<1>2. me[g] \in Locals /\ e0 \in DOMAIN events /\ events[e0] \in Events /\ ~events[e0].out
  BY <1>1, LocalsOf, EventOf DEF Event
<1>3. /\ \A h \in Goroutines \ {g} : me'[h] = me[h]
      /\ me'[g].pc = "unlock" /\ me'[g].in = me[g].in /\ me'[g].mutex = me[g].mutex
      /\ me'[g].deferred = me[g].deferred /\ me'[g].event = e0
  BY <1>1, <1>2 DEF TypeOK, Locals
<1>4. /\ x.own = events[e0].own /\ x.epoch = events[e0].epoch
      /\ x.counter = events[e0].counter /\ ~x.out /\ x.stats = counts
  BY <1>2 DEF Events
<1>5. \A h \in Goroutines \ {g} : Reporting(h) => /\ me'[h].event \in DOMAIN events
                                                  /\ me'[h].event # e0 /\ Event(h)' = Event(h)
  BY <1>1, <1>3 DEF Base, OwnEvents, LocalsOfMethod, Event
<1> HIDE DEF x, e0
<1>6. \A e \in DOMAIN events : /\ events'[e].own = events[e].own
                               /\ events'[e].epoch = events[e].epoch
                               /\ events'[e].counter = events[e].counter
  BY <1>1, <1>4
<1>7. ResetIsAlone'
  BY <1>1, <1>3 DEF Counting, ResetIsAlone
<1>8. UnderMutex'
  BY <1>1, <1>3 DEF Counting, UnderMutex, Inside, stats
<1>9. ReadIsCurrent'
  <2>1. \A h \in Goroutines : me'[h].pc = "store" => h # g /\ Reporting(h)
    BY <1>3 DEF Base, LocalsOfMethod, Reporting
  <2> QED
    BY <1>1, <1>3, <1>5, <2>1 DEF Counting, ReadIsCurrent, stats
<1>10. RecordsCounted'
  BY <1>1, <1>6 DEF Counting, RecordsCounted, Recorded, stats
<1>11. StatsTaken'
  <2>1. \A h \in Goroutines \ {g} :
           me'[h].pc = "publish" \/ (me'[h].in = "GetStats" /\ me'[h].pc = "unlock")
           => Reporting(h)
    BY <1>3 DEF Reporting
  <2>2. ASSUME events'[e0].own > 0, events'[e0].epoch = lock'
        PROVE  events'[e0].stats[events'[e0].counter] >= events'[e0].own
    <3>1. Recorded(e0)
      BY <1>1, <1>2, <1>6, <2>2 DEF Recorded, stats
    <3>2. counts[events[e0].counter] >= events[e0].own
      BY <1>2, <3>1 DEF Counting, RecordsCounted
    <3> QED
      BY <1>1, <1>2, <1>4, <3>2
  <2> QED
    BY <1>1, <1>3, <1>5, <2>1, <2>2 DEF Counting, StatsTaken, Recorded, Event, stats
<1>12. NoLostCount' /\ NeverFatal'
  BY <1>1 DEF Counting, NoLostCount, NeverFatal, stats
<1>13. StatsOfOwnReport'
  BY <1>1, <1>4 DEF Counting, StatsOfOwnReport, stats
<1> QED
  BY <1>7, <1>8, <1>9, <1>10, <1>11, <1>12, <1>13 DEF Counting

LEMMA ResetStoresCounting ==
    ASSUME Base, Counting, NEW g \in Goroutines, ResetStores(g)
    PROVE  Counting'
<1>1. /\ TypeOK /\ me[g].pc = "Reset" /\ me[g].in = "Reset"
      /\ me' = [me EXCEPT ![g] = [me[g] EXCEPT !.pc = "unlock"]]
      /\ counts' = Zero /\ recorded' = Zero /\ lock' = lock + 1
      /\ UNCHANGED <<heldBy, fatal, events>>
  BY DEF Base, LocalsOfMethod, ResetStores, NewMutex, At, Goto
<1>2. me[g] \in Locals
  BY <1>1, LocalsOf
<1>3. /\ \A h \in Goroutines \ {g} : me'[h] = me[h]
      /\ me'[g].pc = "unlock" /\ me'[g].in = "Reset" /\ me'[g].mutex = me[g].mutex
      /\ me'[g].deferred = me[g].deferred
  BY <1>1, <1>2 DEF TypeOK, Locals
<1>4. \A h \in Goroutines \ {g} : me'[h].pc = "idle" /\ me'[h].in = "none"
  BY <1>1, <1>3 DEF Counting, ResetIsAlone, Base, LocalsOfMethod
<1>5. lock \in Nat /\ lock < lock' /\ \A m \in Mutexes : m > lock' => m > lock
  BY <1>1, MutexesAre DEF TypeOK
<1>6. ResetIsAlone'
  BY <1>3, <1>4 DEF ResetIsAlone
<1>7. UnderMutex'
  BY <1>1, <1>3, <1>4, <1>5 DEF Counting, UnderMutex, Inside
<1>8. ReadIsCurrent' /\ StatsTaken'
  BY <1>3, <1>4 DEF ReadIsCurrent, StatsTaken
<1>9. \A e \in DOMAIN events : events[e].epoch <= lock /\ events[e].epoch \in Nat
  BY <1>1, EventsNumbered, MutexesAre DEF Counting, RecordsCounted, Events
<1>10. \A e \in DOMAIN events : events[e].epoch # lock' /\ events[e].epoch <= lock'
  BY <1>1, <1>5, <1>9
<1>11. RecordsCounted'
  BY <1>1, <1>10 DEF Counting, RecordsCounted, Recorded
<1>12. StatsOfOwnReport'
  BY <1>1, <1>10 DEF StatsOfOwnReport
<1>13. NoLostCount' /\ NeverFatal'
  BY <1>1 DEF Counting, NoLostCount, NeverFatal
<1> QED
  BY <1>6, <1>7, <1>8, <1>11, <1>12, <1>13 DEF Counting

LEMMA UnlockCounting ==
    ASSUME Base, Counting, NEW g \in Goroutines, Unlock(g)
    PROVE  Counting'
<1>1. /\ TypeOK /\ me[g].pc = "unlock" /\ me[g].in \in {"record", "GetStats", "Reset"}
      /\ me[g] \in Locals /\ UNCHANGED <<counts, lock, recorded, events>>
  BY LocalsOf DEF Base, LocalsOfMethod, Unlock, At, Locals
<1>2. me[g].deferred = me[g].mutex /\ heldBy[me[g].mutex] = g /\ me[g].mutex \in Mutexes
  BY <1>1 DEF Counting, UnderMutex, Inside, Locals
<1>3. g # Nobody
  BY MonitorAssumption
<1>4. /\ heldBy' = [heldBy EXCEPT ![me[g].mutex] = Nobody] /\ UNCHANGED fatal
      /\ me' = [me EXCEPT ![g] = Left(g)]
  BY <1>2, <1>3, UnlockBase DEF InMethod
<1>5. /\ \A h \in Goroutines \ {g} : me'[h] = me[h]
      /\ me'[g].in = "none" /\ me'[g].event = me[g].event
      /\ me'[g].pc \in {"idle", "set", "publish"}
      /\ me'[g].pc = "publish" => me[g].in = "GetStats"
  <2>1. /\ Left(g).in = "none" /\ Left(g).event = me[g].event
        /\ Left(g).pc \in {"idle", "set", "publish"}
        /\ Left(g).pc = "publish" => me[g].in = "GetStats"
    BY <1>1 DEF Left, Idle
  <2> QED
    BY <1>1, <1>4, <2>1 DEF TypeOK
<1>6. RecordsCounted' /\ NoLostCount' /\ StatsOfOwnReport' /\ NeverFatal'
  BY <1>1, <1>4, CountersKept
<1>7. ResetIsAlone'
  BY <1>1, <1>5 DEF Counting, ResetIsAlone
<1>8. UnderMutex'
  <2>1. \A h \in Goroutines \ {g} : me[h].pc \in Inside =>
           heldBy[me[h].mutex] = h /\ me[h].mutex \in Mutexes /\ me[h].mutex # me[g].mutex
    BY <1>1, <1>2, LocalsOf DEF Counting, UnderMutex, Locals
  <2>2. \A m \in Mutexes : heldBy'[m] = IF m = me[g].mutex THEN Nobody ELSE heldBy[m]
    BY <1>1, <1>4 DEF TypeOK
  <2>3. \A h \in Goroutines \ {g} : me[h].pc \in Inside => heldBy'[me[h].mutex] = h
    BY <2>1, <2>2
  <2>4. \A m \in Mutexes : m > lock => heldBy'[m] = Nobody
    BY <2>2 DEF Counting, UnderMutex
  <2> QED
    BY <1>1, <1>5, <2>3, <2>4 DEF Counting, UnderMutex, Inside
<1>9. ReadIsCurrent' /\ StatsTaken'
  BY <1>1, <1>5 DEF Counting, ReadIsCurrent, StatsTaken, Recorded, Event
<1> QED
  BY <1>6, <1>7, <1>8, <1>9 DEF Counting

LEMMA SetStateCounting ==
    ASSUME Base, Counting, NEW g \in Goroutines, SetState(g)
    PROVE  Counting'
<1>1. TypeOK /\ me[g].pc = "set" /\ UNCHANGED <<stats, events>>
  BY DEF Base, SetState, At
<1>2. /\ \A h \in Goroutines \ {g} : me'[h] = me[h]
      /\ me'[g].in = "GetStats" /\ me'[g].pc = "wait" /\ me'[g].mutex = lock
  BY <1>1 DEF SetState, Enter, Idle, TypeOK
<1>3. RecordsCounted' /\ NoLostCount' /\ StatsOfOwnReport' /\ NeverFatal'
  BY <1>1, CountersKept DEF stats
<1>4. ResetIsAlone'
  BY <1>1, <1>2 DEF Counting, ResetIsAlone
<1>5. UnderMutex'
  BY <1>1, <1>2 DEF Counting, UnderMutex, Inside, stats
<1>6. ReadIsCurrent' /\ StatsTaken'
  BY <1>1, <1>2 DEF Counting, ReadIsCurrent, StatsTaken, Recorded, Event, stats
<1> QED
  BY <1>3, <1>4, <1>5, <1>6 DEF Counting

LEMMA PublishCounting ==
    ASSUME Base, Counting, NEW g \in Goroutines, Publish(g)
    PROVE  Counting'
<1> DEFINE e0 == me[g].event
           x == [events[e0] EXCEPT !.due = subscribed, !.out = TRUE]
<1>1. /\ TypeOK /\ me[g].pc = "publish" /\ Reporting(g) /\ UNCHANGED stats
      /\ me'[g] = Idle /\ \A h \in Goroutines \ {g} : me'[h] = me[h]
      /\ DOMAIN events' = DOMAIN events
      /\ \A e \in DOMAIN events : events'[e] = IF e = e0 THEN x ELSE events[e]
  BY PublishBase DEF Base, Publish, At
<1>2. e0 \in DOMAIN events /\ events[e0] \in Events
  BY <1>1, EventOf DEF Event
<1>3. /\ x.own = events[e0].own /\ x.epoch = events[e0].epoch
      /\ x.counter = events[e0].counter /\ x.stats = events[e0].stats
  BY <1>2 DEF Events
<1>4. \A h \in Goroutines \ {g} : Reporting(h) => /\ me'[h].event \in DOMAIN events
                                                  /\ Event(h)' = Event(h)
  BY <1>1 DEF Base, OwnEvents, LocalsOfMethod, Event
<1>5. Recorded(e0) => events[e0].stats[events[e0].counter] >= events[e0].own
  BY <1>1 DEF Counting, StatsTaken, Event
<1> HIDE DEF x, e0
<1>6. \A e \in DOMAIN events : /\ events'[e].own = events[e].own
                               /\ events'[e].epoch = events[e].epoch
                               /\ events'[e].counter = events[e].counter
                               /\ events'[e].stats = events[e].stats
                               /\ e # e0 => events'[e].out = events[e].out
  BY <1>1, <1>3
<1>7. ResetIsAlone'
  BY <1>1, IdleShape DEF Counting, ResetIsAlone
<1>8. UnderMutex'
  BY <1>1, IdleShape DEF Counting, UnderMutex, Inside, stats
<1>9. ReadIsCurrent'
  <2>1. \A h \in Goroutines : me'[h].pc = "store" => h # g /\ Reporting(h)
    BY <1>1, IdleShape DEF Base, LocalsOfMethod, Reporting
  <2> QED
    BY <1>1, <1>4, <2>1 DEF Counting, ReadIsCurrent, stats
<1>10. RecordsCounted'
  BY <1>1, <1>6 DEF Counting, RecordsCounted, Recorded, stats
<1>11. StatsTaken'
  <2>1. \A h \in Goroutines :
           me'[h].pc = "publish" \/ (me'[h].in = "GetStats" /\ me'[h].pc = "unlock")
           => h # g /\ Reporting(h)
    BY <1>1, IdleShape DEF Reporting
  <2> QED
    BY <1>1, <1>4, <2>1 DEF Counting, StatsTaken, Recorded, Event, stats
<1>12. NoLostCount' /\ NeverFatal'
  BY <1>1 DEF Counting, NoLostCount, NeverFatal, stats
<1>13. StatsOfOwnReport'
  BY <1>1, <1>5, <1>6 DEF Counting, StatsOfOwnReport, Recorded, stats
<1> QED
  BY <1>7, <1>8, <1>9, <1>10, <1>11, <1>12, <1>13 DEF Counting

LEMMA CountingInit ==
    ASSUME Init
    PROVE  Counting
<1>1. /\ \A g \in Goroutines : me[g].pc = "idle" /\ me[g].in = "none"
      /\ DOMAIN events = {} /\ lock = 1
  BY EmptySeq DEF Init, Idle
<1>2. ResetIsAlone /\ ReadIsCurrent /\ RecordsCounted /\ StatsTaken /\ StatsOfOwnReport
  BY <1>1 DEF ResetIsAlone, ReadIsCurrent, RecordsCounted, StatsTaken, StatsOfOwnReport
<1>3. UnderMutex
  BY <1>1 DEF Init, UnderMutex, Inside
<1>4. NoLostCount /\ NeverFatal
  BY DEF Init, NoLostCount, NeverFatal
<1> QED
  BY <1>2, <1>3, <1>4 DEF Counting

LEMMA CountingNext ==
    ASSUME Base, Counting, ResetAlone, [Next]_vars
    PROVE  Counting'
<1>1. ASSUME NEW g \in Goroutines, NEW report \in Made, Report(g, report) PROVE Counting'
  BY <1>1, ReportCounting
<1>2. ASSUME NEW g \in Goroutines, Proceed(g) PROVE Counting'
  BY <1>2, DeferCounting, RecordReadsCounting, RecordStoresCounting, SnapshotCounting,
     ResetStoresCounting, UnlockCounting, SetStateCounting, PublishCounting DEF Proceed
<1>3. ASSUME NEW l \in Listeners, AddListener(l) \/ RemoveListener(l) PROVE Counting'
  BY <1>3, CountingUnchanged DEF AddListener, RemoveListener, Listening
<1>4. ASSUME NEW l \in Listeners, NEW e \in EventNumbers, Deliver(l, e) PROVE Counting'
  BY <1>4, CountingUnchanged DEF Deliver
<1>5. ASSUME UNCHANGED vars PROVE Counting'
  BY <1>5, CountingUnchanged DEF vars
<1> QED
  BY <1>1, <1>2, <1>3, <1>4, <1>5, ResetCounting, AcquireCounting DEF Next, Stopped

LEMMA CountingHolds ==
    ASSUME ResetAlone
    PROVE  Spec => []Counting
<1>1. Base /\ Counting /\ [Next]_vars => Counting'
  BY CountingNext
<1> QED
  BY <1>1, CountingInit, BaseHolds, PTL DEF Spec

\* No count is lost, whatever the interleaving of the goroutines that record.
THEOREM CountsAreKept ==
    ASSUME ResetAlone
    PROVE  Spec => []NoLostCount
<1>1. Counting => NoLostCount
  BY DEF Counting
<1> QED
  BY <1>1, CountingHolds, PTL

\* The statistics in an event have the record that its own report made.
THEOREM EventsHaveTheirRecord ==
    ASSUME ResetAlone
    PROVE  Spec => []StatsOfOwnReport
<1>1. Counting => StatsOfOwnReport
  BY DEF Counting
<1> QED
  BY <1>1, CountingHolds, PTL

\* No unlock stops the process when Reset has the counters to itself: the run that
\* finds one lets Reset run among the others.
THEOREM NoFatalUnlock ==
    ASSUME ResetAlone
    PROVE  Spec => []NeverFatal
<1>1. Counting => NeverFatal
  BY DEF Counting
<1> QED
  BY <1>1, CountingHolds, PTL
=============================================================================
