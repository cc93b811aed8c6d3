------------------------------- MODULE PoolProofs -------------------------------
(***************************************************************************)
(* The safety of the connection pool for every number of goroutines and    *)
(* connections and every capacity: Inv is inductive, and every step of the *)
(* pool is a step of ConnectionPool or a stutter.                          *)
(***************************************************************************)
EXTENDS Pool, SequenceTheorems, TLAPS

-----------------------------------------------------------------------------
(* What makes the invariants of Pool inductive.                            *)

\* A goroutine works on a connection while it puts it back or closes it, and the
\* drain between two receives on none.
ArgOfCall ==
    \A g \in Goroutines :
        /\ pc[g] \in {"idle", "get"} => arg[g] = NoConn
        /\ pc[g] \in {"put", "discard"} => arg[g] # NoConn

\* Only Close drains, after it has set the flag.
DrainsClosed == \A g \in Goroutines : pc[g] = "drain" => closed

\* Every open connection came from the factory.
LiveIsMade == live \subseteq made

\* The inductive invariant.
Inv ==
    /\ TypeOK
    /\ OnePlace
    /\ NoLeak
    /\ ClosedIsEmpty
    /\ ArgOfCall
    /\ DrainsClosed
    /\ LiveIsMade

-----------------------------------------------------------------------------
(* Sequences without repetitions.                                          *)

Elements(q) == {q[i] : i \in DOMAIN q}
Distinct(q) == \A i, j \in DOMAIN q : q[i] = q[j] => i = j

\* Receiving takes the first element out.
LEMMA TailElements ==
    ASSUME NEW S, NEW q \in Seq(S), q # << >>, Distinct(q)
    PROVE  /\ Head(q) \in S
           /\ Head(q) \in Elements(q)
           /\ Tail(q) \in Seq(S)
           /\ Elements(Tail(q)) = Elements(q) \ {Head(q)}
           /\ Distinct(Tail(q))
<1> DEFINE n == Len(q)
           t == Tail(q)
<1>1. n \in Nat \ {0} /\ DOMAIN q = 1 .. n
  BY EmptySeq, LenProperties
<1>2. /\ Head(q) \in S /\ t \in Seq(S) /\ Len(t) = n - 1
      /\ \A i \in 1 .. Len(t) : t[i] = q[i + 1]
  BY HeadTailProperties
<1>3. DOMAIN t = 1 .. n - 1
  BY <1>2, LenProperties
<1>4. Head(q) = q[1]
  BY <1>1
<1> HIDE DEF n, t
<1>5. Distinct(t)
  <2>1. \A i \in 1 .. n - 1 : i \in Nat /\ i + 1 \in 1 .. n /\ t[i] = q[i + 1]
    BY <1>1, <1>2
  <2>2. \A i, j \in 1 .. n - 1 : t[i] = t[j] => i + 1 = j + 1
    BY <1>1, <2>1 DEF Distinct
  <2>3. \A i, j \in Nat : i + 1 = j + 1 => i = j
    OBVIOUS
  <2> QED
    BY <1>3, <2>1, <2>2, <2>3 DEF Distinct
<1>6. ASSUME NEW x \in Elements(t) PROVE x \in Elements(q) \ {q[1]}
  <2>1. PICK i \in 1 .. n - 1 : x = t[i]
    BY <1>3 DEF Elements
  <2>2. i + 1 \in 1 .. n /\ 1 \in 1 .. n /\ x = q[i + 1] /\ i + 1 # 1
    BY <1>1, <1>2, <2>1
  <2> QED
    BY <1>1, <2>2 DEF Elements, Distinct
<1>7. ASSUME NEW x \in Elements(q) \ {q[1]} PROVE x \in Elements(t)
  <2>1. PICK i \in 1 .. n : x = q[i]
    BY <1>1 DEF Elements
  <2>2. i - 1 \in 1 .. n - 1 /\ t[i - 1] = x
    BY <1>1, <1>2, <2>1
  <2> QED
    BY <1>3, <2>2 DEF Elements
<1>8. q[1] \in Elements(q)
  BY <1>1 DEF Elements
<1> QED
  BY <1>2, <1>4, <1>5, <1>6, <1>7, <1>8 DEF t

\* Sending puts an element in.
LEMMA AppendElements ==
    ASSUME NEW S, NEW q \in Seq(S), NEW x \in S, x \notin Elements(q), Distinct(q)
    PROVE  /\ Append(q, x) \in Seq(S)
           /\ Elements(Append(q, x)) = Elements(q) \cup {x}
           /\ Distinct(Append(q, x))
<1> DEFINE n == Len(q)
           a == Append(q, x)
<1>1. n \in Nat /\ DOMAIN q = 1 .. n
  BY LenProperties
<1>2. /\ a \in Seq(S) /\ Len(a) = n + 1 /\ a[n + 1] = x
      /\ \A i \in 1 .. n : a[i] = q[i]
  BY AppendProperties
<1>3. DOMAIN a = 1 .. n + 1
  BY <1>2, LenProperties
<1> HIDE DEF n, a
<1>4. \A i \in 1 .. n + 1 : i = n + 1 \/ i \in 1 .. n
  BY <1>1
<1>5. \A i \in 1 .. n : i \in 1 .. n + 1 /\ a[i] # x
  BY <1>1, <1>2 DEF Elements
<1>6. Distinct(a)
  BY <1>1, <1>2, <1>3, <1>4, <1>5 DEF Distinct
<1>7. Elements(a) = Elements(q) \cup {x}
  BY <1>1, <1>2, <1>3, <1>4, <1>5 DEF Elements
<1> QED
  BY <1>2, <1>6, <1>7 DEF a

\* A sequence without elements is empty.
LEMMA NoElements ==
    ASSUME NEW S, NEW q \in Seq(S)
    PROVE  q = << >> <=> Elements(q) = {}
<1>1. CASE q = << >>
  BY <1>1 DEF Elements
<1>2. CASE q # << >>
  <2>1. 1 \in DOMAIN q
    BY <1>2, EmptySeq, LenProperties
  <2> QED
    BY <1>2, <2>1 DEF Elements
<1> QED
  BY <1>1, <1>2

-----------------------------------------------------------------------------
(* How a step moves a connection.                                          *)

Hands(g, S) ==
    /\ InHand(g)' = S
    /\ \A h \in Goroutines \ {g} : InHand(h)' = InHand(h)
SamePool == Buffered' = Buffered /\ Distinct(pool)'

Stays == SamePool /\ (\A h \in Goroutines : InHand(h)' = InHand(h)) /\ UNCHANGED <<live, made>>

Opens(g, c) ==
    /\ c \notin made
    /\ SamePool /\ Hands(g, InHand(g) \cup {c})
    /\ live' = live \cup {c} /\ made' = made \cup {c}

Takes(g, c) ==
    /\ c \in Buffered
    /\ Buffered' = Buffered \ {c} /\ Distinct(pool)'
    /\ Hands(g, InHand(g) \cup {c})
    /\ UNCHANGED <<live, made>>

Parks(g, c) ==
    /\ c \in InHand(g)
    /\ Buffered' = Buffered \cup {c} /\ Distinct(pool)'
    /\ Hands(g, InHand(g) \ {c})
    /\ UNCHANGED <<live, made>>

Drops(g, c) ==
    /\ c \in InHand(g)
    /\ SamePool /\ Hands(g, InHand(g) \ {c})
    /\ live' = live \ {c} /\ UNCHANGED made

Moves(g, c) == Opens(g, c) \/ Takes(g, c) \/ Parks(g, c) \/ Drops(g, c)

\* What a goroutine puts back it no longer holds: the first part of OnePlace.
ArgNotHeld == \A g \in Goroutines : arg[g] \notin held[g]

\* The parts of Inv about where connections are.
Placed == OnePlace /\ NoLeak /\ LiveIsMade

LEMMA StaysPlaced ==
    ASSUME Placed, ArgNotHeld', Stays
    PROVE  Placed'
<1>1. Distinct(pool)' /\ Buffered' = Buffered
  BY DEF Stays, SamePool
<1>2. OnePlace'
  BY <1>1 DEF Placed, OnePlace, ArgNotHeld, Stays, Distinct
<1>3. NoLeak'
  <2>1. UNION {InHand(h)' : h \in Goroutines} = UNION {InHand(h) : h \in Goroutines}
    BY DEF Stays
  <2> QED
    BY <1>1, <2>1 DEF Placed, NoLeak, Stays
<1> QED
  BY <1>2, <1>3 DEF Placed, LiveIsMade, Stays

LEMMA MovesPlaced ==
    ASSUME Placed, ArgNotHeld', NEW g \in Goroutines, NEW c \in Conns, Moves(g, c)
    PROVE  Placed'
<1> DEFINE all == UNION {InHand(h) : h \in Goroutines}
           all2 == UNION {InHand(h)' : h \in Goroutines}
<1>0. /\ Distinct(pool)' /\ \A h \in Goroutines \ {g} : InHand(h)' = InHand(h)
      /\ all2 = InHand(g)' \cup UNION {InHand(h) : h \in Goroutines \ {g}}
      /\ all = InHand(g) \cup UNION {InHand(h) : h \in Goroutines \ {g}}
  BY DEF Moves, Opens, Takes, Parks, Drops, SamePool, Hands
<1>1. /\ \A h, k \in Goroutines : h # k => InHand(h) \cap InHand(k) = {}
      /\ \A h \in Goroutines : InHand(h) \cap Buffered = {}
      /\ live = Buffered \cup all
      /\ live \subseteq made
  BY DEF Placed, OnePlace, NoLeak, LiveIsMade
<1>2. CASE Opens(g, c)
  <2>1. c \notin Buffered /\ \A h \in Goroutines : c \notin InHand(h)
    BY <1>1, <1>2 DEF Opens
  <2>2. OnePlace'
    BY <1>0, <1>1, <1>2, <2>1 DEF Opens, Hands, SamePool, OnePlace, ArgNotHeld, Distinct
  <2>3. live' = Buffered' \cup all2
    BY <1>0, <1>1, <1>2 DEF Opens, Hands, SamePool
  <2> QED
    BY <1>1, <1>2, <2>2, <2>3 DEF Opens, Placed, NoLeak, LiveIsMade
<1>3. CASE Takes(g, c)
  <2>1. \A h \in Goroutines : c \notin InHand(h)
    BY <1>1, <1>3 DEF Takes
  <2>2. OnePlace'
    BY <1>0, <1>1, <1>3, <2>1 DEF Takes, Hands, OnePlace, ArgNotHeld, Distinct
  <2>3. live' = Buffered' \cup all2
    BY <1>0, <1>1, <1>3 DEF Takes, Hands
  <2> QED
    BY <1>1, <1>3, <2>2, <2>3 DEF Takes, Placed, NoLeak, LiveIsMade
<1>4. CASE Parks(g, c)
  <2>1. \A h \in Goroutines \ {g} : c \notin InHand(h)
    BY <1>1, <1>4 DEF Parks
  <2>2. OnePlace'
    BY <1>0, <1>1, <1>4, <2>1 DEF Parks, Hands, OnePlace, ArgNotHeld, Distinct
  <2>3. live' = Buffered' \cup all2
    BY <1>0, <1>1, <1>4 DEF Parks, Hands
  <2> QED
    BY <1>1, <1>4, <2>2, <2>3 DEF Parks, Placed, NoLeak, LiveIsMade
<1>5. CASE Drops(g, c)
  <2>1. c \notin Buffered /\ \A h \in Goroutines \ {g} : c \notin InHand(h)
    BY <1>1, <1>5 DEF Drops
  <2>2. OnePlace'
    BY <1>0, <1>1, <1>5, <2>1 DEF Drops, Hands, SamePool, OnePlace, ArgNotHeld, Distinct
  <2>3. live' = Buffered' \cup all2
    BY <1>0, <1>1, <1>5, <2>1 DEF Drops, Hands, SamePool
  <2> QED
    BY <1>1, <1>5, <2>2, <2>3 DEF Drops, Placed, NoLeak, LiveIsMade
<1> QED
  BY <1>2, <1>3, <1>4, <1>5 DEF Moves

-----------------------------------------------------------------------------
(* The actions: what each moves, and that it keeps the rest of Inv.        *)

\* The parts of Inv about where goroutines are.
Control == ArgOfCall /\ DrainsClosed /\ ClosedIsEmpty

\* A step that moves no connection, or that moves one.
Kept == TypeOK' /\ ArgNotHeld' /\ Control'

LEMMA InvParts == Inv <=> TypeOK /\ Placed /\ Control
BY DEF Inv, Placed, Control

\* A connection that is held or put back is a connection of the factory.
LEMMA InHandConns ==
    ASSUME TypeOK, NEW g \in Goroutines
    PROVE  InHand(g) \subseteq Conns
BY DEF TypeOK, InHand

\* The elements of the channel.
LEMMA PoolElements ==
    ASSUME Placed
    PROVE  Buffered = Elements(pool) /\ Distinct(pool)
BY DEF Placed, OnePlace, Buffered, Elements, Distinct

LEMMA SamePoolWhenUnchanged ==
    ASSUME Placed, UNCHANGED pool
    PROVE  SamePool
BY DEF Placed, OnePlace, SamePool, Buffered, Distinct

LEMMA GetChecksStep ==
    ASSUME Inv, NEW g \in Goroutines, GetChecks(g)
    PROVE  Kept /\ Stays
<1> USE DEF GetChecks, Ready, Goto
<1>1. TypeOK'
  BY DEF Inv, TypeOK
<1>2. ArgNotHeld' /\ Control'
  BY DEF Inv, TypeOK, OnePlace, ArgNotHeld, Control, ArgOfCall, DrainsClosed, ClosedIsEmpty
<1>3. Stays
  BY InvParts, SamePoolWhenUnchanged DEF Stays, InHand
<1> QED
  BY <1>1, <1>2, <1>3 DEF Kept

\* Receiving from the channel: the head of the channel is taken out.
LEMMA Receiving ==
    ASSUME Inv, pool # << >>, pool' = Tail(pool)
    PROVE  /\ pool' \in Seq(Conns)
           /\ Head(pool) \in Conns /\ Head(pool) \in Buffered
           /\ Buffered' = Buffered \ {Head(pool)} /\ Distinct(pool)'
<1>1. Placed /\ pool \in Seq(Conns)
  BY InvParts DEF TypeOK
<1>2. Buffered = Elements(pool) /\ Distinct(pool) /\ Buffered' = Elements(pool')
  BY <1>1, PoolElements DEF Buffered, Elements
<1>3. Distinct(pool)' = Distinct(pool')
  BY DEF Distinct
<1> QED
  BY <1>1, <1>2, <1>3, TailElements

LEMMA GetTakesStep ==
    ASSUME Inv, NEW g \in Goroutines, GetTakes(g)
    PROVE  Kept /\ \E c \in Conns : Takes(g, c)
<1> DEFINE c == Head(pool)
<1>1. /\ pool' \in Seq(Conns) /\ c \in Conns /\ c \in Buffered
      /\ Buffered' = Buffered \ {c} /\ Distinct(pool)'
  BY Receiving DEF GetTakes
<1>2. /\ pc[g] = "get" /\ pool # << >>
      /\ held' = [held EXCEPT ![g] = @ \cup {c}] /\ pc' = [pc EXCEPT ![g] = "idle"]
      /\ UNCHANGED <<closed, arg, live, made, panicked>>
  BY DEF GetTakes, Ready, Goto
<1> HIDE DEF c
<1>3. TypeOK'
  BY <1>1, <1>2 DEF Inv, TypeOK
<1>4. Takes(g, c)
  BY <1>1, <1>2 DEF Takes, Hands, InHand, Inv, TypeOK
<1>5. ArgNotHeld'
  <2>1. \A h \in Goroutines : arg[h] # c
    BY <1>1, PoolAssumption DEF Inv, OnePlace, InHand
  <2> QED
    BY <1>2, <2>1 DEF ArgNotHeld, Inv, OnePlace, TypeOK
<1>6. ArgOfCall' /\ DrainsClosed'
  BY <1>2 DEF Inv, TypeOK, ArgOfCall, DrainsClosed
<1>7. ClosedIsEmpty'
  BY <1>2 DEF Inv, TypeOK, ClosedIsEmpty
<1> QED
  BY <1>1, <1>3, <1>4, <1>5, <1>6, <1>7 DEF Kept, Control

LEMMA GetConnectsStep ==
    ASSUME Inv, NEW g \in Goroutines, GetConnects(g)
    PROVE  Kept /\ (Stays \/ \E c \in Conns : Opens(g, c))
<1>1. /\ pc[g] = "get" /\ pool = << >> /\ pc' = [pc EXCEPT ![g] = "idle"]
      /\ UNCHANGED <<closed, pool, arg, panicked>>
  BY DEF GetConnects, Ready, Goto
<1>2. Control' /\ SamePool
  BY <1>1, InvParts, SamePoolWhenUnchanged
     DEF Inv, TypeOK, Control, ArgOfCall, DrainsClosed, ClosedIsEmpty
<1>3. CASE UNCHANGED <<held, live, made>>
  <2>1. TypeOK' /\ ArgNotHeld'
    BY <1>1, <1>3 DEF Inv, TypeOK, OnePlace, ArgNotHeld
  <2>2. Stays
    BY <1>1, <1>2, <1>3 DEF Stays, InHand
  <2> QED
    BY <1>2, <2>1, <2>2 DEF Kept
<1>4. ASSUME NEW c \in Conns \ made,
             held' = [held EXCEPT ![g] = @ \cup {c}],
             live' = live \cup {c}, made' = made \cup {c}
      PROVE  Kept /\ Opens(g, c)
  <2>1. TypeOK'
    BY <1>1, <1>4 DEF Inv, TypeOK
  <2>2. Opens(g, c)
    BY <1>1, <1>2, <1>4 DEF Opens, Hands, InHand, Inv, TypeOK
  <2>3. ArgNotHeld'
    <3>1. \A h \in Goroutines : InHand(h) \subseteq made
      BY DEF Inv, NoLeak, LiveIsMade
    <3>2. \A h \in Goroutines : arg[h] # c
      BY <1>4, <3>1, PoolAssumption DEF InHand
    <3> QED
      BY <1>1, <1>4, <3>2 DEF ArgNotHeld, Inv, OnePlace, TypeOK
  <2> QED
    BY <1>2, <2>1, <2>2, <2>3 DEF Kept
<1> QED
  BY <1>3, <1>4 DEF GetConnects

LEMMA PutChecksStep ==
    ASSUME Inv, NEW g \in Goroutines, NEW c \in Conns, PutChecks(g, c)
    PROVE  Kept /\ Stays
<1> DEFINE l == IF closed THEN "discard" ELSE "put"
<1>1. /\ pc[g] = "idle" /\ c \in held[g] /\ arg[g] = NoConn /\ c # NoConn
      /\ arg' = [arg EXCEPT ![g] = c] /\ held' = [held EXCEPT ![g] = @ \ {c}]
      /\ pc' = [pc EXCEPT ![g] = l] /\ l \in {"discard", "put"}
      /\ UNCHANGED <<closed, pool, live, made, panicked>>
  BY PoolAssumption DEF PutChecks, Ready, Goto, Inv, ArgOfCall
<1> HIDE DEF l
<1>2. TypeOK'
  BY <1>1 DEF Inv, TypeOK
<1>3. \A h \in Goroutines : InHand(h)' = InHand(h)
  BY <1>1 DEF InHand, Inv, TypeOK
<1>4. Stays
  BY <1>1, <1>3, InvParts, SamePoolWhenUnchanged DEF Stays
<1>5. ArgNotHeld'
  BY <1>1 DEF Inv, TypeOK, OnePlace, ArgNotHeld
<1>6. Control'
  BY <1>1 DEF Inv, TypeOK, Control, ArgOfCall, DrainsClosed, ClosedIsEmpty
<1> QED
  BY <1>2, <1>4, <1>5, <1>6 DEF Kept

\* Only an open pool takes a connection back.
LEMMA PutSendsStep ==
    ASSUME Inv, NEW g \in Goroutines, PutSends(g)
    PROVE  Kept /\ (Stays \/ (~closed /\ \E c \in Conns : Parks(g, c)))
<1>1. /\ pc[g] = "put" /\ ~closed /\ arg[g] \in Conns /\ arg[g] \in InHand(g)
      /\ UNCHANGED <<closed, held, live, made, panicked>>
  BY DEF PutSends, Ready, Inv, ArgOfCall, TypeOK, InHand
<1>2. CASE /\ pool' = Append(pool, arg[g]) /\ arg' = [arg EXCEPT ![g] = NoConn]
           /\ pc' = [pc EXCEPT ![g] = "idle"]
  <2>1. /\ pool' \in Seq(Conns) /\ Buffered' = Buffered \cup {arg[g]} /\ Distinct(pool)'
    <3>1. pool \in Seq(Conns) /\ Placed
      BY InvParts DEF Inv, TypeOK
    <3>2. arg[g] \notin Buffered
      BY <1>1 DEF Inv, OnePlace
    <3>3. Buffered = Elements(pool) /\ Distinct(pool) /\ Buffered' = Elements(pool')
      BY <3>1, PoolElements DEF Buffered, Elements
    <3>4. Distinct(pool)' = Distinct(pool')
      BY DEF Distinct
    <3> QED
      BY <1>1, <1>2, <3>1, <3>2, <3>3, <3>4, AppendElements
  <2>2. TypeOK'
    BY <1>1, <1>2, <2>1 DEF Inv, TypeOK
  <2>3. Parks(g, arg[g])
    <3>1. InHand(g)' = InHand(g) \ {arg[g]}
      BY <1>1, <1>2 DEF InHand, Inv, OnePlace, TypeOK
    <3> QED
      BY <1>1, <1>2, <2>1, <3>1 DEF Parks, Hands, InHand, Inv, TypeOK
  <2>4. ArgNotHeld'
    BY <1>1, <1>2, PoolAssumption DEF Inv, TypeOK, OnePlace, ArgNotHeld
  <2>5. Control'
    BY <1>1, <1>2 DEF Inv, TypeOK, Control, ArgOfCall, DrainsClosed, ClosedIsEmpty
  <2> QED
    BY <1>1, <2>2, <2>3, <2>4, <2>5 DEF Kept
<1>3. CASE pc' = [pc EXCEPT ![g] = "discard"] /\ UNCHANGED <<pool, arg>>
  <2>1. TypeOK' /\ ArgNotHeld'
    BY <1>1, <1>3 DEF Inv, TypeOK, OnePlace, ArgNotHeld
  <2>2. Control'
    BY <1>1, <1>3 DEF Inv, TypeOK, Control, ArgOfCall, DrainsClosed, ClosedIsEmpty
  <2>3. Stays
    BY <1>1, <1>3, InvParts, SamePoolWhenUnchanged DEF Stays, InHand
  <2> QED
    BY <2>1, <2>2, <2>3 DEF Kept
<1> QED
  BY <1>2, <1>3 DEF PutSends, Goto

LEMMA PutPanicsStep ==
    ASSUME Inv, NEW g \in Goroutines, PutPanics(g)
    PROVE  Kept /\ Stays
<1> USE DEF PutPanics
<1>1. TypeOK' /\ ArgNotHeld'
  BY DEF Inv, TypeOK, OnePlace, ArgNotHeld
<1>2. Control'
  BY DEF Inv, Control, ArgOfCall, DrainsClosed, ClosedIsEmpty
<1>3. Stays
  BY InvParts, SamePoolWhenUnchanged DEF Stays, InHand
<1> QED
  BY <1>1, <1>2, <1>3 DEF Kept

\* conn.Close(), by Put and by the drain.
LEMMA Closing ==
    ASSUME Inv, NEW g \in Goroutines, arg[g] # NoConn, CloseConn(g),
           UNCHANGED <<pool, held, made>>
    PROVE  /\ arg[g] \in Conns /\ Drops(g, arg[g]) /\ ArgNotHeld'
           /\ live' \in SUBSET Conns /\ arg' \in [Goroutines -> Conns \cup {NoConn}]
<1>1. arg[g] \in Conns /\ arg[g] \in InHand(g) /\ arg[g] \notin held[g]
  BY DEF Inv, TypeOK, OnePlace, InHand
<1>2. InHand(g)' = InHand(g) \ {arg[g]}
  BY <1>1 DEF CloseConn, InHand, Inv, TypeOK
<1>3. SamePool
  BY InvParts, SamePoolWhenUnchanged
<1>4. Drops(g, arg[g])
  BY <1>1, <1>2, <1>3 DEF Drops, Hands, CloseConn, InHand, Inv, TypeOK
<1>5. ArgNotHeld'
  BY PoolAssumption DEF CloseConn, ArgNotHeld, Inv, OnePlace, TypeOK
<1> QED
  BY <1>1, <1>4, <1>5 DEF CloseConn, Inv, TypeOK

LEMMA PutDiscardsStep ==
    ASSUME Inv, NEW g \in Goroutines, PutDiscards(g)
    PROVE  Kept /\ \E c \in Conns : Drops(g, c)
<1>1. /\ pc[g] = "discard" /\ arg[g] # NoConn /\ CloseConn(g)
      /\ pc' = [pc EXCEPT ![g] = "idle"] /\ UNCHANGED <<closed, pool, held, made, panicked>>
  BY DEF PutDiscards, Ready, Goto, Inv, ArgOfCall
<1>2. /\ arg[g] \in Conns /\ Drops(g, arg[g]) /\ ArgNotHeld'
      /\ live' \in SUBSET Conns /\ arg' \in [Goroutines -> Conns \cup {NoConn}]
  BY <1>1, Closing
<1>3. TypeOK'
  BY <1>1, <1>2 DEF Inv, TypeOK
<1>4. Control'
  BY <1>1 DEF CloseConn, Inv, TypeOK, Control, ArgOfCall, DrainsClosed, ClosedIsEmpty
<1> QED
  BY <1>2, <1>3, <1>4 DEF Kept

LEMMA CloseMarksStep ==
    ASSUME Inv, NEW g \in Goroutines, CloseMarks(g)
    PROVE  Kept /\ Stays
<1>1. /\ pc[g] = "idle" /\ closed' = TRUE /\ pc' = [pc EXCEPT ![g] = "drain"]
      /\ UNCHANGED <<pool, arg, held, live, made, panicked>>
  BY DEF CloseMarks, Ready, Goto
<1>2. TypeOK' /\ ArgNotHeld'
  BY <1>1 DEF Inv, TypeOK, OnePlace, ArgNotHeld
<1>3. Control'
  BY <1>1 DEF Inv, TypeOK, Control, ArgOfCall, DrainsClosed, ClosedIsEmpty
<1>4. Stays
  BY <1>1, InvParts, SamePoolWhenUnchanged DEF Stays, InHand
<1> QED
  BY <1>2, <1>3, <1>4 DEF Kept

LEMMA DrainTakesStep ==
    ASSUME Inv, NEW g \in Goroutines, DrainTakes(g)
    PROVE  Kept /\ \E c \in Conns : Takes(g, c)
<1> DEFINE c == Head(pool)
<1>1. /\ pool' \in Seq(Conns) /\ c \in Conns /\ c \in Buffered
      /\ Buffered' = Buffered \ {c} /\ Distinct(pool)'
  BY Receiving DEF DrainTakes
<1>2. /\ pc[g] = "drain" /\ arg[g] = NoConn /\ pool # << >>
      /\ arg' = [arg EXCEPT ![g] = c]
      /\ UNCHANGED <<closed, pc, held, live, made, panicked>>
  BY DEF DrainTakes, Ready
<1> HIDE DEF c
<1>3. TypeOK'
  BY <1>1, <1>2 DEF Inv, TypeOK
<1>4. c # NoConn /\ \A h \in Goroutines : c \notin held[h]
  BY <1>1, PoolAssumption DEF Inv, OnePlace, InHand
<1>5. Takes(g, c)
  BY <1>1, <1>2, <1>4 DEF Takes, Hands, InHand, Inv, TypeOK
<1>6. ArgNotHeld'
  BY <1>2, <1>4 DEF ArgNotHeld, Inv, OnePlace, TypeOK
<1>7. ArgOfCall' /\ DrainsClosed' /\ ClosedIsEmpty'
  BY <1>2 DEF Inv, TypeOK, ArgOfCall, DrainsClosed, ClosedIsEmpty
<1> QED
  BY <1>1, <1>3, <1>5, <1>6, <1>7 DEF Kept, Control

LEMMA DrainClosesStep ==
    ASSUME Inv, NEW g \in Goroutines, DrainCloses(g)
    PROVE  Kept /\ \E c \in Conns : Drops(g, c)
<1>1. /\ pc[g] = "drain" /\ arg[g] # NoConn /\ CloseConn(g)
      /\ UNCHANGED <<closed, pool, pc, held, made, panicked>>
  BY DEF DrainCloses, Ready
<1>2. /\ arg[g] \in Conns /\ Drops(g, arg[g]) /\ ArgNotHeld'
      /\ live' \in SUBSET Conns /\ arg' \in [Goroutines -> Conns \cup {NoConn}]
  BY <1>1, Closing
<1>3. TypeOK'
  BY <1>1, <1>2 DEF Inv, TypeOK
<1>4. Control'
  BY <1>1 DEF CloseConn, Inv, TypeOK, Control, ArgOfCall, DrainsClosed, ClosedIsEmpty
<1> QED
  BY <1>2, <1>3, <1>4 DEF Kept

LEMMA DrainEndsStep ==
    ASSUME Inv, NEW g \in Goroutines, DrainEnds(g)
    PROVE  Kept /\ Stays
<1>1. /\ pc[g] = "drain" /\ arg[g] = NoConn /\ pool = << >> /\ pc' = [pc EXCEPT ![g] = "idle"]
      /\ UNCHANGED <<closed, pool, arg, held, live, made, panicked>>
  BY DEF DrainEnds, Ready, Goto
<1>2. TypeOK' /\ ArgNotHeld'
  BY <1>1 DEF Inv, TypeOK, OnePlace, ArgNotHeld
<1>3. Control'
  BY <1>1 DEF Inv, TypeOK, Control, ArgOfCall, DrainsClosed, ClosedIsEmpty
<1>4. Stays
  BY <1>1, InvParts, SamePoolWhenUnchanged DEF Stays, InHand
<1> QED
  BY <1>2, <1>3, <1>4 DEF Kept

-----------------------------------------------------------------------------
(* The inductive invariant.                                                *)

\* What a step of the pool does to the places of the connections: it moves one of
\* them, into an open pool only, or none, or it shuts the pool and moves none.
Step ==
    \/ /\ UNCHANGED closed
       /\ \E g \in Goroutines, c \in Conns :
             Opens(g, c) \/ Takes(g, c) \/ (~closed /\ Parks(g, c)) \/ Drops(g, c)
    \/ Stays /\ (UNCHANGED closed \/ (~closed /\ closed'))

LEMMA EveryStep ==
    ASSUME Inv, [Next]_vars
    PROVE  Kept /\ Step
<1>1. CASE \E g \in Goroutines : GetChecks(g) \/ CloseMarks(g)
  BY <1>1, GetChecksStep, CloseMarksStep DEF Step, GetChecks, CloseMarks
<1>2. CASE \E g \in Goroutines, c \in Conns : PutChecks(g, c)
  BY <1>2, PutChecksStep DEF Step, PutChecks
<1>3. ASSUME NEW g \in Goroutines, Proceed(g) PROVE Kept /\ Step
  <2>1. CASE GetTakes(g)
    BY <2>1, GetTakesStep DEF Step, GetTakes
  <2>2. CASE GetConnects(g)
    BY <2>2, GetConnectsStep DEF Step, GetConnects
  <2>3. CASE PutSends(g)
    BY <2>3, PutSendsStep DEF Step, PutSends
  <2>4. CASE PutPanics(g)
    BY <2>4, PutPanicsStep DEF Step, PutPanics
  <2>5. CASE PutDiscards(g)
    BY <2>5, PutDiscardsStep DEF Step, PutDiscards
  <2>6. CASE DrainTakes(g)
    BY <2>6, DrainTakesStep DEF Step, DrainTakes
  <2>7. CASE DrainCloses(g)
    BY <2>7, DrainClosesStep DEF Step, DrainCloses
  <2>8. CASE DrainEnds(g)
    BY <2>8, DrainEndsStep DEF Step, DrainEnds
  <2> QED
    BY <1>3, <2>1, <2>2, <2>3, <2>4, <2>5, <2>6, <2>7, <2>8 DEF Proceed
<1>4. CASE UNCHANGED vars
  <2>1. TypeOK' /\ ArgNotHeld'
    BY <1>4 DEF vars, Inv, TypeOK, OnePlace, ArgNotHeld
  <2>2. Control'
    BY <1>4 DEF vars, Inv, Control, ArgOfCall, DrainsClosed, ClosedIsEmpty
  <2>3. Stays
    BY <1>4, InvParts, SamePoolWhenUnchanged DEF vars, Stays, InHand
  <2> QED
    BY <1>4, <2>1, <2>2, <2>3 DEF Kept, Step, vars
<1> QED
  BY <1>1, <1>2, <1>3, <1>4 DEF Next, Stopped

LEMMA InvInit == Init => Inv
<1> SUFFICES ASSUME Init PROVE Inv
  OBVIOUS
<1>1. TypeOK
  BY EmptySeq DEF Init, TypeOK
<1>2. Buffered = {} /\ \A g \in Goroutines : InHand(g) = {}
  BY DEF Init, Buffered, InHand
<1>3. OnePlace /\ NoLeak /\ LiveIsMade
  <2>1. \A g \in Goroutines : arg[g] \notin held[g]
    BY DEF Init
  <2>2. \A i, j \in DOMAIN pool : pool[i] = pool[j] => i = j
    BY DEF Init
  <2>3. live = {} /\ UNION {InHand(g) : g \in Goroutines} = {}
    BY <1>2 DEF Init
  <2> QED
    BY <1>2, <2>1, <2>2, <2>3 DEF OnePlace, NoLeak, LiveIsMade
<1>4. ClosedIsEmpty /\ ArgOfCall /\ DrainsClosed
  BY DEF Init, ClosedIsEmpty, ArgOfCall, DrainsClosed
<1> QED
  BY <1>1, <1>3, <1>4 DEF Inv

LEMMA InvNext == Inv /\ [Next]_vars => Inv'
<1> SUFFICES ASSUME Inv, [Next]_vars PROVE Inv'
  OBVIOUS
<1>1. Kept /\ Step /\ Placed
  BY EveryStep, InvParts
<1>2. Placed'
  BY <1>1, StaysPlaced, MovesPlaced DEF Kept, Step, Moves
<1> QED
  BY <1>1, <1>2 DEF Kept, Inv, Placed, Control

\* The inductive invariant always holds.
THEOREM PoolInvHolds == Spec => []Inv
BY InvInit, InvNext, PTL DEF Spec

\* Type correctness: in particular no nil is ever in the channel or in somebody's hands.
THEOREM PoolTypes == Spec => []TypeOK
<1>1. Inv => TypeOK
  BY DEF Inv
<1> QED
  BY <1>1, PoolInvHolds, PTL

\* Get (tcp_pool.go:59) gives a connection to one goroutine only, and nobody uses
\* what Put or the drain of Close is about to close.
THEOREM ConnectionsInOnePlace == Spec => []OnePlace
<1>1. Inv => OnePlace
  BY DEF Inv
<1> QED
  BY <1>1, PoolInvHolds, PTL

\* Every open connection is in the channel or in somebody's hands, and none there is
\* closed: none leaks, whatever Get, Put and Close do to each other.
THEOREM NoConnectionLeaks == Spec => []NoLeak
<1>1. Inv => NoLeak
  BY DEF Inv
<1> QED
  BY <1>1, PoolInvHolds, PTL

\* After Close (tcp_pool.go:121) has drained the channel no Put parks a connection in it.
THEOREM ClosedPoolStaysEmpty == Spec => []ClosedIsEmpty
<1>1. Inv => ClosedIsEmpty
  BY DEF Inv
<1> QED
  BY <1>1, PoolInvHolds, PTL

-----------------------------------------------------------------------------
(* The pool implements ConnectionPool.                                     *)

\* The place of a connection, without CHOOSE.
LEMMA Places ==
    OnePlace => \A c \in Conns :
        /\ c \in Buffered => PlaceOf(c) = "idle"
        /\ \A g \in Goroutines : c \in InHand(g) => PlaceOf(c) = g
        /\ c \notin Buffered /\ (\A g \in Goroutines : c \notin InHand(g))
              => PlaceOf(c) = IF c \in made THEN "gone" ELSE "fresh"
<1> SUFFICES ASSUME OnePlace, NEW c \in Conns
             PROVE  /\ c \in Buffered => PlaceOf(c) = "idle"
                    /\ \A g \in Goroutines : c \in InHand(g) => PlaceOf(c) = g
                    /\ c \notin Buffered /\ (\A g \in Goroutines : c \notin InHand(g))
                         => PlaceOf(c) = IF c \in made THEN "gone" ELSE "fresh"
  OBVIOUS
<1>1. ASSUME NEW g \in Goroutines, c \in InHand(g) PROVE PlaceOf(c) = g
  <2> DEFINE w == CHOOSE h \in Goroutines : c \in InHand(h)
  <2>1. w \in Goroutines /\ c \in InHand(w)
    BY <1>1
  <2>2. w = g
    BY <1>1, <2>1 DEF OnePlace
  <2>3. c \notin Buffered
    BY <1>1 DEF OnePlace
  <2> QED
    BY <1>1, <2>2, <2>3 DEF PlaceOf
<1> QED
  BY <1>1 DEF PlaceOf

\* A connection that a step does not move stays in its place.
LEMMA SamePlace ==
    ASSUME OnePlace, OnePlace', NEW d \in Conns,
           d \in Buffered' <=> d \in Buffered,
           \A g \in Goroutines : d \in InHand(g)' <=> d \in InHand(g),
           d \in made' <=> d \in made
    PROVE  PlaceOf(d)' = PlaceOf(d)
<1>1. (OnePlace => \A c \in Conns :
          /\ c \in Buffered => PlaceOf(c) = "idle"
          /\ \A g \in Goroutines : c \in InHand(g) => PlaceOf(c) = g
          /\ c \notin Buffered /\ (\A g \in Goroutines : c \notin InHand(g))
                => PlaceOf(c) = IF c \in made THEN "gone" ELSE "fresh")'
  BY Places, PTL
<1> HIDE DEF PlaceOf
<1> QED
  BY <1>1, Places

\* The places after a step.
LEMMA PlacesAfter ==
    OnePlace' => \A c \in Conns :
        /\ c \in Buffered' => PlaceOf(c)' = "idle"
        /\ \A g \in Goroutines : c \in InHand(g)' => PlaceOf(c)' = g
        /\ c \notin Buffered' /\ (\A g \in Goroutines : c \notin InHand(g)')
              => PlaceOf(c)' = IF c \in made' THEN "gone" ELSE "fresh"
<1>1. (OnePlace => \A c \in Conns :
          /\ c \in Buffered => PlaceOf(c) = "idle"
          /\ \A g \in Goroutines : c \in InHand(g) => PlaceOf(c) = g
          /\ c \notin Buffered /\ (\A g \in Goroutines : c \notin InHand(g))
                => PlaceOf(c) = IF c \in made THEN "gone" ELSE "fresh")'
  BY Places, PTL
<1> HIDE DEF PlaceOf
<1> QED
  BY <1>1

\* A step that moves connection c alone, from one place to another, is an abstract move.
LEMMA MoveOf ==
    ASSUME OnePlace, OnePlace', NEW c \in Conns, NEW from, NEW to,
           \A d \in Conns \ {c} :
              /\ d \in Buffered' <=> d \in Buffered
              /\ \A g \in Goroutines : d \in InHand(g)' <=> d \in InHand(g)
              /\ d \in made' <=> d \in made,
           PlaceOf(c) = from, PlaceOf(c)' = to, UNCHANGED closed
    PROVE  Abstract!Move(c, from, to)
<1>1. \A d \in Conns \ {c} : PlaceOf(d)' = PlaceOf(d)
  BY SamePlace
<1> HIDE DEF PlaceOf
<1>2. [d \in Conns |-> PlaceOf(d)'] = [[d \in Conns |-> PlaceOf(d)] EXCEPT ![c] = to]
  BY <1>1
<1> QED
  BY <1>2 DEF Abstract!Move

LEMMA StepRefines ==
    ASSUME Inv, Inv', Step
    PROVE  [Abstract!Next]_(Abstract!vars)
<1>1. OnePlace /\ OnePlace'
  BY DEF Inv
<1>2. CASE Stays
  <2>1. \A d \in Conns : PlaceOf(d)' = PlaceOf(d)
    BY <1>1, <1>2, SamePlace DEF Stays, SamePool
  <2> HIDE DEF PlaceOf
  <2>2. UNCHANGED [d \in Conns |-> PlaceOf(d)]
    BY <2>1
  <2>3. CASE UNCHANGED closed
    BY <2>2, <2>3 DEF Abstract!vars
  <2>4. CASE ~closed /\ closed'
    <3>1. closed' = TRUE
      BY <2>4 DEF Inv, TypeOK
    <3> QED
      BY <2>2, <2>4, <3>1 DEF Abstract!Next, Abstract!Shut
  <2> QED
    BY <1>2, <2>3, <2>4 DEF Step
<1>3. ASSUME UNCHANGED closed, NEW g \in Goroutines, NEW c \in Conns,
             Opens(g, c) \/ Takes(g, c) \/ (~closed /\ Parks(g, c)) \/ Drops(g, c)
      PROVE  Abstract!Next
  <2>1. \A d \in Conns \ {c} :
           /\ d \in Buffered' <=> d \in Buffered
           /\ \A h \in Goroutines : d \in InHand(h)' <=> d \in InHand(h)
           /\ d \in made' <=> d \in made
    BY <1>3 DEF Opens, Takes, Parks, Drops, SamePool, Hands
  <2>2. CASE Opens(g, c)
    <3>1. c \notin Buffered /\ (\A h \in Goroutines : c \notin InHand(h)) /\ c \notin made
      BY <2>2 DEF Opens, Inv, NoLeak, LiveIsMade
    <3>2. c \in InHand(g)'
      BY <2>2 DEF Opens, Hands
    <3>3. PlaceOf(c) = "fresh" /\ PlaceOf(c)' = g
      BY <1>1, <3>1, <3>2, Places, PlacesAfter
    <3> QED
      BY <1>1, <1>3, <2>1, <3>3, MoveOf DEF Abstract!Next, Abstract!Open
  <2>3. CASE Takes(g, c)
    <3>1. c \in Buffered /\ c \in InHand(g)'
      BY <2>3 DEF Takes, Hands
    <3>2. PlaceOf(c) = "idle" /\ PlaceOf(c)' = g
      BY <1>1, <3>1, Places, PlacesAfter
    <3> QED
      BY <1>1, <1>3, <2>1, <3>2, MoveOf DEF Abstract!Next, Abstract!Take
  <2>4. CASE ~closed /\ Parks(g, c)
    <3>1. c \in InHand(g) /\ c \in Buffered'
      BY <2>4 DEF Parks
    <3>2. PlaceOf(c) = g /\ PlaceOf(c)' = "idle"
      BY <1>1, <3>1, Places, PlacesAfter
    <3> QED
      BY <1>1, <1>3, <2>1, <2>4, <3>2, MoveOf DEF Abstract!Next, Abstract!Release
  <2>5. CASE Drops(g, c)
    <3>1. c \in InHand(g) /\ c \notin Buffered' /\ c \in made'
      BY <1>1, <2>5 DEF Drops, SamePool, OnePlace, Inv, NoLeak, LiveIsMade
    <3>2. \A h \in Goroutines : c \notin InHand(h)'
      BY <1>1, <2>5 DEF Drops, Hands, OnePlace
    <3>3. PlaceOf(c) = g /\ PlaceOf(c)' = "gone"
      BY <1>1, <3>1, <3>2, Places, PlacesAfter
    <3> QED
      BY <1>1, <1>3, <2>1, <3>3, MoveOf DEF Abstract!Next, Abstract!Drop
  <2> QED
    BY <1>3, <2>2, <2>3, <2>4, <2>5
<1> QED
  BY <1>2, <1>3 DEF Step

\* The pool keeps the promise of ConnectionPool: a connection moves only from fresh
\* to a user, between users and the idle ones, and from a user to gone, one at a time,
\* and none becomes idle in a pool that is shut.
THEOREM PoolImplementsConnectionPool == Spec => Refines
<1>1. Init => Abstract!Init
  <2> SUFFICES ASSUME Init PROVE Abstract!Init
    OBVIOUS
  <2>1. OnePlace
    BY InvInit DEF Inv
  <2>2. \A c \in Conns : c \notin Buffered /\ (\A g \in Goroutines : c \notin InHand(g)) /\ c \notin made
    BY DEF Init, Buffered, InHand
  <2>3. \A c \in Conns : PlaceOf(c) = "fresh"
    BY <2>1, <2>2, Places
  <2> HIDE DEF PlaceOf
  <2> QED
    BY <2>3 DEF Abstract!Init, Init
<1>2. Inv /\ Inv' /\ [Next]_vars => [Abstract!Next]_(Abstract!vars)
  BY EveryStep, StepRefines
<1> QED
  BY <1>1, <1>2, PoolInvHolds, PTL DEF Spec, Refines, Abstract!Spec
=============================================================================
